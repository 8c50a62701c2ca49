------------------------------ MODULE FramePool ------------------------------
(***************************************************************************)
(* What a page frame allocator promises: a pool of frames, out of which a  *)
(* request takes one that is in the pool - so no frame is given to two     *)
(* requesters unless it was given back in between - and which refuses a    *)
(* request only when it is empty.                                          *)
(***************************************************************************)
EXTENDS Integers

CONSTANT NFrames

Frame == 0 .. NFrames - 1

VARIABLES
  filled,  (* the frames to keep back are known         *)
  pool,    (* the frames that may be handed out         *)
  handed,  (* the frames handed out and not given back  *)
  result   (* the answer to the last request            *)

vars == <<filled, pool, handed, result>>

(* An address cannot tell the refusal from frame 0.                        *)
Refusal == 0

Init ==
  /\ filled = FALSE
  /\ pool = {}
  /\ handed = {}
  /\ result = Refusal

Fill ==
  /\ ~filled
  /\ filled' = TRUE
  /\ pool' \in SUBSET Frame
  /\ UNCHANGED <<handed, result>>

Take ==
  /\ filled
  /\ \E f \in pool \ handed :
       /\ pool' = pool \ {f}
       /\ handed' = handed \union {f}
       /\ result' = f
  /\ UNCHANGED filled

Refuse ==
  /\ filled
  /\ pool = {}
  /\ result' = Refusal
  /\ UNCHANGED <<filled, pool, handed>>

(* Frames in the pool may be kept back later.                              *)
Withdraw ==
  /\ filled
  /\ pool' \in SUBSET pool
  /\ UNCHANGED <<filled, handed, result>>

(* Frames come back to the pool, handed out before or kept back.           *)
GiveBack ==
  /\ filled
  /\ \E S \in SUBSET Frame :
       /\ pool' = pool \union S
       /\ handed' = handed \ S
  /\ UNCHANGED <<filled, result>>

Next == Fill \/ Take \/ Refuse \/ Withdraw \/ GiveBack

Spec == Init /\ [][Next]_vars
=============================================================================
