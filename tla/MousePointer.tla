----------------------------- MODULE MousePointer -----------------------------
(***************************************************************************)
(* What the mouse driver promises the rest of the kernel: a mailbox for    *)
(* one packet.  A packet that is received is applied to the pointer in one *)
(* step, as a whole and once, and only then is there room for another.     *)
(***************************************************************************)
EXTENDS MousePacket

VARIABLES
  inbox,     (* the packet received and not yet applied, or Empty  *)
  position,  (* the pointer                                        *)
  buttons    (* the buttons held down                              *)

vars == <<inbox, position, buttons>>

Empty == <<>>

Init ==
  /\ inbox = Empty
  /\ position = [x |-> 0, y |-> 0]
  /\ buttons = [left |-> FALSE, right |-> FALSE, middle |-> FALSE]

Receive ==
  /\ inbox = Empty
  /\ inbox' \in Packet
  /\ UNCHANGED <<position, buttons>>

Apply ==
  /\ inbox # Empty
  /\ inbox' = Empty
  /\ position' = Clamped([x |-> MovedX(inbox[0], inbox[1], position.x),
                          y |-> MovedY(inbox[0], inbox[2], position.y)])
  /\ buttons' = Pressed(inbox[0])

Next == Receive \/ Apply

(* The mailbox, and what has been received is applied.                     *)
Mailbox == Init /\ [][Next]_vars
Spec == Mailbox /\ WF_vars(Apply)
=============================================================================
