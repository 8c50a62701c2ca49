------------------------------ MODULE PageTables ------------------------------
(***************************************************************************)
(* The page table manager (paging/page_table_manager.c) on frames it       *)
(* requests from the page frame allocator.  Its caller in kernel.c is      *)
(* commented out; nothing else runs while it maps, so a call is a step.    *)
(*                                                                         *)
(* A frame is a number, 0 the null pointer that an exhausted allocator     *)
(* returns.  Every frame may serve as a table.  An entry is the frame it   *)
(* points to or NotPresent; present and read_write are set together.       *)
(***************************************************************************)
EXTENDS Integers, FiniteSets

CONSTANTS
  PageFrames,  (* all frames                                                 *)
  Indexes,     (* the places in a table                                      *)
  Virtual,     (* the virtual addresses mapped, as pm_indexer takes them     *)
               (* apart: records with fields pdp_i, pd_i, pt_i and p_i       *)
  Physical,    (* the frames they are mapped to                              *)
  NotPresent,
  Unmapped,    (* stands for the translation of an address that has none     *)
  pml4,        (* the frame of the root table                                *)
  Leftovers    (* what a frame may hold when it is requested                 *)

Address == [pdp_i : Indexes, pd_i : Indexes, pt_i : Indexes, p_i : Indexes]
Table == [Indexes -> PageFrames \cup {NotPresent}]
Empty == [i \in Indexes |-> NotPresent]
NoFrame == 0

ASSUME PageTableAssumption ==
  /\ PageFrames \subseteq Nat /\ NoFrame \in PageFrames /\ pml4 \in PageFrames \ {NoFrame}
  /\ 0 \in Indexes
  /\ Virtual \subseteq Address /\ Physical \subseteq PageFrames
  /\ NotPresent \notin PageFrames /\ Unmapped \notin PageFrames
  /\ Leftovers \subseteq Table

VARIABLES
  memory,  (* the frames, as tables                                          *)
  left     (* the frames the allocator has left                              *)

paging_vars == <<memory, left>>

-----------------------------------------------------------------------------
(* pg_alloc_request_page.  Which frame it is does not matter here.         *)
Requested(from) == IF from = {} THEN NoFrame ELSE CHOOSE f \in from : TRUE

(* m_memset(table, 0, 0x1000) writes one byte, the second, again and       *)
(* again: bits 8 to 15 of the first entry, of which four are the low bits  *)
(* of its address.                                                         *)
m_memset(table) ==
  [table EXCEPT ![0] = IF @ = NotPresent THEN @ ELSE (@ \div 16) * 16]

(* From a table to the one below it at index i, which is made if it is not *)
(* there.                                                                  *)
(* Mistaken form: a new table is made whether there is one or not.         *)
DescendAnew(s, i) == LET new == Requested(s.left)
  IN  [memory |-> [[s.memory EXCEPT ![new] = m_memset(@)] EXCEPT ![s.table][i] = new],
       left |-> s.left \ {new}, table |-> new]

Descend(s, i) ==
  IF s.memory[s.table][i] # NotPresent THEN [s EXCEPT !.table = s.memory[s.table][i]]
  ELSE LET new == Requested(s.left)
       IN  [memory |-> [[s.memory EXCEPT ![new] = m_memset(@)] EXCEPT ![s.table][i] = new],
            left |-> s.left \ {new}, table |-> new]

Root == [memory |-> memory, left |-> left, table |-> pml4]

(* pt_manager_map_memory.                                                  *)
MapMemory(v, p) ==
  LET pdp == Descend(Root, v.pdp_i)
      pd  == Descend(pdp, v.pd_i)
      pt  == Descend(pd, v.pt_i)
  IN  /\ memory' = [pt.memory EXCEPT ![pt.table][v.p_i] = p]
      /\ left' = pt.left

PagingInit ==
  /\ memory \in [PageFrames -> Leftovers] /\ memory[pml4] = Empty
  /\ left = PageFrames \ {NoFrame, pml4}

PagingNext == \E v \in Virtual, p \in Physical : MapMemory(v, p)
PagingSpec == PagingInit /\ [][PagingNext]_paging_vars

-----------------------------------------------------------------------------
(* What the processor makes of the tables.                                 *)
Below(table, i) == IF table \in PageFrames THEN memory[table][i] ELSE NotPresent
Translated(v) ==
  LET entry == Below(Below(Below(Below(pml4, v.pdp_i), v.pd_i), v.pt_i), v.p_i)
  IN  IF entry = NotPresent THEN Unmapped ELSE entry

Space == INSTANCE AddressSpace WITH space <- [v \in Virtual |-> Translated(v)]

(* On frames that hold nothing when they are requested, and as long as     *)
(* there are any, mapping does what it is to do.                           *)
SpaceSpec == Space!Spec
===============================================================================
