----------------------------- MODULE MCPageTables -----------------------------
(* Addresses that part at each of the four levels, and frames enough for   *)
(* the tables they need.                                                   *)
EXTENDS PageTables

At(a, b, c, d) == [pdp_i |-> a, pd_i |-> b, pt_i |-> c, p_i |-> d]
MCVirtual == {At(0, 0, 0, 0), At(0, 0, 0, 1), At(0, 0, 1, 0), At(0, 1, 0, 0), At(1, 1, 1, 1)}
MCIndexes == {0, 1}
MCFrames == 0 .. 10
MCPhysical == {0, 1, 2}
MCLeftovers == {Empty}
===============================================================================
