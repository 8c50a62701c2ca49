----------------------------- MODULE AddressSpace -----------------------------
(* What mapping memory is to do: an address translates to what it was last *)
(* mapped to, and mapping one address leaves the others alone.             *)
CONSTANTS Virtual, Physical, Unmapped

VARIABLE space

Init == space = [v \in Virtual |-> Unmapped]
Map == \E v \in Virtual, p \in Physical : space' = [space EXCEPT ![v] = p]
Spec == Init /\ [][Map]_space
===============================================================================
