-------------------------------- MODULE MCAhci --------------------------------
(* Machines with up to four disks on up to two controllers.                *)
EXTENDS Ahci, TLC

Link(signature) == [detection |-> 3, power |-> 1, signature |-> signature]
NoDevice == [detection |-> 0, power |-> 0, signature |-> "none"]
Asleep   == [detection |-> 3, power |-> 2, signature |-> "SATA"]

(* The tables as a common virtual machine has them, and one that has       *)
(* another in the way.                                                     *)
Usual  == << <<"F", "A", "C", "P", "x">>, <<"A", "P", "I", "C", "x">>,
             <<"H", "P", "E", "T", "x">>, <<"M", "C", "F", "G", "x">> >>
InWay  == << <<"F", "A", "C", "P", "x">>, <<"E", "C", "D", "T", "x">>, <<"M", "C", "F", "G", "x">> >>

(* A host bridge, a bridge with the disk controller as a second function,  *)
(* and a controller on the last bus, which is not reached.                 *)
One ==
  [pages |-> 105, tables |-> Usual, segments |-> << <<0, 2>> >>,
   functions |-> {<<0, 0, 0>>, <<0, 31, 0>>, <<0, 31, 2>>, <<2, 0, 0>>},
   ports |-> (<<0, 31, 2>> :> (0 :> Link("SATA") @@ 1 :> NoDevice @@ 2 :> Link("SATAPI") @@ 3 :> Asleep))
               @@ (<<2, 0, 0>> :> (0 :> Link("SATA")))]

(* Two controllers, on two buses.                                          *)
Two ==
  [pages |-> 105, tables |-> Usual, segments |-> << <<0, 1>>, <<1, 2>> >>,
   functions |-> {<<0, 0, 0>>, <<0, 31, 0>>, <<0, 31, 2>>, <<1, 0, 0>>},
   ports |-> (<<0, 31, 2>> :> (1 :> Link("SATA"))) @@ (<<1, 0, 0>> :> (0 :> Link("SATA")))]

(* More disks than the driver has places for.                              *)
Many ==
  [pages |-> 105, tables |-> Usual, segments |-> << <<0, 1>> >>,
   functions |-> {<<0, 0, 0>>, <<0, 1, 0>>},
   ports |-> (<<0, 0, 0>> :> (0 :> Link("SATA") @@ 1 :> Link("SATA")))
               @@ (<<0, 1, 0>> :> (0 :> Link("SATA") @@ 1 :> Link("PM") @@ 2 :> Link("SATAPI")))]

(* The page frames run out while the second port is configured, or at its  *)
(* buffer.                                                                 *)
MCMachines ==
  {One, Two, Many}
    \union {[One EXCEPT !.tables = t] : t \in {InWay, <<>>}}
    \union {[One EXCEPT !.pages = n] : n \in {60, 69}}
=============================================================================
