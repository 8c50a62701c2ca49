-------------------------------- MODULE PciBus --------------------------------
(* Finding the disk controllers: the search for the table of PCI buses     *)
(* (acpi/acpi.c) and the walk over the buses (pci/pci.c).  A machine is    *)
(* given by                                                                *)
(*   tables      the first five bytes of each table the firmware lists     *)
(*   segments    the ranges of buses in the MCFG table                     *)
(*   functions   the functions whose device number is neither 0 nor 0xFFFF *)
(*   ports       for every AHCI controller among them its implemented      *)
(*               ports, and what is known of their links                   *)
EXTENDS Naturals, Sequences

(* The signature, with the zero at its end.                                *)
MCFG == <<"M", "C", "F", "G", "zero">>

(* find_table compares, four times over, the byte of the i-th table at     *)
(* place i with the signature's byte at place i.                           *)
Matches(tables, i) == i <= Len(MCFG) /\ tables[i][i] = MCFG[i]

(* The places find_table may return, 0 for none.  From the sixth table on  *)
(* it reads behind the end of the signature, and may find anything.        *)
find_table(tables) ==
  LET hits  == {i \in DOMAIN tables : Matches(tables, i)}
      first == {i \in hits : \A j \in hits : i <= j}
  IN  IF hits # {} THEN first
      ELSE {0} \union {i \in DOMAIN tables : i > Len(MCFG)}

(* enumerate_bus, enumerate_device and enumerate_function: nothing behind  *)
(* a bus or a device without its first function is looked at.              *)
Reached(machine, bus) ==
  {f \in machine.functions :
     /\ f[1] = bus
     /\ <<bus, 0, 0>> \in machine.functions
     /\ <<bus, f[2], 0>> \in machine.functions}

(* enumerate_pci: the AHCI controllers of each segment.  The last bus of a *)
(* segment is left out.                                                    *)
Controllers(machine, segment) ==
  {f \in DOMAIN machine.ports :
     \E bus \in segment[1] .. segment[2] - 1 : f \in Reached(machine, bus)}

enumerate_pci(machine) ==
  UNION {{<<i, f>> : f \in Controllers(machine, machine.segments[i])} :
           i \in DOMAIN machine.segments}

(* The order of the loops over segments, buses, devices and functions.     *)
Precedes(a, b) ==
  LET f == a[2]  g == b[2]
  IN  \/ a[1] < b[1]
      \/ a[1] = b[1] /\ f[1] < g[1]
      \/ a[1] = b[1] /\ f[1] = g[1] /\ f[2] < g[2]
      \/ a[1] = b[1] /\ f[1] = g[1] /\ f[2] = g[2] /\ f[3] < g[3]
=============================================================================
