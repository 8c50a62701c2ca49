----------------------------- MODULE Ahci_proofs -----------------------------
(***************************************************************************)
(* Proofs about the AHCI driver: for every machine, and however its disks  *)
(* and controllers behave,                                                 *)
(*   TypeCorrect       the variables have their types                      *)
(*   BuffersOnly       what is read goes to pages requested as buffers     *)
(*   TrueVerdicts      what ahci_port_read returns is so                   *)
(* the latter two as long as no port is started again that had not         *)
(* stopped.  One invariant gives all three.  Its heart is that a command   *)
(* can only be worked on while the driver polls for it, because every      *)
(* other way out of the poll leaves the port halted; and that a port       *)
(* follows the command list it was given, whose command is the last one.   *)
(***************************************************************************)
EXTENDS Ahci, FiniteSetTheorems, WellFoundedInduction, TLAPS

-----------------------------------------------------------------------------
(* The invariant.                                                          *)

Polling == pc \in {"poll", "poll error"}
AtPort  == pc \in {"stop", "configure", "read", "spin", "poll", "poll error", "returned"}
Started == pc \in {"read", "spin", "poll", "poll error", "returned"}
Reading == pc \in {"spin", "poll", "poll error"}

(* What is so of every HBA port: what it works on is being polled for, its *)
(* command lists are pages, and it follows the one it was given last.      *)
PortsOK == \A p \in DiskPorts(machine) :
  /\ hba[p].halted => hba[p].running
  /\ hba[p].issued /\ ~hba[p].halted => p = Port /\ Polling
  /\ pc # "undefined" => {hba[p].list, hba[p].using} \subseteq DOMAIN command
  /\ ~missed /\ hba[p].running => hba[p].using = hba[p].list

(* What is so of the port the driver is at.                                *)
PortOK ==
  /\ pc = "probe" => controller \in DOMAIN machine.ports
  /\ port_count > 0 => Port \in DiskPorts(machine)
  /\ AtPort => port_count > 0
  /\ pc = "loop" \/ AtPort => port_count <= PortSlots
  /\ Started => hba[Port].start
  /\ Reading /\ hba[Port].error => hba[Port].issued /\ hba[Port].halted
  /\ ~missed /\ pc \in {"read", "spin"} => ~hba[Port].issued /\ ~hba[Port].halted

(* How many pages are in use, and that the command in the list of the port *)
(* is the read in progress.                                                *)
PagesOK ==
  /\ pc # "undefined" => /\ used <= machine.pages
                         /\ used % 35 = IF pc = "read" THEN 34 ELSE 0
  /\ pc = "read" => hba[Port].list \in 1 .. machine.pages
  /\ Reading => command[hba[Port].list] = buffer /\ buffer = used /\ buffer > 0

(* What has been written.                                                  *)
WrittenOK == ~missed =>
  /\ \A w \in written : w[1] > 0 /\ w[1] % 35 = 0 /\ w[1] <= used
  /\ pc = "spin" => <<buffer, Port>> \notin written
  /\ Polling => (<<buffer, Port>> \in written <=> ~hba[Port].issued)
  /\ pc = "returned" => (<<buffer, Port>> \in written <=> verdict)

AhciInv == TypeOK /\ PortsOK /\ PortOK /\ PagesOK /\ WrittenOK

-----------------------------------------------------------------------------
(* The machine.                                                            *)

(* A set of port numbers that is not empty has a greatest one.             *)
LEMMA GreatestPort ==
  ASSUME NEW S, S \subseteq 0 .. 31, S # {}
  PROVE  Max(S) \in S
<1> DEFINE T == {31 - x : x \in S}
<1>1. \A x \in S : x \in Int /\ 0 <= x /\ x <= 31  OBVIOUS
<1>2. T \subseteq Nat  BY <1>1
<1>3. T # {}  OBVIOUS
<1> HIDE DEF T
<1>4. PICK m \in T : \A y \in T : ~ (<<y, m>> \in OpToRel(<, Nat))
  BY <1>2, <1>3, NatLessThanWellFounded, WFMin, Zenon
<1>5. \A y \in T : m <= y
  <2> SUFFICES ASSUME NEW y \in T, y < m  PROVE FALSE
    BY <1>2
  <2>1. <<y, m>> \in Nat \X Nat  BY <1>2
  <2>2. <<y, m>> \in OpToRel(<, Nat)  BY <2>1 DEF OpToRel
  <2> QED  BY <1>4, <2>2
<1>6. PICK x \in S : m = 31 - x  BY DEF T
<1>7. \A y \in S : 31 - y \in T  BY DEF T
<1>8. \A y \in S : x >= y  BY <1>1, <1>5, <1>6, <1>7
<1> QED  BY <1>8 DEF Max

(* The disks of a controller are finitely many, and their ports are among  *)
(* the machine's.                                                          *)
LEMMA DisksFinite ==
  ASSUME NEW m \in Machines, NEW c \in DOMAIN m.ports
  PROVE  /\ Disks(m, c) \in SUBSET (0 .. 31)
         /\ Cardinality(Disks(m, c)) \in Nat
         /\ Cardinality(Disks(m, c)) > 0 <=> Disks(m, c) # {}
<1>1. Disks(m, c) \subseteq 0 .. 31  BY AhciAssumption DEF Disks
<1>2. \A a, b \in Int : IsFiniteSet(a .. b)  BY FS_Interval
<1>3. IsFiniteSet(0 .. 31)  BY <1>2, 0 \in Int, 31 \in Int, Zenon
<1>4. IsFiniteSet(Disks(m, c))  BY <1>1, <1>3, FS_Subset, Zenon
<1>5. Cardinality(Disks(m, c)) \in Nat  BY <1>4, FS_CardinalityType
<1>6. Cardinality(Disks(m, c)) = 0 <=> Disks(m, c) = {}  BY <1>4, FS_EmptySet
<1> QED  BY <1>1, <1>5, <1>6

(* The last disk of a controller is one of the machine's.                  *)
LEMMA LastDisk ==
  ASSUME NEW m \in Machines, NEW c \in DOMAIN m.ports, Disks(m, c) # {}
  PROVE  <<c, Max(Disks(m, c))>> \in DiskPorts(m)
<1>1. Disks(m, c) \in SUBSET (0 .. 31)  BY DisksFinite
<1>2. Max(Disks(m, c)) \in Disks(m, c)  BY <1>1, GreatestPort
<1> QED  BY <1>1, <1>2 DEF DiskPorts, HbaPorts

(* dumbass_malloc never has anything to give.                              *)
LEMMA NoHeap == dumbass_malloc(RecordSize) = NULL
BY DEF dumbass_malloc, RecordSize, NULL, last_alloc, heap_end, AllocHeader

-----------------------------------------------------------------------------
(* The steps of the controllers.                                           *)

(* A step that sets one HBA port leaves the others as they are.            *)
LEMMA OnePortSet ==
  ASSUME TypeOK, NEW p \in DiskPorts(machine), NEW state \in HbaPort,
         hba' = [hba EXCEPT ![p] = state]
  PROVE  /\ hba' \in [DiskPorts(machine) -> HbaPort]
         /\ hba'[p] = state
         /\ \A q \in DiskPorts(machine) : q # p => hba'[q] = hba[q]
BY DEF TypeOK

(* What a step of a controller keeps: the types, as long as what is        *)
(* written has one, and everything that is said of the driver and its      *)
(* pages.  Errors come with a halt, and commands are not taken away from   *)
(* a port the driver polls unless they complete.                           *)
LEMMA ControllerMoves ==
  ASSUME AhciInv, NEW p \in DiskPorts(machine), NEW state \in HbaPort, HbaStep(p, state),
         state.list = hba[p].list, state.start = hba[p].start,
         state.using \in {hba[p].using, hba[p].list},
         state.running /\ state.using # state.list => hba[p].running /\ state.using = hba[p].using,
         state.halted => state.running,
         state.issued => hba[p].issued,
         hba[p].halted => state.halted \/ ~state.issued,
         state.error => hba[p].error \/ (state.issued /\ state.halted),
         hba[p].start /\ hba[p].halted => state.issued = hba[p].issued /\ state.halted,
         state.halted => hba[p].halted \/ hba[p].issued,
         written' \subseteq Int \X DiskPorts(machine)
  PROVE  TypeOK' /\ PortsOK' /\ PortOK' /\ PagesOK'
<1>1. /\ hba' \in [DiskPorts(machine) -> HbaPort]
      /\ hba'[p] = state
      /\ \A q \in DiskPorts(machine) : q # p => hba'[q] = hba[q]
  BY OnePortSet DEF AhciInv, HbaStep
<1>2. UNCHANGED <<machine, pc, todo, controller, ports, port_count, index, records,
                  used, command, buffer, spin, verdict, missed>>
  BY DEF HbaStep, driver, memory
<1>3. UNCHANGED <<Port, Polling, AtPort, Started, Reading>>
  BY <1>2 DEF Port, Polling, AtPort, Started, Reading
<1>4. TypeOK'
  BY <1>1, <1>2 DEF AhciInv, TypeOK
<1>5. /\ p \in DiskPorts(machine)
      /\ hba[p] \in HbaPort
  BY DEF AhciInv, TypeOK
<1>6. PortsOK'
  BY <1>1, <1>2, <1>3, <1>5 DEF AhciInv, PortsOK
<1>7. PortOK'
  <2>1. Started => Port \in DiskPorts(machine)
    BY DEF AhciInv, PortOK, Started, AtPort
  <2>2. Reading => Started
    BY DEF Reading, Started
  <2>3. Started => hba'[Port].start
    BY <1>1, <2>1 DEF AhciInv, PortOK
  <2>4. Reading /\ hba'[Port].error => hba'[Port].issued /\ hba'[Port].halted
    BY <1>1, <1>5, <2>1, <2>2 DEF AhciInv, PortOK
  <2>5. ~missed /\ pc \in {"read", "spin"} => ~hba'[Port].issued /\ ~hba'[Port].halted
    BY <1>1, <1>5, <2>1 DEF AhciInv, PortOK, Started
  <2> QED
    BY <1>2, <1>3, <2>3, <2>4, <2>5 DEF AhciInv, PortOK
<1>8. PagesOK'
  <2>1. pc = "read" \/ Reading => Port \in DiskPorts(machine)
    BY DEF AhciInv, PortOK, Reading, AtPort
  <2>2. pc = "read" \/ Reading => hba'[Port].list = hba[Port].list
    BY <1>1, <2>1
  <2> QED
    BY <1>2, <1>3, <2>2 DEF AhciInv, PagesOK
<1> QED  BY <1>4, <1>6, <1>7, <1>8

(* Nothing changes in what was written and in whether the command the      *)
(* driver polls is done.                                                   *)
LEMMA NothingWritten ==
  ASSUME AhciInv, NEW p \in DiskPorts(machine), NEW state \in HbaPort, HbaStep(p, state),
         written' = written,
         hba[p].start => state.issued = hba[p].issued
  PROVE  WrittenOK'
<1>1. /\ hba'[p] = state
      /\ \A q \in DiskPorts(machine) : q # p => hba'[q] = hba[q]
  BY OnePortSet DEF AhciInv, HbaStep
<1>2. UNCHANGED <<pc, records, used, buffer, verdict, missed, Port, Polling>>
  BY DEF HbaStep, driver, memory, Port, Polling
<1>3. Polling => Port \in DiskPorts(machine) /\ hba[Port].start
  BY DEF AhciInv, PortOK, Polling, AtPort, Started
<1>4. Polling => hba'[Port].issued = hba[Port].issued
  BY <1>1, <1>3
<1> QED  BY <1>2, <1>4 DEF AhciInv, WrittenOK

(* A port that stops has no command any more; it is none the driver polls. *)
LEMMA PortStopsOK ==
  ASSUME AhciInv, NEW p \in DiskPorts(machine), PortStops(p)
  PROVE  AhciInv'
<1> DEFINE state == [hba[p] EXCEPT !.running = FALSE, !.issued = FALSE, !.halted = FALSE]
<1>1. hba[p] \in HbaPort  BY DEF AhciInv, TypeOK
<1>2. /\ state \in HbaPort
      /\ \A f \in {"start", "list", "using", "error"} : state[f] = hba[p][f]
      /\ ~state.running /\ ~state.issued /\ ~state.halted
  BY <1>1 DEF HbaPort
<1>3. ~hba[p].start /\ HbaStep(p, state) /\ written' = written
  BY DEF PortStops
<1>4. written \subseteq Int \X DiskPorts(machine)  BY DEF AhciInv, TypeOK
<1> HIDE DEF state
<1>5. TypeOK' /\ PortsOK' /\ PortOK' /\ PagesOK'  BY <1>2, <1>3, <1>4, ControllerMoves
<1>6. WrittenOK'  BY <1>2, <1>3, NothingWritten
<1> QED  BY <1>5, <1>6 DEF AhciInv

(* A port that starts follows the list it was given last.                  *)
LEMMA PortStartsOK ==
  ASSUME AhciInv, NEW p \in DiskPorts(machine), PortStarts(p)
  PROVE  AhciInv'
<1> DEFINE state == [hba[p] EXCEPT !.running = TRUE, !.using = hba[p].list]
<1>1. hba[p] \in HbaPort  BY DEF AhciInv, TypeOK
<1>2. /\ state \in HbaPort
      /\ \A f \in {"start", "list", "issued", "error", "halted"} : state[f] = hba[p][f]
      /\ state.running /\ state.using = hba[p].list
  BY <1>1 DEF HbaPort
<1>3. HbaStep(p, state) /\ written' = written
  BY DEF PortStarts
<1>4. written \subseteq Int \X DiskPorts(machine)  BY DEF AhciInv, TypeOK
<1> HIDE DEF state
<1>5. TypeOK' /\ PortsOK' /\ PortOK' /\ PagesOK'  BY <1>2, <1>3, <1>4, ControllerMoves
<1>6. WrittenOK'  BY <1>2, <1>3, NothingWritten
<1> QED  BY <1>5, <1>6 DEF AhciInv

(* A failing command halts its port.                                       *)
LEMMA FailOK ==
  ASSUME AhciInv, NEW p \in DiskPorts(machine), Fail(p)
  PROVE  AhciInv'
<1> DEFINE state == [hba[p] EXCEPT !.error = TRUE, !.halted = TRUE]
<1>1. hba[p] \in HbaPort  BY DEF AhciInv, TypeOK
<1>2. /\ state \in HbaPort
      /\ \A f \in {"start", "running", "list", "using", "issued"} : state[f] = hba[p][f]
      /\ state.error /\ state.halted
  BY <1>1 DEF HbaPort
<1>3. HbaStep(p, state) /\ written' = written /\ hba[p].running /\ hba[p].issued
  BY DEF Fail, Working
<1>4. written \subseteq Int \X DiskPorts(machine)  BY DEF AhciInv, TypeOK
<1> HIDE DEF state
<1>5. TypeOK' /\ PortsOK' /\ PortOK' /\ PagesOK'  BY <1>2, <1>3, <1>4, ControllerMoves
<1>6. WrittenOK'  BY <1>2, <1>3, NothingWritten
<1> QED  BY <1>5, <1>6 DEF AhciInv

(* A device that gets ready disturbs nothing.                              *)
LEMMA GetsReadyOK ==
  ASSUME AhciInv, NEW p \in DiskPorts(machine), GetsReady(p)
  PROVE  AhciInv'
<1> DEFINE state == [hba[p] EXCEPT !.busy = FALSE]
<1>1. hba[p] \in HbaPort  BY DEF AhciInv, TypeOK
<1>2. /\ state \in HbaPort
      /\ \A f \in {"start", "running", "list", "using", "issued", "error", "halted"} :
           state[f] = hba[p][f]
  BY <1>1 DEF HbaPort
<1>3. HbaStep(p, state) /\ written' = written
  BY DEF GetsReady
<1>4. written \subseteq Int \X DiskPorts(machine)  BY DEF AhciInv, TypeOK
<1>5. hba[p].halted => hba[p].running  BY DEF AhciInv, PortsOK
<1> HIDE DEF state
<1>6. TypeOK' /\ PortsOK' /\ PortOK' /\ PagesOK'  BY <1>2, <1>3, <1>4, <1>5, ControllerMoves
<1>7. WrittenOK'  BY <1>2, <1>3, NothingWritten
<1> QED  BY <1>6, <1>7 DEF AhciInv

(* What a disk transfers is the read the driver polls for.  On a port that *)
(* was only ever started when it had stopped, that goes to the buffer of   *)
(* this read, which nothing was written to before.                         *)
LEMMA CompleteOK ==
  ASSUME AhciInv, NEW p \in DiskPorts(machine), Complete(p)
  PROVE  AhciInv'
<1> DEFINE state == [hba[p] EXCEPT !.issued = FALSE]
<1>1. hba[p] \in HbaPort  BY DEF AhciInv, TypeOK
<1>2. /\ state \in HbaPort
      /\ \A f \in {"start", "running", "list", "using", "error", "halted"} :
           state[f] = hba[p][f]
      /\ ~state.issued
  BY <1>1 DEF HbaPort
<1>3. PICK list \in {hba[p].using, hba[p].list} :
        written' = written \union {<<command[list], p>>}
  BY DEF Complete
<1>4. HbaStep(p, state) /\ hba[p].running /\ hba[p].issued /\ ~hba[p].halted
  BY DEF Complete, Working
<1>5. Polling /\ p = Port  BY <1>4 DEF AhciInv, PortsOK
<1>6. list \in DOMAIN command  BY <1>5 DEF AhciInv, PortsOK, Polling
<1>7. command[list] \in Int  BY <1>6 DEF AhciInv, TypeOK
<1>8. written' \subseteq Int \X DiskPorts(machine)
  <2>1. written \subseteq Int \X DiskPorts(machine)  BY DEF AhciInv, TypeOK
  <2>2. <<command[list], p>> \in Int \X DiskPorts(machine)  BY <1>7
  <2> QED  BY <1>3, <2>1, <2>2
<1>9. hba[p].halted => hba[p].running  BY DEF AhciInv, PortsOK
<1> HIDE DEF state
<1>10. TypeOK' /\ PortsOK' /\ PortOK' /\ PagesOK'
  BY <1>2, <1>4, <1>8, <1>9, ControllerMoves
<1>11. WrittenOK'
  <2>1. UNCHANGED <<pc, used, buffer, missed, Port, Polling>>
    BY <1>4 DEF HbaStep, driver, memory, Port, Polling
  <2> SUFFICES ASSUME ~missed
               PROVE  /\ \A w \in written' : w[1] > 0 /\ w[1] % 35 = 0 /\ w[1] <= used
                      /\ <<buffer, Port>> \in written'
                      /\ ~hba'[Port].issued
    BY <1>5, <2>1 DEF WrittenOK, Polling
  <2>2. list = hba[Port].list  BY <1>4, <1>5 DEF AhciInv, PortsOK
  <2>3. command[list] = buffer /\ buffer = used /\ buffer > 0
    BY <1>5, <2>2 DEF AhciInv, PagesOK, Polling, Reading
  <2>4. used % 35 = 0  BY <1>5 DEF AhciInv, PagesOK, Polling
  <2>5. hba'[p] = state  BY <1>2, <1>4, OnePortSet DEF AhciInv, HbaStep
  <2>6. \A w \in written : w[1] > 0 /\ w[1] % 35 = 0 /\ w[1] <= used
    BY DEF AhciInv, WrittenOK
  <2>7. used \in Nat  BY DEF AhciInv, TypeOK
  <2> QED  BY <1>2, <1>3, <1>5, <2>3, <2>4, <2>5, <2>6, <2>7
<1> QED  BY <1>10, <1>11 DEF AhciInv

-----------------------------------------------------------------------------
(* The steps of the driver that touch no HBA port and no page.             *)

(* What the walk over the buses finds are AHCI controllers.                *)
LEMMA ControllersOfMachine ==
  ASSUME NEW m, NEW segment
  PROVE  Controllers(m, segment) \subseteq DOMAIN m.ports
BY DEF Controllers

(* The walk over the tables and the buses.                                 *)
LEMMA PrepareAcpiOK ==
  ASSUME AhciInv, PrepareAcpi
  PROVE  AhciInv'
<1>1. pc = "acpi" /\ pc' \in {"pci", "undefined"} /\ todo' = enumerate_pci(machine)
      /\ UNCHANGED <<machine, controller, ports, port_count, index, records,
                     used, command, buffer, hba, spin, verdict, written, missed>>
  BY DEF PrepareAcpi, memory
<1>2. enumerate_pci(machine) \subseteq (DOMAIN machine.segments) \X (DOMAIN machine.ports)
  <2> SUFFICES ASSUME NEW x \in enumerate_pci(machine)
               PROVE  x \in (DOMAIN machine.segments) \X (DOMAIN machine.ports)
    OBVIOUS
  <2>1. PICK i \in DOMAIN machine.segments :
          \E f \in Controllers(machine, machine.segments[i]) : x = <<i, f>>
    BY DEF enumerate_pci
  <2>2. PICK f \in Controllers(machine, machine.segments[i]) : x = <<i, f>>
    BY <2>1
  <2> QED  BY <2>2, ControllersOfMachine
<1>3. TypeOK'  BY <1>1, <1>2 DEF AhciInv, TypeOK
<1>4. PortsOK' /\ PortOK' /\ PagesOK' /\ WrittenOK'
  BY <1>1 DEF AhciInv, PortsOK, PortOK, PagesOK, WrittenOK,
              Port, Polling, AtPort, Started, Reading
<1> QED  BY <1>3, <1>4 DEF AhciInv

(* The next controller.                                                    *)
LEMMA StartDriverOK ==
  ASSUME AhciInv, StartDriver
  PROVE  AhciInv'
<1>1. PICK next \in todo : controller' = next[2] /\ todo' = todo \ {next}
  BY DEF StartDriver
<1>2. pc = "pci" /\ pc' = "probe" /\ ports' = [k \in DOMAIN ports |-> Unset]
      /\ UNCHANGED <<machine, port_count, index, records,
                     used, command, buffer, hba, spin, verdict, written, missed>>
  BY DEF StartDriver, memory
<1>3. controller' \in DOMAIN machine.ports
  BY <1>1 DEF AhciInv, TypeOK
<1>4. TypeOK'  BY <1>1, <1>2, <1>3 DEF AhciInv, TypeOK
<1>5. PortsOK' /\ PortOK' /\ PagesOK' /\ WrittenOK'
  BY <1>2, <1>3 DEF AhciInv, PortsOK, PortOK, PagesOK, WrittenOK,
                    Port, Polling, AtPort, Started, Reading
<1> QED  BY <1>4, <1>5 DEF AhciInv

(* Every record is the one at address 0, so that it is for the last disk.  *)
LEMMA ProbePortsOK ==
  ASSUME AhciInv, ahci_driver_probe_ports
  PROVE  AhciInv'
<1> DEFINE disks == Disks(machine, controller)
           count == port_count + Cardinality(disks)
<1>1. /\ pc = "probe"
      /\ ports' = [k \in 0 .. PortSlots - 1 |->
                     IF k \in port_count .. count - 1 THEN NULL ELSE ports[k]]
      /\ records' = IF disks = {} THEN records
                    ELSE [records EXCEPT ![NULL] = <<controller, Max(disks)>>]
      /\ port_count' = count
      /\ index' = 0
      /\ pc' = IF count > PortSlots THEN "undefined" ELSE "loop"
  BY NoHeap DEF ahci_driver_probe_ports
<1>2. UNCHANGED <<machine, todo, controller, used, command, buffer, hba, spin, verdict,
                  written, missed>>
  BY DEF ahci_driver_probe_ports, memory
<1>3. machine \in Machines /\ controller \in DOMAIN machine.ports
      /\ port_count \in Nat /\ ports \in [0 .. PortSlots - 1 -> {Unset, NULL}]
      /\ records \in [{NULL} -> DiskPorts(machine) \union {<<>>}]
  BY <1>1 DEF AhciInv, TypeOK, PortOK
<1>4. Cardinality(disks) \in Nat /\ (Cardinality(disks) > 0 <=> disks # {})
  BY <1>3, DisksFinite
<1>5. disks # {} => <<controller, Max(disks)>> \in DiskPorts(machine)
  BY <1>3, LastDisk
<1> HIDE DEF disks
<1>6. ports' \in [0 .. PortSlots - 1 -> {Unset, NULL}]
  BY <1>1, <1>3
<1>7. /\ records' \in [{NULL} -> DiskPorts(machine) \union {<<>>}]
      /\ port_count' \in Nat
      /\ port_count' > 0 => records'[NULL] \in DiskPorts(machine)
  BY <1>1, <1>3, <1>4, <1>5 DEF AhciInv, PortOK, Port
<1>8. TypeOK'  BY <1>1, <1>2, <1>6, <1>7 DEF AhciInv, TypeOK
<1>9. PortOK'
  BY <1>1, <1>2, <1>3, <1>4, <1>7, AhciAssumption DEF PortOK, Port, AtPort, Started, Reading
<1>10. PortsOK' /\ PagesOK' /\ WrittenOK'
  BY <1>1, <1>2 DEF AhciInv, PortsOK, PagesOK, WrittenOK, Polling, Reading
<1> QED  BY <1>8, <1>9, <1>10 DEF AhciInv

(* The steps from one port to the next and out of the loop, while the      *)
(* driver waits for a busy device, and after a read.                       *)
LEMMA WaitsOK ==
  ASSUME AhciInv,
         EndOfWalk \/ NextPort \/ EndOfPorts \/ Spin \/ PrintVerdict
  PROVE  AhciInv'
<1>1. UNCHANGED <<machine, todo, controller, ports, port_count, records, used, command, buffer,
                  hba, verdict, written, missed>>
  BY DEF EndOfWalk, NextPort, EndOfPorts, Spin, PrintVerdict, driver, memory
<1>2. \/ pc = "pci" /\ pc' = "done"
      \/ pc = "loop" /\ index < port_count /\ pc' \in {"stop", "undefined"}
      \/ pc = "loop" /\ pc' = "pci"
      \/ pc = "spin" /\ pc' = "spin"
      \/ pc = "returned" /\ pc' = "loop"
  BY DEF EndOfWalk, NextPort, EndOfPorts, Spin, PrintVerdict
<1>3. /\ index' \in {index, index + 1}
      /\ spin' = spin \/ (spin < MaxSpin /\ spin' = spin + 1)
  BY DEF EndOfWalk, NextPort, EndOfPorts, Spin, PrintVerdict, driver
<1>4. index \in Nat /\ port_count \in Nat /\ spin \in 0 .. MaxSpin  BY DEF AhciInv, TypeOK
<1>5. index' \in Nat /\ spin' \in 0 .. MaxSpin  BY <1>4, <1>3, AhciAssumption
<1>6. TypeOK'  BY <1>1, <1>2, <1>5 DEF AhciInv, TypeOK
<1>7. PortOK'
  <2>1. PortOK /\ UNCHANGED <<controller, hba, Port, missed, port_count>>
    BY <1>1 DEF AhciInv, Port
  <2>2. (pc' = "loop" \/ AtPort') => pc = "loop" \/ AtPort
    BY <1>2 DEF AtPort
  <2>3. AtPort' => AtPort \/ index < port_count
    BY <1>2 DEF AtPort
  <2>4. (Started' => Started) /\ (Reading' => Reading) /\ (pc' = "spin" => pc = "spin")
        /\ pc' \notin {"probe", "read"}
    BY <1>2 DEF Started, Reading
  <2> QED  BY <1>1, <1>4, <2>1, <2>2, <2>3, <2>4 DEF PortOK
<1>8. PortsOK' /\ PagesOK' /\ WrittenOK'
  BY <1>1, <1>2 DEF AhciInv, PortsOK, PagesOK, WrittenOK, Port, Polling, Reading
<1> QED  BY <1>6, <1>7, <1>8 DEF AhciInv

(* A read returns that it failed when the device is not ready in time,     *)
(* before the command is issued, or when the port was halted by an error;  *)
(* and that it succeeded when the command is done.                         *)
LEMMA ReturnsOK ==
  ASSUME AhciInv, GiveUp \/ PollCommand \/ PollError
  PROVE  AhciInv'
<1>1. UNCHANGED <<machine, todo, controller, ports, port_count, index, records, used, command,
                  buffer, hba, spin, written, missed>>
  BY DEF GiveUp, PollCommand, PollError, driver, memory
<1>2. \/ pc = "spin" /\ pc' = "returned" /\ verdict' = FALSE
      \/ Polling /\ pc' \in {"poll", "poll error"} /\ verdict' = verdict
      \/ Polling /\ pc' = "returned" /\ verdict' = TRUE /\ ~hba[Port].issued
      \/ Polling /\ pc' = "returned" /\ verdict' = FALSE /\ hba[Port].error
  BY DEF GiveUp, PollCommand, PollError, Return, Polling
<1>3. TypeOK'  BY <1>1, <1>2 DEF AhciInv, TypeOK
<1>4. PortOK'
  BY <1>1, <1>2 DEF AhciInv, PortOK, Port, AtPort, Started, Reading, Polling
<1>5. PortsOK'
  BY <1>1, <1>2 DEF AhciInv, PortsOK, PortOK, Port, Polling, Reading
<1>6. PagesOK'
  BY <1>1, <1>2 DEF AhciInv, PagesOK, Port, Polling, Reading
<1>7. WrittenOK'
  BY <1>1, <1>2 DEF AhciInv, WrittenOK, PortOK, Port, Polling, Reading
<1> QED  BY <1>3, <1>4, <1>5, <1>6, <1>7 DEF AhciInv

-----------------------------------------------------------------------------
(* The steps of the driver that set the port it is at.                     *)

(* The driver stops a port: nothing but the start bit changes.             *)
LEMMA StopOK ==
  ASSUME AhciInv, ahci_port_stop_cmd
  PROVE  AhciInv'
<1> DEFINE state == [hba[Port] EXCEPT !.start = FALSE]
<1>1. /\ UNCHANGED <<machine, todo, controller, ports, port_count, index, records, used, command,
                     buffer, spin, verdict, written, missed, Port>>
      /\ pc = "stop" /\ pc' = "configure"
  BY DEF ahci_port_stop_cmd, driver, memory, Port
<1>2. Port \in DiskPorts(machine) /\ AtPort  BY <1>1 DEF AhciInv, PortOK, AtPort, TypeOK
<1>3. hba[Port] \in HbaPort  BY <1>2 DEF AhciInv, TypeOK
<1>4. /\ state \in HbaPort
      /\ \A f \in {"running", "list", "using", "issued", "error", "halted"} :
           state[f] = hba[Port][f]
  BY <1>3 DEF HbaPort
<1>5. hba' = [hba EXCEPT ![Port] = state]
  BY <1>2 DEF ahci_port_stop_cmd, AhciInv, TypeOK
<1> HIDE DEF state
<1>6. /\ hba' \in [DiskPorts(machine) -> HbaPort]
      /\ hba'[Port] = state
      /\ \A q \in DiskPorts(machine) : q # Port => hba'[q] = hba[q]
  BY <1>2, <1>4, <1>5, OnePortSet DEF AhciInv
<1>7. TypeOK'  BY <1>1, <1>6 DEF AhciInv, TypeOK
<1>8. PortsOK'
  BY <1>1, <1>2, <1>4, <1>6 DEF AhciInv, PortsOK, Polling
<1>9. PortOK'
  BY <1>1, <1>2 DEF AhciInv, PortOK, AtPort, Started, Reading
<1>10. PagesOK' /\ WrittenOK'
  BY <1>1 DEF AhciInv, PagesOK, WrittenOK, Polling, Reading
<1> QED  BY <1>7, <1>8, <1>9, <1>10 DEF AhciInv

(* A port that has stopped has neither a command nor an error that halts   *)
(* it; its new command list is a page unless the pages ran out.            *)
LEMMA ConfigureOK ==
  ASSUME AhciInv, ahci_port_configure
  PROVE  AhciInv'
<1> DEFINE state == [hba[Port] EXCEPT !.list = used + 1, !.start = TRUE]
<1>1. /\ UNCHANGED <<machine, todo, controller, ports, port_count, index, records, command,
                     buffer, spin, verdict, written, Port>>
      /\ pc = "configure"
      /\ used' = used + 34
      /\ pc' = IF used' > machine.pages THEN "undefined" ELSE "read"
      /\ missed' = (missed \/ hba[Port].running)
  BY DEF ahci_port_configure, driver, Port, PortPages
<1>2. Port \in DiskPorts(machine) /\ AtPort  BY <1>1 DEF AhciInv, PortOK, AtPort, TypeOK
<1>3. hba[Port] \in HbaPort /\ used \in Nat /\ missed \in BOOLEAN /\ machine.pages \in Nat
  BY <1>2, AhciAssumption DEF AhciInv, TypeOK
<1>4. /\ state \in HbaPort
      /\ \A f \in {"running", "using", "issued", "error", "halted"} : state[f] = hba[Port][f]
      /\ state.list = used + 1 /\ state.start
  <2>1. used + 1 \in Int  BY <1>3
  <2> QED  BY <1>3, <2>1 DEF HbaPort
<1>5. hba' = [hba EXCEPT ![Port] = state]
  BY <1>2 DEF ahci_port_configure, AhciInv, TypeOK
<1>6. hba[Port].running \in BOOLEAN  BY <1>3 DEF HbaPort
<1> HIDE DEF state
<1>7. /\ hba' \in [DiskPorts(machine) -> HbaPort]
      /\ hba'[Port] = state
      /\ \A q \in DiskPorts(machine) : q # Port => hba'[q] = hba[q]
  BY <1>2, <1>4, <1>5, OnePortSet DEF AhciInv
<1>8. used' \in Nat /\ missed' \in BOOLEAN  BY <1>1, <1>3, <1>6
<1>9. TypeOK'  BY <1>1, <1>7, <1>8 DEF AhciInv, TypeOK
<1>10. ~missed' => ~missed /\ ~hba[Port].running /\ ~hba[Port].halted /\ ~hba[Port].issued
  BY <1>1, <1>2 DEF AhciInv, PortsOK, Polling
<1>11. pc' # "undefined" => used + 1 \in 1 .. machine.pages /\ pc' = "read"
                            /\ used' <= machine.pages /\ used' % 35 = 34
  BY <1>1, <1>3 DEF AhciInv, PagesOK
<1>12. PortsOK'
  <2>1. ASSUME NEW q \in DiskPorts(machine)
        PROVE  /\ hba'[q].halted => hba'[q].running
               /\ ~(hba'[q].issued /\ ~hba'[q].halted)
               /\ ~missed' /\ hba'[q].running => hba'[q].using = hba'[q].list
    BY <1>1, <1>2, <1>4, <1>7, <1>10 DEF AhciInv, PortsOK, Polling
  <2>2. command \in [{Firmware} \union 1 .. machine.pages -> Int]
    BY DEF AhciInv, TypeOK
  <2>3. ASSUME NEW q \in DiskPorts(machine), pc' # "undefined"
        PROVE  {hba'[q].list, hba'[q].using} \subseteq DOMAIN command
    BY <1>1, <1>2, <1>4, <1>7, <1>11, <2>2, <2>3 DEF AhciInv, PortsOK
  <2> QED  BY <1>1, <2>1, <2>3 DEF PortsOK
<1>13. PortOK'
  BY <1>1, <1>2, <1>4, <1>7, <1>10 DEF AhciInv, PortOK, AtPort, Started, Reading
<1>14. PagesOK'
  BY <1>1, <1>4, <1>7, <1>11 DEF PagesOK, Reading
<1>15. WrittenOK'
  <2>1. \A w \in written : w[1] \in Int  BY DEF AhciInv, TypeOK
  <2>2. ~missed' => \A w \in written : w[1] > 0 /\ w[1] % 35 = 0 /\ w[1] <= used'
    BY <1>1, <1>3, <1>10, <2>1 DEF AhciInv, WrittenOK
  <2>3. pc' # "spin" /\ ~Polling' /\ pc' # "returned"  BY <1>1 DEF Polling
  <2> QED  BY <1>1, <2>2, <2>3 DEF WrittenOK
<1> QED  BY <1>9, <1>12, <1>13, <1>14, <1>15 DEF AhciInv

(* The buffer is a page nothing was written to yet.                        *)
LEMMA PrepareOK ==
  ASSUME AhciInv, PrepareCommand
  PROVE  AhciInv'
<1> DEFINE state == [hba[Port] EXCEPT !.error = FALSE]
<1>1. /\ UNCHANGED <<machine, todo, controller, ports, port_count, index, records,
                     verdict, written, missed, Port>>
      /\ pc = "read"
      /\ used' = used + 1
      /\ pc' = IF used' > machine.pages THEN "undefined" ELSE "spin"
      /\ buffer' = used'
      /\ command' = [command EXCEPT ![hba[Port].list] = buffer']
      /\ spin' = 0
  BY DEF PrepareCommand, driver, Port
<1>2. Port \in DiskPorts(machine) /\ AtPort  BY <1>1 DEF AhciInv, PortOK, AtPort, TypeOK
<1>3. hba[Port] \in HbaPort /\ used \in Nat /\ machine.pages \in Nat
  BY <1>2, AhciAssumption DEF AhciInv, TypeOK
<1>4. /\ state \in HbaPort
      /\ \A f \in {"start", "running", "list", "using", "issued", "halted"} :
           state[f] = hba[Port][f]
      /\ ~state.error
  BY <1>3 DEF HbaPort
<1>5. hba' = [hba EXCEPT ![Port] = state]
  BY <1>2 DEF PrepareCommand, AhciInv, TypeOK
<1> HIDE DEF state
<1>6. /\ hba' \in [DiskPorts(machine) -> HbaPort]
      /\ hba'[Port] = state
      /\ \A q \in DiskPorts(machine) : q # Port => hba'[q] = hba[q]
  BY <1>2, <1>4, <1>5, OnePortSet DEF AhciInv
<1>7. /\ command' \in [{Firmware} \union 1 .. machine.pages -> Int]
      /\ DOMAIN command' = DOMAIN command
      /\ command'[hba'[Port].list] = buffer'
  <2>1. command \in [{Firmware} \union 1 .. machine.pages -> Int]
    BY DEF AhciInv, TypeOK
  <2>2. hba[Port].list \in 1 .. machine.pages  BY <1>1 DEF AhciInv, PagesOK
  <2> QED  BY <1>1, <1>3, <1>4, <1>6, <2>1, <2>2
<1>8. used' \in Nat /\ buffer' \in Nat /\ spin' \in 0 .. MaxSpin
  BY <1>1, <1>3, AhciAssumption
<1>9. TypeOK'  BY <1>1, <1>6, <1>7, <1>8 DEF AhciInv, TypeOK
<1>10. PortsOK'
  BY <1>1, <1>2, <1>4, <1>6, <1>7 DEF AhciInv, PortsOK, Polling
<1>11. PortOK'
  BY <1>1, <1>2, <1>4, <1>6 DEF AhciInv, PortOK, AtPort, Started, Reading
<1>12. used % 35 = 34  BY <1>1 DEF AhciInv, PagesOK
<1>13. used' % 35 = 0  BY <1>1, <1>3, <1>12
<1>14. PagesOK'
  BY <1>1, <1>3, <1>7, <1>13 DEF PagesOK, Reading
<1>15. WrittenOK'
  <2>1. \A w \in written : w[1] \in Int  BY DEF AhciInv, TypeOK
  <2>2. ~missed => \A w \in written : w[1] > 0 /\ w[1] % 35 = 0 /\ w[1] <= used
    BY DEF AhciInv, WrittenOK
  <2>3. ~missed => \A w \in written : w[1] <= used' /\ w[1] # buffer'
    BY <1>1, <1>3, <2>1, <2>2
  <2>4. ~missed => <<buffer', Port>> \notin written  BY <2>3
  <2>5. ~Polling' /\ pc' # "returned"  BY <1>1 DEF Polling
  <2> QED  BY <1>1, <2>2, <2>3, <2>4, <2>5 DEF WrittenOK
<1> QED  BY <1>9, <1>10, <1>11, <1>14, <1>15 DEF AhciInv

(* The command is issued to a port that has none and is not halted.        *)
LEMMA IssueOK ==
  ASSUME AhciInv, Issue
  PROVE  AhciInv'
<1> DEFINE state == [hba[Port] EXCEPT !.issued = TRUE]
<1>1. /\ UNCHANGED <<machine, todo, controller, ports, port_count, index, records, used, command,
                     buffer, spin, verdict, written, missed, Port>>
      /\ pc = "spin" /\ pc' = "poll"
  BY DEF Issue, driver, memory, Port
<1>2. Port \in DiskPorts(machine) /\ AtPort  BY <1>1 DEF AhciInv, PortOK, AtPort, TypeOK
<1>3. hba[Port] \in HbaPort  BY <1>2 DEF AhciInv, TypeOK
<1>4. /\ state \in HbaPort
      /\ \A f \in {"start", "running", "list", "using", "error", "halted"} :
           state[f] = hba[Port][f]
      /\ state.issued
  BY <1>3 DEF HbaPort
<1>5. hba' = [hba EXCEPT ![Port] = state]
  BY <1>2 DEF Issue, AhciInv, TypeOK
<1> HIDE DEF state
<1>6. /\ hba' \in [DiskPorts(machine) -> HbaPort]
      /\ hba'[Port] = state
      /\ \A q \in DiskPorts(machine) : q # Port => hba'[q] = hba[q]
  BY <1>2, <1>4, <1>5, OnePortSet DEF AhciInv
<1>7. TypeOK'  BY <1>1, <1>6 DEF AhciInv, TypeOK
<1>8. PortsOK'
  BY <1>1, <1>2, <1>4, <1>6 DEF AhciInv, PortsOK, Polling
<1>9. PortOK'
  BY <1>1, <1>2, <1>4, <1>6 DEF AhciInv, PortOK, AtPort, Started, Reading
<1>10. PagesOK'
  BY <1>1, <1>4, <1>6 DEF AhciInv, PagesOK, Reading
<1>11. WrittenOK'
  BY <1>1, <1>4, <1>6 DEF AhciInv, WrittenOK, Polling
<1> QED  BY <1>7, <1>8, <1>9, <1>10, <1>11 DEF AhciInv

-----------------------------------------------------------------------------
(* The invariant holds from the beginning and is kept by every step.       *)

LEMMA AhciInvInit == Init => AhciInv
<1> SUFFICES ASSUME Init PROVE AhciInv
  OBVIOUS
<1>1. PICK running \in BOOLEAN, busy \in BOOLEAN :
        hba = [p \in DiskPorts(machine) |->
                [start |-> running, running |-> running, list |-> Firmware, using |-> Firmware,
                 issued |-> FALSE, error |-> FALSE, halted |-> FALSE, busy |-> busy]]
  BY DEF Init
<1>2. /\ hba \in [DiskPorts(machine) -> HbaPort]
      /\ \A p \in DiskPorts(machine) : /\ hba[p].list = Firmware /\ hba[p].using = Firmware
                                       /\ ~hba[p].halted /\ ~hba[p].issued
  BY <1>1 DEF HbaPort, Firmware
<1>3. machine \in Machines /\ machine.pages \in Nat
  BY AhciAssumption DEF Init
<1>4. command \in [{Firmware} \union 1 .. machine.pages -> Int]
  BY <1>3 DEF Init, Firmware
<1>5. TypeOK
  <2>1. ports \in [0 .. PortSlots - 1 -> {Unset, NULL}]  BY DEF Init
  <2>2. records \in [{NULL} -> DiskPorts(machine) \union {<<>>}]  BY DEF Init
  <2>3. spin \in 0 .. MaxSpin  BY AhciAssumption DEF Init
  <2> QED  BY <1>2, <1>3, <1>4, <2>1, <2>2, <2>3 DEF Init, TypeOK, NULL
<1>6. PortsOK  BY <1>2, <1>4 DEF Init, PortsOK
<1>7. PortOK /\ PagesOK /\ WrittenOK
  BY <1>3 DEF Init, PortOK, PagesOK, WrittenOK, AtPort, Started, Reading, Polling
<1> QED  BY <1>5, <1>6, <1>7 DEF AhciInv

LEMMA AhciInvNext == AhciInv /\ [Next]_vars => AhciInv'
<1> SUFFICES ASSUME AhciInv, [Next]_vars PROVE AhciInv'
  OBVIOUS
<1>1. CASE Driver
  BY <1>1, PrepareAcpiOK, StartDriverOK, ProbePortsOK, WaitsOK, ReturnsOK, StopOK, ConfigureOK,
     PrepareOK, IssueOK DEF Driver
<1>2. CASE \E p \in DOMAIN hba : Device(p)
  <2>1. DOMAIN hba = DiskPorts(machine)  BY DEF AhciInv, TypeOK
  <2>2. PICK p \in DiskPorts(machine) : Device(p)  BY <1>2, <2>1
  <2> QED  BY <2>2, PortStopsOK, PortStartsOK, CompleteOK, FailOK, GetsReadyOK DEF Device
<1>3. CASE UNCHANGED vars
  <2>1. UNCHANGED <<machine, pc, todo, controller, ports, port_count, index, records, used, command,
                    buffer, hba, spin, verdict, written, missed>>
    BY <1>3 DEF vars, driver, memory
  <2>2. TypeOK'  BY <2>1 DEF AhciInv, TypeOK
  <2>3. PortsOK' /\ PortOK' /\ PagesOK' /\ WrittenOK'
    BY <2>1 DEF AhciInv, PortsOK, PortOK, PagesOK, WrittenOK,
                Port, Polling, AtPort, Started, Reading
  <2> QED  BY <2>2, <2>3 DEF AhciInv
<1> QED  BY <1>1, <1>2, <1>3 DEF Next

LEMMA AhciAlways == Spec => []AhciInv
BY AhciInvInit, AhciInvNext, PTL DEF Spec

-----------------------------------------------------------------------------
(* The variables of the driver and of the controllers have their types.    *)
THEOREM TypeCorrect == Spec => []TypeOK
<1>1. AhciInv => TypeOK  BY DEF AhciInv
<1> QED  BY <1>1, AhciAlways, PTL

(* Whatever a disk transfers goes to a page requested as a read's buffer,  *)
(* as long as no port is started again that had not stopped: for every     *)
(* machine, with any number of controllers, disks and page frames, and     *)
(* whatever the firmware had running.                                      *)
THEOREM BuffersOnly == Spec => []DmaStaysInBuffers
<1>1. AhciInv => DmaStaysInBuffers
  BY DEF AhciInv, WrittenOK, DmaStaysInBuffers, PortPages
<1> QED  BY <1>1, AhciAlways, PTL

(* What ahci_port_read returns is so: if it says that it succeeded, the    *)
(* disk's sectors are in its buffer, and if it says that it failed, they   *)
(* are not and will not be.                                                *)
THEOREM TrueVerdicts == Spec => []VerdictsAreTrue
<1>1. AhciInv => VerdictsAreTrue
  BY DEF AhciInv, WrittenOK, VerdictsAreTrue
<1> QED  BY <1>1, AhciAlways, PTL
=============================================================================
