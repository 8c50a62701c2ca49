--------------------------------- MODULE Ahci ---------------------------------
(***************************************************************************)
(* The AHCI driver (ahci/ahci.c) from the search for the controllers to    *)
(* the read of four sectors from each disk, against controllers that work  *)
(* on their own: they notice late, or not at all, that a port is stopped;  *)
(* a command takes its time and may fail, and a device may stay busy.      *)
(*                                                                         *)
(* The driver's port records come from dumbass_malloc (lib/memory.c),      *)
(* whose heap has no room, so that all of them are the one at address 0;   *)
(* port_count is never set back.  Where the code goes on with a pointer    *)
(* nobody has set, pc is "undefined" and nothing more is said.             *)
(***************************************************************************)
EXTENDS PciBus, Integers, FiniteSetsExt

CONSTANTS
  Machines,    (* the machines the kernel may run on                         *)
  PortSlots,   (* length of ahci_driver_t's array ports                      *)
  MaxSpin      (* how often ahci_port_read looks at a busy device            *)

ASSUME AhciAssumption ==
  /\ PortSlots \in Nat \ {0}
  /\ \A m \in Machines : /\ m.pages \in Nat
                         /\ \A c \in DOMAIN m.ports : DOMAIN m.ports[c] \subseteq 0 .. 31
  /\ MaxSpin \in Nat \ {0}

VARIABLES
  machine,
  pc,           (* where the driver is                                       *)
  todo,         (* the controllers not started yet                           *)
  controller,   (* the one being started                                     *)
  ports,        (* ahci_driver_t's ports, up to where they were ever set     *)
  port_count,   (* across all controllers                                    *)
  index,        (* i of ahci_driver_init                                     *)
  records,      (* the port records by address: the HBA port each is for     *)
  used,         (* page frames requested                                     *)
  hba,          (* the HBA ports                                             *)
  command,      (* the buffer of the command in slot 0, by command list      *)
  buffer,       (* the buffer of the read in progress                        *)
  spin,
  verdict,      (* what ahci_port_read returned                              *)
  written,      (* history: buffers written, and from which disk             *)
  missed        (* history: a port was started again that had not stopped    *)

driver == <<machine, todo, controller, ports, port_count, index, records>>
memory == <<used, command, buffer>>
vars   == <<driver, pc, memory, hba, spin, verdict, written, missed>>

NULL == 0

(* No address the driver knows: what is in a place of the array that was   *)
(* never set, and where the firmware has its command list and buffer.      *)
Unset    == -1
Firmware == -1

(* The record of the port the driver is at.                                *)
Port == records[NULL]

-----------------------------------------------------------------------------
(* dumbass_malloc.  last_alloc is the heap's begin, 0, so the search for a *)
(* block to use again ends before it begins; the heap's end is 0 as well.  *)
last_alloc  == 0
heap_end    == 0
AllocHeader == 8

dumbass_malloc(size) ==
  IF size = 0 \/ last_alloc + size + AllocHeader >= heap_end
  THEN NULL ELSE last_alloc + AllocHeader

RecordSize == 32

(* check_port_type: a device is present and its link is active.            *)
check_port_type(link) ==
  IF link.detection = 3 /\ link.power = 1 /\ link.signature \in {"SATA", "SATAPI", "PM", "SEMB"}
  THEN link.signature ELSE "NONE"

(* The disks of a controller; they are probed by port number.              *)
Disks(m, c) == {i \in DOMAIN m.ports[c] : check_port_type(m.ports[c][i]) \in {"SATA", "SATAPI"}}

HbaPorts(m) == {<<c, i>> : c \in DOMAIN m.ports, i \in 0 .. 31}
DiskPorts(m) == {p \in HbaPorts(m) : p[2] \in Disks(m, p[1])}

-----------------------------------------------------------------------------
(* prepare_acpi, enumerate_pci and enumerate_function.  The walk over a    *)
(* table that is not there, or is another, reads whatever is in its place. *)
PrepareAcpi ==
  /\ pc = "acpi"
  /\ \E i \in find_table(machine.tables) :
       pc' = IF i # 0 /\ SubSeq(machine.tables[i], 1, 4) = SubSeq(MCFG, 1, 4)
             THEN "pci" ELSE "undefined"
  /\ todo' = enumerate_pci(machine)
  /\ UNCHANGED <<machine, controller, ports, port_count, index, records,
                 memory, hba, spin, verdict, written, missed>>

(* The driver is a local variable of enumerate_function: its ports are     *)
(* whatever is on the stack.                                               *)
StartDriver ==
  /\ pc = "pci"
  /\ \E next \in todo :
       /\ \A other \in todo \ {next} : Precedes(next, other)
       /\ controller' = next[2]
       /\ todo' = todo \ {next}
  /\ pc' = "probe"
  /\ ports' = [k \in DOMAIN ports |-> Unset]
  /\ UNCHANGED <<machine, port_count, index, records, memory, hba, spin, verdict, written, missed>>

EndOfWalk ==
  /\ pc = "pci"
  /\ todo = {}
  /\ pc' = "done"
  /\ UNCHANGED <<driver, memory, hba, spin, verdict, written, missed>>

(* ahci_driver_probe_ports: a record for every disk, and the next place of *)
(* the array for it, which need not be in the array.                       *)
ahci_driver_probe_ports ==
  LET disks   == Disks(machine, controller)
      address == dumbass_malloc(RecordSize)
      count   == port_count + Cardinality(disks)
  IN  /\ pc = "probe"
      /\ ports' = [k \in 0 .. PortSlots - 1 |->
                     IF k \in port_count .. count - 1 THEN address ELSE ports[k]]
      /\ records' = IF disks = {} THEN records
                    ELSE [records EXCEPT ![address] = <<controller, Max(disks)>>]
      /\ port_count' = count
      /\ index' = 0
      /\ pc' = IF count > PortSlots THEN "undefined" ELSE "loop"
      /\ UNCHANGED <<machine, todo, controller, memory, hba, spin, verdict, written, missed>>

(* The loop of ahci_driver_init starts with the first port of the first    *)
(* controller: for a later one that is a place its array never got, which  *)
(* may still hold what the last driver left on the stack.                  *)
NextPort ==
  /\ pc = "loop"
  /\ index < port_count
  /\ pc' \in IF ports[index] = Unset THEN {"stop", "undefined"} ELSE {"stop"}
  /\ UNCHANGED <<driver, memory, hba, spin, verdict, written, missed>>

EndOfPorts ==
  /\ pc = "loop"
  /\ index >= port_count
  /\ pc' = "pci"
  /\ UNCHANGED <<driver, memory, hba, spin, verdict, written, missed>>

(* ahci_port_stop_cmd does not wait for the port to stop.                  *)
ahci_port_stop_cmd ==
  /\ pc = "stop"
  /\ pc' = "configure"
  /\ hba' = [hba EXCEPT ![Port].start = FALSE]
  /\ UNCHANGED <<driver, memory, spin, verdict, written, missed>>

(* ahci_port_configure: a page for the command list, one for what the      *)
(* device sends, and one for each of 32 command tables; then               *)
(* ahci_port_start_cmd.  A page that could not be had is the one at        *)
(* address 0, where the record is.                                         *)
PortPages == 34

ahci_port_configure ==
  /\ pc = "configure"
  /\ used' = used + PortPages
  /\ pc' = IF used' > machine.pages THEN "undefined" ELSE "read"
  /\ hba' = [hba EXCEPT ![Port].list = used + 1, ![Port].start = TRUE]
  /\ missed' = (missed \/ hba[Port].running)
  /\ command' = command
  /\ UNCHANGED <<driver, buffer, spin, verdict, written>>

-----------------------------------------------------------------------------
(***************************************************************************)
(* ahci_port_read.                                                         *)
(***************************************************************************)
(* Mistaken: the errors of an earlier command are left standing.           *)
PrepareKeepsErrors ==
  /\ pc = "read"
  /\ used' = used + 1
  /\ pc' = IF used' > machine.pages THEN "undefined" ELSE "spin"
  /\ buffer' = used'
  /\ command' = [command EXCEPT ![hba[Port].list] = buffer']
  /\ spin' = 0
  /\ UNCHANGED <<driver, hba, verdict, written, missed>>

(* Mistaken: the device is told to transfer to the command's own table.    *)
PrepareTransfersToTable ==
  /\ pc = "read"
  /\ used' = used + 1
  /\ pc' = IF used' > machine.pages THEN "undefined" ELSE "spin"
  /\ buffer' = used'
  /\ hba' = [hba EXCEPT ![Port].error = FALSE]
  /\ command' = [command EXCEPT ![hba[Port].list] = hba[Port].list + 2]
  /\ spin' = 0
  /\ UNCHANGED <<driver, verdict, written, missed>>

(* The buffer is a page of its own.  Errors of an earlier command are      *)
(* cleared, and the command is written to slot 0.                          *)
PrepareCommand ==
  /\ pc = "read"
  /\ used' = used + 1
  /\ pc' = IF used' > machine.pages THEN "undefined" ELSE "spin"
  /\ buffer' = used'
  /\ hba' = [hba EXCEPT ![Port].error = FALSE]
  /\ command' = [command EXCEPT ![hba[Port].list] = buffer']
  /\ spin' = 0
  /\ UNCHANGED <<driver, verdict, written, missed>>

Return(v) ==
  /\ verdict' = v
  /\ pc' = "returned"

(* The device is waited for, but not for ever; one that gets ready at the  *)
(* last moment is too late as well.                                        *)
Spin ==
  /\ pc = "spin"
  /\ hba[Port].busy /\ spin < MaxSpin
  /\ spin' = spin + 1
  /\ UNCHANGED <<driver, pc, memory, hba, verdict, written, missed>>

GiveUp ==
  /\ pc = "spin"
  /\ spin = MaxSpin
  /\ Return(FALSE)
  /\ UNCHANGED <<driver, memory, hba, spin, written, missed>>

Issue ==
  /\ pc = "spin"
  /\ ~hba[Port].busy /\ spin < MaxSpin
  /\ pc' = "poll"
  /\ hba' = [hba EXCEPT ![Port].issued = TRUE]
  /\ UNCHANGED <<driver, memory, spin, verdict, written, missed>>

(* The poll has no limit: it looks at the command, then at the error bit.  *)
PollCommand ==
  /\ pc = "poll"
  /\ IF hba[Port].issued THEN pc' = "poll error" /\ UNCHANGED verdict ELSE Return(TRUE)
  /\ UNCHANGED <<driver, memory, hba, spin, written, missed>>

(* Mistaken: the error bit is not looked at.                               *)
PollErrorNot ==
  /\ pc = "poll error"
  /\ pc' = "poll"
  /\ UNCHANGED <<driver, memory, hba, spin, verdict, written, missed>>

PollError ==
  /\ pc = "poll error"
  /\ IF hba[Port].error THEN Return(FALSE) ELSE pc' = "poll" /\ UNCHANGED verdict
  /\ UNCHANGED <<driver, memory, hba, spin, written, missed>>

PrintVerdict ==
  /\ pc = "returned"
  /\ pc' = "loop"
  /\ index' = index + 1
  /\ UNCHANGED <<machine, todo, controller, ports, port_count, records,
                 memory, hba, spin, verdict, written, missed>>

Driver ==
  \/ PrepareAcpi \/ StartDriver \/ EndOfWalk
  \/ ahci_driver_probe_ports \/ NextPort \/ EndOfPorts
  \/ ahci_port_stop_cmd \/ ahci_port_configure
  \/ PrepareCommand \/ Spin \/ GiveUp \/ Issue \/ PollCommand \/ PollError
  \/ PrintVerdict

-----------------------------------------------------------------------------
(***************************************************************************)
(* The controllers.  A running port works with the command list it found   *)
(* when it was started, or with the one it is given meanwhile.             *)
(***************************************************************************)

HbaStep(p, state) ==
  /\ hba' = [hba EXCEPT ![p] = state]
  /\ UNCHANGED <<driver, pc, memory, spin, verdict, missed>>

PortStops(p) ==
  /\ hba[p].running /\ ~hba[p].start
  /\ HbaStep(p, [hba[p] EXCEPT !.running = FALSE, !.issued = FALSE, !.halted = FALSE])
  /\ UNCHANGED written

PortStarts(p) ==
  /\ hba[p].start /\ ~hba[p].running
  /\ HbaStep(p, [hba[p] EXCEPT !.running = TRUE, !.using = hba[p].list])
  /\ UNCHANGED written

Working(p) == hba[p].running /\ hba[p].issued /\ ~hba[p].halted

(* The device transfers the sectors.  One that is no plain disk does not   *)
(* know the command.                                                       *)
Complete(p) ==
  /\ Working(p)
  /\ machine.ports[p[1]][p[2]].signature = "SATA"
  /\ HbaStep(p, [hba[p] EXCEPT !.issued = FALSE])
  /\ \E list \in {hba[p].using, hba[p].list} :
       written' = written \union {<<command[list], p>>}

(* An error halts the port until it is stopped.                            *)
Fail(p) ==
  /\ Working(p)
  /\ HbaStep(p, [hba[p] EXCEPT !.error = TRUE, !.halted = TRUE])
  /\ UNCHANGED written

GetsReady(p) ==
  /\ hba[p].busy
  /\ HbaStep(p, [hba[p] EXCEPT !.busy = FALSE])
  /\ UNCHANGED written

Device(p) == PortStops(p) \/ PortStarts(p) \/ Complete(p) \/ Fail(p) \/ GetsReady(p)

-----------------------------------------------------------------------------
(* The firmware may have left the ports running, with a command list of    *)
(* its own.                                                                *)
Init ==
  /\ machine \in Machines
  /\ pc = "acpi"
  /\ todo = {}
  /\ controller = <<0, 0, 0>>
  /\ ports = [k \in 0 .. PortSlots - 1 |-> Unset]
  /\ port_count = 0
  /\ index = 0
  /\ records = [a \in {NULL} |-> <<>>]
  /\ used = 0
  /\ \E running, busy \in BOOLEAN :
       hba = [p \in DiskPorts(machine) |->
                [start |-> running, running |-> running, list |-> Firmware, using |-> Firmware,
                 issued |-> FALSE, error |-> FALSE, halted |-> FALSE, busy |-> busy]]
  /\ command = [l \in {Firmware} \union 1 .. machine.pages |-> Firmware]
  /\ buffer = NULL
  /\ spin = 0
  /\ verdict = FALSE
  /\ written = {}
  /\ missed = FALSE

Next == Driver \/ \E p \in DOMAIN hba : Device(p)

(* A port starts and answers sooner or later, but need not notice that it  *)
(* was stopped for a moment; a busy device need not get ready.             *)
Fairness ==
  /\ WF_vars(Driver)
  /\ \A c \in UNION {DOMAIN m.ports : m \in Machines}, i \in 0 .. 31 :
       LET p == <<c, i>>
       IN  /\ WF_vars(p \in DOMAIN hba /\ PortStarts(p))
           /\ WF_vars(p \in DOMAIN hba /\ (Complete(p) \/ Fail(p)))

Spec == Init /\ [][Next]_vars /\ Fairness

-----------------------------------------------------------------------------
(* Every variable has its type.                                            *)
HbaPort == [start : BOOLEAN, running : BOOLEAN, list : Int, using : Int,
            issued : BOOLEAN, error : BOOLEAN, halted : BOOLEAN, busy : BOOLEAN]
TypeOK ==
  /\ machine \in Machines
  /\ pc \in {"acpi", "pci", "probe", "loop", "stop", "configure", "read", "spin", "poll",
             "poll error", "returned", "done", "undefined"}
  /\ todo \subseteq (DOMAIN machine.segments) \X (DOMAIN machine.ports)
  /\ controller \in (DOMAIN machine.ports) \union {<<0, 0, 0>>}
  /\ ports \in [0 .. PortSlots - 1 -> {Unset, NULL}]
  /\ port_count \in Nat /\ index \in Nat
  /\ records \in [{NULL} -> DiskPorts(machine) \union {<<>>}]
  /\ used \in Nat /\ buffer \in Nat
  /\ hba \in [DiskPorts(machine) -> HbaPort]
  /\ command \in [{Firmware} \union 1 .. machine.pages -> Int]
  /\ spin \in 0 .. MaxSpin
  /\ verdict \in BOOLEAN /\ missed \in BOOLEAN
  /\ written \subseteq Int \X DiskPorts(machine)

(* A read that says it succeeded has the disk's sectors in its own buffer, *)
(* and one that says it failed has not, whatever became of the commands    *)
(* before it - unless a port that had not stopped was started again.       *)
VerdictsAreTrue ==
  pc = "returned" /\ ~missed => (verdict <=> <<buffer, Port>> \in written)

(* Whatever is read goes to a page requested as a buffer: never to where   *)
(* the firmware had its own commands, and never to a page in use for       *)
(* something else.                                                         *)
DmaStaysInBuffers ==
  ~missed => \A w \in written : w[1] > 0 /\ w[1] % (PortPages + 1) = 0

(* The driver gets through all the disks, also with devices that fail or   *)
(* stay busy, although its poll has no limit - unless a port with an error *)
(* never noticed that it was stopped.                                      *)
DriverEnds == <>(pc \in {"done", "undefined"} \/ missed)
=============================================================================
