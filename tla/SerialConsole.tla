----------------------------- MODULE SerialConsole -----------------------------
(***************************************************************************)
(* The boot loader with its messages.  debug_print_line (bootloader/src/   *)
(* main.c) writes to the serial port once there is one, and to the         *)
(* firmware's console before; print_to_serial_out (serial.c) reports that  *)
(* the port fails by calling debug_print_line, which writes to the port.   *)
(* The loader goes on when all the calls within one another have returned. *)
(***************************************************************************)
EXTENDS BootLoader

CONSTANT MaxFailures   (* how often in a row the serial port fails           *)

ASSUME ConsoleAssumption == MaxFailures \in Nat

VARIABLES
  protocol,   (* whether serial_service.protocol is set                      *)
  depth,      (* calls of debug_print_line within one another                *)
  failures,   (* failures of the port in a row                               *)
  printed     (* whether the message that goes with the next step is out     *)

console == <<protocol, depth, failures, printed>>
all     == <<vars, console>>

(* From init_serial_service on there is a protocol, even if it cannot be   *)
(* configured afterwards; where none is found the step is taken without.   *)
LocateProtocol ==
  /\ pc = "serial" /\ depth = 0 /\ ~protocol
  /\ protocol' = TRUE
  /\ printed' = FALSE
  /\ UNCHANGED <<vars, depth, failures>>

(* debug_print_line, called for at most one message a step.  Nothing is    *)
(* printed once boot services have ended.                                  *)
debug_print_line ==
  /\ pc \notin {"enter", "entered", "failed"}
  /\ depth = 0 /\ ~printed
  /\ IF protocol THEN depth' = 1 /\ UNCHANGED printed ELSE printed' = TRUE /\ UNCHANGED depth
  /\ UNCHANGED <<vars, protocol, failures>>

(* print_to_serial_out.  A port that fails, or writes only a part, is      *)
(* reported with another message.                                          *)
WriteFails ==
  /\ depth > 0
  /\ failures < MaxFailures
  /\ failures' = failures + 1
  /\ depth' = depth + 1
  /\ UNCHANGED <<vars, protocol, printed>>

(* The innermost call succeeds.  Each of the others returns its error to a *)
(* caller that ignores it.                                                 *)
WriteSucceeds ==
  /\ depth > 0
  /\ depth' = 0 /\ failures' = 0
  /\ printed' = TRUE
  /\ UNCHANGED <<vars, protocol>>

print_to_serial_out == WriteFails \/ WriteSucceeds

(* A step of the loader, between messages.  It says why when it gives up.  *)
Turn ==
  /\ depth = 0
  /\ efi_main
  /\ pc' = "failed" => printed
  /\ printed' = FALSE
  /\ UNCHANGED <<protocol, depth, failures>>

Thread == LocateProtocol \/ debug_print_line \/ print_to_serial_out \/ Turn

ConsoleInit == Init /\ protocol = FALSE /\ depth = 0 /\ failures = 0 /\ printed = FALSE
ConsoleNext == Thread \/ (FirmwareEvent /\ UNCHANGED console)

(* The firmware's calls return.                                            *)
ConsoleSpec == ConsoleInit /\ [][ConsoleNext]_all /\ WF_all(Thread)

-----------------------------------------------------------------------------
(* The loader comes to an end, with every kernel and however calls fail,   *)
(* though a port that fails is told of its failure: it does not fail for   *)
(* ever.                                                                   *)
LoaderEnds == <>(pc \in {"entered", "failed"})
=============================================================================
