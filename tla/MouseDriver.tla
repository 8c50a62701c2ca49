------------------------------ MODULE MouseDriver ------------------------------
(***************************************************************************)
(* The PS/2 mouse driver (drivers/mouse.c) between its interrupt handler   *)
(* and the main loop.  The handler stores one byte of the stream per       *)
(* interrupt; the third byte raises packet_ready.  The main loop takes the *)
(* packet apart over many instructions, between any two of which the       *)
(* handler may run again (it runs with interrupts off, so it is atomic),   *)
(* and lowers packet_ready at the very end.                                *)
(*                                                                         *)
(* The device's stream is numbered: serial is the number, modulo 6, of the *)
(* byte the device sends next, so a byte's place in its own packet is its  *)
(* number modulo 3.  While init_mouse runs, interrupts are on already, and *)
(* the answers to its two commands come on the same port: each is taken    *)
(* either by the poll in mouse_read or by the interrupt handler.  The port *)
(* is the keyboard's as well, so a poll, and either handler, may also find *)
(* a byte that was not meant for it, or read the last byte once more; the  *)
(* module Interrupts says when, and here anything may happen.              *)
(***************************************************************************)
EXTENDS MousePacket

CONSTANTS
  Bytes,   (* the bytes the device may send                                  *)
  Strays   (* what the handler may read that the device has not sent         *)

ASSUME BytesAssumption == Bytes \subseteq Byte /\ Strays \subseteq Byte

VARIABLES
  pc,            (* where the main loop is                                   *)
  mouse_cycle,   (* place of the next byte in the packet                     *)
  mouse_packet,  (* its three bytes                                          *)
  packet_ready,
  flags,         (* local copy of the first byte in process_mouse_packet     *)
  position,      (* mouse.position                                           *)
  buttons,       (* mouse.left_clicked, right_clicked and middle_clicked     *)
  pending,       (* answers of the device nobody has read                    *)
  serial,        (* number of the device's next byte                         *)
  origin,        (* history: the number of each byte in mouse_packet         *)
  slips,         (* history: answers stored minus bytes dropped, modulo 3    *)
  torn,          (* history: a byte of the packet being stored went elsewhere*)
  received,      (* history: the packet as the handler completed it          *)
  before         (* history: mouse.position when processing began            *)

driver  == <<mouse_cycle, mouse_packet, packet_ready>>
history == <<origin, slips, torn, received, before>>
vars    == <<pc, driver, flags, position, buttons, pending, serial, history>>

Commands   == {"F6", "ack F6", "F4", "ack F4"}
Processing == {"x", "y", "clamp", "buttons", "release"}

(* An answer has no place in the stream of movement bytes.                 *)
Answer == 6
ACK == 250

-----------------------------------------------------------------------------
(***************************************************************************)
(* mouse_handle, called by the interrupt handler with the byte it has      *)
(* read; from is the byte's number.  The test of bit 3 on the first byte   *)
(* parses as data & (0xb00001000 == 0), which is 0: no byte is refused.    *)
(***************************************************************************)
(* Mistaken forms: a byte is stored although a packet waits; the case of   *)
(* the first byte falls through to the second; the cycle is not reset.     *)
StoreAlways(data, from) ==
  /\ mouse_packet' = [mouse_packet EXCEPT ![mouse_cycle] = data]
  /\ origin' = [origin EXCEPT ![mouse_cycle] = from]
  /\ mouse_cycle' = (mouse_cycle + 1) % 3
  /\ packet_ready' = (packet_ready \/ mouse_cycle = 2)
  /\ received' = IF mouse_cycle = 2 THEN mouse_packet' ELSE received
  /\ slips' = IF from = Answer THEN (slips + 1) % 3 ELSE slips
  /\ torn' = (torn /\ mouse_cycle # 0)
  /\ UNCHANGED before

StoreFallsThrough(data, from) ==
  /\ ~packet_ready
  /\ mouse_packet' = [i \in 0 .. 2 |->
       IF i = mouse_cycle \/ (mouse_cycle = 0 /\ i = 1) THEN data ELSE mouse_packet[i]]
  /\ origin' = [origin EXCEPT ![mouse_cycle] = from]
  /\ mouse_cycle' = IF mouse_cycle = 1 THEN 2 ELSE 2 - mouse_cycle
  /\ packet_ready' = (mouse_cycle = 2)
  /\ received' = IF mouse_cycle = 2 THEN mouse_packet' ELSE received
  /\ slips' = IF from = Answer THEN (slips + 1) % 3 ELSE slips
  /\ torn' = (torn /\ mouse_cycle # 0)
  /\ UNCHANGED before

(* The handler as it is.                                                   *)
Store(data, from) ==
  /\ ~packet_ready
  /\ mouse_packet' = [mouse_packet EXCEPT ![mouse_cycle] = data]
  /\ origin' = [origin EXCEPT ![mouse_cycle] = from]
  /\ mouse_cycle' = (mouse_cycle + 1) % 3
  /\ packet_ready' = (mouse_cycle = 2)
  /\ received' = IF mouse_cycle = 2 THEN mouse_packet' ELSE received
  /\ slips' = IF from = Answer THEN (slips + 1) % 3 ELSE slips
  /\ torn' = (torn /\ mouse_cycle # 0)
  /\ UNCHANGED before

Drop(from) ==
  /\ packet_ready
  /\ slips' = IF from = Answer THEN slips ELSE (slips + 2) % 3
  /\ UNCHANGED <<driver, origin, torn, received, before>>

mouse_handle(data, from) == Store(data, from) \/ Drop(from)

(* The device moves only once init_mouse has enabled it, and has answered  *)
(* before.                                                                 *)
Streaming == pending = 0 /\ pc \notin {"F6", "ack F6", "F4"}

(* The interrupt handler reads a movement byte.                            *)
MovementByte(data) ==
  /\ Streaming
  /\ mouse_handle(data, serial)
  /\ serial' = (serial + 1) % 6
  /\ UNCHANGED <<pc, flags, position, buttons, pending>>

(* The interrupt handler reads a byte that is not of the device's stream:  *)
(* it cannot tell, and stores it.                                          *)
StrayByte(data) ==
  /\ mouse_handle(data, Answer)
  /\ UNCHANGED <<pc, flags, position, buttons, pending, serial>>

(* What becomes of the device's bytes when somebody else reads the port:   *)
(* an answer is gone, a movement byte is lost to the driver, or it was not *)
(* the device's.                                                           *)
TakeAnswer ==
  /\ pending > 0
  /\ pending' = pending - 1
  /\ UNCHANGED <<serial, slips, torn>>

TakeMovement ==
  /\ Streaming
  /\ serial' = (serial + 1) % 6
  /\ slips' = (slips + 2) % 3
  /\ torn' = (torn \/ mouse_cycle # 0)
  /\ UNCHANGED pending

TakeNothing == UNCHANGED <<pending, serial, slips, torn>>

(* The keyboard's handler reads a byte of the mouse.                       *)
TakenElsewhere ==
  /\ TakeAnswer \/ TakeMovement
  /\ UNCHANGED <<pc, driver, flags, position, buttons, origin, received, before>>

-----------------------------------------------------------------------------
(* init_mouse.                                                             *)

Follow(from, to) == pc = from /\ pc' = to

(* mouse_write of a command: the device will answer.                       *)
WriteCommand ==
  /\ Follow("F6", "ack F6") \/ Follow("F4", "ack F4")
  /\ pending' = pending + 1
  /\ UNCHANGED <<driver, flags, position, buttons, serial, history>>

(* The interrupt handler reads the answer.                                 *)
AnswerByte ==
  /\ pending > 0
  /\ pending' = pending - 1
  /\ mouse_handle(ACK, Answer)
  /\ UNCHANGED <<pc, flags, position, buttons, serial>>

(* mouse_read: the poll finds the answer, or runs out of its 100000 tries  *)
(* because the handler has taken it, or finds what it does not look for.   *)
(* It does not look at what it has read.                                   *)
mouse_read ==
  /\ Follow("ack F6", "F4") \/ Follow("ack F4", "loop")
  /\ UNCHANGED <<driver, flags, position, buttons, origin, received, before>>

ReadAnswer == mouse_read /\ (TakeAnswer \/ TakeMovement \/ TakeNothing)

-----------------------------------------------------------------------------
(***************************************************************************)
(* process_mouse_packet.  It returns at once when no packet is ready, and  *)
(* the main loop goes on to draw; nothing of that is seen here.            *)
(***************************************************************************)
(* A mistaken form that gives the packet back before it has been read.     *)
ReadFlagsReleases ==
  /\ Follow("loop", "x")
  /\ packet_ready
  /\ packet_ready' = FALSE
  /\ flags' = mouse_packet[0]
  /\ before' = position
  /\ UNCHANGED <<mouse_cycle, mouse_packet, position, buttons, pending, serial, origin, slips, torn, received>>

ReadFlags ==
  /\ Follow("loop", "x")
  /\ packet_ready
  /\ flags' = mouse_packet[0]
  /\ before' = position
  /\ UNCHANGED <<driver, position, buttons, pending, serial, origin, slips, torn, received>>

MoveX ==
  /\ Follow("x", "y")
  /\ position' = [position EXCEPT !.x = MovedX(flags, mouse_packet[1], @)]
  /\ mouse_packet' = [mouse_packet EXCEPT ![1] = Unsigned(PS2XSign(flags), @)]
  /\ UNCHANGED <<mouse_cycle, packet_ready, flags, buttons, pending, serial, history>>

MoveY ==
  /\ Follow("y", "clamp")
  /\ position' = [position EXCEPT !.y = MovedY(flags, mouse_packet[2], @)]
  /\ mouse_packet' = [mouse_packet EXCEPT ![2] = Unsigned(PS2YSign(flags), @)]
  /\ UNCHANGED <<mouse_cycle, packet_ready, flags, buttons, pending, serial, history>>

ClampPosition ==
  /\ Follow("clamp", "buttons")
  /\ position' = Clamped(position)
  /\ UNCHANGED <<driver, flags, buttons, pending, serial, history>>

ReadButtons ==
  /\ Follow("buttons", "release")
  /\ buttons' = Pressed(mouse_packet[0])
  /\ UNCHANGED <<driver, flags, position, pending, serial, history>>

(* The local variables are gone with the function, and with them the       *)
(* history of the packet.                                                  *)
Forgotten ==
  /\ flags' = 0
  /\ before' = position
  /\ received' = [i \in 0 .. 2 |-> 0]
  /\ origin' = [i \in 0 .. 2 |-> Answer]
  /\ torn' = FALSE

(* A mistaken form that never gives the packet back.                       *)
ReleaseForgotten ==
  /\ Follow("release", "loop")
  /\ Forgotten
  /\ UNCHANGED <<driver, position, buttons, pending, serial, slips>>

Release ==
  /\ Follow("release", "loop")
  /\ packet_ready' = FALSE
  /\ Forgotten
  /\ UNCHANGED <<mouse_cycle, mouse_packet, position, buttons, pending, serial, slips>>

MainLoop ==
  WriteCommand \/ ReadAnswer
    \/ ReadFlags \/ MoveX \/ MoveY \/ ClampPosition \/ ReadButtons \/ Release

Interrupt ==
  \/ AnswerByte
  \/ \E data \in Bytes : MovementByte(data)
  \/ \E data \in Strays : StrayByte(data)
  \/ TakenElsewhere

-----------------------------------------------------------------------------
Init ==
  /\ pc = "F6"
  /\ mouse_cycle = 0
  /\ mouse_packet = [i \in 0 .. 2 |-> 0]
  /\ packet_ready = FALSE
  /\ flags = 0
  /\ position = [x |-> 0, y |-> 0]
  /\ buttons = [left |-> FALSE, right |-> FALSE, middle |-> FALSE]
  /\ pending = 0
  /\ serial = 0
  /\ origin = [i \in 0 .. 2 |-> Answer]
  /\ slips = 0
  /\ torn = FALSE
  /\ received = mouse_packet
  /\ before = position

Next == MainLoop \/ Interrupt

(* The main loop keeps running: an interrupt handler always returns.  The  *)
(* device promises nothing.                                                *)
Fairness == WF_vars(MainLoop)

Spec == Init /\ [][Next]_vars /\ Fairness

-----------------------------------------------------------------------------
TypeOK ==
  /\ pc \in Commands \union {"loop"} \union Processing
  /\ mouse_cycle \in 0 .. 2
  /\ mouse_packet \in Packet
  /\ packet_ready \in BOOLEAN
  /\ flags \in Byte
  /\ position \in [x : Int, y : Int]
  /\ buttons \in [left : BOOLEAN, right : BOOLEAN, middle : BOOLEAN]
  /\ pending \in 0 .. 2
  /\ serial \in 0 .. 5
  /\ origin \in [0 .. 2 -> 0 .. 6]
  /\ slips \in 0 .. 2
  /\ torn \in BOOLEAN
  /\ received \in Packet
  /\ before \in [x : Int, y : Int]

(* While a packet waits or is being processed, what the main loop sees of  *)
(* it is what the handler completed, up to the signs it takes off itself:  *)
(* no byte of a later packet gets in between its reads.                    *)
PacketStable ==
  packet_ready =>
    /\ mouse_packet[0] = received[0]
    /\ pc \in {"loop", "x"} => mouse_packet[1] = received[1]
    /\ pc \in {"loop", "x", "y"} => mouse_packet[2] = received[2]
    /\ pc \in Processing => flags = received[0]

(* The pointer is on the screen whenever the rest of the main loop looks   *)
(* at it, whatever bytes arrived.                                          *)
PointerOnScreen == pc \notin {"y", "clamp"} => position \in Screen

(* The movement bytes next to each other in a completed packet are         *)
(* adjacent in the stream: bytes are dropped only between packets, never   *)
(* inside one - unless one was read by somebody else just then.            *)
AdjacentBytes ==
  packet_ready /\ ~torn =>
    \A i \in 0 .. 1 :
      origin[i] # Answer /\ origin[i + 1] # Answer => origin[i + 1] = (origin[i] + 1) % 6

(* The driver is out of step with the device by exactly the strays it took *)
(* for movement minus the bytes it dropped or lost: it is in step again    *)
(* only when these happen to cancel out, and never by looking at a byte.   *)
StreamPhase == mouse_cycle = (serial + slips) % 3

(* Processing a packet over many steps, with interrupts between any two of *)
(* them, amounts to applying the packet to the pointer as a whole, once.   *)
Pointer == INSTANCE MousePointer WITH
  inbox    <- IF packet_ready /\ pc # "release" THEN received ELSE <<>>,
  position <- IF pc \in {"y", "clamp", "buttons"} THEN before ELSE position
PointerSpec == Pointer!Spec

(* The driver never stops listening: as long as the device keeps sending,  *)
(* packets keep being completed and keep being taken, also when bytes are  *)
(* dropped and when the stream is out of step.                             *)
KeepsListening ==
  []<><<\E data \in Bytes : MovementByte(data)>>_vars
    => []<>packet_ready /\ []<>~packet_ready
=============================================================================
