------------------------------ MODULE Interrupts ------------------------------
(***************************************************************************)
(* Keyboard and mouse on one port.  Both devices, and the controller's own *)
(* answers, put one byte at a time into the one output register of the     *)
(* keyboard controller and raise interrupt 1 or 12; the two handlers of    *)
(* interrupts/interrupts.c and the polls of init_mouse (drivers/mouse.c)   *)
(* all read that register, and none of them looks where its byte is from.  *)
(* Reading an empty register gives the last byte once more.                *)
(*                                                                         *)
(* Before any of it prepare_interrupts (interrupts/idt.c) writes the gates *)
(* and sets up the two interrupt controllers, with interrupts off.  The    *)
(* controllers latch a request when the byte arrives and forget what was   *)
(* latched when they are set up.  A handler runs with interrupts off, so   *)
(* each is one step.                                                       *)
(*                                                                         *)
(* This module composes the keyboard with the steps of MouseDriver, and    *)
(* says which of the things MouseDriver allows can happen.                 *)
(***************************************************************************)
EXTENDS MouseDriver, Keyboard, FiniteSets, TLC

CONSTANTS
  IdtFrame,        (* the page frame prepare_interrupts is given             *)
  FirmwareConfig,  (* configuration byte the firmware leaves in the          *)
                   (* controller                                             *)
  KeyCodes,        (* the keys that may be pressed                           *)
  MaxPresses,      (* bound: how often keys are pressed                      *)
  MaxMoves,        (* bound: the movement bytes the mouse sends when keys    *)
                   (* are pressed as well                                    *)
  Jog              (* and the value these have                               *)

ASSUME MachineAssumption ==
  /\ IdtFrame \in Nat
  /\ FirmwareConfig \in Byte
  /\ KeyCodes \subseteq 1 .. 127
  /\ MaxPresses \in Nat
  /\ MaxMoves \in 0 .. 5
  /\ Jog \in Bytes
  /\ Strays = Byte

VARIABLES
  typing,         (* bound: whether keys are pressed, MaxPresses times, and  *)
                  (* the mouse sends MaxMoves bytes; or the mouse sends on   *)
                  (* and on, and no key is pressed                           *)
  setup,          (* how far kernel_main has got up to the mouse's commands  *)
  interrupts_on,  (* the interrupt flag outside of handlers                  *)
  requests,       (* the latched requests of the interrupt controllers       *)
  service,        (* the requests a handler has begun and not ended          *)
  port,           (* the output register: whose byte it holds, and its byte  *)
  answer,         (* the controller's own answer on its way to the register  *)
  config,         (* the controller's configuration byte                     *)
  status,         (* init_mouse's copy of it                                 *)
  keys,           (* codes the keyboard has not delivered                    *)
  held,           (* the keys held down                                      *)
  presses,        (* how often a key was pressed                             *)
  shift_pressed,
  owed,           (* history: characters still to be typed for the keys      *)
                  (* pressed                                                 *)
  early,          (* history: a key's byte came before the configuration was *)
                  (* read                                                    *)
  strayed         (* history: a key's byte was read by somebody else, or     *)
                  (* another byte as the code of a key that matters          *)

controllers == <<interrupts_on, requests, service>>
keyboard    == <<keys, held, presses, shift_pressed, owed>>
machine     == <<typing, setup, controllers, port, answer, config, status, keyboard, early, strayed>>
system      == <<vars, machine>>

-----------------------------------------------------------------------------
(***************************************************************************)
(* prepare_interrupts and the interrupt controllers.                       *)
(***************************************************************************)
Timer == 0
Keys  == 1
Slave == 2
Mouse == 12

(* remap_pic: the first vectors of the two controllers, and the masks that *)
(* prepare_interrupts writes after it.                                     *)
Vector(irq) == IF irq < 8 THEN 32 + irq ELSE 40 + (irq - 8)
Unmasked    == {Timer, Keys, Slave, Mouse}

Faults == {0, 4, 5, 6, 8, 13, 14}

(* The gates by address.  The field for the table's address has 16 bits,  *)
(* so that the gates of a table above 64 KiB go to another page; lidt      *)
(* reads the same field (and takes the zeros behind it for the rest).      *)
idtr_offset == (IdtFrame * 4096) % 65536
GateBytes   == 16

Handlers ==
  [v \in Faults |-> "fault"]
    @@ (33 :> "keyboard_int_handler") @@ (44 :> "mouse_int_handler") @@ (32 :> "pit_int_handler")

Gates == [a \in {idtr_offset + GateBytes * v : v \in DOMAIN Handlers} |->
            Handlers[(a - idtr_offset) \div GateBytes]]

Runs(vector, handler) ==
  LET a == idtr_offset + GateBytes * vector
  IN  a \in DOMAIN Gates /\ Gates[a] = handler

(* An end of interrupt ends the most urgent request in service.            *)
Ended(served, lines) ==
  served \ {i \in served \intersect lines : \A j \in served \intersect lines : i <= j}

pic_endmaster(served) == Ended(served, 0 .. 7)

(* Mistaken: only the master is told.                                      *)
EndMasterOnly(served) == Ended(served, 0 .. 7)
pic_endslave(served) == Ended(Ended(served, 8 .. 15), 0 .. 7)

(* The slave's requests reach the processor by this line of the master.    *)
Line(irq) == IF irq < 8 THEN irq ELSE Slave

(* The processor takes a request that is not masked when no handler of one *)
(* as urgent is in service, and finds that handler in its gate.            *)
Dispatched(irq, handler) ==
  /\ interrupts_on
  /\ {irq, Line(irq)} \subseteq Unmasked
  /\ \A i \in service : (IF i < 8 THEN Line(irq) ELSE irq) < i
  /\ Runs(Vector(irq), handler)

PrepareInterrupts ==
  /\ setup = "boot"
  /\ setup' = "A8"
  /\ interrupts_on' = TRUE
  /\ requests' = {}
  /\ service' = {}
  /\ UNCHANGED <<vars, typing, port, answer, config, status, keyboard, early, strayed>>

-----------------------------------------------------------------------------
(* The controller of keyboard and mouse.                                   *)

SetBit(b, weight)   == IF Bit(b, weight) THEN b ELSE b + weight
ClearBit(b, weight) == IF Bit(b, weight) THEN b - weight ELSE b

KeyInterrupt(b) == Bit(b, 1)
AuxInterrupt(b) == Bit(b, 2)
KeyOff(b)       == Bit(b, 16)
AuxOff(b)       == Bit(b, 32)

Read == [port EXCEPT !.from = "nobody"]

(* A byte goes to the register when it is empty.                           *)
Put(from, byte, irq, on) ==
  /\ port.from = "nobody"
  /\ port' = [from |-> from, byte |-> byte]
  /\ requests' = IF on THEN requests \union {irq} ELSE requests
  /\ UNCHANGED <<interrupts_on, service>>

(* The controller's answer; to the processor it is a byte like a key's.    *)
PutConfig ==
  /\ answer # <<>>
  /\ Put("controller", answer[1], Keys, KeyInterrupt(config))
  /\ answer' = <<>>
  /\ UNCHANGED <<vars, typing, setup, config, status, keyboard, early, strayed>>

PutKey ==
  /\ keys # <<>>
  /\ ~KeyOff(config)
  /\ Put("keyboard", Head(keys), Keys, KeyInterrupt(config))
  /\ keys' = Tail(keys)
  /\ early' = (early \/ setup \in {"boot", "A8", "20", "read"})
  /\ UNCHANGED <<vars, typing, setup, answer, config, status, held, presses, shift_pressed, owed, strayed>>

(* A byte of the mouse: what it owes an answer for comes first.            *)
PutMouse(byte) ==
  /\ setup = "done"
  /\ IF pending > 0 THEN byte = ACK
     ELSE /\ Streaming
          /\ byte \in Bytes
          /\ typing => serial < MaxMoves /\ byte = Jog
  /\ ~AuxOff(config)
  /\ Put("mouse", byte, Mouse, AuxInterrupt(config))
  /\ UNCHANGED <<vars, typing, setup, answer, config, status, keyboard, early, strayed>>

Printable(code) == get_ascii_char(code, FALSE) # NoChar

(* Keys go down and up.                                                    *)
Press(c) ==
  /\ typing
  /\ c \in KeyCodes \ held
  /\ presses < MaxPresses
  /\ presses' = presses + 1
  /\ held' = held \union {c}
  /\ keys' = Append(keys, c)
  /\ owed' = IF Printable(c) /\ ~strayed THEN owed + 1 ELSE owed
  /\ UNCHANGED <<vars, typing, setup, controllers, port, answer, config, status, shift_pressed, early, strayed>>

LiftUp(c) ==
  /\ c \in held
  /\ held' = held \ {c}
  /\ keys' = Append(keys, c + RELEASED_OFFSET)
  /\ UNCHANGED <<vars, typing, setup, controllers, port, answer, config, status,
                 presses, shift_pressed, owed, early, strayed>>

-----------------------------------------------------------------------------
(***************************************************************************)
(* The handlers.                                                           *)
(***************************************************************************)

(* What the reader of the register does to the mouse's stream when it is   *)
(* not the mouse's handler.                                                *)
Elsewhere == IF port.from = "mouse" THEN TakenElsewhere ELSE UNCHANGED vars

(* A byte that is the code of a key with a character, or of the shift key. *)
Matters(byte) == Printable(byte) \/ byte % RELEASED_OFFSET = KEY_LEFT_SHIFT

(* Nothing is owed any more once a byte has gone astray.                   *)
Typed(byte) ==
  owed' = IF strayed' THEN 0
          ELSE IF get_ascii_char(byte, shift_pressed') # NoChar THEN owed - 1 ELSE owed

(* keyboard_int_handler: the handler of the focused window gets the code.  *)
KeyboardInterrupt ==
  /\ Keys \in requests
  /\ Dispatched(Keys, "keyboard_int_handler")
  /\ port' = Read
  /\ shift_pressed' = ShiftAfter(port.byte, shift_pressed)
  /\ strayed' = (strayed \/ (port.from # "keyboard" /\ Matters(port.byte)))
  /\ Typed(port.byte)
  /\ Elsewhere
  /\ requests' = requests \ {Keys}
  /\ service' = pic_endmaster(service \union {Keys})
  /\ UNCHANGED <<typing, setup, interrupts_on, answer, config, status, keys, held, presses, early>>

(* mouse_int_handler.                                                      *)
MouseInterrupt ==
  /\ Mouse \in requests
  /\ Dispatched(Mouse, "mouse_int_handler")
  /\ port' = Read
  /\ IF port.from # "mouse" THEN StrayByte(port.byte)
     ELSE IF pending > 0 THEN AnswerByte ELSE MovementByte(port.byte)
  /\ strayed' = (strayed \/ port.from = "keyboard")
  /\ owed' = IF strayed' THEN 0 ELSE owed
  /\ requests' = requests \ {Mouse}
  /\ service' = pic_endslave(service \union {Slave, Mouse})
  /\ UNCHANGED <<typing, setup, interrupts_on, answer, config, status, keys, held, presses,
                 shift_pressed, early>>

(* pit_int_handler: a tick comes and is counted; only its end of interrupt *)
(* is seen here.                                                           *)
TimerInterrupt ==
  /\ Dispatched(Timer, "pit_int_handler")
  /\ service' = pic_endmaster(service \union {Timer})
  /\ UNCHANGED <<vars, typing, setup, interrupts_on, requests, port, answer, config, status,
                 keyboard, early, strayed>>

-----------------------------------------------------------------------------
(***************************************************************************)
(* init_mouse: the second port on, the configuration byte read, the        *)
(* mouse's interrupt set in it, and written back.                          *)
(***************************************************************************)
Step(from, to) == setup = from /\ setup' = to

EnableSecondPort ==
  /\ Step("A8", "20")
  /\ config' = ClearBit(config, 32)
  /\ UNCHANGED <<vars, typing, controllers, port, answer, status, keyboard, early, strayed>>

AskConfig ==
  /\ Step("20", "read")
  /\ answer' = <<config>>
  /\ UNCHANGED <<vars, typing, controllers, port, config, status, keyboard, early, strayed>>

(* A poll that reads a key's byte has taken it from the keyboard's handler.*)
Polled ==
  /\ port' = Read
  /\ strayed' = (strayed \/ port.from = "keyboard")
  /\ owed' = IF strayed' THEN 0 ELSE owed
  /\ UNCHANGED <<typing, controllers, answer, keys, held, presses, shift_pressed, early>>

(* Mistaken: the bit of the keyboard's interrupt is set.                   *)
ReadConfigOtherBit ==
  /\ Step("read", "60")
  /\ port.from # "nobody" \/ answer = <<>>
  /\ status' = SetBit(port.byte, 1)
  /\ Polled
  /\ UNCHANGED <<vars, typing, config>>

(* The poll sees a byte, the controller's answer or not; when a handler    *)
(* has taken it meanwhile the read gives the last byte.  The controller    *)
(* answers long before the poll gives up.                                  *)
ReadConfig ==
  /\ Step("read", "60")
  /\ port.from # "nobody" \/ answer = <<>>
  /\ status' = SetBit(port.byte, 2)
  /\ Polled
  /\ UNCHANGED <<vars, typing, config>>

(* A byte that waits raises its interrupt when that is switched on.        *)
WriteConfig ==
  /\ Step("60", "done")
  /\ config' = status
  /\ status' = 0
  /\ requests' = requests \union
       {irq \in {Keys} : port.from = "keyboard" /\ KeyInterrupt(status) /\ ~KeyInterrupt(config)}
  /\ early' = FALSE
  /\ UNCHANGED <<vars, typing, interrupts_on, service, port, answer, keyboard, strayed>>

(* The commands to the mouse.                                              *)
SendCommand ==
  /\ setup = "done"
  /\ WriteCommand
  /\ UNCHANGED machine

PollAnswer ==
  /\ mouse_read
  /\ IF port.from # "mouse" THEN TakeNothing
     ELSE IF pending > 0 THEN TakeAnswer ELSE TakeMovement
  /\ Polled
  /\ UNCHANGED <<typing, setup, config, status>>

ProcessPacket ==
  /\ ReadFlags \/ MoveX \/ MoveY \/ ClampPosition \/ ReadButtons \/ Release
  /\ UNCHANGED machine

-----------------------------------------------------------------------------
SystemInit ==
  /\ Init
  /\ typing \in BOOLEAN
  /\ setup = "boot"
  /\ interrupts_on = FALSE
  /\ requests = {}
  /\ service = {}
  /\ port = [from |-> "nobody", byte |-> 0]
  /\ answer = <<>>
  /\ config = FirmwareConfig
  /\ status = 0
  /\ keys = <<>>
  /\ held = {}
  /\ presses = 0
  /\ shift_pressed = FALSE
  /\ owed = 0
  /\ early = FALSE
  /\ strayed = FALSE

KernelMain ==
  \/ PrepareInterrupts
  \/ EnableSecondPort \/ AskConfig \/ ReadConfig \/ WriteConfig
  \/ SendCommand \/ PollAnswer \/ ProcessPacket

Devices ==
  \/ PutConfig
  \/ PutKey
  \/ \E byte \in Bytes \union {ACK} : PutMouse(byte)
  \/ \E c \in KeyCodes : Press(c) \/ LiftUp(c)

SystemNext ==
  \/ KernelMain
  \/ KeyboardInterrupt \/ MouseInterrupt \/ TimerInterrupt
  \/ Devices

(* kernel_main goes on, the processor takes requests, and the controller   *)
(* delivers its own answer; keys and mouse promise nothing.                *)
SystemFairness ==
  /\ WF_system(KernelMain)
  /\ WF_system(KeyboardInterrupt)
  /\ WF_system(MouseInterrupt)
  /\ WF_system(PutConfig)

SystemSpec == SystemInit /\ [][SystemNext]_system /\ SystemFairness

-----------------------------------------------------------------------------
(* init_mouse leaves the controller as the firmware had it, with the mouse *)
(* and its interrupt switched on - as long as no key's byte comes before   *)
(* it has read the configuration: the keyboard's handler may well take the *)
(* configuration byte instead, but then it is still in the register.       *)
ConfigKept ==
  [][setup = "60" /\ setup' = "done" /\ ~early
       => config' = SetBit(ClearBit(FirmwareConfig, 32), 2)]_system

(* The bytes of keys nobody has read.                                      *)
Underway == IF port.from = "keyboard" THEN <<port.byte>> \o keys ELSE keys

(* Once every byte of the keyboard has been handled, shift_pressed says    *)
(* whether the left shift key is down, whatever bytes of the mouse came in *)
(* between - as long as no key's byte was read by a poll.                  *)
ShiftFollowsKey ==
  Underway = <<>> /\ ~strayed => (shift_pressed <=> KEY_LEFT_SHIFT \in held)

(* Every press of a printable key types one character, once its byte is    *)
(* read, and no release types any: no byte of a key is lost or handled     *)
(* twice by the traffic of the mouse on the same port.                     *)
PressTypesOnce ==
  ~strayed => owed = Cardinality({i \in DOMAIN Underway : Printable(Underway[i])})

(* A byte in the register whose interrupt is switched on is read, by its   *)
(* handler or by a poll, so that the next byte can come: no order of       *)
(* requests and ends of interrupts leaves both devices stuck.              *)
BytesAreRead ==
  /\ (port.from = "keyboard" /\ KeyInterrupt(config))
       ~> (port.from # "keyboard" \/ ~KeyInterrupt(config))
  /\ (port.from = "mouse" /\ AuxInterrupt(config)) ~> port.from # "mouse"
=============================================================================
