-------------------------- MODULE MouseDriver_proofs --------------------------
(* Theorems about the mouse driver, for every resolution of the screen and *)
(* every set of bytes the device may send, and about its place in the      *)
(* machine: the composition with the keyboard does nothing to the mouse    *)
(* driver that the driver's own specification does not allow.              *)
EXTENDS Interrupts, FiniteSetTheorems, TLAPS

-----------------------------------------------------------------------------
(* What the pure operators return.                                         *)

(* The unsigned reading of a byte is a byte.                               *)
LEMMA UnsignedByte ==
  ASSUME NEW s, NEW b \in Byte
  PROVE  Unsigned(s, b) \in Byte
<1>1. Negated(b) \in Byte
  BY DEF Negated, Byte
<1> QED
  BY <1>1 DEF Unsigned

(* Clamping gives a number,                                                *)
LEMMA ClampType ==
  ASSUME NEW n \in Int, NEW size \in Nat \ {0}
  PROVE  Clamp(n, size) \in 0 .. size - 1
BY DEF Clamp

(* and one that is on the screen.                                          *)
LEMMA ClampedOnScreen ==
  ASSUME NEW p \in [x : Int, y : Int]
  PROVE  Clamped(p) \in Screen
BY ClampType, ScreenAssumption DEF Clamped, Screen

(* The buttons are truth values.                                           *)
LEMMA PressedType ==
  ASSUME NEW b
  PROVE  Pressed(b) \in [left : BOOLEAN, right : BOOLEAN, middle : BOOLEAN]
BY DEF Pressed, PS2Leftbutton, PS2Rightbutton, PS2Middlebutton, Bit

(* A sign is a truth value.                                                *)
LEMMA SignType ==
  ASSUME NEW b
  PROVE  PS2XSign(b) \in BOOLEAN /\ PS2YSign(b) \in BOOLEAN
BY DEF PS2XSign, PS2YSign, Bit

(* Bytes are integers.                                                     *)
LEMMA ByteInt == Byte \subseteq Int
BY DEF Byte

(* What an overflow adds is an integer.                                    *)
LEMMA OverflowType ==
  ASSUME NEW s
  PROVE  Overflow(s) \in Int
BY DEF Overflow

(* Moving gives integers, across                                           *)
LEMMA MovedXType ==
  ASSUME NEW f, NEW b \in Byte, NEW n \in Int
  PROVE  MovedX(f, b, n) \in Int
<1> DEFINE u == Unsigned(TRUE, b)
           o == Overflow(PS2XOverflow(f))
<1>1. u \in Byte
  BY UnsignedByte
<1>2. o \in Int
  BY OverflowType
<1>3. MovedX(f, b, n) = IF PS2XSign(f) THEN n - u - o ELSE n + b + o
  BY DEF MovedX
<1> HIDE DEF u, o
<1>4. u \in Int /\ b \in Int
  BY <1>1, ByteInt
<1>5. n - u - o \in Int /\ n + b + o \in Int
  BY <1>2, <1>4
<1> QED
  BY <1>3, <1>5

(* and down.                                                               *)
LEMMA MovedYType ==
  ASSUME NEW f, NEW b \in Byte, NEW n \in Int
  PROVE  MovedY(f, b, n) \in Int
<1> DEFINE u == Unsigned(TRUE, b)
           o == Overflow(PS2YOverflow(f))
<1>1. u \in Byte
  BY UnsignedByte
<1>2. o \in Int
  BY OverflowType
<1>3. MovedY(f, b, n) = IF PS2YSign(f) THEN n + u + o ELSE n - b - o
  BY DEF MovedY
<1> HIDE DEF u, o
<1>4. u \in Int /\ b \in Int
  BY <1>1, ByteInt
<1>5. n + u + o \in Int /\ n - b - o \in Int
  BY <1>2, <1>4
<1> QED
  BY <1>3, <1>5

(* The device's answer is a byte.                                          *)
LEMMA AckByte == ACK \in Byte
BY DEF ACK, Byte

-----------------------------------------------------------------------------
(* How many answers may be unread depends on how many commands were sent.  *)
AnswersDue ==
  /\ pc = "F6" => pending = 0
  /\ pc \in {"ack F6", "F4"} => pending \in 0 .. 1

(* Reading answers makes them fewer.                                       *)
LEMMA FewerDue ==
  ASSUME pending \in 0 .. 2, pending' \in 0 .. 2, pending' <= pending
  PROVE  (pending = 0 => pending' = 0) /\ (pending \in 0 .. 1 => pending' \in 0 .. 1)
OBVIOUS

(* What reading the port elsewhere does to the types.                      *)
LEMMA TakenType ==
  ASSUME TypeOK, AnswersDue, TakeAnswer \/ TakeMovement \/ TakeNothing
  PROVE  /\ pending' \in 0 .. 2 /\ pending' <= pending
         /\ serial' \in 0 .. 5
         /\ slips' \in 0 .. 2
         /\ torn' \in BOOLEAN
<1> USE DEF TypeOK
<1>1. CASE TakeAnswer
  BY <1>1 DEF TakeAnswer
<1>2. CASE TakeMovement
  <2>1. torn' \in BOOLEAN
    BY <1>2 DEF TakeMovement
  <2> QED
    BY <1>2, <2>1 DEF TakeMovement
<1>3. CASE TakeNothing
  BY <1>3 DEF TakeNothing
<1> QED
  BY <1>1, <1>2, <1>3

(* The types hold at first,                                                *)
LEMMA TypeInit == Init => TypeOK /\ AnswersDue
<1> SUFFICES ASSUME Init PROVE TypeOK /\ AnswersDue
  OBVIOUS
<1>1. 0 \in Byte /\ Answer \in 0 .. 6
  BY DEF Byte, Answer
<1>2. mouse_packet \in Packet /\ received \in Packet /\ origin \in [0 .. 2 -> 0 .. 6]
  BY <1>1 DEF Init, Packet
<1>3. /\ position \in [x : Int, y : Int] /\ before \in [x : Int, y : Int]
      /\ buttons \in [left : BOOLEAN, right : BOOLEAN, middle : BOOLEAN]
  BY DEF Init
<1>4. /\ pc \in Commands \union {"loop"} \union Processing
      /\ mouse_cycle \in 0 .. 2 /\ serial \in 0 .. 5 /\ slips \in 0 .. 2
      /\ flags \in Byte
  BY <1>1 DEF Init, Commands
<1>5. packet_ready \in BOOLEAN /\ torn \in BOOLEAN
  BY DEF Init
<1>7. pending \in 0 .. 2
  BY DEF Init
<1>6. AnswersDue
  BY DEF Init, AnswersDue
<1> QED
  BY <1>2, <1>3, <1>4, <1>5, <1>6, <1>7 DEF TypeOK

(* and every step keeps them, whatever bytes arrive whenever, and whoever  *)
(* reads them.                                                             *)
LEMMA TypeStep == TypeOK /\ AnswersDue /\ [Next]_vars => TypeOK' /\ AnswersDue'
<1> SUFFICES ASSUME TypeOK, AnswersDue, [Next]_vars
             PROVE  TypeOK' /\ AnswersDue'
  OBVIOUS
<1> USE DEF TypeOK, driver, history, Follow
<1>h. ASSUME NEW data \in Byte, NEW from \in 0 .. 6, mouse_handle(data, from)
      PROVE  /\ mouse_cycle' \in 0 .. 2
             /\ mouse_packet' \in Packet
             /\ packet_ready' \in BOOLEAN
             /\ origin' \in [0 .. 2 -> 0 .. 6]
             /\ slips' \in 0 .. 2
             /\ torn' \in BOOLEAN
             /\ received' \in Packet
             /\ before' = before
  <2>1. CASE Store(data, from)
    <3>1. torn' \in BOOLEAN
      BY <2>1 DEF Store
    <3>2. packet_ready' \in BOOLEAN
      BY <2>1 DEF Store
    <3> QED
      BY <2>1, <3>1, <3>2 DEF Store, Packet
  <2>2. CASE Drop(from)
    BY <2>2 DEF Drop
  <2> QED
    BY <1>h, <2>1, <2>2 DEF mouse_handle
<1>a. Answer \in 0 .. 6
  BY DEF Answer
<1>1. ASSUME NEW data \in Bytes, MovementByte(data)
      PROVE  TypeOK' /\ AnswersDue'
  <2>1. data \in Byte /\ serial \in 0 .. 6
    BY BytesAssumption
  <2>2. serial' \in 0 .. 5
    BY <1>1 DEF MovementByte
  <2>3. TypeOK'
    BY <1>1, <1>h, <2>1, <2>2 DEF MovementByte
  <2>4. AnswersDue'
    BY <1>1 DEF MovementByte, AnswersDue
  <2> QED
    BY <2>3, <2>4
<1>2. CASE AnswerByte
  <2>1. mouse_handle(ACK, Answer)
    BY <1>2 DEF AnswerByte
  <2>2. pending' \in 0 .. 2 /\ pending' <= pending
    BY <1>2 DEF AnswerByte
  <2>3. TypeOK'
    BY <1>2, <1>h, <1>a, <2>1, <2>2, AckByte DEF AnswerByte
  <2>4. pc' = pc
    BY <1>2 DEF AnswerByte
  <2>5. AnswersDue'
    BY <2>2, <2>4, FewerDue, Zenon DEF AnswersDue, TypeOK
  <2> QED
    BY <2>3, <2>5
<1>3. ASSUME NEW data \in Strays, StrayByte(data)
      PROVE  TypeOK' /\ AnswersDue'
  <2>1. data \in Byte
    BY BytesAssumption
  <2>2. TypeOK'
    BY <1>3, <1>h, <1>a, <2>1 DEF StrayByte
  <2>3. AnswersDue'
    BY <1>3 DEF StrayByte, AnswersDue
  <2> QED
    BY <2>2, <2>3
<1>4. CASE TakenElsewhere
  <2>1. TakeAnswer \/ TakeMovement
    BY <1>4 DEF TakenElsewhere
  <2>2. TypeOK'
    BY <1>4, <2>1, TakenType DEF TakenElsewhere
  <2>3. pc' = pc /\ pending' \in 0 .. 2 /\ pending' <= pending
    BY <1>4, <2>1, TakenType DEF TakenElsewhere
  <2>4. AnswersDue'
    BY <2>3, FewerDue, Zenon DEF AnswersDue, TypeOK
  <2> QED
    BY <2>2, <2>4
<1>5. CASE WriteCommand
  <2>1. (pc = "F6" /\ pc' = "ack F6") \/ (pc = "F4" /\ pc' = "ack F4")
    BY <1>5 DEF WriteCommand
  <2>2. pending' = pending + 1
    BY <1>5 DEF WriteCommand
  <2>3. pending = 0 => pending' \in 0 .. 1 /\ pending' \in 0 .. 2
    BY <2>2
  <2>4. pending \in 0 .. 1 => pending' \in 0 .. 2
    BY <2>2
  <2>5. pending' \in 0 .. 2
    BY <2>1, <2>3, <2>4 DEF AnswersDue
  <2>6. AnswersDue'
    BY <2>1, <2>3 DEF AnswersDue
  <2>7. TypeOK'
    BY <1>5, <2>1, <2>5 DEF WriteCommand, Commands
  <2> QED
    BY <2>6, <2>7
<1>6. CASE ReadAnswer
  <2>1. TakeAnswer \/ TakeMovement \/ TakeNothing
    BY <1>6 DEF ReadAnswer
  <2>2. TypeOK'
    BY <1>6, <2>1, TakenType DEF ReadAnswer, mouse_read, Commands
  <2>3. pending' \in 0 .. 2 /\ pending' <= pending
    BY <2>1, TakenType
  <2>4. (pc = "ack F6" /\ pc' = "F4") \/ (pc = "ack F4" /\ pc' = "loop")
    BY <1>6 DEF ReadAnswer, mouse_read
  <2>6. pending \in 0 .. 1 => pending' \in 0 .. 1
    BY <2>3, FewerDue
  <2>5. AnswersDue'
    BY <2>4, <2>6 DEF AnswersDue
  <2> QED
    BY <2>2, <2>5
<1>7. CASE ReadFlags
  BY <1>7 DEF ReadFlags, Processing, Packet, AnswersDue
<1>8. CASE MoveX
  <2>1. mouse_packet[1] \in Byte /\ PS2XSign(flags) \in BOOLEAN
    BY SignType DEF Packet
  <2>2. mouse_packet' \in Packet
    BY <1>8, <2>1, UnsignedByte DEF MoveX, Packet
  <2>3. position' \in [x : Int, y : Int]
    BY <1>8, <2>1, MovedXType DEF MoveX
  <2> QED
    BY <1>8, <2>2, <2>3 DEF MoveX, Processing, AnswersDue
<1>9. CASE MoveY
  <2>1. mouse_packet[2] \in Byte /\ PS2YSign(flags) \in BOOLEAN
    BY SignType DEF Packet
  <2>2. mouse_packet' \in Packet
    BY <1>9, <2>1, UnsignedByte DEF MoveY, Packet
  <2>3. position' \in [x : Int, y : Int]
    BY <1>9, <2>1, MovedYType DEF MoveY
  <2> QED
    BY <1>9, <2>2, <2>3 DEF MoveY, Processing, AnswersDue
<1>10. CASE ClampPosition
  <2>1. position' \in [x : Int, y : Int]
    BY <1>10, ClampedOnScreen DEF ClampPosition, Screen
  <2> QED
    BY <1>10, <2>1 DEF ClampPosition, Processing, AnswersDue
<1>11. CASE ReadButtons
  BY <1>11, PressedType DEF ReadButtons, Processing, AnswersDue
<1>12. CASE Release
  <2>1. 0 \in Byte
    BY DEF Byte
  <2>2. received' \in Packet /\ origin' \in [0 .. 2 -> 0 .. 6] /\ flags' \in Byte
    BY <1>12, <1>a, <2>1 DEF Release, Forgotten, Packet
  <2> QED
    BY <1>12, <2>2 DEF Release, Forgotten, AnswersDue
<1>13. CASE UNCHANGED vars
  BY <1>13 DEF vars, AnswersDue
<1> QED
  BY <1>1, <1>2, <1>3, <1>4, <1>5, <1>6, <1>7, <1>8, <1>9, <1>10, <1>11, <1>12, <1>13
  DEF Next, MainLoop, Interrupt

(* The driver without its fairness: what its own specification and that of *)
(* the whole machine both imply.                                           *)
Driver == Init /\ [][Next]_vars

(* Every variable of the driver keeps its type.                            *)
THEOREM TypeCorrect == Driver => []TypeOK
BY TypeInit, TypeStep, PTL DEF Driver

-----------------------------------------------------------------------------
(* The driver is out of step with the device by the strays it took for     *)
(* movement minus the bytes it dropped or lost, for ever.                  *)
THEOREM PhaseCorrect == Driver => []StreamPhase
<1>1. Init => StreamPhase
  BY DEF Init, StreamPhase
<1>2. TypeOK /\ StreamPhase /\ [Next]_vars => StreamPhase'
  <2> SUFFICES ASSUME TypeOK, StreamPhase, [Next]_vars
               PROVE  StreamPhase'
    OBVIOUS
  <2> USE DEF StreamPhase, driver, history
  <2>t. mouse_cycle \in 0 .. 2 /\ serial \in 0 .. 5 /\ slips \in 0 .. 2
    BY DEF TypeOK
  <2>a. serial # Answer
    BY <2>t DEF Answer
  <2>1. ASSUME NEW data \in Bytes, MovementByte(data)
        PROVE  StreamPhase'
    <3>1. serial' = (serial + 1) % 6
      BY <2>1 DEF MovementByte
    <3>2. CASE Store(data, serial)
      <4>1. mouse_cycle' = (mouse_cycle + 1) % 3 /\ slips' = slips
        BY <2>a, <3>2 DEF Store
      <4> QED
        BY <2>t, <3>1, <4>1
    <3>3. CASE Drop(serial)
      <4>1. mouse_cycle' = mouse_cycle /\ slips' = (slips + 2) % 3
        BY <2>a, <3>3 DEF Drop
      <4> QED
        BY <2>t, <3>1, <4>1
    <3> QED
      BY <2>1, <3>2, <3>3 DEF MovementByte, mouse_handle
  <2>2. CASE AnswerByte
    <3>1. serial' = serial
      BY <2>2 DEF AnswerByte
    <3>2. CASE Store(ACK, Answer)
      <4>1. mouse_cycle' = (mouse_cycle + 1) % 3 /\ slips' = (slips + 1) % 3
        BY <3>2 DEF Store
      <4> QED
        BY <2>t, <3>1, <4>1
    <3>3. CASE Drop(Answer)
      <4>1. mouse_cycle' = mouse_cycle /\ slips' = slips
        BY <3>3 DEF Drop
      <4> QED
        BY <2>t, <3>1, <4>1
    <3> QED
      BY <2>2, <3>2, <3>3 DEF AnswerByte, mouse_handle
  <2>3. ASSUME NEW data \in Strays, StrayByte(data)
        PROVE  StreamPhase'
    <3>1. serial' = serial
      BY <2>3 DEF StrayByte
    <3>2. CASE Store(data, Answer)
      <4>1. mouse_cycle' = (mouse_cycle + 1) % 3 /\ slips' = (slips + 1) % 3
        BY <3>2 DEF Store
      <4> QED
        BY <2>t, <3>1, <4>1
    <3>3. CASE Drop(Answer)
      <4>1. mouse_cycle' = mouse_cycle /\ slips' = slips
        BY <3>3 DEF Drop
      <4> QED
        BY <2>t, <3>1, <4>1
    <3> QED
      BY <2>3, <3>2, <3>3 DEF StrayByte, mouse_handle
  <2>4. ASSUME TakeAnswer \/ TakeMovement \/ TakeNothing, mouse_cycle' = mouse_cycle
        PROVE  StreamPhase'
    <3>1. CASE TakeMovement
      <4>1. serial' = (serial + 1) % 6 /\ slips' = (slips + 2) % 3
        BY <3>1 DEF TakeMovement
      <4> QED
        BY <2>t, <2>4, <4>1
    <3>2. CASE TakeAnswer \/ TakeNothing
      BY <2>4, <3>2 DEF TakeAnswer, TakeNothing
    <3> QED
      BY <2>4, <3>1, <3>2
  <2>5. CASE TakenElsewhere
    BY <2>4, <2>5 DEF TakenElsewhere
  <2>6. CASE ReadAnswer
    BY <2>4, <2>6 DEF ReadAnswer, mouse_read
  <2>7. CASE WriteCommand \/ ReadFlags \/ MoveX \/ MoveY \/ ClampPosition \/ ReadButtons
               \/ Release \/ UNCHANGED vars
    BY <2>7 DEF WriteCommand, ReadFlags, MoveX, MoveY, ClampPosition, ReadButtons, Release, vars
  <2> QED
    BY <2>1, <2>2, <2>3, <2>5, <2>6, <2>7 DEF Next, MainLoop, Interrupt
<1> QED
  BY <1>1, <1>2, TypeCorrect, PTL DEF Driver

-----------------------------------------------------------------------------
(* The pointer is on the screen whenever the main loop looks at it.        *)
THEOREM PointerStaysOnScreen == Driver => []PointerOnScreen
<1>1. Init => PointerOnScreen
  BY ScreenAssumption DEF Init, PointerOnScreen, Screen
<1>2. TypeOK /\ PointerOnScreen /\ [Next]_vars => PointerOnScreen'
  <2> SUFFICES ASSUME TypeOK, PointerOnScreen, [Next]_vars
               PROVE  PointerOnScreen'
    OBVIOUS
  <2> USE DEF PointerOnScreen, Follow
  <2>1. CASE MoveX \/ MoveY
    BY <2>1 DEF MoveX, MoveY
  <2>2. CASE ClampPosition
    <3>1. position' \in Screen
      BY <2>2, ClampedOnScreen DEF ClampPosition, TypeOK
    <3> QED
      BY <3>1
  <2>3. CASE WriteCommand \/ ReadAnswer \/ ReadFlags \/ ReadButtons \/ Release
    BY <2>3 DEF WriteCommand, ReadAnswer, mouse_read, ReadFlags, ReadButtons, Release
  <2>4. CASE Interrupt \/ UNCHANGED vars
    BY <2>4 DEF Interrupt, AnswerByte, MovementByte, StrayByte, TakenElsewhere, vars
  <2> QED
    BY <2>1, <2>2, <2>3, <2>4 DEF Next, MainLoop
<1> QED
  BY <1>1, <1>2, TypeCorrect, PTL DEF Driver

-----------------------------------------------------------------------------
(* PacketStable is not inductive: that no byte gets in during processing   *)
(* is because packet_ready stays up until the release, and what is ready   *)
(* must be complete already before the main loop gets to it.               *)
PacketHeld ==
  /\ pc \in Processing => packet_ready
  /\ packet_ready =>
       /\ mouse_packet[0] = received[0]
       /\ pc \notin Processing \ {"x"} => mouse_packet[1] = received[1]
       /\ pc \notin Processing \ {"x", "y"} => mouse_packet[2] = received[2]
       /\ pc \in Processing => flags = received[0]

(* It holds whatever bytes arrive whenever.                                *)
LEMMA PacketsAreHeld == Driver => []PacketHeld
<1>1. Init => PacketHeld
  BY DEF Init, PacketHeld, Processing
<1>2. TypeOK /\ PacketHeld /\ [Next]_vars => PacketHeld'
  <2> SUFFICES ASSUME TypeOK, PacketHeld, [Next]_vars
               PROVE  PacketHeld'
    OBVIOUS
  <2> USE DEF PacketHeld, Follow, Processing, driver, history
  <2>h. ASSUME NEW data, NEW from, mouse_handle(data, from), UNCHANGED <<pc, flags>>
        PROVE  PacketHeld'
    BY <2>h DEF mouse_handle, Store, Drop
  <2>1. CASE Interrupt
    <3>1. CASE TakenElsewhere
      BY <3>1 DEF TakenElsewhere
    <3> QED
      BY <2>1, <2>h, <3>1 DEF Interrupt, AnswerByte, MovementByte, StrayByte
  <2>2. CASE WriteCommand \/ ReadAnswer
    <3>1. pc \notin Processing /\ pc' \notin Processing
      BY <2>2 DEF WriteCommand, ReadAnswer, mouse_read
    <3>2. UNCHANGED <<mouse_packet, received, packet_ready, flags>>
      BY <2>2 DEF WriteCommand, ReadAnswer, mouse_read
    <3> QED
      BY <3>1, <3>2
  <2>3. CASE ReadFlags
    BY <2>3 DEF ReadFlags
  <2>4. CASE MoveX
    BY <2>4 DEF MoveX, TypeOK, Packet
  <2>5. CASE MoveY
    BY <2>5 DEF MoveY, TypeOK, Packet
  <2>6. CASE ClampPosition \/ ReadButtons \/ Release
    BY <2>6 DEF ClampPosition, ReadButtons, Release
  <2>7. CASE UNCHANGED vars
    BY <2>7 DEF vars
  <2> QED
    BY <2>1, <2>2, <2>3, <2>4, <2>5, <2>6, <2>7 DEF Next, MainLoop
<1> QED
  BY <1>1, <1>2, TypeCorrect, PTL DEF Driver

(* What the main loop reads over several steps is one packet, the one the  *)
(* interrupt handler completed.                                            *)
THEOREM PacketsDoNotTear == Driver => []PacketStable
<1>1. PacketHeld => PacketStable
  BY DEF PacketHeld, PacketStable, Processing
<1> QED
  BY <1>1, PacketsAreHeld, PTL

-----------------------------------------------------------------------------
(* The driver implements the mailbox.  The operators of the mailbox are    *)
(* those of the driver.                                                    *)
LEMMA SamePacket ==
  /\ Pointer!Packet = Packet
  /\ \A p : Pointer!Clamped(p) = Clamped(p)
  /\ \A b : Pointer!Pressed(b) = Pressed(b)
BY DEF Pointer!Packet, Pointer!Byte, Packet, Byte, Pointer!Clamped, Pointer!Clamp, Clamped, Clamp,
       Pointer!Pressed, Pointer!PS2Leftbutton, Pointer!PS2Rightbutton, Pointer!PS2Middlebutton,
       Pointer!Bit, Pressed, PS2Leftbutton, PS2Rightbutton, PS2Middlebutton, Bit

(* So are the movements.                                                   *)
LEMMA SameMovement ==
  /\ \A f, b, n : Pointer!MovedX(f, b, n) = MovedX(f, b, n)
  /\ \A f, b, n : Pointer!MovedY(f, b, n) = MovedY(f, b, n)
BY DEF Pointer!MovedX, Pointer!MovedY, Pointer!PS2XSign, Pointer!PS2YSign, Pointer!PS2XOverflow,
       Pointer!PS2YOverflow, Pointer!Bit, Pointer!Unsigned, Pointer!Negated, Pointer!Overflow,
       MovedX, MovedY, PS2XSign, PS2YSign, PS2XOverflow, PS2YOverflow, Bit, Unsigned, Negated, Overflow

(* A packet is not the empty mailbox.                                      *)
LEMMA PacketIsNotEmpty == \A packet \in Packet : packet # <<>>
<1> SUFFICES ASSUME NEW packet \in Packet PROVE packet # <<>>
  OBVIOUS
<1>1. DOMAIN packet = 0 .. 2
  BY DEF Packet
<1>2. 0 \in DOMAIN packet
  BY <1>1
<1>3. DOMAIN <<>> = {}
  OBVIOUS
<1> QED
  BY <1>2, <1>3

(* How far the packet has been applied to the pointer at each step.        *)
MovedAcross == MovedX(received[0], received[1], before.x)
MovedDown   == MovedY(received[0], received[2], before.y)
PartlyApplied ==
  /\ pc = "x" => position = before
  /\ pc = "y" => position = [x |-> MovedAcross, y |-> before.y]
  /\ pc = "clamp" => position = [x |-> MovedAcross, y |-> MovedDown]
  /\ pc = "buttons" => position = Clamped([x |-> MovedAcross, y |-> MovedDown])

(* The steps of processing keep that.                                      *)
LEMMA PartlyStep ==
  TypeOK /\ PacketHeld /\ PartlyApplied /\ [Next]_vars => PartlyApplied'
<1> SUFFICES ASSUME TypeOK, PacketHeld, PartlyApplied, [Next]_vars
             PROVE  PartlyApplied'
  OBVIOUS
<1> USE DEF PartlyApplied, MovedAcross, MovedDown, Follow, driver, history
<1>1. CASE ReadFlags
  BY <1>1 DEF ReadFlags
<1>2. CASE MoveX
  <2>1. /\ position' = [position EXCEPT !.x = MovedX(flags, mouse_packet[1], @)]
        /\ pc = "x" /\ pc' = "y" /\ UNCHANGED <<received, before>>
    BY <1>2 DEF MoveX
  <2>2. flags = received[0] /\ mouse_packet[1] = received[1] /\ position = before
    BY <2>1 DEF PacketHeld, Processing
  <2>3. position' = [x |-> MovedX(received[0], received[1], before.x), y |-> before.y]
    BY <2>1, <2>2 DEF TypeOK
  <2> QED
    BY <2>1, <2>3
<1>3. CASE MoveY
  <2>1. /\ position' = [position EXCEPT !.y = MovedY(flags, mouse_packet[2], @)]
        /\ pc = "y" /\ pc' = "clamp" /\ UNCHANGED <<received, before>>
    BY <1>3 DEF MoveY
  <2>2. flags = received[0] /\ mouse_packet[2] = received[2]
    BY <2>1 DEF PacketHeld, Processing
  <2>3. position = [x |-> MovedAcross, y |-> before.y]
    BY <2>1
  <2>4. position' = [x |-> MovedAcross, y |-> MovedDown]
    BY <2>1, <2>2, <2>3
  <2> QED
    BY <2>1, <2>4
<1>4. CASE ClampPosition
  <2>1. position' = Clamped(position) /\ pc = "clamp" /\ pc' = "buttons" /\ UNCHANGED <<received, before>>
    BY <1>4 DEF ClampPosition
  <2> QED
    BY <2>1
<1>5. CASE WriteCommand \/ ReadAnswer \/ ReadButtons \/ Release
  BY <1>5 DEF WriteCommand, ReadAnswer, mouse_read, ReadButtons, Release
<1>6. CASE Interrupt
  <2>1. pc' = pc /\ UNCHANGED <<position, before>>
    BY <1>6 DEF Interrupt, AnswerByte, MovementByte, StrayByte, TakenElsewhere, mouse_handle, Store, Drop
  <2>2. packet_ready => received' = received
    BY <1>6 DEF Interrupt, AnswerByte, MovementByte, StrayByte, TakenElsewhere, mouse_handle, Store, Drop
  <2> QED
    BY <2>1, <2>2 DEF PacketHeld, Processing
<1>7. CASE UNCHANGED vars
  BY <1>7 DEF vars
<1> QED
  BY <1>1, <1>2, <1>3, <1>4, <1>5, <1>6, <1>7 DEF Next, MainLoop

(* An interrupt fills the mailbox or leaves it as it is.                   *)
LEMMA InterruptReceives ==
  TypeOK /\ TypeOK' /\ PacketHeld /\ Interrupt => Pointer!Receive \/ UNCHANGED Pointer!vars
<1> SUFFICES ASSUME TypeOK, TypeOK', PacketHeld, Interrupt
             PROVE  Pointer!Receive \/ UNCHANGED Pointer!vars
  OBVIOUS
<1>1. UNCHANGED <<pc, position, before, buttons>>
  BY DEF Interrupt, AnswerByte, MovementByte, StrayByte, TakenElsewhere, mouse_handle, Store, Drop
<1>2. \/ packet_ready' = packet_ready /\ (packet_ready => received' = received)
      \/ ~packet_ready /\ packet_ready'
  BY DEF Interrupt, AnswerByte, MovementByte, StrayByte, TakenElsewhere, mouse_handle, Store, Drop,
         driver, TypeOK
<1>3. CASE packet_ready' = packet_ready /\ (packet_ready => received' = received)
  BY <1>1, <1>3 DEF Pointer!vars
<1>4. CASE ~packet_ready /\ packet_ready'
  <2>1. pc # "release"
    BY <1>4 DEF PacketHeld, Processing
  <2>2. received' \in Packet
    BY DEF TypeOK
  <2> QED
    BY <1>1, <1>4, <2>1, <2>2, SamePacket DEF Pointer!Receive, Pointer!Empty
<1> QED
  BY <1>2, <1>3, <1>4

(* Whatever bytes arrive whenever, and whoever reads them: every packet    *)
(* received is applied to the pointer as a whole and once, before the next *)
(* is received; every step of the driver is a step of the mailbox or none. *)
THEOREM ImplementsPointer == Driver => Pointer!Mailbox
<1>1. Init => PartlyApplied /\ Pointer!Init
  BY DEF Init, PartlyApplied, Pointer!Init, Pointer!Empty
<1>2. ASSUME TypeOK, TypeOK', PacketHeld, PartlyApplied, [Next]_vars
      PROVE  [Pointer!Next]_(Pointer!vars)
  <2> USE DEF Follow, driver, history
  <2>1. CASE Interrupt
    BY <1>2, <2>1, InterruptReceives DEF Pointer!Next
  <2>2. CASE WriteCommand \/ ReadAnswer
    <3>1. UNCHANGED <<packet_ready, received, position, before, buttons>>
      BY <2>2 DEF WriteCommand, ReadAnswer, mouse_read
    <3>2. pc \in Commands /\ pc' \in Commands \cup {"loop"}
      BY <2>2 DEF WriteCommand, ReadAnswer, mouse_read, Commands
    <3> QED
      BY <3>1, <3>2 DEF Pointer!vars, Commands
  <2>3. CASE ReadFlags
    BY <2>3 DEF ReadFlags, Pointer!vars
  <2>4. CASE MoveX
    <3>1. pc = "x" /\ pc' = "y" /\ UNCHANGED <<packet_ready, received, before, buttons>>
      BY <2>4 DEF MoveX
    <3>2. position = before
      BY <1>2, <3>1 DEF PartlyApplied
    <3> QED
      BY <3>1, <3>2 DEF Pointer!vars
  <2>5. CASE MoveY \/ ClampPosition
    BY <2>5 DEF MoveY, ClampPosition, Pointer!vars
  <2>6. CASE ReadButtons
    <3>1. /\ pc = "buttons" /\ pc' = "release" /\ UNCHANGED <<packet_ready, received, before, position>>
          /\ buttons' = Pressed(mouse_packet[0])
      BY <2>6 DEF ReadButtons
    <3>2. packet_ready /\ mouse_packet[0] = received[0]
      BY <1>2, <3>1 DEF PacketHeld, Processing
    <3>3. position = Clamped([x |-> MovedAcross, y |-> MovedDown])
      BY <1>2, <3>1 DEF PartlyApplied
    <3>4. received # <<>>
      BY <1>2, PacketIsNotEmpty DEF TypeOK
    <3>5. Pointer!Apply
      BY <3>1, <3>2, <3>3, <3>4, SamePacket, SameMovement
         DEF Pointer!Apply, Pointer!Empty, MovedAcross, MovedDown
    <3> QED
      BY <3>5 DEF Pointer!Next
  <2>7. CASE Release
    BY <2>7 DEF Release, Pointer!vars
  <2>8. CASE UNCHANGED vars
    BY <2>8 DEF vars, Pointer!vars
  <2> QED
    BY <1>2, <2>1, <2>2, <2>3, <2>4, <2>5, <2>6, <2>7, <2>8 DEF Next, MainLoop
<1> QED
  BY <1>1, <1>2, TypeCorrect, PacketsAreHeld, PartlyStep, PTL DEF Driver, Pointer!Mailbox

-----------------------------------------------------------------------------
(* The byte stored at i is followed by the one stored after it, or by the  *)
(* device's next one.                                                      *)
Joined(i) ==
  origin[i] # Answer /\ origin[i + 1] # Answer => origin[i + 1] = (origin[i] + 1) % 6
Last(i) == origin[i] # Answer => serial = (origin[i] + 1) % 6

(* The part of a packet that has been stored is the last bytes before the  *)
(* device's next one, and a full packet waits with the cycle back at 0.    *)
BytesInOrder ==
  /\ packet_ready => mouse_cycle = 0
  /\ packet_ready /\ ~torn => Joined(0) /\ Joined(1)
  /\ ~packet_ready /\ mouse_cycle = 1 /\ ~torn => Last(0)
  /\ ~packet_ready /\ mouse_cycle = 2 /\ ~torn => Joined(0) /\ Last(1)

(* The handler stores at mouse_cycle the device's next byte, or a stray.   *)
LEMMA StoreJoins ==
  ASSUME serial \in 0 .. 5, mouse_cycle \in 0 .. 2, origin \in [0 .. 2 -> 0 .. 6],
         NEW from \in 0 .. 6,
         \/ from = Answer
         \/ from = serial /\ serial' = (serial + 1) % 6,
         from = Answer => serial' = serial,
         origin' = [origin EXCEPT ![mouse_cycle] = from]
  PROVE  /\ mouse_cycle = 0 => Last(0)'
         /\ mouse_cycle = 1 /\ Last(0) => Joined(0)' /\ Last(1)'
         /\ mouse_cycle = 2 /\ Joined(0) /\ Last(1) => Joined(0)' /\ Joined(1)'
<1>1. CASE mouse_cycle = 0
  BY <1>1 DEF Last, Answer
<1>2. CASE mouse_cycle = 1
  BY <1>2 DEF Last, Joined, Answer
<1>3. CASE mouse_cycle = 2
  BY <1>3 DEF Last, Joined, Answer
<1> QED
  BY <1>1, <1>2, <1>3

(* The cycle after a byte has been stored.                                 *)
LEMMA NextCycle ==
  ASSUME mouse_cycle \in 0 .. 2, mouse_cycle' = (mouse_cycle + 1) % 3
  PROVE  /\ mouse_cycle = 0 => mouse_cycle' = 1
         /\ mouse_cycle = 1 => mouse_cycle' = 2
         /\ mouse_cycle = 2 => mouse_cycle' = 0
OBVIOUS

(* The three positions in a packet.                                        *)
LEMMA Cycles ==
  /\ 0 # 1 /\ 0 # 2 /\ 1 # 2
  /\ \A c \in 0 .. 2 : c = 0 \/ c = 1 \/ c = 2
OBVIOUS

(* Bytes in the order of the stream are adjacent.                          *)
LEMMA OrderedIsAdjacent == BytesInOrder => AdjacentBytes
<1>1. Joined(0) /\ Joined(1)
      => \A i \in 0 .. 1 : origin[i] # Answer /\ origin[i + 1] # Answer
                             => origin[i + 1] = (origin[i] + 1) % 6
  BY DEF Joined
<1> QED
  BY <1>1, Zenon DEF BytesInOrder, AdjacentBytes

(* Whatever byte the handler reads, the order is kept.                     *)
LEMMA HandlerKeepsOrder ==
  ASSUME TypeOK, BytesInOrder, NEW data, NEW from \in 0 .. 6, mouse_handle(data, from),
         \/ from = Answer
         \/ from = serial /\ serial' = (serial + 1) % 6,
         from = Answer => serial' = serial
  PROVE  BytesInOrder'
<1>t. mouse_cycle \in 0 .. 2 /\ serial \in 0 .. 5 /\ origin \in [0 .. 2 -> 0 .. 6]
  BY DEF TypeOK
<1>1. CASE Drop(from)
  <2>1. UNCHANGED <<mouse_cycle, origin, torn>> /\ packet_ready /\ packet_ready'
    BY <1>1 DEF Drop, driver
  <2>2. UNCHANGED <<Joined(0), Joined(1)>>
    BY <2>1 DEF Joined
  <2> QED
    BY <2>1, <2>2, Zenon DEF BytesInOrder
<1>2. CASE Store(data, from)
  <2>1. /\ mouse_cycle' = (mouse_cycle + 1) % 3
        /\ origin' = [origin EXCEPT ![mouse_cycle] = from]
    BY <1>2 DEF Store
  <2>2. ~packet_ready /\ (packet_ready' <=> mouse_cycle = 2)
    BY <1>2 DEF Store
  <2>3. torn' <=> torn /\ mouse_cycle # 0
    BY <1>2 DEF Store
  <2>4. /\ mouse_cycle = 0 => Last(0)'
        /\ mouse_cycle = 1 /\ Last(0) => Joined(0)' /\ Last(1)'
        /\ mouse_cycle = 2 /\ Joined(0) /\ Last(1) => Joined(0)' /\ Joined(1)'
    BY <1>t, <2>1, StoreJoins
  <2>5. /\ mouse_cycle = 0 => mouse_cycle' = 1
        /\ mouse_cycle = 1 => mouse_cycle' = 2
        /\ mouse_cycle = 2 => mouse_cycle' = 0
    BY <1>t, <2>1, NextCycle
  <2>6. CASE mouse_cycle = 0
    BY <2>2, <2>4, <2>5, <2>6, Cycles, Zenon DEF BytesInOrder
  <2>7. CASE mouse_cycle = 1
    BY <2>2, <2>3, <2>4, <2>5, <2>7, Cycles, Zenon DEF BytesInOrder
  <2>8. CASE mouse_cycle = 2
    BY <2>2, <2>3, <2>4, <2>5, <2>8, Cycles, Zenon DEF BytesInOrder
  <2> QED
    BY <1>t, <2>6, <2>7, <2>8, Cycles, Zenon
<1> QED
  BY <1>1, <1>2 DEF mouse_handle

(* So it is when somebody else reads one: in the middle of a packet that   *)
(* tears it.                                                               *)
LEMMA TakingKeepsOrder ==
  ASSUME TypeOK, BytesInOrder, UNCHANGED <<driver, origin>>,
         TakeAnswer \/ TakeMovement \/ TakeNothing
  PROVE  BytesInOrder'
<1>1. UNCHANGED <<mouse_cycle, packet_ready, origin>>
  BY DEF driver
<1>2. UNCHANGED <<Joined(0), Joined(1)>>
  BY <1>1 DEF Joined
<1>3. CASE TakeMovement
  <2>1. torn' <=> torn \/ mouse_cycle # 0
    BY <1>3 DEF TakeMovement
  <2> QED
    BY <1>1, <1>2, <2>1, Cycles, Zenon DEF BytesInOrder
<1>4. CASE TakeAnswer \/ TakeNothing
  <2>1. UNCHANGED <<serial, torn>>
    BY <1>4 DEF TakeAnswer, TakeNothing
  <2>2. UNCHANGED <<Last(0), Last(1)>>
    BY <1>1, <2>1 DEF Last
  <2> QED
    BY <1>1, <1>2, <2>1, <2>2, Zenon DEF BytesInOrder
<1> QED
  BY <1>3, <1>4

(* Bytes are dropped between packets, never inside one.                    *)
THEOREM PacketsAreAdjacentBytes == Driver => []AdjacentBytes
<1>1. Init => BytesInOrder
  <2> SUFFICES ASSUME Init PROVE BytesInOrder
    OBVIOUS
  <2>1. ~packet_ready /\ mouse_cycle = 0
    BY DEF Init
  <2> QED
    BY <2>1, Cycles, Zenon DEF BytesInOrder
<1>2. TypeOK /\ BytesInOrder /\ [Next]_vars => BytesInOrder'
  <2> SUFFICES ASSUME TypeOK, BytesInOrder, [Next]_vars
               PROVE  BytesInOrder'
    OBVIOUS
  <2>a. Answer \in 0 .. 6
    BY DEF Answer
  <2>1. ASSUME NEW data \in Bytes, MovementByte(data)
        PROVE  BytesInOrder'
    <3>1. serial \in 0 .. 6 /\ serial # Answer
      BY DEF TypeOK, Answer
    <3>2. serial' = (serial + 1) % 6 /\ mouse_handle(data, serial)
      BY <2>1 DEF MovementByte
    <3> QED
      BY <3>1, <3>2, HandlerKeepsOrder
  <2>2. CASE AnswerByte
    <3>1. serial' = serial /\ mouse_handle(ACK, Answer)
      BY <2>2 DEF AnswerByte
    <3> QED
      BY <2>a, <3>1, HandlerKeepsOrder
  <2>3. ASSUME NEW data \in Strays, StrayByte(data)
        PROVE  BytesInOrder'
    <3>1. serial' = serial /\ mouse_handle(data, Answer)
      BY <2>3 DEF StrayByte
    <3> QED
      BY <2>a, <3>1, HandlerKeepsOrder
  <2>4. CASE TakenElsewhere
    BY <2>4, TakingKeepsOrder DEF TakenElsewhere
  <2>5. CASE ReadAnswer
    BY <2>5, TakingKeepsOrder DEF ReadAnswer, mouse_read
  <2>6. CASE WriteCommand \/ ReadFlags \/ MoveX \/ MoveY \/ ClampPosition \/ ReadButtons
               \/ UNCHANGED vars
    <3>1. UNCHANGED <<mouse_cycle, packet_ready, serial, origin, torn>>
      BY <2>6 DEF WriteCommand, ReadFlags, MoveX, MoveY, ClampPosition, ReadButtons,
         driver, history, vars
    <3>2. UNCHANGED <<Joined(0), Joined(1), Last(0), Last(1)>>
      BY <3>1 DEF Joined, Last
    <3> QED
      BY <3>1, <3>2, Zenon DEF BytesInOrder
  <2>7. CASE Release
    <3>1. ~packet_ready'
      BY <2>7 DEF Release
    <3>2. origin' = [i \in 0 .. 2 |-> Answer]
      BY <2>7 DEF Release, Forgotten
    <3>3. Joined(0)' /\ Last(0)' /\ Last(1)'
      BY <3>2 DEF Joined, Last
    <3> QED
      BY <3>1, <3>3, Zenon DEF BytesInOrder
  <2> QED
    BY <2>1, <2>2, <2>3, <2>4, <2>5, <2>6, <2>7 DEF Next, MainLoop, Interrupt
<1> QED
  BY <1>1, <1>2, OrderedIsAdjacent, TypeCorrect, PTL DEF Driver
-----------------------------------------------------------------------------
(* What the machine keeps: bytes are bytes, and what the port holds of the *)
(* mouse is an answer it owes, or a movement byte of a mouse that may move.*)
MachineOK ==
  /\ port \in [from : {"nobody", "keyboard", "mouse", "controller"}, byte : Byte]
  /\ answer \in Seq(Byte)
  /\ config \in Byte
  /\ status \in Byte
  /\ keys \in Seq(Byte)
  /\ held \subseteq KeyCodes

MouseByteInPort ==
  port.from = "mouse" =>
    pending > 0 \/ (port.byte \in Bytes /\ pc \notin {"F6", "ack F6", "F4"})

(* Setting                                                                 *)
LEMMA SetBitByte ==
  ASSUME NEW b \in Byte
  PROVE  SetBit(b, 2) \in Byte
<1>1. CASE Bit(b, 2)
  BY <1>1 DEF SetBit
<1>2. CASE ~Bit(b, 2)
  <2>1. (b \div 2) % 2 # 1
    BY <1>2 DEF Bit
  <2>2. b + 2 \in 0 .. 255
    BY <2>1 DEF Byte
  <2> QED
    BY <1>2, <2>2 DEF SetBit, Byte
<1> QED
  BY <1>1, <1>2

(* and clearing a bit of a byte gives a byte.                              *)
LEMMA ClearBitByte ==
  ASSUME NEW b \in Byte
  PROVE  ClearBit(b, 32) \in Byte
<1>1. CASE Bit(b, 32)
  <2>1. (b \div 32) % 2 = 1
    BY <1>1 DEF Bit
  <2>2. b - 32 \in 0 .. 255
    BY <2>1 DEF Byte
  <2> QED
    BY <1>1, <2>2 DEF ClearBit, Byte
<1>2. CASE ~Bit(b, 32)
  BY <1>2 DEF ClearBit
<1> QED
  BY <1>1, <1>2

(* The codes of a key are bytes.                                           *)
LEMMA CodesAreBytes ==
  ASSUME NEW c \in KeyCodes
  PROVE  c \in Byte /\ c + RELEASED_OFFSET \in Byte
BY MachineAssumption DEF Byte, RELEASED_OFFSET

(* Every step of the machine is one of the driver, or leaves it alone.     *)
LEMMA MachineStepsDriver ==
  ASSUME TypeOK, MachineOK, MouseByteInPort, [SystemNext]_system
  PROVE  [Next]_vars
<1>1. CASE PrepareInterrupts \/ EnableSecondPort \/ AskConfig \/ ReadConfig \/ WriteConfig
           \/ TimerInterrupt \/ PutConfig \/ PutKey
  BY <1>1 DEF PrepareInterrupts, EnableSecondPort, AskConfig, ReadConfig, WriteConfig,
     TimerInterrupt, PutConfig, PutKey
<1>2. CASE SendCommand
  BY <1>2 DEF SendCommand, Next, MainLoop
<1>3. CASE PollAnswer
  BY <1>3 DEF PollAnswer, ReadAnswer, Next, MainLoop
<1>4. CASE ProcessPacket
  BY <1>4 DEF ProcessPacket, Next, MainLoop
<1>5. CASE KeyboardInterrupt
  BY <1>5 DEF KeyboardInterrupt, Elsewhere, Next, Interrupt
<1>6. CASE MouseInterrupt
  <2>1. CASE port.from # "mouse"
    <3>1. port.byte \in Strays
      BY MachineAssumption DEF MachineOK
    <3> QED
      BY <1>6, <2>1, <3>1 DEF MouseInterrupt, Next, Interrupt
  <2>2. CASE port.from = "mouse" /\ pending > 0
    BY <1>6, <2>2 DEF MouseInterrupt, Next, Interrupt
  <2>3. CASE port.from = "mouse" /\ ~(pending > 0)
    <3>1. port.byte \in Bytes
      BY <2>3 DEF MouseByteInPort
    <3> QED
      BY <1>6, <2>3, <3>1 DEF MouseInterrupt, Next, Interrupt
  <2> QED
    BY <2>1, <2>2, <2>3
<1>7. ASSUME NEW byte \in Bytes \union {ACK}, PutMouse(byte)
      PROVE  UNCHANGED vars
  BY <1>7 DEF PutMouse
<1>8. ASSUME NEW c \in KeyCodes, Press(c) \/ LiftUp(c)
      PROVE  UNCHANGED vars
  BY <1>8 DEF Press, LiftUp
<1>9. CASE UNCHANGED system
  BY <1>9 DEF system
<1> QED
  BY <1>1, <1>2, <1>3, <1>4, <1>5, <1>6, <1>7, <1>8, <1>9 DEF SystemNext, KernelMain, Devices

(* The bytes of the machine stay bytes.                                    *)
LEMMA MachineStep ==
  ASSUME MachineOK, [SystemNext]_system
  PROVE  MachineOK'
<1> USE DEF MachineOK, machine, controllers, keyboard, Put, Polled, Read
<1>1. CASE PrepareInterrupts
  BY <1>1 DEF PrepareInterrupts
<1>2. CASE EnableSecondPort
  BY <1>2, ClearBitByte DEF EnableSecondPort
<1>3. CASE AskConfig
  BY <1>3 DEF AskConfig
<1>4. CASE ReadConfig
  BY <1>4, SetBitByte DEF ReadConfig
<1>5. CASE WriteConfig
  <2>1. 0 \in Byte
    BY DEF Byte
  <2> QED
    BY <1>5, <2>1 DEF WriteConfig
<1>6. CASE SendCommand \/ ProcessPacket
  BY <1>6 DEF SendCommand, ProcessPacket
<1>7. CASE PollAnswer
  BY <1>7 DEF PollAnswer
<1>8. CASE KeyboardInterrupt
  BY <1>8 DEF KeyboardInterrupt
<1>9. CASE MouseInterrupt
  BY <1>9 DEF MouseInterrupt
<1>10. CASE TimerInterrupt
  BY <1>10 DEF TimerInterrupt
<1>11. CASE PutConfig
  <2>1. answer[1] \in Byte
    BY <1>11 DEF PutConfig
  <2> QED
    BY <1>11, <2>1 DEF PutConfig
<1>12. CASE PutKey
  <2>1. Head(keys) \in Byte /\ Tail(keys) \in Seq(Byte)
    BY <1>12 DEF PutKey
  <2> QED
    BY <1>12, <2>1 DEF PutKey
<1>13. ASSUME NEW byte \in Bytes \union {ACK}, PutMouse(byte)
       PROVE  MachineOK'
  <2>1. byte \in Byte
    BY BytesAssumption, AckByte
  <2> QED
    BY <1>13, <2>1 DEF PutMouse
<1>14. ASSUME NEW c \in KeyCodes, Press(c)
       PROVE  MachineOK'
  <2>1. Append(keys, c) \in Seq(Byte)
    BY CodesAreBytes
  <2> QED
    BY <1>14, <2>1 DEF Press
<1>15. ASSUME NEW c \in KeyCodes, LiftUp(c)
       PROVE  MachineOK'
  <2>1. Append(keys, c + RELEASED_OFFSET) \in Seq(Byte)
    BY CodesAreBytes
  <2> QED
    BY <1>15, <2>1 DEF LiftUp
<1>16. CASE UNCHANGED system
  BY <1>16 DEF system
<1> QED
  BY <1>1, <1>2, <1>3, <1>4, <1>5, <1>6, <1>7, <1>8, <1>9, <1>10, <1>11, <1>12, <1>13,
     <1>14, <1>15, <1>16 DEF SystemNext, KernelMain, Devices

(* The port holds of the mouse what it may.                                *)
LEMMA MouseByteStep ==
  ASSUME TypeOK, MachineOK, MouseByteInPort, [SystemNext]_system
  PROVE  MouseByteInPort'
<1>1. ASSUME UNCHANGED <<port, pc, pending>> PROVE MouseByteInPort'
  BY <1>1 DEF MouseByteInPort
<1>2. ASSUME port' = Read \/ port'.from \in {"keyboard", "controller"} PROVE MouseByteInPort'
  BY <1>2 DEF Read, MachineOK, MouseByteInPort
<1>3. CASE PrepareInterrupts \/ EnableSecondPort \/ AskConfig \/ WriteConfig \/ TimerInterrupt
           \/ UNCHANGED system
  BY <1>1, <1>3 DEF PrepareInterrupts, EnableSecondPort, AskConfig, WriteConfig,
     TimerInterrupt, vars, system, machine
<1>4. CASE ReadConfig \/ PollAnswer \/ KeyboardInterrupt \/ MouseInterrupt
  BY <1>2, <1>4 DEF ReadConfig, PollAnswer, Polled, KeyboardInterrupt, MouseInterrupt
<1>5. CASE PutConfig \/ PutKey
  BY <1>2, <1>5 DEF PutConfig, PutKey, Put
<1>6. CASE SendCommand
  <2>1. pending' = pending + 1
    BY <1>6 DEF SendCommand, WriteCommand
  <2>2. pending' > 0
    BY <2>1 DEF TypeOK
  <2> QED
    BY <2>2 DEF MouseByteInPort
<1>7. CASE ProcessPacket
  <2>1. UNCHANGED <<port, pending>> /\ pc' \notin {"F6", "ack F6", "F4"}
    BY <1>7 DEF ProcessPacket, machine, ReadFlags, MoveX, MoveY, ClampPosition, ReadButtons,
       Release, Follow
  <2> QED
    BY <2>1 DEF MouseByteInPort
<1>8. ASSUME NEW byte \in Bytes \union {ACK}, PutMouse(byte)
      PROVE  MouseByteInPort'
  <2>1. port' = [from |-> "mouse", byte |-> byte] /\ UNCHANGED <<pc, pending>>
    BY <1>8 DEF PutMouse, Put, vars
  <2>2. CASE pending > 0
    BY <2>1, <2>2 DEF MouseByteInPort
  <2>3. CASE ~(pending > 0)
    BY <1>8, <2>1, <2>3 DEF PutMouse, Streaming, MouseByteInPort
  <2> QED
    BY <2>2, <2>3
<1>9. ASSUME NEW c \in KeyCodes, Press(c) \/ LiftUp(c)
      PROVE  MouseByteInPort'
  BY <1>1, <1>9 DEF Press, LiftUp, vars
<1> QED
  BY <1>3, <1>4, <1>5, <1>6, <1>7, <1>8, <1>9 DEF SystemNext, KernelMain, Devices

(* The machine starts that way.                                            *)
LEMMA MachineInit == SystemInit => MachineOK /\ MouseByteInPort
<1> SUFFICES ASSUME SystemInit PROVE MachineOK /\ MouseByteInPort
  OBVIOUS
<1>1. 0 \in Byte
  BY DEF Byte
<1> QED
  BY <1>1, MachineAssumption DEF SystemInit, MachineOK, MouseByteInPort

(* In the machine, with a keyboard and a controller on the same port, the  *)
(* mouse driver does what its own specification says.                      *)
THEOREM MachineRunsDriver == SystemSpec => Driver
<1> DEFINE IInv == TypeOK /\ AnswersDue /\ MachineOK /\ MouseByteInPort
<1>1. SystemInit => Init /\ IInv
  BY TypeInit, MachineInit DEF SystemInit
<1>2. IInv /\ [SystemNext]_system => IInv' /\ [Next]_vars
  BY MachineStepsDriver, MachineStep, MouseByteStep, TypeStep
<1> QED
  BY <1>1, <1>2, PTL DEF SystemSpec, Driver

(* So the mailbox is what the machine's main loop has of the mouse, with   *)
(* every interrupt and every poll of the set-up.                           *)
THEOREM MachineImplementsPointer == SystemSpec => Pointer!Mailbox
BY MachineRunsDriver, ImplementsPointer

-----------------------------------------------------------------------------
(* Until a key's byte comes, nobody touches the port but init_mouse and    *)
(* the handler that may take the configuration byte before it, and leaves  *)
(* it in the register.                                                     *)
Untouched ==
  ~early =>
    /\ setup \in {"boot", "A8"} => config = FirmwareConfig
    /\ setup \in {"20", "read", "60"} => config = ClearBit(FirmwareConfig, 32)
    /\ setup \in {"boot", "A8", "20"} => port.from = "nobody" /\ answer = <<>>
    /\ setup = "read" => \/ answer = <<config>> /\ port.from = "nobody"
                         \/ answer = <<>> /\ port.byte = config
    /\ setup = "60" => status = SetBit(config, 2)

(* The firmware's configuration is kept, with the mouse's interrupt added. *)
THEOREM ConfigIsKept == SystemSpec => ConfigKept
<1> DEFINE Kept == setup = "60" /\ setup' = "done" /\ ~early
                     => config' = SetBit(ClearBit(FirmwareConfig, 32), 2)
<1>1. SystemInit => MachineOK /\ Untouched
  BY MachineInit DEF SystemInit, Untouched
<1>2. MachineOK /\ Untouched /\ [SystemNext]_system => Untouched' /\ [Kept]_system
  <2> SUFFICES ASSUME MachineOK, Untouched, [SystemNext]_system
               PROVE  Untouched' /\ Kept
    OBVIOUS
  <2> USE DEF Untouched, machine, controllers, keyboard
  <2>1. CASE PrepareInterrupts
    BY <2>1 DEF PrepareInterrupts
  <2>2. CASE EnableSecondPort
    BY <2>2 DEF EnableSecondPort, Step
  <2>3. CASE AskConfig
    BY <2>3 DEF AskConfig, Step
  <2>4. CASE ReadConfig
    BY <2>4 DEF ReadConfig, Step, Polled
  <2>5. CASE WriteConfig
    BY <2>5 DEF WriteConfig, Step
  <2>6. CASE SendCommand \/ ProcessPacket \/ UNCHANGED system
    BY <2>6 DEF SendCommand, ProcessPacket, system
  <2>7. CASE PollAnswer
    BY <2>7 DEF PollAnswer, Polled, Read, MachineOK
  <2>8. CASE KeyboardInterrupt
    BY <2>8 DEF KeyboardInterrupt, Read, MachineOK
  <2>9. CASE MouseInterrupt
    BY <2>9 DEF MouseInterrupt, Read, MachineOK
  <2>10. CASE TimerInterrupt
    BY <2>10 DEF TimerInterrupt
  <2>11. CASE PutConfig
    BY <2>11 DEF PutConfig, Put
  <2>12. CASE PutKey
    BY <2>12 DEF PutKey, Put
  <2>13. ASSUME NEW byte \in Bytes \union {ACK}, PutMouse(byte)
         PROVE  Untouched' /\ Kept
    BY <2>13 DEF PutMouse
  <2>14. ASSUME NEW c \in KeyCodes, Press(c) \/ LiftUp(c)
         PROVE  Untouched' /\ Kept
    BY <2>14 DEF Press, LiftUp
  <2> QED
    BY <2>1, <2>2, <2>3, <2>4, <2>5, <2>6, <2>7, <2>8, <2>9, <2>10, <2>11, <2>12, <2>13, <2>14
    DEF SystemNext, KernelMain, Devices
<1>3. MachineOK /\ [SystemNext]_system => MachineOK'
  BY MachineStep
<1> QED
  BY <1>1, <1>2, <1>3, PTL DEF SystemSpec, ConfigKept

-----------------------------------------------------------------------------
(* Keys.                                                                   *)

(* The table of characters: the codes of its rows,                         *)
LEMMA RowCodes ==
  /\ DOMAIN Rows = 1 .. 4
  /\ Rows[1].first = 2 /\ Len(Rows[1].lower) = 12
  /\ Rows[2].first = 16 /\ Len(Rows[2].lower) = 12
  /\ Rows[3].first = 30 /\ Len(Rows[3].lower) = 12
  /\ Rows[4].first = 43 /\ Len(Rows[4].lower) = 11
<1>1. DOMAIN Rows = 1 .. 4
  BY DEF Rows
<1>2. Rows[1].first = 2
  BY DEF Rows
<1>3. Len(Rows[1].lower) = 12
  BY DEF Rows
<1>4. Rows[2].first = 16
  BY DEF Rows
<1>5. Len(Rows[2].lower) = 12
  BY DEF Rows
<1>6. Rows[3].first = 30
  BY DEF Rows
<1>7. Len(Rows[3].lower) = 12
  BY DEF Rows
<1>8. Rows[4].first = 43
  BY DEF Rows
<1>9. Len(Rows[4].lower) = 11
  BY DEF Rows
<1> QED
  BY <1>1, <1>2, <1>3, <1>4, <1>5, <1>6, <1>7, <1>8, <1>9

(* none of whose places is empty, with the shift key or without.           *)
LEMMA RowsFilled ==
  ASSUME NEW i \in 1 .. 4, NEW k \in 1 .. Len(Rows[i].lower)
  PROVE  Rows[i].lower[k] # NoChar /\ Rows[i].upper[k] # NoChar
<1>1. CASE i = 1
  <2>1. /\ Rows[1].lower[1] # "" /\ Rows[1].lower[2] # "" /\ Rows[1].lower[3] # ""
       /\ Rows[1].lower[4] # "" /\ Rows[1].lower[5] # "" /\ Rows[1].lower[6] # ""
       /\ Rows[1].lower[7] # "" /\ Rows[1].lower[8] # "" /\ Rows[1].lower[9] # ""
       /\ Rows[1].lower[10] # "" /\ Rows[1].lower[11] # "" /\ Rows[1].lower[12] # ""
    BY DEF Rows
  <2>2. /\ Rows[1].upper[1] # "" /\ Rows[1].upper[2] # "" /\ Rows[1].upper[3] # ""
       /\ Rows[1].upper[4] # "" /\ Rows[1].upper[5] # "" /\ Rows[1].upper[6] # ""
       /\ Rows[1].upper[7] # "" /\ Rows[1].upper[8] # "" /\ Rows[1].upper[9] # ""
       /\ Rows[1].upper[10] # "" /\ Rows[1].upper[11] # "" /\ Rows[1].upper[12] # ""
    BY DEF Rows
  <2>3. k \in 1 .. 12
    BY <1>1, RowCodes
  <2> QED
    <3>1. k \in {1, 2, 3, 4, 5, 6, 7, 8, 9, 10, 11, 12}
      BY <2>3
    <3>2. Rows[1].lower[k] # ""
      BY <2>1, <3>1, Zenon
    <3>3. Rows[1].upper[k] # ""
      BY <2>2, <3>1, Zenon
    <3> QED
      BY <1>1, <3>2, <3>3 DEF NoChar
<1>2. CASE i = 2
  <2>1. /\ Rows[2].lower[1] # "" /\ Rows[2].lower[2] # "" /\ Rows[2].lower[3] # ""
       /\ Rows[2].lower[4] # "" /\ Rows[2].lower[5] # "" /\ Rows[2].lower[6] # ""
       /\ Rows[2].lower[7] # "" /\ Rows[2].lower[8] # "" /\ Rows[2].lower[9] # ""
       /\ Rows[2].lower[10] # "" /\ Rows[2].lower[11] # "" /\ Rows[2].lower[12] # ""
    BY DEF Rows
  <2>2. /\ Rows[2].upper[1] # "" /\ Rows[2].upper[2] # "" /\ Rows[2].upper[3] # ""
       /\ Rows[2].upper[4] # "" /\ Rows[2].upper[5] # "" /\ Rows[2].upper[6] # ""
       /\ Rows[2].upper[7] # "" /\ Rows[2].upper[8] # "" /\ Rows[2].upper[9] # ""
       /\ Rows[2].upper[10] # "" /\ Rows[2].upper[11] # "" /\ Rows[2].upper[12] # ""
    BY DEF Rows
  <2>3. k \in 1 .. 12
    BY <1>2, RowCodes
  <2> QED
    <3>1. k \in {1, 2, 3, 4, 5, 6, 7, 8, 9, 10, 11, 12}
      BY <2>3
    <3>2. Rows[2].lower[k] # ""
      BY <2>1, <3>1, Zenon
    <3>3. Rows[2].upper[k] # ""
      BY <2>2, <3>1, Zenon
    <3> QED
      BY <1>2, <3>2, <3>3 DEF NoChar
<1>3. CASE i = 3
  <2>1. /\ Rows[3].lower[1] # "" /\ Rows[3].lower[2] # "" /\ Rows[3].lower[3] # ""
       /\ Rows[3].lower[4] # "" /\ Rows[3].lower[5] # "" /\ Rows[3].lower[6] # ""
       /\ Rows[3].lower[7] # "" /\ Rows[3].lower[8] # "" /\ Rows[3].lower[9] # ""
       /\ Rows[3].lower[10] # "" /\ Rows[3].lower[11] # "" /\ Rows[3].lower[12] # ""
    BY DEF Rows
  <2>2. /\ Rows[3].upper[1] # "" /\ Rows[3].upper[2] # "" /\ Rows[3].upper[3] # ""
       /\ Rows[3].upper[4] # "" /\ Rows[3].upper[5] # "" /\ Rows[3].upper[6] # ""
       /\ Rows[3].upper[7] # "" /\ Rows[3].upper[8] # "" /\ Rows[3].upper[9] # ""
       /\ Rows[3].upper[10] # "" /\ Rows[3].upper[11] # "" /\ Rows[3].upper[12] # ""
    BY DEF Rows
  <2>3. k \in 1 .. 12
    BY <1>3, RowCodes
  <2> QED
    <3>1. k \in {1, 2, 3, 4, 5, 6, 7, 8, 9, 10, 11, 12}
      BY <2>3
    <3>2. Rows[3].lower[k] # ""
      BY <2>1, <3>1, Zenon
    <3>3. Rows[3].upper[k] # ""
      BY <2>2, <3>1, Zenon
    <3> QED
      BY <1>3, <3>2, <3>3 DEF NoChar
<1>4. CASE i = 4
  <2>1. /\ Rows[4].lower[1] # "" /\ Rows[4].lower[2] # "" /\ Rows[4].lower[3] # ""
       /\ Rows[4].lower[4] # "" /\ Rows[4].lower[5] # "" /\ Rows[4].lower[6] # ""
       /\ Rows[4].lower[7] # "" /\ Rows[4].lower[8] # "" /\ Rows[4].lower[9] # ""
       /\ Rows[4].lower[10] # "" /\ Rows[4].lower[11] # ""
    BY DEF Rows
  <2>2. /\ Rows[4].upper[1] # "" /\ Rows[4].upper[2] # "" /\ Rows[4].upper[3] # ""
       /\ Rows[4].upper[4] # "" /\ Rows[4].upper[5] # "" /\ Rows[4].upper[6] # ""
       /\ Rows[4].upper[7] # "" /\ Rows[4].upper[8] # "" /\ Rows[4].upper[9] # ""
       /\ Rows[4].upper[10] # "" /\ Rows[4].upper[11] # ""
    BY DEF Rows
  <2>3. k \in 1 .. 11
    BY <1>4, RowCodes
  <2> QED
    <3>1. k \in {1, 2, 3, 4, 5, 6, 7, 8, 9, 10, 11}
      BY <2>3
    <3>2. Rows[4].lower[k] # ""
      BY <2>1, <3>1, Zenon
    <3>3. Rows[4].upper[k] # ""
      BY <2>2, <3>1, Zenon
    <3> QED
      BY <1>4, <3>2, <3>3 DEF NoChar
<1> QED
  BY <1>1, <1>2, <1>3, <1>4

(* So the driver has a character for a key with the shift key just when it *)
(* has one without.                                                        *)
LEMMA PrintableWithShift ==
  ASSUME NEW code \in Int, NEW shift \in BOOLEAN
  PROVE  get_ascii_char(code, shift) # NoChar <=> Printable(code)
<1> DEFINE hits == {i \in DOMAIN Rows : InRow(Rows[i], code)}
           k(i) == code - Rows[i].first + 1
<1>1. ASSUME NEW i \in hits
      PROVE  Rows[i].upper[k(i)] # NoChar /\ Rows[i].lower[k(i)] # NoChar
  <2>1. i \in 1 .. 4
    BY RowCodes
  <2>2. k(i) \in 1 .. Len(Rows[i].lower)
    BY <2>1, RowCodes DEF InRow
  <2> QED
    BY <2>1, <2>2, RowsFilled
<1>2. CASE hits = {}
  BY <1>2 DEF get_ascii_char, Printable
<1>3. CASE hits # {}
  <2> DEFINE i == CHOOSE h \in hits : TRUE
  <2>1. i \in hits
    BY <1>3
  <2>2. Rows[i].upper[k(i)] # NoChar /\ Rows[i].lower[k(i)] # NoChar
    BY <1>1, <2>1
  <2>3. \A s \in BOOLEAN : get_ascii_char(code, s) =
          IF s THEN Rows[i].upper[k(i)] ELSE Rows[i].lower[k(i)]
    BY <1>3 DEF get_ascii_char
  <2> QED
    BY <2>2, <2>3 DEF Printable
<1> QED
  BY <1>2, <1>3

(* A release has no character, and neither has the shift key.              *)
LEMMA ReleaseUnprintable ==
  ASSUME NEW code \in Int, Printable(code)
  PROVE  code \in 2 .. 53 /\ code # KEY_LEFT_SHIFT
<1>1. PICK i \in DOMAIN Rows : InRow(Rows[i], code)
  BY DEF Printable, get_ascii_char
<1>2. CASE i = 1
  BY <1>1, <1>2, RowCodes DEF InRow, KEY_LEFT_SHIFT
<1>3. CASE i = 2
  BY <1>1, <1>3, RowCodes DEF InRow, KEY_LEFT_SHIFT
<1>4. CASE i = 3
  BY <1>1, <1>4, RowCodes DEF InRow, KEY_LEFT_SHIFT
<1>5. CASE i = 4
  BY <1>1, <1>5, RowCodes DEF InRow, KEY_LEFT_SHIFT
<1> QED
  BY <1>2, <1>3, <1>4, <1>5, RowCodes

ShiftCodes == {KEY_LEFT_SHIFT, KEY_LEFT_SHIFT + RELEASED_OFFSET}

(* Handling the codes s one after the other leads from shift, the value of *)
(* shift_pressed, to down: the last of them that is about the shift key    *)
(* decides.                                                                *)
Leads(s, shift, down) ==
  \/ /\ \A i \in DOMAIN s : s[i] \notin ShiftCodes
     /\ shift <=> down
  \/ \E i \in DOMAIN s :
       /\ s[i] \in ShiftCodes
       /\ \A j \in DOMAIN s : j > i => s[j] \notin ShiftCodes
       /\ s[i] = KEY_LEFT_SHIFT <=> down

(* Another code                                                            *)
LEMMA LeadsAppend ==
  ASSUME NEW s \in Seq(Byte), NEW c \in Byte, NEW shift \in BOOLEAN, NEW down \in BOOLEAN,
         NEW next \in BOOLEAN,
         next <=> IF c \in ShiftCodes THEN c = KEY_LEFT_SHIFT ELSE down,
         Leads(s, shift, down)
  PROVE  Leads(Append(s, c), shift, next)
<1> DEFINE t == Append(s, c)
<1>1. /\ Len(s) \in Nat /\ DOMAIN s = 1 .. Len(s) /\ DOMAIN t = 1 .. Len(s) + 1
      /\ t[Len(s) + 1] = c /\ \A i \in 1 .. Len(s) : t[i] = s[i]
  OBVIOUS
<1> HIDE DEF t
<1>2. CASE c \in ShiftCodes
  <2>1. Len(s) + 1 \in DOMAIN t /\ \A j \in DOMAIN t : ~(j > Len(s) + 1)
    BY <1>1
  <2> QED
    BY <1>1, <1>2, <2>1 DEF Leads, t
<1>3. CASE c \notin ShiftCodes
  <2>1. next <=> down
    BY <1>3
  <2>2. CASE \A i \in DOMAIN s : s[i] \notin ShiftCodes
    <3>1. \A i \in DOMAIN t : t[i] \notin ShiftCodes
      BY <1>1, <1>3, <2>2
    <3>2. shift <=> down
      BY <2>2 DEF Leads
    <3> QED
      BY <2>1, <3>1, <3>2 DEF Leads, t
  <2>3. CASE ~\A i \in DOMAIN s : s[i] \notin ShiftCodes
    <3>1. PICK i \in DOMAIN s : /\ s[i] \in ShiftCodes
                                /\ \A j \in DOMAIN s : j > i => s[j] \notin ShiftCodes
                                /\ s[i] = KEY_LEFT_SHIFT <=> down
      BY <2>3 DEF Leads
    <3>2. i \in DOMAIN t /\ t[i] = s[i] /\ \A j \in DOMAIN t : j > i => t[j] \notin ShiftCodes
      <4>1. i \in 1 .. Len(s) /\ i \in 1 .. Len(s) + 1
        BY <1>1, <3>1
      <4>2. ASSUME NEW j \in DOMAIN t, j > i
            PROVE  t[j] \notin ShiftCodes
        <5>1. CASE j = Len(s) + 1
          BY <1>1, <1>3, <5>1
        <5>2. CASE j # Len(s) + 1
          <6>1. j \in 1 .. Len(s)
            BY <1>1, <4>2, <5>2
          <6>2. j \in DOMAIN s /\ t[j] = s[j]
            BY <1>1, <6>1
          <6> QED
            BY <3>1, <4>2, <6>2
        <5> QED
          BY <5>1, <5>2
      <4> QED
        BY <1>1, <4>1, <4>2
    <3> QED
      BY <2>1, <3>1, <3>2 DEF Leads, t
  <2> QED
    BY <2>2, <2>3
<1> QED
  BY <1>2, <1>3

(* and handling the first one.                                             *)
LEMMA LeadsTail ==
  ASSUME NEW c \in Byte, NEW s \in Seq(Byte), NEW shift \in BOOLEAN, NEW down \in BOOLEAN,
         Leads(<<c>> \o s, shift, down)
  PROVE  Leads(s, ShiftAfter(c, shift), down)
<1> DEFINE t == <<c>> \o s
<1>1. /\ Len(s) \in Nat /\ DOMAIN s = 1 .. Len(s) /\ DOMAIN t = 1 .. Len(s) + 1
      /\ t[1] = c /\ \A i \in 1 .. Len(s) : t[i + 1] = s[i]
  OBVIOUS
<1>2. Leads(t, shift, down)
  OBVIOUS
<1> HIDE DEF t
<1>3. CASE \A i \in DOMAIN t : t[i] \notin ShiftCodes
  <2>1. \A i \in DOMAIN s : s[i] \notin ShiftCodes
    BY <1>1, <1>3
  <2>2. 1 \in DOMAIN t
    BY <1>1
  <2>3. c \notin ShiftCodes
    BY <1>1, <1>3, <2>2
  <2>4. ShiftAfter(c, shift) = shift
    BY <2>3 DEF ShiftAfter, ShiftCodes
  <2>5. shift <=> down
    BY <1>2, <1>3 DEF Leads
  <2> QED
    BY <2>1, <2>4, <2>5 DEF Leads
<1>4. CASE ~\A i \in DOMAIN t : t[i] \notin ShiftCodes
  <2>1. PICK i \in DOMAIN t : /\ t[i] \in ShiftCodes
                              /\ \A j \in DOMAIN t : j > i => t[j] \notin ShiftCodes
                              /\ t[i] = KEY_LEFT_SHIFT <=> down
    BY <1>2, <1>4 DEF Leads
  <2>2. CASE i = 1
    <3>1. \A j \in DOMAIN s : s[j] \notin ShiftCodes
      <4> TAKE j \in DOMAIN s
      <4>1. j + 1 \in DOMAIN t /\ j + 1 > i /\ t[j + 1] = s[j]
        BY <1>1, <2>2
      <4> QED
        BY <2>1, <4>1
    <3>2. c \in ShiftCodes /\ (c = KEY_LEFT_SHIFT <=> down)
      BY <1>1, <2>1, <2>2
    <3>3. ShiftAfter(c, shift) <=> down
      BY <3>2 DEF ShiftAfter, ShiftCodes, KEY_LEFT_SHIFT, RELEASED_OFFSET
    <3> QED
      BY <3>1, <3>3 DEF Leads
  <2>3. CASE i # 1
    <3>1. i - 1 \in 1 .. Len(s) /\ (i - 1) + 1 = i
      BY <1>1, <2>3
    <3>2. i - 1 \in DOMAIN s /\ s[i - 1] = t[i]
      BY <1>1, <3>1
    <3>3. ASSUME NEW j \in DOMAIN s, j > i - 1
          PROVE  s[j] \notin ShiftCodes
      <4>1. j + 1 \in DOMAIN t /\ j + 1 > i /\ t[j + 1] = s[j]
        BY <1>1, <3>1, <3>3
      <4> QED
        BY <2>1, <4>1
    <3> QED
      BY <2>1, <3>2, <3>3 DEF Leads
  <2> QED
    BY <2>2, <2>3
<1> QED
  BY <1>3, <1>4

(* How many of the codes s type a character.                               *)
Count(s) == Cardinality({i \in DOMAIN s : Printable(s[i])})

(* There are finitely many.                                                *)
LEMMA CountType ==
  ASSUME NEW s \in Seq(Byte)
  PROVE  IsFiniteSet({i \in DOMAIN s : Printable(s[i])}) /\ Count(s) \in Nat
<1>1. IsFiniteSet(1 .. Len(s)) /\ DOMAIN s = 1 .. Len(s)
  BY FS_Interval
<1> QED
  BY <1>1, FS_Subset, FS_CardinalityType DEF Count

(* A code behind the others                                                *)
LEMMA CountAppend ==
  ASSUME NEW s \in Seq(Byte), NEW c \in Byte
  PROVE  Count(Append(s, c)) = IF Printable(c) THEN Count(s) + 1 ELSE Count(s)
<1> DEFINE t == Append(s, c)
           P(u) == {i \in DOMAIN u : Printable(u[i])}
<1>1. /\ Len(s) \in Nat /\ DOMAIN s = 1 .. Len(s) /\ DOMAIN t = 1 .. Len(s) + 1
      /\ t[Len(s) + 1] = c /\ \A i \in 1 .. Len(s) : t[i] = s[i]
  OBVIOUS
<1> HIDE DEF t
<1>2. P(t) = IF Printable(c) THEN P(s) \union {Len(s) + 1} ELSE P(s)
  <2>1. \A i : i \in P(t) <=> i \in P(s) \/ (i = Len(s) + 1 /\ Printable(c))
    BY <1>1
  <2> QED
    BY <2>1
<1>3. Len(s) + 1 \notin P(s)
  BY <1>1
<1>4. IsFiniteSet(P(s))
  BY CountType
<1> QED
  BY <1>2, <1>3, <1>4, FS_AddElement DEF Count, t

(* or before them counts if it types a character.                          *)
LEMMA CountTail ==
  ASSUME NEW c \in Byte, NEW s \in Seq(Byte)
  PROVE  Count(<<c>> \o s) = IF Printable(c) THEN Count(s) + 1 ELSE Count(s)
<1> DEFINE t == <<c>> \o s
           P(u) == {i \in DOMAIN u : Printable(u[i])}
           Q == P(t) \ {1}
           f == [i \in P(s) |-> i + 1]
<1>1. /\ Len(s) \in Nat /\ DOMAIN s = 1 .. Len(s) /\ DOMAIN t = 1 .. Len(s) + 1
      /\ t[1] = c /\ \A i \in 1 .. Len(s) : t[i + 1] = s[i]
      /\ t \in Seq(Byte)
  OBVIOUS
<1> HIDE DEF t
<1>2. f \in Bijection(P(s), Q)
  <2>1. \A i \in P(s) : i + 1 \in Q
    BY <1>1
  <2>2. \A i, j \in P(s) : i + 1 = j + 1 => i = j
    BY <1>1
  <2>3. \A k \in Q : k - 1 \in P(s) /\ (k - 1) + 1 = k
    BY <1>1
  <2> QED
    BY <2>1, <2>2, <2>3 DEF Bijection, Injection, Surjection, IsInjective
<1>3. Cardinality(Q) = Count(s)
  BY <1>2, CountType, FS_Bijection DEF ExistsBijection, Count
<1>4. IsFiniteSet(P(t)) /\ Count(t) \in Nat /\ Count(s) \in Nat
  BY <1>1, CountType
<1>5. 1 \in P(t) <=> Printable(c)
  BY <1>1
<1>6. Cardinality(Q) = IF 1 \in P(t) THEN Count(t) - 1 ELSE Count(t)
  BY <1>4, FS_RemoveElement DEF Count
<1>7. Count(t) = IF Printable(c) THEN Count(s) + 1 ELSE Count(s)
  <2> HIDE DEF Q, P
  <2> QED
    BY <1>3, <1>4, <1>5, <1>6
<1> QED
  BY <1>7 DEF t

(* Until a byte goes astray, the codes underway lead shift_pressed to      *)
(* where the left shift key is, and type what is owed.                     *)
KeysFollow ==
  /\ Leads(Underway, shift_pressed, KEY_LEFT_SHIFT \in held)
  /\ owed = Count(Underway)

KeysInv ==
  /\ shift_pressed \in BOOLEAN
  /\ strayed \in BOOLEAN
  /\ ~strayed => KeysFollow

(* What is underway is made of bytes.                                      *)
LEMMA UnderwayBytes ==
  ASSUME MachineOK
  PROVE  Underway \in Seq(Byte)
BY DEF MachineOK, Underway

(* The steps that concern no key.                                          *)
LEMMA KeysIdle ==
  ASSUME KeysInv, UNCHANGED <<Underway, shift_pressed, held, owed, strayed>>
  PROVE  KeysInv'
BY DEF KeysInv, KeysFollow

(* The steps in which somebody else may read the port: what they read of   *)
(* the keyboard goes astray.                                               *)
LEMMA KeysPolled ==
  ASSUME MachineOK, KeysInv,
         port' = Read, strayed' = (strayed \/ port.from = "keyboard"),
         owed' = IF strayed' THEN 0 ELSE owed,
         UNCHANGED <<keys, held, shift_pressed>>
  PROVE  KeysInv'
<1>1. strayed' \in BOOLEAN /\ shift_pressed' \in BOOLEAN
  BY DEF KeysInv
<1>2. CASE strayed'
  BY <1>1, <1>2 DEF KeysInv
<1>3. CASE ~strayed'
  <2>1. ~strayed /\ port.from # "keyboard"
    BY <1>3
  <2>2. port'.from = "nobody"
    BY DEF Read, MachineOK
  <2>3. UNCHANGED <<Underway, owed>>
    BY <1>3, <2>1, <2>2 DEF Underway
  <2> QED
    BY <1>1, <2>1, <2>3 DEF KeysInv, KeysFollow
<1> QED
  BY <1>1, <1>2, <1>3

(* The keyboard's handler, with a code                                     *)
LEMMA KeyHandled ==
  ASSUME MachineOK, KeysInv, KeyboardInterrupt, port.from = "keyboard"
  PROVE  KeysInv'
<1> DEFINE code == port.byte
           down == KEY_LEFT_SHIFT \in held
<1>1. /\ code \in Byte /\ code \in Int
      /\ keys \in Seq(Byte)
      /\ port'.from = "nobody"
      /\ down \in BOOLEAN
  <2>1. port' = Read
    BY DEF KeyboardInterrupt
  <2>2. port'.from = "nobody" /\ code \in Byte
    BY <2>1 DEF Read, MachineOK
  <2>3. code \in Int
    BY <2>2 DEF Byte
  <2> QED
    BY <2>2, <2>3 DEF MachineOK
<1>2. UNCHANGED <<keys, held>> /\ shift_pressed' = ShiftAfter(code, shift_pressed)
  BY DEF KeyboardInterrupt
<1>3. shift_pressed' \in BOOLEAN /\ strayed' = strayed /\ strayed' \in BOOLEAN
  BY <1>2 DEF KeyboardInterrupt, KeysInv, ShiftAfter
<1>4. Underway = <<code>> \o keys /\ Underway' = keys
  BY <1>1, <1>2 DEF Underway
<1>5. CASE strayed
  BY <1>3, <1>5 DEF KeysInv
<1>6. CASE ~strayed
  <2>1. Leads(<<code>> \o keys, shift_pressed, down) /\ owed = Count(<<code>> \o keys)
    BY <1>4, <1>6 DEF KeysInv, KeysFollow
  <2>2. Leads(keys, shift_pressed', down)
    <3> HIDE DEF down, code
    <3>1. shift_pressed \in BOOLEAN
      BY DEF KeysInv
    <3> QED
      BY <1>1, <1>2, <2>1, <3>1, LeadsTail, Zenon
  <2>3. owed' = IF Printable(code) THEN owed - 1 ELSE owed
    BY <1>1, <1>3, <1>6, PrintableWithShift DEF KeyboardInterrupt, Typed
  <2>4. owed = IF Printable(code) THEN Count(keys) + 1 ELSE Count(keys)
    BY <1>1, <2>1, CountTail
  <2>5. owed' = Count(keys)
    <3>1. Count(keys) \in Nat
      BY <1>1, CountType
    <3> QED
      BY <2>3, <2>4, <3>1
  <2>6. (KEY_LEFT_SHIFT \in held') = down
    BY <1>2
  <2> QED
    BY <1>3, <1>4, <2>2, <2>5, <2>6 DEF KeysInv, KeysFollow
<1> QED
  BY <1>5, <1>6

(* and with a byte that is none: it goes astray if it looks like one that  *)
(* matters.                                                                *)
LEMMA StrayHandled ==
  ASSUME MachineOK, KeysInv, KeyboardInterrupt, port.from # "keyboard"
  PROVE  KeysInv'
<1> DEFINE code == port.byte
<1>1. code \in Byte /\ code \in Int /\ port'.from = "nobody"
  <2>1. port' = Read
    BY DEF KeyboardInterrupt
  <2>2. port'.from = "nobody" /\ code \in Byte
    BY <2>1 DEF Read, MachineOK
  <2>3. code \in Int
    BY <2>2 DEF Byte
  <2> QED
    BY <2>2, <2>3 DEF MachineOK
<1>2. UNCHANGED <<keys, held>> /\ shift_pressed' = ShiftAfter(code, shift_pressed)
  BY DEF KeyboardInterrupt
<1>3. shift_pressed' \in BOOLEAN /\ strayed' = (strayed \/ Matters(code)) /\ strayed' \in BOOLEAN
  BY <1>2 DEF KeyboardInterrupt, KeysInv, ShiftAfter, Matters, Printable
<1>4. CASE strayed'
  BY <1>3, <1>4 DEF KeysInv
<1>5. CASE ~strayed'
  <2>1. ~strayed /\ ~Printable(code) /\ code % RELEASED_OFFSET # KEY_LEFT_SHIFT
    BY <1>3, <1>5 DEF Matters
  <2>2. code \notin ShiftCodes
    BY <1>1, <2>1 DEF ShiftCodes, KEY_LEFT_SHIFT, RELEASED_OFFSET
  <2>3. UNCHANGED shift_pressed
    BY <1>2, <2>2 DEF ShiftAfter, ShiftCodes
  <2>4. UNCHANGED owed
    BY <1>1, <1>3, <1>5, <2>1, PrintableWithShift DEF KeyboardInterrupt, Typed
  <2>5. UNCHANGED Underway
    BY <1>1, <1>2 DEF Underway
  <2> QED
    BY <1>2, <1>3, <2>1, <2>3, <2>4, <2>5 DEF KeysInv, KeysFollow
<1> QED
  BY <1>4, <1>5

(* A key that goes down or up is one more code underway.                   *)
LEMMA KeyMoves ==
  ASSUME MachineOK, KeysInv, UNCHANGED <<port, shift_pressed, strayed>>,
         NEW code \in Byte, keys' = Append(keys, code),
         KEY_LEFT_SHIFT \in held' <=>
           IF code \in ShiftCodes THEN code = KEY_LEFT_SHIFT ELSE KEY_LEFT_SHIFT \in held,
         owed' = IF Printable(code) /\ ~strayed THEN owed + 1 ELSE owed
  PROVE  KeysInv'
<1>1. Underway' = Append(Underway, code)
  <2>1. keys \in Seq(Byte) /\ port.byte \in Byte
    BY DEF MachineOK
  <2>2. <<port.byte>> \o Append(keys, code) = Append(<<port.byte>> \o keys, code)
    BY <2>1
  <2> QED
    BY <2>2 DEF Underway
<1>2. Underway \in Seq(Byte)
  BY UnderwayBytes
<1>3. CASE strayed
  BY <1>3 DEF KeysInv
<1>4. CASE ~strayed
  <2>1. Leads(Underway, shift_pressed, KEY_LEFT_SHIFT \in held) /\ owed = Count(Underway)
    BY <1>4 DEF KeysInv, KeysFollow
  <2>2. Leads(Append(Underway, code), shift_pressed, KEY_LEFT_SHIFT \in held')
    <3> DEFINE down == KEY_LEFT_SHIFT \in held
               next == KEY_LEFT_SHIFT \in held'
    <3>1. shift_pressed \in BOOLEAN /\ down \in BOOLEAN /\ next \in BOOLEAN
      BY DEF KeysInv
    <3>2. next <=> IF code \in ShiftCodes THEN code = KEY_LEFT_SHIFT ELSE down
      OBVIOUS
    <3>3. Leads(Underway, shift_pressed, down)
      BY <2>1
    <3> HIDE DEF down, next
    <3>4. Leads(Append(Underway, code), shift_pressed, next)
      BY <1>2, <3>1, <3>2, <3>3, LeadsAppend, Zenon
    <3> QED
      BY <3>4 DEF next
  <2>3. owed' = Count(Append(Underway, code))
    BY <1>2, <1>4, <2>1, CountAppend
  <2> QED
    BY <1>1, <1>4, <2>2, <2>3 DEF KeysInv, KeysFollow
<1> QED
  BY <1>3, <1>4

(* Every step is one of these.                                             *)
LEMMA KeysStep ==
  ASSUME MachineOK, KeysInv, [SystemNext]_system
  PROVE  KeysInv'
<1> USE DEF machine, controllers, keyboard
<1>1. CASE PrepareInterrupts \/ EnableSecondPort \/ AskConfig \/ WriteConfig \/ TimerInterrupt
           \/ SendCommand \/ ProcessPacket \/ UNCHANGED system
  <2>1. UNCHANGED <<port, keys, shift_pressed, held, owed, strayed>>
    BY <1>1 DEF PrepareInterrupts, EnableSecondPort, AskConfig, WriteConfig, TimerInterrupt,
       SendCommand, ProcessPacket, system
  <2> QED
    BY <2>1, KeysIdle DEF Underway
<1>2. CASE ReadConfig
  BY <1>2, KeysPolled DEF ReadConfig, Polled
<1>3. CASE PollAnswer
  BY <1>3, KeysPolled DEF PollAnswer, Polled
<1>4. CASE MouseInterrupt
  BY <1>4, KeysPolled DEF MouseInterrupt
<1>5. CASE KeyboardInterrupt
  BY <1>5, KeyHandled, StrayHandled
<1>6. CASE PutConfig
  <2>1. port.from = "nobody" /\ port'.from = "controller"
    BY <1>6 DEF PutConfig, Put
  <2>2. UNCHANGED Underway
    BY <1>6, <2>1 DEF PutConfig, Underway
  <2> QED
    BY <1>6, <2>2, KeysIdle DEF PutConfig
<1>7. ASSUME NEW byte \in Bytes \union {ACK}, PutMouse(byte)
      PROVE  KeysInv'
  <2>1. port.from = "nobody" /\ port'.from = "mouse"
    BY <1>7 DEF PutMouse, Put
  <2>2. UNCHANGED Underway
    BY <1>7, <2>1 DEF PutMouse, Underway
  <2> QED
    BY <1>7, <2>2, KeysIdle DEF PutMouse
<1>8. CASE PutKey
  <2>1. /\ keys # <<>> /\ keys' = Tail(keys)
        /\ port.from = "nobody"
        /\ port' = [from |-> "keyboard", byte |-> Head(keys)]
    BY <1>8 DEF PutKey, Put
  <2>2. keys = <<Head(keys)>> \o Tail(keys)
    BY <2>1 DEF MachineOK
  <2>3. UNCHANGED Underway
    BY <2>1, <2>2 DEF Underway
  <2> QED
    BY <1>8, <2>3, KeysIdle DEF PutKey
<1>9. ASSUME NEW c \in KeyCodes, Press(c)
      PROVE  KeysInv'
  <2>1. c \in Byte /\ c < RELEASED_OFFSET
    BY CodesAreBytes, MachineAssumption DEF RELEASED_OFFSET
  <2>2. KEY_LEFT_SHIFT \in held' <=>
          IF c \in ShiftCodes THEN c = KEY_LEFT_SHIFT ELSE KEY_LEFT_SHIFT \in held
    BY <1>9, <2>1 DEF Press, ShiftCodes, KEY_LEFT_SHIFT, RELEASED_OFFSET
  <2> QED
    BY <1>9, <2>1, <2>2, KeyMoves DEF Press
<1>10. ASSUME NEW c \in KeyCodes, LiftUp(c)
       PROVE  KeysInv'
  <2> DEFINE code == c + RELEASED_OFFSET
  <2>1. code \in Byte /\ c \in 1 .. 127
    BY CodesAreBytes, MachineAssumption
  <2>2. KEY_LEFT_SHIFT \in held' <=>
          IF code \in ShiftCodes THEN code = KEY_LEFT_SHIFT ELSE KEY_LEFT_SHIFT \in held
    BY <1>10, <2>1 DEF LiftUp, ShiftCodes, KEY_LEFT_SHIFT, RELEASED_OFFSET
  <2>3. ~Printable(code)
    BY <2>1, ReleaseUnprintable DEF RELEASED_OFFSET
  <2> QED
    BY <1>10, <2>1, <2>2, <2>3, KeyMoves DEF LiftUp
<1> QED
  BY <1>1, <1>2, <1>3, <1>4, <1>5, <1>6, <1>7, <1>8, <1>9, <1>10 DEF SystemNext, KernelMain, Devices

(* At first no key has been touched.                                       *)
LEMMA KeysInit == SystemInit => KeysInv
<1> SUFFICES ASSUME SystemInit PROVE KeysInv
  OBVIOUS
<1>1. Underway = <<>> /\ held = {}
  BY DEF SystemInit, Underway
<1>2. Count(<<>>) = 0
  BY FS_EmptySet DEF Count
<1>3. ~shift_pressed /\ shift_pressed \in BOOLEAN /\ ~strayed /\ strayed \in BOOLEAN /\ owed = 0
  BY DEF SystemInit
<1>4. Leads(Underway, shift_pressed, KEY_LEFT_SHIFT \in held)
  BY <1>1, <1>3 DEF Leads
<1> QED
  BY <1>1, <1>2, <1>3, <1>4 DEF KeysInv, KeysFollow

(* The invariant of the keyboard's part of the machine.                    *)
LEMMA KeysAlways == SystemSpec => [](MachineOK /\ KeysInv)
<1>1. SystemInit => MachineOK /\ KeysInv
  BY MachineInit, KeysInit
<1>2. MachineOK /\ KeysInv /\ [SystemNext]_system => (MachineOK /\ KeysInv)'
  BY MachineStep, KeysStep
<1> QED
  BY <1>1, <1>2, PTL DEF SystemSpec

(* shift_pressed says whether the left shift key is down once its bytes    *)
(* have been handled, with any keys and however the bytes of the mouse     *)
(* and the controller come in between.                                     *)
THEOREM ShiftIsFollowed == SystemSpec => []ShiftFollowsKey
<1>1. KeysInv => ShiftFollowsKey
  <2> SUFFICES ASSUME KeysInv, Underway = <<>>, ~strayed
               PROVE  shift_pressed <=> KEY_LEFT_SHIFT \in held
    BY DEF ShiftFollowsKey
  <2>1. Leads(<<>>, shift_pressed, KEY_LEFT_SHIFT \in held)
    BY DEF KeysInv, KeysFollow
  <2> QED
    BY <2>1 DEF Leads
<1> QED
  BY <1>1, KeysAlways, PTL

(* Every key pressed types its character once.                             *)
THEOREM PressesTypeOnce == SystemSpec => []PressTypesOnce
<1>1. KeysInv => PressTypesOnce
  BY DEF KeysInv, KeysFollow, PressTypesOnce, Count
<1> QED
  BY <1>1, KeysAlways, PTL
=============================================================================
