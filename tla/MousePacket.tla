----------------------------- MODULE MousePacket -----------------------------
(* The three bytes a PS/2 mouse sends and what process_mouse_packet        *)
(* (drivers/mouse.c) makes of them.                                        *)
EXTENDS Integers

CONSTANTS Width, Height   (* horizontal and vertical resolution *)

ASSUME ScreenAssumption == Width \in Nat \ {0} /\ Height \in Nat \ {0}

Byte   == 0 .. 255
Packet == [0 .. 2 -> Byte]

Screen == [x : 0 .. Width - 1, y : 0 .. Height - 1]

(* A bit of a byte, given the weight of the bit.                           *)
Bit(b, weight) == (b \div weight) % 2 = 1

PS2Leftbutton(b)   == Bit(b, 1)
PS2Rightbutton(b)  == Bit(b, 2)
PS2Middlebutton(b) == Bit(b, 4)
PS2XSign(b)        == Bit(b, 16)
PS2YSign(b)        == Bit(b, 32)
PS2XOverflow(b)    == Bit(b, 64)
PS2YOverflow(b)    == Bit(b, 128)

(* An 8-bit 256 - b: the magnitude of a negative movement, except that a   *)
(* movement byte 0 under a sign bit stays 0.                               *)
Negated(b) == (256 - b) % 256

Overflow(set) == IF set THEN 255 ELSE 0

(* The movement byte once its sign has been taken off, in place.           *)
Unsigned(negative, b) == IF negative THEN Negated(b) ELSE b

(* The pointer after a movement; y counts downwards on the screen.         *)
MovedX(flags, b, x) ==
  IF PS2XSign(flags)
  THEN x - Unsigned(TRUE, b) - Overflow(PS2XOverflow(flags))
  ELSE x + b + Overflow(PS2XOverflow(flags))

MovedY(flags, b, y) ==
  IF PS2YSign(flags)
  THEN y + Unsigned(TRUE, b) + Overflow(PS2YOverflow(flags))
  ELSE y - b - Overflow(PS2YOverflow(flags))

(* Mistaken: one column or row too many.                                   *)
ClampToSize(n, size) == IF n < 0 THEN 0 ELSE IF n > size THEN size ELSE n

(* The nearest coordinate on a screen of that size.                        *)
Clamp(n, size) == IF n < 0 THEN 0 ELSE IF n > size - 1 THEN size - 1 ELSE n

Clamped(p) == [x |-> Clamp(p.x, Width), y |-> Clamp(p.y, Height)]

Pressed(flags) ==
  [left   |-> PS2Leftbutton(flags),
   right  |-> PS2Rightbutton(flags),
   middle |-> PS2Middlebutton(flags)]
=============================================================================
