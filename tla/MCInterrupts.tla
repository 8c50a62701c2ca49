----------------------------- MODULE MCInterrupts -----------------------------
(* Interrupts on a small screen, with two keys and two movement bytes.     *)
EXTENDS Interrupts

(* 42: right button and a negative movement in y, and as a code the left   *)
(* shift key; 81: left button, negative x with overflow.                   *)
MCBytes == {42, 81}

MCStrays == Byte

(* The letter a and the left shift key.                                    *)
MCKeys == {30, 42}
=============================================================================
