------------------------------- MODULE Keyboard -------------------------------
(* The keyboard driver (drivers/keyboard.c): the codes the keyboard sends  *)
(* and the characters get_ascii_char makes of them.                        *)
EXTENDS Integers, Sequences

(* The keys whose characters the driver knows sit in four runs of codes.   *)
(* Each is given with what it makes without and with the shift key.        *)
Rows ==
  << [first |-> 2, lower |-> <<"1", "2", "3", "4", "5", "6", "7", "8", "9", "0", "-", "=">>,
                   upper |-> <<"!", "quote", "#", "$", "%", "^", "&", "star", "open", "close", "_", "+">>],
     [first |-> 16, lower |-> <<"q", "w", "e", "r", "t", "y", "u", "i", "o", "p", "[", "]">>,
                    upper |-> <<"Q", "W", "E", "R", "T", "Y", "U", "I", "O", "P", "{", "}">>],
     [first |-> 30, lower |-> <<"a", "s", "d", "f", "g", "h", "j", "k", "l", ";", "'", "backtick">>,
                    upper |-> <<"A", "S", "D", "F", "G", "H", "J", "K", "L", ":", "@", "backtick">>],
     [first |-> 43, lower |-> <<"backslash", "z", "x", "c", "v", "b", "n", "m", ",", ".", "/">>,
                    upper |-> <<"|", "Z", "X", "C", "V", "B", "N", "M", "<", ">", "?">>] >>

KEY_LEFT_SHIFT  == 42
RELEASED_OFFSET == 128

(* No character: the terminating zero.                                     *)
NoChar == ""

InRow(row, code) == code \in row.first .. row.first + Len(row.lower) - 1

(* Mistaken: a released key is taken for a pressed one.                    *)
CharOfAny(code, shift) ==
  LET key  == code % RELEASED_OFFSET
      hits == {i \in DOMAIN Rows : InRow(Rows[i], key)}
  IN  IF hits = {} THEN NoChar
      ELSE LET row == Rows[CHOOSE i \in hits : TRUE]
           IN  IF shift THEN row.upper[key - row.first + 1] ELSE row.lower[key - row.first + 1]

(* get_ascii_char.  Its argument is a signed char, so the code of a        *)
(* release is negative and matches no case; its second argument is unused. *)
get_ascii_char(code, shift) ==
  LET hits == {i \in DOMAIN Rows : InRow(Rows[i], code)}
  IN  IF hits = {} THEN NoChar
      ELSE LET row == Rows[CHOOSE i \in hits : TRUE]
           IN  IF shift THEN row.upper[code - row.first + 1] ELSE row.lower[code - row.first + 1]

(* Mistaken: any other code ends the shift.                                *)
ShiftOnlyNext(code, shift) == code = KEY_LEFT_SHIFT

(* shift_pressed after a code: only the left shift key counts.             *)
ShiftAfter(code, shift) ==
  IF code = KEY_LEFT_SHIFT THEN TRUE
  ELSE IF code = KEY_LEFT_SHIFT + RELEASED_OFFSET THEN FALSE ELSE shift
=============================================================================
