------------------------------ MODULE Calculator ------------------------------
(***************************************************************************)
(* The calculator (app/calculator.c) with the conversions it uses          *)
(* (lib/string.c: __strtoint, __itoa, strcpy, reset_string_buffer).        *)
(*                                                                         *)
(* Digits come from the keyboard interrupt.  A button is served by the     *)
(* main loop in every frame in which the mouse button is down, so one      *)
(* press serves it many times; keys may come between its steps.            *)
(*                                                                         *)
(* A character is written as its distance from the digit zero, which is    *)
(* what __strtoint takes it for.  __itoa makes the digits of a negative    *)
(* number negative: characters below the digits.                           *)
(***************************************************************************)
EXTENDS Integers, Sequences, FiniteSetsExt

CONSTANTS
  Digits,      (* the digits that may be typed                               *)
  BufferSize,  (* length of num_buffer1                                      *)
  Limit,       (* the index above which no key is taken                      *)
  CharMod,     (* 2 to the width of the index, a signed char                 *)
  IntMod,      (* 2 to the width of an int                                   *)
  Unset        (* the operand that stands for none, -696969                  *)

ASSUME CalculatorAssumption ==
  /\ Digits \subseteq 0 .. 9
  /\ Limit \in Nat /\ BufferSize \in Nat /\ Limit + 1 < BufferSize
  /\ IntMod \in Nat \ {0} /\ IntMod % 2 = 0
  /\ CharMod \in Nat /\ CharMod % 2 = 0 /\ 2 * Limit + 2 < CharMod
  /\ Unset \in -(IntMod \div 2) .. IntMod \div 2 - 1

VARIABLES
  num_buffer1, num_buffer1_index, calc_operator, calc_num1, calc_num2,
  step,    (* what the main loop does next; "panic" after a division error   *)
  button,  (* the button it serves                                           *)
  shown,   (* history: whether the buffer shows what is being typed, the     *)
           (* result, or the result with something else done since           *)
  muddled  (* history: there has been a backspace, or a digit while a button *)
           (* was served                                                     *)

number          == <<num_buffer1, num_buffer1_index>>
operands        == <<calc_operator, calc_num1, calc_num2>>
calculator_vars == <<number, operands, step, button, shown, muddled>>

BufferCells == 0 .. BufferSize - 1
Operators   == {"+", "-", "*", "/"}
NUL         == -48
Space       == -16

Wrapped(n, mod) == ((n + mod \div 2) % mod) - mod \div 2
AsInt(n)  == Wrapped(n, IntMod)
AsChar(n) == Wrapped(n, CharMod)

-----------------------------------------------------------------------------
(* The conversions.                                                        *)

TextLength(buffer) == Min({c \in BufferCells : buffer[c] = NUL} \cup {BufferSize})

strtoint(buffer) ==
  LET value[k \in 0 .. TextLength(buffer)] ==
        IF k = 0 THEN 0 ELSE 10 * value[k - 1] + buffer[k - 1]
  IN  AsInt(value[TextLength(buffer)])

(* A number without its last k digits.                                     *)
Magnitude(n) == IF n < 0 THEN -n ELSE n
Shortened(n) ==
  LET rest[k \in 0 .. BufferSize] == IF k = 0 THEN Magnitude(n) ELSE rest[k - 1] \div 10
  IN  rest
Size(n) == Min({k \in 1 .. BufferSize : Shortened(n)[k] = 0})
itoa(n) == [k \in 0 .. Size(n) - 1 |->
  LET digit == Shortened(n)[Size(n) - 1 - k] % 10 IN IF n < 0 THEN -digit ELSE digit]

(* The buffer is long enough for the digits of any int.                    *)
ASSUME DigitsFit == \A n \in 0 .. IntMod \div 2 : Shortened(n)[BufferSize] = 0

(* The string is copied with its final zero.  Mistaken form: without it.   *)
CopiedWithoutEnd(n) == [c \in BufferCells |->
  IF c \in DOMAIN itoa(n) THEN itoa(n)[c] ELSE num_buffer1[c]]

Copied(n) == [c \in BufferCells |->
  IF c \in DOMAIN itoa(n) THEN itoa(n)[c]
  ELSE IF c = Size(n) THEN NUL ELSE num_buffer1[c]]

(* Integer division cuts off towards zero.                                 *)
Quotient(a, b) == LET q == Magnitude(a) \div Magnitude(b)
                  IN  IF (a < 0) = (b < 0) THEN q ELSE -q
DivisionError(a, b) == IF b = 0 THEN TRUE ELSE Quotient(a, b) = IntMod \div 2

Apply(operator, a, b) ==
  AsInt(CASE operator = "+" -> a + b
        [] operator = "-" -> a - b
        [] operator = "*" -> a * b
        [] operator = "/" -> Quotient(a, b))

-----------------------------------------------------------------------------
(* calculator_keyboard_int.  What lies before the buffer is not modelled.  *)

Stored(ch) == [c \in BufferCells |-> IF c = num_buffer1_index THEN ch ELSE num_buffer1[c]]

TypeDigit == \E d \in Digits :
  /\ step # "panic" /\ num_buffer1_index <= Limit
  /\ num_buffer1' = Stored(d)
  /\ num_buffer1_index' = AsChar(num_buffer1_index + 1)
  /\ shown' = IF shown = "result" THEN "other" ELSE shown
  /\ UNCHANGED <<operands, step, button>>

(* Mistaken form: the index counts in a wider type than it is stored in.   *)
EraseDigitWide ==
  /\ step # "panic" /\ num_buffer1_index <= Limit
  /\ num_buffer1' = Stored(Space)
  /\ num_buffer1_index' = num_buffer1_index - 1
  /\ shown' = IF shown = "result" THEN "other" ELSE shown
  /\ UNCHANGED <<operands, step, button>>

(* The digit stays, a space is written behind it, and nothing stops the    *)
(* index at zero.                                                          *)
EraseDigit ==
  /\ step # "panic" /\ num_buffer1_index <= Limit
  /\ num_buffer1' = Stored(Space)
  /\ num_buffer1_index' = AsChar(num_buffer1_index - 1)
  /\ shown' = IF shown = "result" THEN "other" ELSE shown
  /\ UNCHANGED <<operands, step, button>>

-----------------------------------------------------------------------------
(* The buttons.                                                            *)

(* An operator: the first operand is read unless there is one.             *)
ClickOperator == \E operator \in Operators :
  /\ step = "idle" /\ button' = operator
  /\ IF calc_operator = "none" /\ calc_num1 = Unset
     THEN calc_num1' = strtoint(num_buffer1) /\ step' = "wipe"
     ELSE calc_num1' = calc_num1 /\ step' = "operator"
  /\ UNCHANGED <<number, calc_operator, calc_num2, shown>>

(* Enter: nothing without a first operand; the second one is read unless   *)
(* there is one.  Mistaken form: the first operand is not asked for.       *)
ClickEnterBlind ==
  /\ step = "idle" /\ button' = "enter"
  /\ IF calc_num2 = Unset
     THEN calc_num2' = strtoint(num_buffer1) /\ step' = "wipe"
     ELSE calc_num2' = calc_num2 /\ step' = "compute"
  /\ UNCHANGED <<number, calc_operator, calc_num1, shown>>

ClickEnter ==
  /\ step = "idle" /\ calc_num1 # Unset /\ button' = "enter"
  /\ IF calc_num2 = Unset
     THEN calc_num2' = strtoint(num_buffer1) /\ step' = "wipe"
     ELSE calc_num2' = calc_num2 /\ step' = "compute"
  /\ UNCHANGED <<number, calc_operator, calc_num1, shown>>

ClickReset ==
  /\ step = "idle" /\ button' = "reset" /\ step' = "wipe"
  /\ UNCHANGED <<number, operands, shown>>

(* Mistaken form: only the first character is taken away.                  *)
WipeFirst ==
  /\ step = "wipe" /\ step' = "rewind"
  /\ num_buffer1' = [num_buffer1 EXCEPT ![0] = NUL]
  /\ UNCHANGED <<num_buffer1_index, operands, button, shown>>

Wipe ==
  /\ step = "wipe" /\ step' = "rewind"
  /\ num_buffer1' = [c \in BufferCells |-> NUL]
  /\ UNCHANGED <<num_buffer1_index, operands, button, shown>>

Rewind ==
  /\ step = "rewind"
  /\ num_buffer1_index' = 0
  /\ step' = CASE button = "enter" -> "compute" [] button = "reset" -> "forget" [] OTHER -> "operator"
  /\ UNCHANGED <<num_buffer1, operands, button, shown>>

SetOperator ==
  /\ step = "operator" /\ step' = "idle" /\ button' = "none"
  /\ calc_operator' = button
  /\ shown' = IF shown = "result" THEN "other" ELSE shown
  /\ UNCHANGED <<number, calc_num1, calc_num2>>

Compute ==
  /\ step = "compute" /\ step' = "idle" /\ button' = "none"
  /\ IF calc_operator = "/" THEN ~DivisionError(calc_num1, calc_num2) ELSE TRUE
  /\ num_buffer1' = Copied(Apply(calc_operator, calc_num1, calc_num2))
  /\ shown' = "result"
  /\ UNCHANGED <<num_buffer1_index, operands>>

DivideByZero ==
  /\ step = "compute" /\ calc_operator = "/" /\ DivisionError(calc_num1, calc_num2)
  /\ step' = "panic"
  /\ UNCHANGED <<number, operands, button, shown>>

Forget ==
  /\ step = "forget" /\ step' = "idle" /\ button' = "none"
  /\ calc_num1' = Unset /\ calc_num2' = Unset /\ calc_operator' = "none"
  /\ shown' = "input"
  /\ UNCHANGED number

-----------------------------------------------------------------------------
CalculatorInit ==
  /\ num_buffer1 = [c \in BufferCells |-> NUL] /\ num_buffer1_index = 0
  /\ calc_operator = "none" /\ calc_num1 = Unset /\ calc_num2 = Unset
  /\ step = "idle" /\ button = "none" /\ shown = "input"
  /\ muddled = FALSE

calculator_keyboard_int ==
  \/ TypeDigit /\ muddled' = (muddled \/ step # "idle")
  \/ EraseDigit /\ muddled' = TRUE
Click == (ClickOperator \/ ClickEnter \/ ClickReset) /\ UNCHANGED muddled
Serve ==
  /\ Wipe \/ Rewind \/ SetOperator \/ Compute \/ DivideByZero \/ Forget
  /\ UNCHANGED muddled

CalculatorNext == calculator_keyboard_int \/ Click \/ Serve
CalculatorSpec == CalculatorInit /\ [][CalculatorNext]_calculator_vars

-----------------------------------------------------------------------------
(* Every variable has its type; digits of results may be negative.         *)
CalculatorTypeOK ==
  /\ num_buffer1 \in [BufferCells -> -9 .. 9 \cup {NUL, Space}]
  /\ num_buffer1_index \in -(CharMod \div 2) .. CharMod \div 2 - 1
  /\ calc_operator \in Operators \cup {"none"}
  /\ {calc_num1, calc_num2} \subseteq -(IntMod \div 2) .. IntMod \div 2 - 1
  /\ step \in {"idle", "wipe", "rewind", "operator", "compute", "forget", "panic"}
  /\ button \in Operators \cup {"none", "enter", "reset"}
  /\ shown \in {"input", "result", "other"}
  /\ muddled \in BOOLEAN

(* Whatever is typed and clicked meanwhile, a button is served only with   *)
(* what it needs: between clicks there is no operand without an operator,  *)
(* no second operand without a first one, and what is computed has both.   *)
OperandsInOrder ==
  /\ step = "idle" /\ calc_operator = "none" => calc_num1 = Unset /\ calc_num2 = Unset
  /\ calc_num2 # Unset => calc_num1 # Unset
  /\ step = "compute" => calc_operator # "none" /\ calc_num1 # Unset

(* As long as there is no backspace and no digit while a button is served: *)
(* until there is a result, the buffer holds the digits typed for the      *)
(* operand at hand and nothing of an earlier one, so what is read from it  *)
(* is what was typed.                                                      *)
DigitsOnly == ~muddled /\ step = "idle" /\ shown = "input" =>
  \A c \in BufferCells : num_buffer1[c] \in IF c < num_buffer1_index THEN Digits ELSE {NUL}

(* Under the same condition, the result on show reads back as the operator *)
(* applied to the operands, however often Enter has been served, whatever  *)
(* the buffer held before, and though the operands may overflow.           *)
ResultReadsBack == ~muddled /\ step = "idle" /\ shown = "result" =>
  strtoint(num_buffer1) = Apply(calc_operator, calc_num1, calc_num2)
===============================================================================
