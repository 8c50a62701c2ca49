-------------------------- MODULE Applications_proofs --------------------------
(***************************************************************************)
(* Theorems about the applications that run in windows.  They share no     *)
(* state, but each is served by the main loop while keys come from the     *)
(* keyboard interrupt.                                                     *)
(*                                                                         *)
(* The calculator, for any digits, any length of the buffer and any widths *)
(* of an int and of the index that its assumption allows.                  *)
(*                                                                         *)
(* The painting application, for every size of the canvas, every set of    *)
(* colours and all the points the pointer may come to.                     *)
(*                                                                         *)
(* The terminal, for any commands, any numbers of lines and columns, and   *)
(* any number of keys; the lines suffice when what a command prints fits   *)
(* behind the lines that do not yet make the main loop clear.              *)
(***************************************************************************)
EXTENDS Calculator, Paint, Terminal, WellFoundedInduction, TLAPS

-----------------------------------------------------------------------------
(* The calculator.                                                         *)


(* The keys' steps and the buttons'.                                       *)
LEMMA CalculatorSteps ==
  ASSUME [CalculatorNext]_calculator_vars
  PROVE  \/ TypeDigit \/ EraseDigit \/ ClickOperator \/ ClickEnter \/ ClickReset
         \/ Wipe \/ Rewind \/ SetOperator \/ Compute \/ DivideByZero \/ Forget
         \/ UNCHANGED calculator_vars
BY DEF CalculatorNext, calculator_keyboard_int, Click, Serve

-----------------------------------------------------------------------------

(* The operands.                                                           *)

(* A button that is served is one that its steps are for, and Enter is     *)
(* served only with an operator and a first operand.                       *)
ServedInv ==
  /\ step = "operator" => button \in Operators
  /\ step \in {"wipe", "rewind"} => button \in Operators \cup {"enter", "reset"}
  /\ step \in {"wipe", "rewind"} /\ button = "enter" => calc_operator # "none" /\ calc_num1 # Unset

(* Every step keeps both.                                                  *)
LEMMA ServedNext ==
  ASSUME ServedInv, OperandsInOrder, [CalculatorNext]_calculator_vars
  PROVE  ServedInv' /\ OperandsInOrder'
<1>1. CASE TypeDigit \/ EraseDigit
  BY <1>1 DEF TypeDigit, EraseDigit, operands, ServedInv, OperandsInOrder
<1>2. CASE ClickOperator
  BY <1>2 DEF ClickOperator, ServedInv, OperandsInOrder, Operators
<1>3. CASE ClickEnter
  <2>1. calc_operator # "none"
    BY <1>3 DEF ClickEnter, OperandsInOrder
  <2> QED
    BY <1>3, <2>1 DEF ClickEnter, ServedInv, OperandsInOrder
<1>4. CASE ClickReset
  BY <1>4 DEF ClickReset, operands, ServedInv, OperandsInOrder
<1>5. CASE Wipe
  BY <1>5 DEF Wipe, operands, ServedInv, OperandsInOrder
<1>6. CASE Rewind
  <2>1. /\ step = "rewind" /\ UNCHANGED <<operands, button>>
        /\ step' = IF button = "enter" THEN "compute"
                 ELSE IF button = "reset" THEN "forget" ELSE "operator"
    BY <1>6, Zenon DEF Rewind
  <2> QED
    BY <2>1 DEF operands, ServedInv, OperandsInOrder
<1>7. CASE SetOperator
  BY <1>7 DEF SetOperator, ServedInv, OperandsInOrder, Operators
<1>8. CASE Compute \/ DivideByZero
  BY <1>8 DEF Compute, DivideByZero, operands, ServedInv, OperandsInOrder
<1>9. CASE Forget
  BY <1>9 DEF Forget, ServedInv, OperandsInOrder
<1>10. CASE UNCHANGED calculator_vars
  BY <1>10 DEF calculator_vars, operands, ServedInv, OperandsInOrder
<1> QED
  BY CalculatorSteps, <1>1, <1>2, <1>3, <1>4, <1>5, <1>6, <1>7, <1>8, <1>9, <1>10

(* Whatever is typed while a button is served, operands and operator come  *)
(* in order.                                                               *)
THEOREM OperandsComeInOrder == CalculatorSpec => []OperandsInOrder
<1>1. CalculatorInit => ServedInv /\ OperandsInOrder
  BY DEF CalculatorInit, ServedInv, OperandsInOrder
<1>2. ServedInv /\ OperandsInOrder /\ [CalculatorNext]_calculator_vars => ServedInv' /\ OperandsInOrder'
  BY ServedNext
<1> QED
  BY <1>1, <1>2, PTL DEF CalculatorSpec

-----------------------------------------------------------------------------

(* The number being typed.                                                 *)

(* The index of a key that is taken does not wrap.                         *)
LEMMA IndexCounts ==
  ASSUME NEW n \in 0 .. Limit
  PROVE  AsChar(n + 1) = n + 1 /\ n \in BufferCells /\ n + 1 \in 0 .. Limit + 1
<1>1. /\ Limit \in Nat /\ BufferSize \in Nat /\ Limit + 1 < BufferSize
      /\ CharMod \in Nat /\ CharMod % 2 = 0 /\ 2 * Limit + 2 < CharMod
  BY CalculatorAssumption
<1> DEFINE h == CharMod \div 2
<1>2. h \in Nat /\ CharMod = 2 * h
  BY <1>1
<1> HIDE DEF h
<1>3. n + 1 + h >= 0 /\ n + 1 + h < CharMod
  BY <1>1, <1>2
<1>4. (n + 1 + h) % CharMod = n + 1 + h
  BY <1>1, <1>2, <1>3
<1>5. AsChar(n + 1) = n + 1
  BY <1>2, <1>4 DEF AsChar, Wrapped, h
<1> QED
  BY <1>1, <1>5 DEF BufferCells

(* What the buffer holds while nothing but what is typed is in it.         *)
Typed == \A c \in BufferCells : num_buffer1[c] \in IF c < num_buffer1_index THEN Digits ELSE {NUL}
Blank == \A c \in BufferCells : num_buffer1[c] = NUL
TypedInv == ~muddled =>
  /\ num_buffer1_index \in 0 .. Limit + 1
  /\ step \in {"idle", "operator"} /\ shown = "input" => Typed
  /\ step \in {"rewind", "forget"} => Blank
  /\ step = "forget" => num_buffer1_index = 0

(* A blank buffer holds the number of no digits.                           *)
LEMMA BlankTyped ==
  ASSUME Blank, num_buffer1_index = 0
  PROVE  Typed
BY DEF Blank, Typed, BufferCells

(* The steps without a backspace and without a digit at a wrong moment.    *)
LEMMA CalmSteps ==
  ASSUME [CalculatorNext]_calculator_vars, ~muddled'
  PROVE  \/ (TypeDigit /\ step = "idle") \/ ClickOperator \/ ClickEnter \/ ClickReset
         \/ Wipe \/ Rewind \/ SetOperator \/ Compute \/ DivideByZero \/ Forget
         \/ UNCHANGED calculator_vars
BY DEF CalculatorNext, calculator_keyboard_int, Click, Serve

(* Every step keeps it.                                                    *)
LEMMA TypedNext ==
  ASSUME TypedInv, [CalculatorNext]_calculator_vars
  PROVE  TypedInv'
<1>0. ~muddled' => ~muddled
  BY DEF CalculatorNext, calculator_keyboard_int, Click, Serve, calculator_vars
<1>1. CASE muddled'
  BY <1>1 DEF TypedInv
<1>2. ASSUME ~muddled'
      PROVE  TypedInv'
  <2>0. /\ num_buffer1_index \in 0 .. Limit + 1
        /\ step \in {"idle", "operator"} /\ shown = "input" => Typed
        /\ step \in {"rewind", "forget"} => Blank
        /\ step = "forget" => num_buffer1_index = 0
    BY <1>0, <1>2 DEF TypedInv
  <2>1. ASSUME UNCHANGED number, step' \notin {"rewind", "forget"},
               step' \in {"idle", "operator"} /\ shown' = "input" => Typed
        PROVE  TypedInv'
    BY <2>0, <2>1 DEF TypedInv, Typed, number
  <2>2. CASE TypeDigit /\ step = "idle"
    <3>1. PICK d \in Digits : num_buffer1' = Stored(d)
      BY <2>2 DEF TypeDigit
    <3>2. num_buffer1_index \in 0 .. Limit
      BY <2>0, <2>2, CalculatorAssumption DEF TypeDigit
    <3>3. /\ num_buffer1_index' = num_buffer1_index + 1 /\ num_buffer1_index \in BufferCells
          /\ num_buffer1_index' \in 0 .. Limit + 1
      BY <2>2, <3>2, IndexCounts DEF TypeDigit
    <3>4. /\ step' = "idle" /\ shown' = IF shown = "result" THEN "other" ELSE shown
      BY <2>2 DEF TypeDigit
    <3>5. ASSUME Typed
          PROVE  Typed'
      <4>1. ASSUME NEW c \in BufferCells
            PROVE  num_buffer1'[c] \in IF c < num_buffer1_index' THEN Digits ELSE {NUL}
        <5>1. num_buffer1'[c] = IF c = num_buffer1_index THEN d ELSE num_buffer1[c]
          BY <3>1 DEF Stored
        <5>2. num_buffer1[c] \in IF c < num_buffer1_index THEN Digits ELSE {NUL}
          BY <3>5 DEF Typed
        <5>3. c < num_buffer1_index' <=> c < num_buffer1_index \/ c = num_buffer1_index
          <6>1. c \in Int
            BY CalculatorAssumption DEF BufferCells
          <6> QED
            BY <3>2, <3>3, <6>1
        <5>4. ~(num_buffer1_index < num_buffer1_index)
          BY <3>2
        <5> QED
          BY <5>1, <5>2, <5>3, <5>4
      <4> QED
        BY <4>1 DEF Typed
    <3> QED
      BY <2>0, <2>2, <3>3, <3>4, <3>5 DEF TypedInv
  <2>3. CASE ClickOperator
    <3>1. /\ step = "idle" /\ step' \in {"wipe", "operator"} /\ UNCHANGED <<number, shown>>
      BY <2>3 DEF ClickOperator
    <3> QED
      BY <2>0, <2>1, <3>1
  <2>4. CASE ClickEnter \/ ClickReset
    <3>1. step' \in {"wipe", "compute"} /\ UNCHANGED <<number, shown>>
      BY <2>4 DEF ClickEnter, ClickReset
    <3> QED
      BY <2>1, <3>1
  <2>5. CASE Wipe
    <3>1. step' = "rewind" /\ num_buffer1' = [c \in BufferCells |-> NUL] /\ UNCHANGED num_buffer1_index
      BY <2>5 DEF Wipe
    <3>2. Blank'
      BY <3>1 DEF Blank
    <3> QED
      BY <2>0, <3>1, <3>2 DEF TypedInv
  <2>6. CASE Rewind
    <3>1. step = "rewind" /\ num_buffer1_index' = 0 /\ UNCHANGED <<num_buffer1, shown>>
      BY <2>6 DEF Rewind
    <3>2. step' \in {"compute", "forget", "operator"}
      BY <2>6, Zenon DEF Rewind
    <3>3. Blank'
      BY <2>0, <3>1 DEF Blank
    <3>4. Typed'
      BY <3>1, <3>3, BlankTyped DEF Typed, Blank, BufferCells
    <3> QED
      BY <3>1, <3>2, <3>3, <3>4, CalculatorAssumption DEF TypedInv
  <2>7. CASE SetOperator
    <3>1. /\ step = "operator" /\ step' = "idle" /\ UNCHANGED number
          /\ shown' = IF shown = "result" THEN "other" ELSE shown
      BY <2>7 DEF SetOperator
    <3> QED
      BY <2>0, <2>1, <3>1
  <2>8. CASE Compute
    <3>1. step' = "idle" /\ shown' = "result" /\ UNCHANGED num_buffer1_index
      BY <2>8 DEF Compute
    <3> QED
      BY <2>0, <3>1 DEF TypedInv
  <2>9. CASE DivideByZero
    BY <2>1, <2>9 DEF DivideByZero
  <2>10. CASE Forget
    <3>1. step = "forget" /\ step' = "idle" /\ UNCHANGED number
      BY <2>10 DEF Forget
    <3> QED
      BY <2>0, <2>1, <3>1, BlankTyped
  <2>11. CASE UNCHANGED calculator_vars
    BY <2>0, <2>11 DEF calculator_vars, number, TypedInv, Typed, Blank
  <2> QED
    BY <1>2, CalmSteps, <2>2, <2>3, <2>4, <2>5, <2>6, <2>7, <2>8, <2>9, <2>10, <2>11
<1> QED
  BY <1>1, <1>2

(* As long as there is no backspace and no digit while a button is served, *)
(* what the buttons read is what was typed.                                *)
THEOREM OnlyDigitsAreRead == CalculatorSpec => []DigitsOnly
<1>1. CalculatorInit => TypedInv
  <2> SUFFICES ASSUME CalculatorInit PROVE TypedInv
    OBVIOUS
  <2>1. Blank /\ num_buffer1_index = 0
    BY DEF CalculatorInit, Blank
  <2>2. step = "idle"
    BY DEF CalculatorInit
  <2>3. 0 \in 0 .. Limit + 1
    BY CalculatorAssumption
  <2> QED
    BY <2>1, <2>2, <2>3, BlankTyped DEF TypedInv
<1>2. TypedInv /\ [CalculatorNext]_calculator_vars => TypedInv'
  BY TypedNext
<1>3. TypedInv => DigitsOnly
  BY DEF TypedInv, Typed, DigitsOnly
<1> QED
  BY <1>1, <1>2, <1>3, PTL DEF CalculatorSpec

-----------------------------------------------------------------------------

(* The number on show, and what is read from it.                          *)

(* A set of naturals that is not empty has a least element.                *)
LEMMA LeastOf ==
  ASSUME NEW S, S \subseteq Nat, S # {}
  PROVE  \E m \in S : \A n \in S : m <= n
<1>1. IsWellFoundedOn(OpToRel(<, Nat), Nat)
  BY NatLessThanWellFounded
<1>2. PICK m \in S : \A n \in S : ~(<<n, m>> \in OpToRel(<, Nat))
  BY <1>1, WFMin
<1>3. \A n \in S : ~(n < m)
  BY <1>2 DEF OpToRel
<1> QED
  BY <1>3

(* Induction up to a number.                                               *)
LEMMA UpTo ==
  ASSUME NEW N \in Nat, NEW S, 0 \in S, \A k \in 0 .. N - 1 : k \in S => k + 1 \in S
  PROVE  0 .. N \subseteq S
<1> SUFFICES ASSUME ~(0 .. N \subseteq S)
             PROVE  FALSE
  OBVIOUS
<1> DEFINE Bad == {k \in 0 .. N : k \notin S}
<1>1. Bad \subseteq Nat /\ Bad # {}
  OBVIOUS
<1>2. PICK m \in Bad : \A k \in Bad : m <= k
  <2> HIDE DEF Bad
  <2> QED
    BY <1>1, LeastOf
<1>3. m \in 1 .. N /\ m \notin S
  BY <1>2
<1>4. m - 1 \in 0 .. N - 1 /\ m - 1 \in S
  BY <1>2, <1>3
<1>5. (m - 1) + 1 = m
  BY <1>3
<1> QED
  BY <1>3, <1>4, <1>5

(* A function of the numbers up to N, by its first value and its steps.    *)
Recursive(f, N, a, next) ==
  f \in [0 .. N -> Int] /\ f[0] = a /\ \A k \in 1 .. N : f[k] = next[k][f[k - 1]]

(* A sequence of numbers may be defined by its first and its next ones.    *)
LEMMA RecursionExists ==
  ASSUME NEW N \in Nat, NEW a \in Int, NEW next \in [1 .. N -> [Int -> Int]]
  PROVE  \E f : Recursive(f, N, a, next)
<1> DEFINE Upto(m) == \E f \in [0 .. m -> Int] :
             f[0] = a /\ \A k \in 1 .. m : f[k] = next[k][f[k - 1]]
           S == {m \in 0 .. N : Upto(m)}
<1>1. 0 \in S
  <2> DEFINE f == [k \in 0 .. 0 |-> a]
  <2>1. f \in [0 .. 0 -> Int] /\ f[0] = a /\ 1 .. 0 = {}
    OBVIOUS
  <2> HIDE DEF f
  <2>2. Upto(0)
    BY <2>1
  <2>3. 0 \in 0 .. N
    OBVIOUS
  <2> HIDE DEF Upto
  <2> QED
    BY <2>2, <2>3
<1>2. ASSUME NEW m \in 0 .. N - 1, m \in S
      PROVE  m + 1 \in S
  <2>1. PICK f \in [0 .. m -> Int] : f[0] = a /\ \A k \in 1 .. m : f[k] = next[k][f[k - 1]]
    BY <1>2
  <2> DEFINE g == [k \in 0 .. m + 1 |-> IF k = m + 1 THEN next[m + 1][f[m]] ELSE f[k]]
  <2>2. m \in 0 .. m /\ m + 1 \in 1 .. N /\ m + 1 \in 0 .. N
    OBVIOUS
  <2>3. next[m + 1] \in [Int -> Int] /\ f[m] \in Int
    BY <2>1, <2>2
  <2>4. next[m + 1][f[m]] \in Int
    BY <2>3
  <2>5. g \in [0 .. m + 1 -> Int] /\ g[0] = a
    BY <2>1, <2>4
  <2>6. ASSUME NEW k \in 1 .. m + 1
        PROVE  g[k] = next[k][g[k - 1]]
    <3>1. k - 1 \in 0 .. m + 1 /\ k - 1 # m + 1 /\ k \in 0 .. m + 1
      OBVIOUS
    <3>2. g[k - 1] = f[k - 1]
      BY <3>1
    <3>3. CASE k = m + 1
      <4>1. k - 1 = m
        BY <3>3
      <4> QED
        BY <3>1, <3>2, <3>3, <4>1
    <3>4. CASE k # m + 1
      <4>1. k \in 1 .. m
        BY <3>4
      <4>2. g[k] = f[k]
        BY <3>1, <3>4
      <4> HIDE DEF g
      <4> QED
        BY <2>1, <3>2, <4>1, <4>2
    <3> QED
      BY <3>3, <3>4
  <2> HIDE DEF g
  <2>7. Upto(m + 1)
    BY <2>5, <2>6
  <2> QED
    BY <2>2, <2>7
<1>3. 0 .. N \subseteq S
  <2> HIDE DEF S
  <2> QED
    BY <1>1, <1>2, UpTo
<1>4. N \in S
  <2> HIDE DEF S
  <2> QED
    BY <1>3
<1>5. Upto(N)
  BY <1>4
<1> QED
  BY <1>5 DEF Recursive

(* A number without its last digits.                                       *)
LEMMA ShortenedIs ==
  ASSUME NEW n \in Int
  PROVE  /\ Shortened(n) \in [0 .. BufferSize -> Nat] /\ Shortened(n)[0] = Magnitude(n)
         /\ \A k \in 1 .. BufferSize : Shortened(n)[k] = Shortened(n)[k - 1] \div 10
<1> DEFINE next == [k \in 1 .. BufferSize |-> [x \in Int |-> x \div 10]]
           m == Magnitude(n)
<1>1. BufferSize \in Nat
  BY CalculatorAssumption
<1>2. m \in Nat
  BY DEF Magnitude
<1>3. next \in [1 .. BufferSize -> [Int -> Int]]
  OBVIOUS
<1>0. m \in Int
  BY <1>2
<1>4. PICK f : Recursive(f, BufferSize, m, next)
  <2> HIDE DEF next, m
  <2> QED
    BY <1>0, <1>1, <1>3, RecursionExists
<1>5. \A k \in 1 .. BufferSize : k - 1 \in 0 .. BufferSize /\ k \in 0 .. BufferSize
  BY <1>1
<1>6. \A k \in 1 .. BufferSize : f[k] = f[k - 1] \div 10
  BY <1>4, <1>5 DEF Recursive
<1>7. f = [k \in 0 .. BufferSize |-> IF k = 0 THEN m ELSE f[k - 1] \div 10]
  <2>1. \A k \in 0 .. BufferSize : f[k] = IF k = 0 THEN m ELSE f[k - 1] \div 10
    BY <1>1, <1>4, <1>6 DEF Recursive
  <2> HIDE DEF m
  <2> QED
    BY <1>4, <2>1 DEF Recursive
<1>8. Shortened(n) = [k \in 0 .. BufferSize |-> IF k = 0 THEN m ELSE Shortened(n)[k - 1] \div 10]
  <2>1. Shortened(n) = CHOOSE r : r = [k \in 0 .. BufferSize |-> IF k = 0 THEN m ELSE r[k - 1] \div 10]
    BY DEF Shortened
  <2> HIDE DEF m
  <2> QED
    BY <1>7, <2>1
<1> DEFINE r == Shortened(n)
<1>9. r[0] = m
  BY <1>1, <1>8
<1>10. \A k \in 1 .. BufferSize : r[k] = r[k - 1] \div 10
  <2> HIDE DEF m
  <2> QED
    BY <1>1, <1>5, <1>8
<1>11. \A k \in 0 .. BufferSize : r[k] \in Nat
  <2> DEFINE S == {k \in 0 .. BufferSize : r[k] \in Nat}
  <2>1. 0 \in S
    BY <1>1, <1>2, <1>9
  <2>2. ASSUME NEW k \in 0 .. BufferSize - 1, k \in S
        PROVE  k + 1 \in S
    <3>1. k + 1 \in 1 .. BufferSize /\ (k + 1) - 1 = k /\ k + 1 \in 0 .. BufferSize
      BY <1>1
    <3>2. r[k] \in Nat
      BY <2>2
    <3>3. r[k + 1] = r[k] \div 10
      BY <1>10, <3>1
    <3> HIDE DEF r
    <3> QED
      BY <3>1, <3>2, <3>3
  <2>3. 0 .. BufferSize \subseteq S
    <3> HIDE DEF S
    <3> QED
      BY <1>1, <2>1, <2>2, UpTo
  <2> QED
    BY <2>3
<1>12. r \in [0 .. BufferSize -> Nat]
  <2>1. DOMAIN r = 0 .. BufferSize /\ r = [k \in 0 .. BufferSize |-> r[k]]
    BY <1>8
  <2> HIDE DEF r
  <2> QED
    BY <1>11, <2>1
<1> QED
  BY <1>9, <1>10, <1>12

(* The widths of an int and of the index.                                  *)
LEMMA WrapsTo ==
  ASSUME NEW h \in Nat, h > 0, NEW mod, mod = 2 * h, NEW n \in Int
  PROVE  /\ Wrapped(n, mod) \in -h .. h - 1
         /\ n \in -h .. h - 1 => Wrapped(n, mod) = n
<1>1. mod \div 2 = h
  OBVIOUS
<1>2. (n + h) % mod \in 0 .. mod - 1
  OBVIOUS
<1>3. Wrapped(n, mod) = ((n + h) % mod) - h
  BY <1>1 DEF Wrapped
<1>4. n \in -h .. h - 1 => (n + h) % mod = n + h
  <2>1. n \in -h .. h - 1 => n + h >= 0 /\ n + h < mod
    OBVIOUS
  <2> QED
    BY <2>1
<1> QED
  BY <1>2, <1>3, <1>4

(* The ints: what an int variable may hold.                                *)
Ints == -(IntMod \div 2) .. IntMod \div 2 - 1

(* An int is not changed by the cut.                                       *)
LEMMA AsIntIs ==
  ASSUME NEW n \in Int
  PROVE  AsInt(n) \in Ints /\ (n \in Ints => AsInt(n) = n)
<1> DEFINE h == IntMod \div 2
<1>1. h \in Nat /\ h > 0 /\ IntMod = 2 * h
  BY CalculatorAssumption
<1>2. AsInt(n) = Wrapped(n, IntMod) /\ Ints = -h .. h - 1
  BY DEF AsInt, Ints
<1> HIDE DEF h
<1>3. /\ Wrapped(n, IntMod) \in -h .. h - 1
      /\ n \in -h .. h - 1 => Wrapped(n, IntMod) = n
  BY <1>1, WrapsTo, Zenon
<1> QED
  BY <1>2, <1>3

(* The index, after any step, is what its type holds.                      *)
LEMMA AsCharIs ==
  ASSUME NEW n \in Int
  PROVE  AsChar(n) \in -(CharMod \div 2) .. CharMod \div 2 - 1
<1> DEFINE h == CharMod \div 2
<1>1. h \in Nat /\ h > 0 /\ CharMod = 2 * h
  BY CalculatorAssumption
<1>2. AsChar(n) = Wrapped(n, CharMod)
  BY DEF AsChar
<1>3. Wrapped(n, CharMod) \in -h .. h - 1
  <2> HIDE DEF h
  <2> QED
    BY <1>1, WrapsTo, Zenon
<1> QED
  BY <1>2, <1>3

(* Where a text ends.                                                      *)
LEMMA TextLengthIs ==
  ASSUME NEW buffer
  PROVE  /\ TextLength(buffer) \in 0 .. BufferSize
         /\ \A s \in 0 .. BufferSize :
              /\ \A c \in 0 .. s - 1 : buffer[c] # NUL
              /\ s = BufferSize \/ buffer[s] = NUL
              => TextLength(buffer) = s
<1> DEFINE Stops == {c \in BufferCells : buffer[c] = NUL} \cup {BufferSize}
<1>1. BufferSize \in Nat
  BY CalculatorAssumption
<1>2. Stops \subseteq 0 .. BufferSize /\ BufferSize \in Stops
  BY <1>1 DEF BufferCells
<1>3. \A c \in Stops : c = BufferSize \/ buffer[c] = NUL
  OBVIOUS
<1>4. \A s \in 0 .. BufferSize : s = BufferSize \/ buffer[s] = NUL => s \in Stops
  BY <1>1 DEF BufferCells
<1>5. TextLength(buffer) = CHOOSE m \in Stops : \A c \in Stops : m =< c
  BY Zenon DEF TextLength, Min
<1> HIDE DEF Stops
<1>6. \E m \in Stops : \A c \in Stops : m =< c
  <2>1. Stops \subseteq Nat /\ Stops # {}
    BY <1>2
  <2> QED
    BY <2>1, LeastOf
<1>7. TextLength(buffer) \in Stops /\ \A c \in Stops : TextLength(buffer) =< c
  BY <1>5, <1>6
<1> HIDE DEF NUL
<1>8. ASSUME NEW s \in 0 .. BufferSize, \A c \in 0 .. s - 1 : buffer[c] # NUL,
             s = BufferSize \/ buffer[s] = NUL
      PROVE  TextLength(buffer) = s
  <2>1. TextLength(buffer) =< s
    BY <1>4, <1>7, <1>8
  <2>2. TextLength(buffer) \in 0 .. BufferSize
    BY <1>2, <1>7
  <2>3. ASSUME TextLength(buffer) < s
        PROVE  FALSE
    <3>1. TextLength(buffer) \in 0 .. s - 1 /\ TextLength(buffer) # BufferSize
      BY <1>1, <2>2, <2>3
    <3> QED
      BY <1>3, <1>7, <1>8, <3>1
  <2> QED
    BY <2>1, <2>2, <2>3
<1> QED
  BY <1>2, <1>7, <1>8

(* What is read from a text: the value its last character leads to.        *)
LEMMA StrtointIs ==
  ASSUME NEW buffer, NEW f \in [0 .. TextLength(buffer) -> Int], f[0] = 0,
         \A k \in 1 .. TextLength(buffer) : f[k] = 10 * f[k - 1] + buffer[k - 1]
  PROVE  strtoint(buffer) = AsInt(f[TextLength(buffer)])
<1> DEFINE L == TextLength(buffer)
           v == CHOOSE r : r = [k \in 0 .. L |-> IF k = 0 THEN 0 ELSE 10 * r[k - 1] + buffer[k - 1]]
<1>1. L \in Nat
  BY TextLengthIs, CalculatorAssumption
<1>2. strtoint(buffer) = AsInt(v[L])
  BY DEF strtoint
<1>3. f = [k \in 0 .. L |-> IF k = 0 THEN 0 ELSE 10 * f[k - 1] + buffer[k - 1]]
  <2>1. \A k \in 0 .. L : f[k] = IF k = 0 THEN 0 ELSE 10 * f[k - 1] + buffer[k - 1]
    BY <1>1
  <2> HIDE DEF L
  <2>2. f \in [0 .. L -> Int]
    BY DEF L
  <2> QED
    BY <2>1, <2>2
<1>4. v = [k \in 0 .. L |-> IF k = 0 THEN 0 ELSE 10 * v[k - 1] + buffer[k - 1]]
  <2> HIDE DEF L
  <2> QED
    BY <1>3
<1> DEFINE S == {k \in 0 .. L : v[k] = f[k]}
<1>5. \A k \in 0 .. L : v[k] = IF k = 0 THEN 0 ELSE 10 * v[k - 1] + buffer[k - 1]
  <2> HIDE DEF L, v
  <2> QED
    BY <1>4
<1> HIDE DEF v
<1>6. 0 \in S
  BY <1>1, <1>5
<1>7. ASSUME NEW k \in 0 .. L - 1, k \in S
      PROVE  k + 1 \in S
  <2>1. k + 1 \in 1 .. L /\ k + 1 \in 0 .. L /\ (k + 1) - 1 = k /\ k + 1 # 0
    BY <1>1
  <2>2. v[k + 1] = 10 * v[k] + buffer[k]
    BY <1>5, <2>1
  <2>3. f[k + 1] = 10 * f[k] + buffer[k]
    BY <2>1
  <2>4. v[k] = f[k]
    BY <1>7
  <2> QED
    BY <2>1, <2>2, <2>3, <2>4
<1>8. L \in S
  <2> HIDE DEF S, L
  <2>1. 0 .. L \subseteq S
    BY <1>1, <1>6, <1>7, UpTo
  <2> QED
    BY <1>1, <2>1
<1> QED
  BY <1>2, <1>8

(* Every text is read as an int.                                           *)
LEMMA StrtointTyped ==
  ASSUME NEW buffer, \A c \in BufferCells : buffer[c] \in Int
  PROVE  strtoint(buffer) \in Ints
<1> DEFINE L == TextLength(buffer)
           next == [k \in 1 .. L |-> [x \in Int |-> 10 * x + buffer[k - 1]]]
<1>1. L \in Nat /\ \A k \in 1 .. L : k - 1 \in BufferCells
  BY TextLengthIs, CalculatorAssumption DEF BufferCells
<1>2. next \in [1 .. L -> [Int -> Int]]
  <2>1. \A k \in 1 .. L : buffer[k - 1] \in Int
    BY <1>1
  <2> HIDE DEF L
  <2> QED
    BY <2>1
<1>3. PICK f : Recursive(f, L, 0, next)
  <2>1. 0 \in Int
    OBVIOUS
  <2> HIDE DEF L, next
  <2> QED
    BY <1>1, <1>2, <2>1, RecursionExists
<1>4. f \in [0 .. L -> Int] /\ f[0] = 0
  BY <1>3 DEF Recursive
<1>5. ASSUME NEW k \in 1 .. L
      PROVE  f[k] = 10 * f[k - 1] + buffer[k - 1]
  <2>1. f[k] = next[k][f[k - 1]]
    BY <1>3 DEF Recursive
  <2>2. f[k - 1] \in Int
    <3> HIDE DEF L
    <3> QED
      BY <1>1, <1>4
  <2> HIDE DEF L
  <2> QED
    BY <2>1, <2>2
<1>6. strtoint(buffer) = AsInt(f[L])
  BY <1>4, <1>5, StrtointIs
<1>7. f[L] \in Int
  <2> HIDE DEF L
  <2> QED
    BY <1>1, <1>4
<1> QED
  BY <1>6, <1>7, AsIntIs

(* An int has as many digits as it takes until nothing is left of it.      *)
LEMMA SizeIs ==
  ASSUME NEW n \in Ints
  PROVE  Size(n) \in 1 .. BufferSize /\ Shortened(n)[Size(n)] = 0
<1> DEFINE m == Magnitude(n)
           Stops == {k \in 1 .. BufferSize : Shortened(n)[k] = 0}
<1>1. BufferSize \in Nat /\ BufferSize > 0 /\ IntMod \div 2 \in Nat
  BY CalculatorAssumption
<1>2. m \in 0 .. IntMod \div 2 /\ Magnitude(m) = m
  BY <1>1 DEF Magnitude, Ints
<1>3. Shortened(n) = Shortened(m)
  <2> HIDE DEF m
  <2>1. Magnitude(n) = Magnitude(m)
    BY <1>2 DEF m
  <2> QED
    BY <2>1 DEF Shortened
<1>4. Shortened(m)[BufferSize] = 0
  BY <1>2, DigitsFit
<1>5. BufferSize \in Stops /\ Stops \subseteq Nat
  BY <1>1, <1>3, <1>4
<1>6. Size(n) = CHOOSE k \in Stops : \A j \in Stops : k =< j
  BY Zenon DEF Size, Min
<1>7. \E k \in Stops : \A j \in Stops : k =< j
  <2> HIDE DEF Stops
  <2> QED
    BY <1>5, LeastOf
<1>8. Size(n) \in Stops
  <2> HIDE DEF Stops
  <2> QED
    BY <1>6, <1>7
<1> QED
  BY <1>8

(* What is copied are its digits and, if there is room, the final zero.    *)
LEMMA CopiedIs ==
  ASSUME NEW n \in Ints
  PROVE  /\ \A c \in 0 .. Size(n) - 1 :
              LET digit == Shortened(n)[Size(n) - 1 - c] % 10
              IN  /\ digit \in 0 .. 9
                  /\ Copied(n)[c] = IF n < 0 THEN -digit ELSE digit
         /\ Size(n) \in BufferCells => Copied(n)[Size(n)] = NUL
         /\ \A c \in BufferCells : c > Size(n) => Copied(n)[c] = num_buffer1[c]
         /\ DOMAIN Copied(n) = BufferCells
         /\ Copied(n) = [c \in BufferCells |-> Copied(n)[c]]
<1> DEFINE s == Size(n)
<1>1. s \in 1 .. BufferSize /\ BufferSize \in Nat
  BY SizeIs, CalculatorAssumption
<1>2. ASSUME NEW c \in 0 .. s - 1
      PROVE  /\ Shortened(n)[s - 1 - c] % 10 \in 0 .. 9
             /\ Copied(n)[c] = IF n < 0 THEN -(Shortened(n)[s - 1 - c] % 10)
                               ELSE Shortened(n)[s - 1 - c] % 10
  <2>1. c \in BufferCells /\ s - 1 - c \in 0 .. BufferSize
    BY <1>1 DEF BufferCells
  <2>2. Shortened(n)[s - 1 - c] \in Nat
    <3>1. n \in Int
      BY CalculatorAssumption DEF Ints
    <3>2. Shortened(n) \in [0 .. BufferSize -> Nat]
      BY <3>1, ShortenedIs
    <3> HIDE DEF s
    <3> QED
      BY <2>1, <3>2
  <2>3. c \in DOMAIN itoa(n)
    BY DEF itoa
  <2>4. Copied(n)[c] = itoa(n)[c]
    BY <2>1, <2>3 DEF Copied
  <2>5. itoa(n)[c] = IF n < 0 THEN -(Shortened(n)[s - 1 - c] % 10)
                     ELSE Shortened(n)[s - 1 - c] % 10
    BY DEF itoa
  <2> HIDE DEF s
  <2> QED
    BY <2>2, <2>4, <2>5
<1>3. \A c \in BufferCells : c \in DOMAIN itoa(n) <=> c < s
  <2>1. DOMAIN itoa(n) = 0 .. s - 1
    BY DEF itoa
  <2> HIDE DEF s
  <2> QED
    BY <1>1, <2>1 DEF BufferCells
<1>4. s \in BufferCells => Copied(n)[s] = NUL
  <2>1. ~(s < s)
    BY <1>1
  <2> HIDE DEF s
  <2> QED
    BY <1>3, <2>1 DEF Copied, s
<1>5. \A c \in BufferCells : c > s => Copied(n)[c] = num_buffer1[c]
  <2>1. \A c \in BufferCells : c > s => ~(c < s) /\ c # s
    BY <1>1 DEF BufferCells
  <2> QED
    BY <1>3, <2>1 DEF Copied
<1>6. DOMAIN Copied(n) = BufferCells /\ Copied(n) = [c \in BufferCells |-> Copied(n)[c]]
  BY DEF Copied
<1> QED
  BY <1>2, <1>4, <1>5, <1>6

(* What is written for an int reads back as that int, whatever was in the  *)
(* buffer before.                                                          *)
LEMMA ReadsBack ==
  ASSUME NEW n \in Ints
  PROVE  strtoint(Copied(n)) = n
<1> DEFINE s == Size(n)
           r == Shortened(n)
           signed(x) == IF n < 0 THEN -x ELSE x
           f == [k \in 0 .. s |-> signed(r[s - k])]
           buffer == Copied(n)
<1>1. /\ s \in 1 .. BufferSize /\ r[s] = 0 /\ BufferSize \in Nat /\ n \in Int
      /\ IntMod \div 2 \in Nat
  BY SizeIs, CalculatorAssumption DEF Ints
<1>2. /\ r \in [0 .. BufferSize -> Nat] /\ r[0] = Magnitude(n)
      /\ \A k \in 1 .. BufferSize : r[k] = r[k - 1] \div 10
  BY <1>1, ShortenedIs
<1>3. \A c \in 0 .. s - 1 : r[s - 1 - c] % 10 \in 0 .. 9 /\ buffer[c] = signed(r[s - 1 - c] % 10)
  BY CopiedIs, Zenon
<1>4. s \in BufferCells => buffer[s] = NUL
  BY CopiedIs
<1> HIDE DEF s, r, buffer
<1>5. TextLength(buffer) = s
  <2>1. \A c \in 0 .. s - 1 : buffer[c] # NUL
    <3> SUFFICES ASSUME NEW c \in 0 .. s - 1
                 PROVE  buffer[c] # NUL
      OBVIOUS
    <3> DEFINE d == r[s - 1 - c] % 10
    <3>1. d \in 0 .. 9 /\ buffer[c] = signed(d)
      BY <1>3
    <3> HIDE DEF d
    <3> QED
      BY <3>1 DEF NUL
  <2>2. s = BufferSize \/ buffer[s] = NUL
    BY <1>1, <1>4 DEF BufferCells
  <2>3. s \in 0 .. BufferSize
    BY <1>1
  <2> QED
    BY <2>1, <2>2, <2>3, TextLengthIs
<1>6. f \in [0 .. s -> Int] /\ f[0] = 0 /\ f[s] = n
  <2>1. \A k \in 0 .. s : r[s - k] \in Nat
    BY <1>1, <1>2
  <2>2. \A k \in 0 .. s : signed(r[s - k]) \in Int
    BY <2>1
  <2>3. s - 0 = s /\ s - s = 0 /\ 0 \in 0 .. s /\ s \in 0 .. s
    BY <1>1
  <2>4. f[0] = 0
    BY <1>1, <2>3
  <2>5. f[s] = n
    BY <1>1, <1>2, <2>3 DEF Magnitude
  <2>6. f \in [0 .. s -> Int]
    BY <2>2
  <2> QED
    BY <2>4, <2>5, <2>6
<1>7. ASSUME NEW k \in 1 .. s
      PROVE  f[k] = 10 * f[k - 1] + buffer[k - 1]
  <2>1. k \in 0 .. s /\ k - 1 \in 0 .. s /\ k - 1 \in 0 .. s - 1 /\ s - k \in 0 .. BufferSize
    BY <1>1
  <2>2. s - (k - 1) \in 1 .. BufferSize /\ s - (k - 1) - 1 = s - k /\ s - 1 - (k - 1) = s - k
    BY <1>1
  <2> DEFINE q == r[s - k]
  <2>3. q \in Nat
    BY <1>2, <2>1
  <2>4. f[k] = signed(q)
    BY <2>1
  <2>5. f[k - 1] = signed(q \div 10)
    <3>1. r[s - (k - 1)] = q \div 10
      BY <1>2, <2>2
    <3> QED
      BY <2>1, <3>1
  <2>6. buffer[k - 1] = signed(q % 10)
    BY <1>3, <2>1, <2>2
  <2>7. q = 10 * (q \div 10) + (q % 10) /\ q \div 10 \in Nat /\ q % 10 \in Nat
    <3> HIDE DEF q
    <3> QED
      BY <2>3
  <2> HIDE DEF q, f
  <2> QED
    BY <2>3, <2>4, <2>5, <2>6, <2>7
<1>8. strtoint(buffer) = AsInt(f[s])
  <2> HIDE DEF f
  <2> QED
    BY <1>5, <1>6, <1>7, StrtointIs
<1>9. strtoint(buffer) = n
  <2> HIDE DEF f
  <2> QED
    BY <1>1, <1>6, <1>8, AsIntIs
<1> QED
  BY <1>9 DEF buffer

(* What the buffer may hold.                                               *)
Texts == [BufferCells -> -9 .. 9 \cup {NUL, Space}]

(* The result of an operator that makes no division error is an int.       *)
LEMMA ApplyTyped ==
  ASSUME NEW operator \in Operators, NEW a \in Ints, NEW b \in Ints,
         operator = "/" => ~DivisionError(a, b)
  PROVE  Apply(operator, a, b) \in Ints
<1>1. Ints \subseteq Int
  BY CalculatorAssumption DEF Ints
<1>2. a \in Int /\ b \in Int
  BY <1>1
<1>3. operator = "/" => Quotient(a, b) \in Int
  <2>1. ASSUME operator = "/"
        PROVE  Quotient(a, b) \in Int
    <3>1. b # 0
      BY <2>1 DEF DivisionError
    <3>2. Magnitude(a) \in Nat /\ Magnitude(b) \in Nat /\ Magnitude(b) > 0
      BY <1>2, <3>1 DEF Magnitude
    <3>3. Magnitude(a) \div Magnitude(b) \in Int
      <4> HIDE DEF Magnitude
      <4> QED
        BY <3>2
    <3> QED
      BY <3>3 DEF Quotient
  <2> QED
    BY <2>1
<1>4. \A x \in Int : AsInt(x) \in Ints
  BY AsIntIs
<1>5. CASE operator = "+"
  BY <1>2, <1>4, <1>5 DEF Apply
<1>6. CASE operator = "-"
  BY <1>2, <1>4, <1>6 DEF Apply
<1>7. CASE operator = "*"
  BY <1>2, <1>4, <1>7 DEF Apply
<1>8. CASE operator = "/"
  BY <1>3, <1>4, <1>8 DEF Apply
<1> QED
  BY <1>5, <1>6, <1>7, <1>8 DEF Operators

(* The copy of a number is a text over a text.                             *)
LEMMA CopiedTyped ==
  ASSUME NEW n \in Ints, num_buffer1 \in Texts
  PROVE  Copied(n) \in Texts
<1>1. ASSUME NEW c \in BufferCells
      PROVE  Copied(n)[c] \in -9 .. 9 \cup {NUL, Space}
  <2>1. Size(n) \in Int /\ c \in Nat
    BY SizeIs, CalculatorAssumption DEF BufferCells
  <2>2. CASE c < Size(n)
    <3>1. c \in 0 .. Size(n) - 1
      BY <2>1, <2>2
    <3> DEFINE d == Shortened(n)[Size(n) - 1 - c] % 10
    <3>2. d \in 0 .. 9 /\ Copied(n)[c] = IF n < 0 THEN -d ELSE d
      BY <3>1, CopiedIs, Zenon
    <3> HIDE DEF d
    <3> QED
      BY <3>2
  <2>3. CASE c = Size(n)
    BY <2>3, CopiedIs
  <2>4. CASE c > Size(n)
    BY <2>4, CopiedIs DEF Texts
  <2> QED
    BY <2>1, <2>2, <2>3, <2>4
<1> QED
  BY <1>1, CopiedIs DEF Texts

-----------------------------------------------------------------------------

(* CalculatorTypeOK: no operand and no index leaves its width, whatever is *)
(* typed, erased and computed, and the buffer holds texts only.            *)
THEOREM CalculatorTypeCorrect == CalculatorSpec => []CalculatorTypeOK
<1>1. CalculatorInit => CalculatorTypeOK /\ ServedInv /\ OperandsInOrder
  <2> SUFFICES ASSUME CalculatorInit
               PROVE  CalculatorTypeOK /\ ServedInv /\ OperandsInOrder
    OBVIOUS
  <2>1. ServedInv /\ OperandsInOrder
    BY DEF CalculatorInit, ServedInv, OperandsInOrder
  <2>2. 0 \in -(CharMod \div 2) .. CharMod \div 2 - 1
    BY CalculatorAssumption
  <2>3. {calc_num1, calc_num2} \subseteq -(IntMod \div 2) .. IntMod \div 2 - 1
    BY CalculatorAssumption DEF CalculatorInit
  <2>4. num_buffer1 \in [BufferCells -> -9 .. 9 \cup {NUL, Space}]
    BY DEF CalculatorInit
  <2> QED
    BY <2>1, <2>2, <2>3, <2>4 DEF CalculatorInit, CalculatorTypeOK
<1>2. ASSUME CalculatorTypeOK, ServedInv, OperandsInOrder, [CalculatorNext]_calculator_vars
      PROVE  CalculatorTypeOK'
  <2>0. /\ num_buffer1 \in Texts
        /\ num_buffer1_index \in -(CharMod \div 2) .. CharMod \div 2 - 1
        /\ num_buffer1_index \in Int
        /\ calc_operator \in Operators \cup {"none"}
        /\ calc_num1 \in Ints /\ calc_num2 \in Ints
        /\ step \in {"idle", "wipe", "rewind", "operator", "compute", "forget", "panic"}
        /\ button \in Operators \cup {"none", "enter", "reset"}
        /\ shown \in {"input", "result", "other"}
        /\ muddled \in BOOLEAN
    BY <1>2, CalculatorAssumption DEF CalculatorTypeOK, Texts, Ints
  <2>1. muddled' \in BOOLEAN
    BY <1>2, <2>0 DEF CalculatorNext, calculator_keyboard_int, Click, Serve, calculator_vars
  <2>2. strtoint(num_buffer1) \in Ints
    <3>1. \A c \in BufferCells : num_buffer1[c] \in -9 .. 9 \cup {NUL, Space}
      BY <2>0 DEF Texts
    <3>2. -9 .. 9 \cup {NUL, Space} \subseteq Int
      BY DEF NUL, Space
    <3> QED
      BY <3>1, <3>2, StrtointTyped
  <2>3. \A ch \in -9 .. 9 \cup {NUL, Space} : Stored(ch) \in Texts
    BY <2>0 DEF Stored, Texts
  <2>4. Unset \in Ints
    BY CalculatorAssumption DEF Ints
  <2>5. SUFFICES /\ num_buffer1' \in Texts
                 /\ num_buffer1_index' \in -(CharMod \div 2) .. CharMod \div 2 - 1
                 /\ calc_operator' \in Operators \cup {"none"}
                 /\ calc_num1' \in Ints /\ calc_num2' \in Ints
                 /\ step' \in {"idle", "wipe", "rewind", "operator", "compute", "forget", "panic"}
                 /\ button' \in Operators \cup {"none", "enter", "reset"}
                 /\ shown' \in {"input", "result", "other"}
    BY <2>1, <2>5 DEF CalculatorTypeOK, Texts, Ints
  <2>6. CASE TypeDigit
    <3>1. PICK d \in Digits : num_buffer1' = Stored(d)
      BY <2>6 DEF TypeDigit
    <3>2. d \in -9 .. 9
      BY CalculatorAssumption
    <3>3. num_buffer1_index' = AsChar(num_buffer1_index + 1) /\ num_buffer1_index + 1 \in Int
      BY <2>0, <2>6 DEF TypeDigit
    <3>4. num_buffer1_index' \in -(CharMod \div 2) .. CharMod \div 2 - 1
      BY <3>3, AsCharIs
    <3> QED
      BY <2>0, <2>3, <2>6, <3>1, <3>2, <3>4 DEF TypeDigit, operands
  <2>7. CASE EraseDigit
    <3>1. num_buffer1_index' = AsChar(num_buffer1_index - 1) /\ num_buffer1_index - 1 \in Int
      BY <2>0, <2>7 DEF EraseDigit
    <3>2. num_buffer1_index' \in -(CharMod \div 2) .. CharMod \div 2 - 1
      BY <3>1, AsCharIs
    <3> QED
      BY <2>0, <2>3, <2>7, <3>2 DEF EraseDigit, operands
  <2>8. CASE ClickOperator
    BY <2>0, <2>2, <2>8 DEF ClickOperator, number
  <2>9. CASE ClickEnter \/ ClickReset
    BY <2>0, <2>2, <2>9 DEF ClickEnter, ClickReset, number, operands
  <2>10. CASE Wipe
    BY <2>0, <2>10 DEF Wipe, operands, Texts
  <2>11. CASE Rewind
    <3>1. /\ num_buffer1_index' = 0 /\ UNCHANGED <<num_buffer1, operands, button, shown>>
      BY <2>11 DEF Rewind
    <3>2. step' \in {"compute", "forget", "operator"}
      BY <2>11, Zenon DEF Rewind
    <3>3. 0 \in -(CharMod \div 2) .. CharMod \div 2 - 1
      BY CalculatorAssumption
    <3> QED
      BY <2>0, <3>1, <3>2, <3>3 DEF operands
  <2>12. CASE SetOperator
    BY <1>2, <2>0, <2>12 DEF SetOperator, number, ServedInv
  <2>13. CASE Compute
    <3> DEFINE result == Apply(calc_operator, calc_num1, calc_num2)
    <3>1. calc_operator \in Operators
      BY <1>2, <2>0, <2>13 DEF Compute, OperandsInOrder
    <3>2. result \in Ints
      BY <2>0, <2>13, <3>1, ApplyTyped DEF Compute
    <3>3. num_buffer1' = Copied(result)
      BY <2>13 DEF Compute
    <3>4. num_buffer1' \in Texts
      <4> HIDE DEF result
      <4> QED
        BY <2>0, <3>2, <3>3, CopiedTyped
    <3> QED
      BY <2>0, <2>13, <3>4 DEF Compute, operands
  <2>14. CASE DivideByZero
    BY <2>0, <2>14 DEF DivideByZero, number, operands
  <2>15. CASE Forget
    BY <2>0, <2>4, <2>15 DEF Forget, number
  <2>16. CASE UNCHANGED calculator_vars
    BY <2>0, <2>16 DEF calculator_vars, number, operands
  <2> QED
    BY <1>2, CalculatorSteps, <2>6, <2>7, <2>8, <2>9, <2>10, <2>11, <2>12, <2>13, <2>14, <2>15, <2>16
<1>3. /\ CalculatorTypeOK /\ ServedInv /\ OperandsInOrder /\ [CalculatorNext]_calculator_vars
      => CalculatorTypeOK' /\ ServedInv' /\ OperandsInOrder'
  BY <1>2, ServedNext
<1> QED
  BY <1>1, <1>3, PTL DEF CalculatorSpec

(* ResultReadsBack: what Enter shows reads back as the operator applied to *)
(* the operands, whatever the buffer held before.                          *)
THEOREM ResultsReadBack == CalculatorSpec => []ResultReadsBack
<1> DEFINE Inv == ServedInv /\ OperandsInOrder /\ ResultReadsBack
<1>1. CalculatorInit => Inv
  BY DEF CalculatorInit, ServedInv, OperandsInOrder, ResultReadsBack
<1>2. ASSUME CalculatorTypeOK, Inv, [CalculatorNext]_calculator_vars
      PROVE  Inv'
  <2>1. ServedInv' /\ OperandsInOrder'
    BY <1>2, ServedNext
  <2>2. ~muddled' => ~muddled
    BY <1>2 DEF CalculatorNext, calculator_keyboard_int, Click, Serve, calculator_vars
  <2>3. ASSUME ~muddled', step' = "idle", shown' = "result"
        PROVE  strtoint(num_buffer1') = Apply(calc_operator', calc_num1', calc_num2')
    <3>1. Compute \/ UNCHANGED calculator_vars
      BY <1>2, <2>3, CalmSteps, Zenon
         DEF TypeDigit, ClickOperator, ClickEnter, ClickReset, Wipe, Rewind, SetOperator,
             DivideByZero, Forget
    <3>2. CASE UNCHANGED calculator_vars
      BY <1>2, <2>2, <2>3, <3>2 DEF calculator_vars, number, operands, ResultReadsBack
    <3>3. CASE Compute
      <4> DEFINE result == Apply(calc_operator, calc_num1, calc_num2)
      <4>1. calc_operator \in Operators /\ calc_num1 \in Ints /\ calc_num2 \in Ints
        BY <1>2, <3>3 DEF Compute, CalculatorTypeOK, OperandsInOrder, Ints
      <4>2. result \in Ints
        BY <3>3, <4>1, ApplyTyped DEF Compute
      <4>3. num_buffer1' = Copied(result) /\ UNCHANGED <<calc_operator, calc_num1, calc_num2>>
        BY <3>3 DEF Compute, operands
      <4>4. strtoint(num_buffer1') = result
        <5> HIDE DEF result
        <5> QED
          BY <4>2, <4>3, ReadsBack
      <4> QED
        BY <4>3, <4>4
    <3> QED
      BY <3>1, <3>2, <3>3
  <2>4. ResultReadsBack'
    BY <2>3 DEF ResultReadsBack
  <2> QED
    BY <2>1, <2>4
<1>3. Inv => ResultReadsBack
  OBVIOUS
<1> HIDE DEF Inv
<1> QED
  BY <1>1, <1>2, <1>3, CalculatorTypeCorrect, PTL DEF CalculatorSpec

-----------------------------------------------------------------------------
(* The painting application.                                               *)

(* The constants' types, and the brush's nine pixels.                      *)
LEMMA SizesTyped ==
  /\ Width \in Nat /\ Width > 0 /\ Height \in Nat /\ Height > 0
  /\ "WHITE" \in Colors /\ "BLACK" \in Colors /\ Touched \subseteq Points
BY PaintAssumption DEF Points

(* The nine pixels around the pointer.                                     *)
LEMMA BrushTyped ==
  /\ Len(Brush) = 9
  /\ \A b \in 1 .. 9 : Brush[b][1] \in -1 .. 1 /\ Brush[b][2] \in -1 .. 1
<1>1. Len(Brush) = 9
  BY DEF Brush
<1>2. \A b \in 1 .. 9 : b \in {1, 2, 3, 4, 5, 6, 7, 8, 9}
  OBVIOUS
<1>3. \A b \in {1, 2, 3, 4, 5, 6, 7, 8, 9} : Brush[b][1] \in -1 .. 1 /\ Brush[b][2] \in -1 .. 1
  BY DEF Brush
<1> QED
  BY <1>1, <1>2, <1>3

(* They are all that are next to the pointer.                              *)
LEMMA BrushCovers ==
  ASSUME NEW dx \in -1 .. 1, NEW dy \in -1 .. 1
  PROVE  \E b \in 1 .. 9 : Brush[b][1] = dx /\ Brush[b][2] = dy
<1>1. dx \in {-1, 0, 1} /\ dy \in {-1, 0, 1}
  OBVIOUS
<1>2. CASE dy = 0
  <2>1. /\ Brush[1][1] = 0 /\ Brush[1][2] = 0 /\ Brush[2][1] = 1 /\ Brush[2][2] = 0
        /\ Brush[6][1] = -1 /\ Brush[6][2] = 0
    BY DEF Brush
  <2> QED
    BY <1>1, <1>2, <2>1
<1>3. CASE dy = 1
  <2>1. /\ Brush[3][1] = 1 /\ Brush[3][2] = 1 /\ Brush[4][1] = 0 /\ Brush[4][2] = 1
        /\ Brush[5][1] = -1 /\ Brush[5][2] = 1
    BY DEF Brush
  <2> QED
    BY <1>1, <1>3, <2>1
<1>4. CASE dy = -1
  <2>1. /\ Brush[7][1] = -1 /\ Brush[7][2] = -1 /\ Brush[8][1] = 0 /\ Brush[8][2] = -1
        /\ Brush[9][1] = 1 /\ Brush[9][2] = -1
    BY DEF Brush
  <2> QED
    BY <1>1, <1>4, <2>1
<1> QED
  BY <1>1, <1>2, <1>3, <1>4

-----------------------------------------------------------------------------

(* Types.                                                                  *)

(* PaintTypeOK: every variable keeps its type.                             *)
THEOREM PaintTypeCorrect == PaintSpec => []PaintTypeOK
<1>1. PaintInit => PaintTypeOK
  <2> SUFFICES ASSUME PaintInit PROVE PaintTypeOK
    OBVIOUS
  <2>1. at \in Points
    BY SizesTyped DEF PaintInit, Points
  <2>2. rect_pixels \in [Memory -> Colors \cup {Other}]
    BY SizesTyped DEF PaintInit
  <2>3. pixel \in 0 .. Len(Brush)
    BY BrushTyped DEF PaintInit
  <2> QED
    BY <2>1, <2>2, <2>3, SizesTyped DEF PaintInit, PaintTypeOK
<1>2. PaintTypeOK /\ [PaintNext]_paint_vars => PaintTypeOK'
  <2> SUFFICES ASSUME PaintTypeOK, [PaintNext]_paint_vars
               PROVE  PaintTypeOK'
    OBVIOUS
  <2>1. WhiteCanvas \in [Memory -> Colors \cup {Other}]
    BY SizesTyped DEF WhiteCanvas, PaintTypeOK
  <2>2. CASE Touch
    <3>1. pixel' \in 0 .. Len(Brush)
      BY <2>2, BrushTyped DEF Touch
    <3>2. at' \in Points /\ erasing' \in BOOLEAN /\ held' \in Colors /\ used' \subseteq Colors
      BY <2>2, SizesTyped DEF Touch, PaintTypeOK
    <3> QED
      BY <2>2, <3>1, <3>2 DEF Touch, PaintTypeOK
  <2>3. CASE Dab
    <3>1. pixel' \in 0 .. Len(Brush)
      BY <2>3, BrushTyped DEF Dab, PaintTypeOK
    <3>2. rect_pixels' \in [Memory -> Colors \cup {Other}]
      BY <2>3, SizesTyped DEF Dab, PaintTypeOK
    <3> QED
      BY <2>3, <3>1, <3>2 DEF Dab, PaintTypeOK
  <2>4. CASE Reopen \/ Delete
    BY <2>1, <2>4, SizesTyped DEF Reopen, Delete, PaintTypeOK
  <2>5. CASE PickColor
    BY <2>5 DEF PickColor, PaintTypeOK
  <2>6. CASE UNCHANGED paint_vars
    BY <2>6 DEF paint_vars, PaintTypeOK
  <2> QED
    BY <2>2, <2>3, <2>4, <2>5, <2>6 DEF PaintNext, Key
<1> QED
  BY <1>1, <1>2, PTL DEF PaintSpec

-----------------------------------------------------------------------------

(* The brush.                                                              *)

(* A pixel next to an inner point is on the canvas.                        *)
LEMMA NearbyIsPoint ==
  ASSUME NEW p \in InnerPoints, NEW x \in Int, NEW y \in Int,
         x - p[1] \in -1 .. 1, y - p[2] \in -1 .. 1
  PROVE  <<x, y>> \in Nearby(p)
<1>1. p[1] \in 1 .. Width - 2 /\ p[2] \in 1 .. Height - 2
  BY DEF InnerPoints
<1>2. x \in 0 .. Width - 1 /\ y \in 0 .. Height - 1
  BY <1>1, SizesTyped
<1> QED
  BY <1>2 DEF Nearby, Points

(* BrushIsSquare: a dab changes only a pixel next to the pointer.          *)
THEOREM BrushStaysSquare == PaintSpec => BrushIsSquare
<1>1. ASSUME PaintTypeOK, Dab, at \in InnerPoints, NEW m \in Memory, rect_pixels'[m] # rect_pixels[m]
      PROVE  \E p \in Nearby(at) : m = p[1] + p[2] * Width
  <2> DEFINE x == at[1] + Brush[pixel][1]
             y == at[2] + Brush[pixel][2]
  <2>1. pixel \in 1 .. 9
    BY <1>1, BrushTyped DEF Dab, PaintTypeOK
  <2>2. Brush[pixel][1] \in -1 .. 1 /\ Brush[pixel][2] \in -1 .. 1
    BY <2>1, BrushTyped
  <2>3. at[1] \in Int /\ at[2] \in Int
    BY <1>1 DEF PaintTypeOK, Points
  <2>4. x \in Int /\ y \in Int /\ x - at[1] \in -1 .. 1 /\ y - at[2] \in -1 .. 1
    BY <2>2, <2>3
  <2>5. m = Cell(x, y)
    <3>1. PICK v : rect_pixels' = [rect_pixels EXCEPT ![Cell(x, y)] = v]
      BY <1>1 DEF Dab
    <3> HIDE DEF x, y
    <3> QED
      BY <1>1, <3>1 DEF PaintTypeOK
  <2> HIDE DEF x, y
  <2>6. <<x, y>> \in Nearby(at)
    BY <1>1, <2>4, NearbyIsPoint
  <2> QED
    BY <2>5, <2>6 DEF Cell
<1>2. PaintTypeOK /\ [PaintNext]_paint_vars => [Dab /\ at \in InnerPoints => \A m \in Memory :
        rect_pixels'[m] # rect_pixels[m] => \E p \in Nearby(at) : m = p[1] + p[2] * Width]_paint_vars
  BY <1>1
<1> QED
  BY <1>2, PaintTypeCorrect, PTL DEF PaintSpec, BrushIsSquare

-----------------------------------------------------------------------------

(* Strokes.                                                                *)

(* The pixel of the brush with number b.                                   *)
Pixel(b) == Cell(at[1] + Brush[b][1], at[2] + Brush[b][2])

(* The colour that is painted, and those the pixels have that have been    *)
(* painted, are colours there were during the stroke.                      *)
ColorInv == pixel # 0 => IF erasing THEN "WHITE" \in used ELSE held \in used /\ current_color \in used
PixelInv == pixel # 0 /\ at \in InnerPoints => \A b \in 1 .. pixel - 1 : rect_pixels[Pixel(b)] \in used
StrokeInv == ColorInv /\ PixelInv

(* A product of two factors that only grow.                                *)
LEMMA Monotone ==
  ASSUME NEW a \in Int, NEW b \in Int, NEW d \in Nat, a <= b
  PROVE  a * d <= b * d
<1>1. (b - a) * d >= 0
  OBVIOUS
<1> QED
  BY <1>1

(* Around an inner point the brush stays on the canvas.                    *)
LEMMA PixelOnCanvas ==
  ASSUME at \in InnerPoints, NEW b \in 1 .. 9
  PROVE  Pixel(b) \in Canvas /\ Pixel(b) \in Memory
<1> DEFINE x == at[1] + Brush[b][1]
           y == at[2] + Brush[b][2]
<1>1. at[1] \in 1 .. Width - 2 /\ at[2] \in 1 .. Height - 2
  BY DEF InnerPoints
<1>2. x \in 0 .. Width - 1 /\ y \in 0 .. Height - 1
  BY <1>1, BrushTyped, SizesTyped
<1> HIDE DEF x, y
<1>3. 0 * Width <= y * Width /\ (y + 1) * Width <= Height * Width
  <2>1. 0 \in Int /\ y \in Int /\ 0 <= y /\ y + 1 \in Int /\ y + 1 <= Height
    BY <1>2, SizesTyped
  <2> QED
    BY <2>1, SizesTyped, Monotone
<1> DEFINE line == y * Width
           all == Width * Height
<1>4. line \in Int /\ all \in Int /\ 0 <= line /\ line + Width <= all
  BY <1>2, <1>3, SizesTyped
<1> HIDE DEF line, all
<1>5. x + line \in 0 .. all - 1 /\ x + line \in -(Width + 1) .. all + Width
  BY <1>2, <1>4, SizesTyped
<1> QED
  BY <1>5 DEF Pixel, Cell, Canvas, Memory, x, y, line, all

(* A dab keeps the pixels painted before it and adds its own.              *)
LEMMA DabPaints ==
  ASSUME PaintTypeOK, StrokeInv, Dab, at \in InnerPoints, NEW b \in 1 .. pixel
  PROVE  rect_pixels'[Pixel(b)] \in used
<1>1. pixel \in 1 .. 9
  BY BrushTyped DEF Dab, PaintTypeOK
<1>2. PICK color \in {held, current_color} :
        rect_pixels' = [rect_pixels EXCEPT ![Pixel(pixel)] = IF erasing THEN "WHITE" ELSE color]
  BY DEF Dab, Pixel
<1>3. (IF erasing THEN "WHITE" ELSE color) \in used
  BY <1>2 DEF Dab, StrokeInv, ColorInv, PaintTypeOK
<1>4. b \in 1 .. 9 /\ Pixel(b) \in Memory
  BY <1>1, PixelOnCanvas
<1>5. CASE b = pixel
  BY <1>2, <1>3, <1>4, <1>5 DEF PaintTypeOK
<1>6. CASE b \in 1 .. pixel - 1
  <2>1. rect_pixels[Pixel(b)] \in used
    BY <1>6 DEF Dab, StrokeInv, PixelInv
  <2> QED
    BY <1>2, <1>3, <1>4, <2>1 DEF PaintTypeOK
<1> QED
  BY <1>1, <1>5, <1>6

(* Every step keeps the invariant, the keys included.                      *)
LEMMA StrokeNext == PaintTypeOK /\ StrokeInv /\ [PaintNext]_paint_vars => StrokeInv'
<1> SUFFICES ASSUME PaintTypeOK, StrokeInv, [PaintNext]_paint_vars
             PROVE  StrokeInv'
  OBVIOUS
<1>1. CASE Touch
  <2>1. PICK right \in BOOLEAN : /\ erasing' = right /\ used' = {held'} /\ pixel' = 1
                                 /\ held' = IF right THEN "WHITE" ELSE current_color
                                 /\ UNCHANGED current_color
    BY <1>1 DEF Touch
  <2>2. ColorInv'
    BY <2>1 DEF ColorInv
  <2>3. PixelInv'
    BY <2>1 DEF PixelInv
  <2> QED
    BY <2>2, <2>3 DEF StrokeInv
<1>2. CASE Dab
  <2>1. UNCHANGED <<at, used, erasing, held, current_color>> /\ pixel # 0 /\ pixel \in 0 .. 9
    BY <1>2, BrushTyped DEF Dab, PaintTypeOK
  <2>2. ColorInv'
    BY <2>1 DEF ColorInv, StrokeInv
  <2>3. pixel' = 0 \/ pixel' = pixel + 1
    BY <1>2 DEF Dab
  <2>4. PixelInv'
    <3> SUFFICES ASSUME pixel' # 0, at \in InnerPoints, NEW b \in 1 .. pixel' - 1
                 PROVE  rect_pixels'[Pixel(b)] \in used
      BY <2>1 DEF PixelInv, Pixel
    <3>1. b \in 1 .. pixel
      BY <2>1, <2>3
    <3> QED
      BY <1>2, <3>1, DabPaints
  <2> QED
    BY <2>2, <2>4 DEF StrokeInv
<1>3. CASE PickColor
  <2>1. /\ UNCHANGED <<rect_pixels, pixel, at, erasing, held>>
        /\ used \subseteq used'
        /\ pixel # 0 /\ ~erasing => current_color' \in used'
    BY <1>3 DEF PickColor
  <2>2. ColorInv'
    BY <2>1 DEF StrokeInv, ColorInv, PaintTypeOK
  <2>3. PixelInv'
    BY <2>1 DEF StrokeInv, PixelInv, Pixel
  <2> QED
    BY <2>2, <2>3 DEF StrokeInv
<1>4. CASE Delete
  <2>1. /\ UNCHANGED <<current_color, pixel, at, erasing, held>>
        /\ used \subseteq used' /\ (pixel # 0 => "WHITE" \in used')
        /\ rect_pixels' = WhiteCanvas
    BY <1>4 DEF Delete
  <2>2. ColorInv'
    BY <2>1 DEF StrokeInv, ColorInv, PaintTypeOK
  <2>3. PixelInv'
    <3> SUFFICES ASSUME pixel # 0, at \in InnerPoints, NEW b \in 1 .. pixel - 1
                 PROVE  rect_pixels'[Pixel(b)] \in used'
      BY <2>1 DEF PixelInv, Pixel
    <3>1. b \in 1 .. 9
      BY BrushTyped DEF PaintTypeOK
    <3>2. WhiteCanvas[Pixel(b)] = "WHITE"
      BY <3>1, PixelOnCanvas DEF WhiteCanvas
    <3> QED
      BY <2>1, <3>2
  <2> QED
    BY <2>2, <2>3 DEF StrokeInv
<1>5. CASE Reopen
  BY <1>5 DEF Reopen, StrokeInv, ColorInv, PixelInv
<1>6. CASE UNCHANGED paint_vars
  BY <1>6 DEF paint_vars, StrokeInv, ColorInv, PixelInv, Pixel
<1> QED
  BY <1>1, <1>2, <1>3, <1>4, <1>5, <1>6 DEF PaintNext, Key

(* StrokeIsWhole: a stroke that is done has painted all the pixels next to *)
(* the pointer, whatever keys came in between.                             *)
THEOREM StrokesAreWhole == PaintSpec => StrokeIsWhole
<1>1. PaintInit => StrokeInv
  BY DEF PaintInit, StrokeInv, ColorInv, PixelInv
<1>2. ASSUME PaintTypeOK, StrokeInv, [PaintNext]_paint_vars, pixel = Len(Brush), pixel' = 0, at \in InnerPoints,
             NEW p \in Nearby(at)
      PROVE  rect_pixels'[p[1] + p[2] * Width] \in used
  <2>1. Dab
    BY <1>2, BrushTyped DEF PaintNext, Key, Touch, Reopen, PickColor, Delete, paint_vars
  <2>2. PICK b \in 1 .. 9 : Brush[b][1] = p[1] - at[1] /\ Brush[b][2] = p[2] - at[2]
    BY <1>2, BrushCovers DEF Nearby
  <2>3. at[1] \in Int /\ at[2] \in Int /\ p[1] \in Int /\ p[2] \in Int
    BY <1>2 DEF PaintTypeOK, Nearby, Points
  <2>4. at[1] + Brush[b][1] = p[1] /\ at[2] + Brush[b][2] = p[2]
    BY <2>2, <2>3
  <2>5. rect_pixels'[Pixel(b)] \in used
    BY <1>2, <2>1, BrushTyped, DabPaints
  <2> QED
    BY <2>4, <2>5 DEF Pixel, Cell
<1>3. PaintTypeOK /\ StrokeInv /\ [PaintNext]_paint_vars =>
        [pixel = Len(Brush) /\ pixel' = 0 /\ at \in InnerPoints =>
           \A p \in Nearby(at) : rect_pixels'[p[1] + p[2] * Width] \in used]_paint_vars
  BY <1>2
<1> QED
  BY <1>1, <1>3, StrokeNext, PaintTypeCorrect, PTL DEF PaintSpec, StrokeIsWhole

-----------------------------------------------------------------------------
(* The terminal.                                                           *)

Line == [text : [Cells -> Mark], starter : BOOLEAN]
Screens == [lines : [Rows -> Line], size : Nat \ {0}, index : Nat]

(* The constants are numbers.                                              *)
LEMMA LinesTyped ==
  /\ MaxLines \in Nat /\ MaxLines > 0 /\ ClearAt \in Nat /\ ClearAt > 0 /\ ClearAt <= MaxLines
  /\ MaxTyped \in Nat /\ MaxFiles \in Nat /\ MaxKeys \in Nat
  /\ \A r \in Rows : r \in Nat /\ r < MaxLines
<1>1. {MaxLines, Columns, ClearAt} \subseteq Nat \ {0} /\ ClearAt <= MaxLines
      /\ {MaxTyped, MaxFiles, MaxKeys} \subseteq Nat
  BY TerminalAssumption
<1>2. MaxLines \in Nat /\ MaxLines > 0
  BY <1>1
<1>3. \A r \in Rows : r \in Nat /\ r < MaxLines
  BY <1>2 DEF Rows
<1> QED
  BY <1>1, <1>2, <1>3

(* A screen has these fields.                                              *)
LEMMA ScreenFields ==
  ASSUME NEW t \in Screens
  PROVE  /\ t = [lines |-> t.lines, size |-> t.size, index |-> t.index]
         /\ t.lines \in [Rows -> Line]
         /\ t.size \in Nat /\ t.size > 0 /\ t.index \in Nat
         /\ \A r \in Rows : /\ t.lines[r] \in Line
                            /\ t.lines[r].text \in [Cells -> Mark]
                            /\ t.lines[r].starter \in BOOLEAN
BY DEF Screens, Line

(* The character goes where the place in the last line is.                 *)
LEMMA CharacterStored ==
  ASSUME NEW t \in Screens, NEW mark \in Mark
  PROVE  /\ terminal_strcpy(t, mark) \in Screens
         /\ terminal_strcpy(t, mark).size = t.size
         /\ terminal_strcpy(t, mark).index = t.index + 1
         /\ \A r \in Rows : r # t.size - 1 => terminal_strcpy(t, mark).lines[r] = t.lines[r]
         /\ \A r \in Rows : r = t.size - 1 => terminal_strcpy(t, mark).lines[r] =
              [text |-> [c \in Cells |-> IF c = t.index THEN mark ELSE t.lines[r].text[c]],
               starter |-> t.lines[r].starter]
<1> DEFINE text(r) == [c \in Cells |-> IF c = t.index THEN mark ELSE t.lines[r].text[c]]
           line(r) == IF r # t.size - 1 THEN t.lines[r]
                      ELSE [text |-> text(r), starter |-> t.lines[r].starter]
           u == terminal_strcpy(t, mark)
<1>1. \A r \in Rows : text(r) \in [Cells -> Mark]
  BY ScreenFields
<1>2. \A r \in Rows : line(r) \in Line
  BY <1>1, ScreenFields DEF Line
<1>3. \A r \in Rows : [t.lines[r] EXCEPT !.text = text(r)]
                        = [text |-> text(r), starter |-> t.lines[r].starter]
  BY ScreenFields DEF Line
<1>4. u = [lines |-> [r \in Rows |-> line(r)], size |-> t.size, index |-> t.index + 1]
  <2> DEFINE all == [r \in Rows |-> IF r # t.size - 1 THEN t.lines[r]
                                    ELSE [t.lines[r] EXCEPT !.text = text(r)]]
  <2>1. all = [r \in Rows |-> line(r)]
    BY <1>3
  <2>2. u = [t EXCEPT !.lines = all, !.index = @ + 1]
    BY DEF terminal_strcpy
  <2> HIDE DEF all, u, line
  <2> QED
    BY <2>1, <2>2 DEF Screens
<1> HIDE DEF u, text, line
<1>5. u \in Screens
  BY <1>2, <1>4, ScreenFields DEF Screens
<1>6. \A r \in Rows : u.lines[r] = line(r)
  BY <1>4
<1> QED
  BY <1>4, <1>5, <1>6 DEF line, text, u

(* The prompt of the last line is all that changes.                        *)
LEMMA StarterSet ==
  ASSUME NEW t \in Screens, NEW on \in BOOLEAN
  PROVE  /\ Starter(t, on) \in Screens
         /\ Starter(t, on).size = t.size /\ Starter(t, on).index = t.index
         /\ \A r \in Rows : /\ Starter(t, on).lines[r].text = t.lines[r].text
                            /\ r # t.size - 1 => Starter(t, on).lines[r] = t.lines[r]
                            /\ r = t.size - 1 => Starter(t, on).lines[r].starter = on
<1> DEFINE line(r) == IF r = t.size - 1 THEN [text |-> t.lines[r].text, starter |-> on]
                                        ELSE t.lines[r]
           u == Starter(t, on)
           all == [r \in Rows |-> IF r = t.size - 1 THEN [t.lines[r] EXCEPT !.starter = on]
                                                    ELSE t.lines[r]]
<1>1. \A r \in Rows : line(r) \in Line
  BY ScreenFields DEF Line
<1>2. \A r \in Rows : [t.lines[r] EXCEPT !.starter = on]
                        = [text |-> t.lines[r].text, starter |-> on]
  BY ScreenFields DEF Line
<1>3. all = [r \in Rows |-> line(r)]
  BY <1>2
<1>4. u = [t EXCEPT !.lines = all]
  BY DEF Starter
<1> HIDE DEF all, u, line
<1>5. u = [lines |-> [r \in Rows |-> line(r)], size |-> t.size, index |-> t.index]
  BY <1>3, <1>4 DEF Screens
<1>6. u \in Screens
  BY <1>1, <1>5, ScreenFields DEF Screens
<1>7. \A r \in Rows : u.lines[r] = line(r)
  BY <1>5
<1> QED
  BY <1>5, <1>6, <1>7 DEF line, u

(* A new line takes what is behind the last one as it is.                  *)
LEMMA NewLine ==
  ASSUME NEW t \in Screens
  PROVE  /\ terminal_new_line(t) \in Screens
         /\ terminal_new_line(t).size = t.size + 1 /\ terminal_new_line(t).index = 0
         /\ \A r \in Rows : /\ terminal_new_line(t).lines[r].text = t.lines[r].text
                            /\ r # t.size => terminal_new_line(t).lines[r] = t.lines[r]
<1> DEFINE v == [lines |-> t.lines, size |-> t.size + 1, index |-> 0]
<1>1. v \in Screens
  BY ScreenFields DEF Screens
<1>2. terminal_new_line(t) = Starter(v, TRUE)
  BY DEF terminal_new_line
<1>3. v.size - 1 = t.size /\ v.size = t.size + 1 /\ v.index = 0 /\ v.lines = t.lines
  BY ScreenFields
<1> HIDE DEF v
<1>4. /\ Starter(v, TRUE) \in Screens
      /\ Starter(v, TRUE).size = v.size /\ Starter(v, TRUE).index = v.index
      /\ \A r \in Rows : /\ Starter(v, TRUE).lines[r].text = v.lines[r].text
                         /\ r # v.size - 1 => Starter(v, TRUE).lines[r] = v.lines[r]
  BY <1>1, StarterSet
<1> QED
  BY <1>2, <1>3, <1>4

(* Printing disturbs only the line it prints into.                         *)
LEMMA CharacterPrinted ==
  ASSUME NEW t \in Screens
  PROVE  /\ terminal_print(t) \in Screens
         /\ terminal_print(t).size = t.size
         /\ \A r \in Rows : r # t.size - 1 => terminal_print(t).lines[r] = t.lines[r]
<1> DEFINE v == Starter(t, FALSE)
<1>1. "output" \in Mark
  BY DEF Mark
<1>2. /\ v \in Screens /\ v.size = t.size
      /\ \A r \in Rows : r # t.size - 1 => v.lines[r] = t.lines[r]
  BY StarterSet
<1>3. terminal_print(t) = terminal_strcpy(v, "output")
  BY DEF terminal_print
<1> HIDE DEF v
<1>4. /\ terminal_strcpy(v, "output") \in Screens
      /\ terminal_strcpy(v, "output").size = v.size
      /\ \A r \in Rows : r # v.size - 1 => terminal_strcpy(v, "output").lines[r] = v.lines[r]
  BY <1>1, <1>2, CharacterStored
<1> QED
  BY <1>2, <1>3, <1>4

LEMMA Println ==
  ASSUME NEW t \in Screens
  PROVE  /\ terminal_println(t) \in Screens
         /\ terminal_println(t).size = t.size + 1 /\ terminal_println(t).index = 0
         /\ \A r \in Rows : terminal_println(t).lines[r] =
              [text    |-> IF r # t.size - 1 THEN t.lines[r].text
                           ELSE [c \in Cells |-> IF c = t.index THEN "output"
                                                 ELSE t.lines[r].text[c]],
               starter |-> t.lines[r].starter /\ r # t.size]
<1> DEFINE v == terminal_strcpy(t, "output")
           w == terminal_new_line(v)
           u == Starter(w, FALSE)
           text(r) == [c \in Cells |-> IF c = t.index THEN "output" ELSE t.lines[r].text[c]]
<1>1. "output" \in Mark
  BY DEF Mark
<1>2. /\ v \in Screens
      /\ v.size = t.size
      /\ \A r \in Rows : r # t.size - 1 => v.lines[r] = t.lines[r]
      /\ \A r \in Rows : r = t.size - 1 =>
           v.lines[r] = [text |-> text(r), starter |-> t.lines[r].starter]
  BY <1>1, CharacterStored
<1>3. u = terminal_println(t)
  BY DEF terminal_println
<1> HIDE DEF v, text
<1>4. /\ w \in Screens
      /\ w.size = v.size + 1 /\ w.index = 0
      /\ \A r \in Rows : /\ w.lines[r].text = v.lines[r].text
                         /\ r # v.size => w.lines[r] = v.lines[r]
  BY <1>2, NewLine
<1> HIDE DEF w
<1>5. w.size - 1 = t.size /\ w.size = t.size + 1
  BY <1>2, <1>4, ScreenFields
<1>6. /\ u \in Screens
      /\ u.size = w.size /\ u.index = w.index
      /\ \A r \in Rows : /\ u.lines[r].text = w.lines[r].text
                         /\ r # w.size - 1 => u.lines[r] = w.lines[r]
                         /\ r = w.size - 1 => u.lines[r].starter = FALSE
  BY <1>4, StarterSet
<1> HIDE DEF u
<1>7. ASSUME NEW r \in Rows
      PROVE  u.lines[r] = [text    |-> IF r # t.size - 1 THEN t.lines[r].text ELSE text(r),
                           starter |-> t.lines[r].starter /\ r # t.size]
  <2>1. /\ u.lines[r] \in Line /\ v.lines[r] \in Line /\ t.lines[r] \in Line
        /\ t.size \in Nat
    BY <1>2, <1>6, ScreenFields
  <2>2. u.lines[r].text = v.lines[r].text
    BY <1>4, <1>6
  <2>3. u.lines[r].starter = (v.lines[r].starter /\ r # t.size)
    <3>1. CASE r = t.size
      BY <1>5, <1>6, <3>1
    <3>2. CASE r # t.size
      <4>1. u.lines[r] = v.lines[r]
        BY <1>2, <1>4, <1>5, <1>6, <3>2
      <4> QED
        BY <2>1, <3>2, <4>1 DEF Line
    <3> QED
      BY <3>1, <3>2
  <2>4. CASE r # t.size - 1
    BY <1>2, <2>1, <2>2, <2>3, <2>4 DEF Line
  <2>5. CASE r = t.size - 1
    BY <1>2, <2>1, <2>2, <2>3, <2>5 DEF Line
  <2> QED
    BY <2>4, <2>5
<1> QED
  BY <1>3, <1>4, <1>5, <1>6, <1>7 DEF text

(* Printing lines one after another disturbs only the lines there are, and *)
(* is what the loop of terminal_println does.                              *)
LEMMA PrintedLines ==
  ASSUME NEW t \in Screens, NEW n \in Nat \ {0}
  PROVE  /\ Printed(t, n) \in Screens
         /\ Printed(t, n).size = t.size + n /\ Printed(t, n).index = 0
         /\ \A r \in Rows : r >= t.size + n => Printed(t, n).lines[r].text = t.lines[r].text
<1> DEFINE text(r) == IF r \in t.size - 1 .. t.size + n - 2
                      THEN [c \in Cells |-> IF c = (IF r = t.size - 1 THEN t.index ELSE 0)
                                            THEN "output" ELSE t.lines[r].text[c]]
                      ELSE t.lines[r].text
           starter(r) == t.lines[r].starter /\ r \notin t.size .. t.size + n - 1
           all == [r \in Rows |-> [text |-> text(r), starter |-> starter(r)]]
<1>1. Printed(t, n) = [lines |-> all, size |-> t.size + n, index |-> 0]
  BY DEF Printed
<1>2. "output" \in Mark
  BY DEF Mark
<1>3. \A r \in Rows : text(r) \in [Cells -> Mark]
  BY <1>2, ScreenFields
<1>4. \A r \in Rows : starter(r) \in BOOLEAN
  OBVIOUS
<1>5. \A r \in Rows : r >= t.size + n => text(r) = t.lines[r].text
  BY ScreenFields, LinesTyped
<1> HIDE DEF text, starter
<1>6. all \in [Rows -> Line]
  BY <1>3, <1>4 DEF Line
<1>7. t.size + n \in Nat \ {0}
  BY ScreenFields
<1>8. Printed(t, n) \in Screens
  BY <1>1, <1>6, <1>7 DEF Screens
<1> QED
  BY <1>1, <1>5, <1>8

LEMMA PrintedIsLoop ==
  ASSUME NEW t \in Screens, NEW n \in Nat \ {0}
  PROVE  /\ Printed(t, 1) = terminal_println(t)
         /\ Printed(t, n + 1) = terminal_println(Printed(t, n))
<1> DEFINE text(r, k) == IF r \in t.size - 1 .. t.size + k - 2
                         THEN [c \in Cells |-> IF c = (IF r = t.size - 1 THEN t.index ELSE 0)
                                               THEN "output" ELSE t.lines[r].text[c]]
                         ELSE t.lines[r].text
           starter(r, k) == t.lines[r].starter /\ r \notin t.size .. t.size + k - 1
           all(k) == [r \in Rows |-> [text |-> text(r, k), starter |-> starter(r, k)]]
<1>1. \A k \in Nat : Printed(t, k) = [lines |-> all(k), size |-> t.size + k, index |-> 0]
  BY DEF Printed
<1>2. ASSUME NEW u \in Screens, NEW v \in Screens, u.size = v.size, u.index = v.index,
             \A r \in Rows : u.lines[r] = v.lines[r]
      PROVE  u = v
  <2>1. u.lines = v.lines
    BY <1>2, ScreenFields
  <2> QED
    BY <1>2, <2>1, ScreenFields
<1>3. t.size \in Nat /\ t.size > 0 /\ \A r \in Rows : r \in Nat
  BY ScreenFields, LinesTyped
<1>4. \A r \in Rows : t.lines[r].starter \in BOOLEAN
  BY ScreenFields
<1>5. Printed(t, 1) = terminal_println(t)
  <2>1. ASSUME NEW r \in Rows
        PROVE  Printed(t, 1).lines[r] = terminal_println(t).lines[r]
    <3>1. Printed(t, 1).lines[r] = [text |-> text(r, 1), starter |-> starter(r, 1)]
      <4>1. Printed(t, 1) = [lines |-> all(1), size |-> t.size + 1, index |-> 0]
        BY <1>1
      <4> HIDE DEF text, starter
      <4> QED
        BY <4>1
    <3>2. r \in t.size - 1 .. t.size + 1 - 2 <=> r = t.size - 1
      BY <1>3
    <3>3. r \in t.size .. t.size + 1 - 1 <=> r = t.size
      BY <1>3
    <3>4. text(r, 1) = IF r # t.size - 1 THEN t.lines[r].text
                       ELSE [c \in Cells |-> IF c = t.index THEN "output"
                                             ELSE t.lines[r].text[c]]
      BY <3>2
    <3>5. starter(r, 1) = (t.lines[r].starter /\ r # t.size)
      BY <3>3
    <3> HIDE DEF text, starter
    <3> QED
      BY <3>1, <3>4, <3>5, Println
  <2> QED
    BY <1>2, <2>1, PrintedLines, Println
<1>6. Printed(t, n + 1) = terminal_println(Printed(t, n))
  <2> DEFINE p == Printed(t, n)
  <2>1. p \in Screens /\ p.size = t.size + n /\ p.index = 0
    BY PrintedLines
  <2>2. n + 1 \in Nat \ {0} /\ t.size + (n + 1) = p.size + 1
    BY <1>3, <2>1
  <2>3. ASSUME NEW r \in Rows
        PROVE  Printed(t, n + 1).lines[r] = terminal_println(p).lines[r]
    <3>1. /\ Printed(t, n + 1).lines[r] = [text |-> text(r, n + 1), starter |-> starter(r, n + 1)]
          /\ p.lines[r] = [text |-> text(r, n), starter |-> starter(r, n)]
      <4>1. /\ Printed(t, n + 1) = [lines |-> all(n + 1), size |-> t.size + (n + 1), index |-> 0]
            /\ p = [lines |-> all(n), size |-> t.size + n, index |-> 0]
        BY <1>1, <2>2
      <4> HIDE DEF text, starter, p
      <4> QED
        BY <4>1
    <3>2. p.lines[r].text = text(r, n) /\ p.lines[r].starter = starter(r, n)
      BY <3>1
    <3>3. text(r, n + 1) = IF r # p.size - 1 THEN p.lines[r].text
                           ELSE [c \in Cells |-> IF c = p.index THEN "output"
                                                 ELSE p.lines[r].text[c]]
      <4>1. CASE r = p.size - 1
        <5>1. /\ r \in t.size - 1 .. t.size + (n + 1) - 2 /\ r # t.size - 1
              /\ r \notin t.size - 1 .. t.size + n - 2
          BY <1>3, <2>1, <4>1
        <5> QED
          BY <2>1, <3>2, <4>1, <5>1
      <4>2. CASE r # p.size - 1
        <5>1. r \in t.size - 1 .. t.size + (n + 1) - 2 <=> r \in t.size - 1 .. t.size + n - 2
          BY <1>3, <2>1, <4>2
        <5> QED
          BY <3>2, <4>2, <5>1
      <4> QED
        BY <4>1, <4>2
    <3>4. starter(r, n + 1) = (p.lines[r].starter /\ r # p.size)
      <4>1. r \in t.size .. t.size + (n + 1) - 1 <=> r \in t.size .. t.size + n - 1 \/ r = p.size
        BY <1>3, <2>1
      <4> QED
        BY <3>2, <4>1
    <3> HIDE DEF text, starter, p
    <3> QED
      BY <2>1, <3>1, <3>3, <3>4, Println
  <2>4. /\ Printed(t, n + 1) \in Screens /\ Printed(t, n + 1).size = t.size + (n + 1)
        /\ Printed(t, n + 1).index = 0
    BY <2>2, PrintedLines
  <2>5. /\ terminal_println(p) \in Screens /\ terminal_println(p).size = p.size + 1
        /\ terminal_println(p).index = 0
    BY <2>1, Println
  <2> HIDE DEF p
  <2>6. Printed(t, n + 1) = terminal_println(p)
    BY <1>2, <2>2, <2>3, <2>4, <2>5
  <2> QED
    BY <2>6 DEF p
<1> QED
  BY <1>5, <1>6

(* What a command prints: at most three lines, or two for every file and   *)
(* one more; the lines behind stay as they are.                            *)
LEMMA OutputLines ==
  ASSUME NEW t \in Screens, NEW kind, files \in 0 .. MaxFiles
  PROVE  /\ Output(t, kind) \in Screens
         /\ Output(t, kind).size >= t.size
         /\ \/ Output(t, kind).size <= t.size + 3
            \/ Output(t, kind).size <= t.size + 2 * MaxFiles + 1
         /\ \A r \in Rows : r >= Output(t, kind).size =>
              Output(t, kind).lines[r].text = t.lines[r].text
<1> DEFINE Good(u) ==
      /\ u \in Screens
      /\ u.size >= t.size
      /\ u.size <= t.size + 3 \/ u.size <= t.size + 2 * MaxFiles + 1
      /\ \A r \in Rows : r >= u.size => u.lines[r].text = t.lines[r].text
<1>1. t.size \in Nat /\ \A r \in Rows : r \in Nat
  BY ScreenFields, LinesTyped
<1>2. \A u \in Screens : /\ terminal_println(u) \in Screens
                         /\ u.size \in Nat
                         /\ terminal_println(u).size = u.size + 1
                         /\ \A r \in Rows : r >= u.size =>
                              terminal_println(u).lines[r].text = u.lines[r].text
  <2> SUFFICES ASSUME NEW u \in Screens
               PROVE  /\ terminal_println(u) \in Screens
                      /\ u.size \in Nat
                      /\ terminal_println(u).size = u.size + 1
                      /\ \A r \in Rows : r >= u.size =>
                           terminal_println(u).lines[r].text = u.lines[r].text
    OBVIOUS
  <2>1. ASSUME NEW r \in Rows, r >= u.size
        PROVE  terminal_println(u).lines[r].text = u.lines[r].text
    <3>1. r # u.size - 1
      BY <1>1, <2>1, ScreenFields
    <3>2. terminal_println(u).lines[r] =
              [text    |-> IF r # u.size - 1 THEN u.lines[r].text
                           ELSE [c \in Cells |-> IF c = u.index THEN "output"
                                                 ELSE u.lines[r].text[c]],
               starter |-> u.lines[r].starter /\ r # u.size]
      BY Println
    <3> QED
      BY <3>1, <3>2
  <2> QED
    BY <2>1, Println, ScreenFields
<1>3. \A u \in Screens : /\ terminal_print(u) \in Screens
                         /\ terminal_print(u).size = u.size
                         /\ \A r \in Rows : r >= u.size =>
                              terminal_print(u).lines[r].text = u.lines[r].text
  <2> SUFFICES ASSUME NEW u \in Screens
               PROVE  /\ terminal_print(u) \in Screens
                      /\ terminal_print(u).size = u.size
                      /\ \A r \in Rows : r >= u.size =>
                           terminal_print(u).lines[r].text = u.lines[r].text
    OBVIOUS
  <2>1. \A r \in Rows : r >= u.size => r # u.size - 1
    BY <1>1, ScreenFields
  <2>2. /\ terminal_print(u) \in Screens
        /\ terminal_print(u).size = u.size
        /\ \A r \in Rows : r # u.size - 1 => terminal_print(u).lines[r] = u.lines[r]
    BY CharacterPrinted
  <2> QED
    BY <2>1, <2>2
<1>4. Good(t) /\ Good(terminal_println(t))
  BY <1>1, <1>2
<1>5. Good(terminal_println(terminal_println(terminal_println(t))))
  <2>1. Good(terminal_println(terminal_println(t)))
        /\ terminal_println(terminal_println(t)).size = t.size + 2
    BY <1>1, <1>2
  <2> QED
    BY <1>1, <1>2, <2>1
<1>6. Good(terminal_println(terminal_print(terminal_println(t))))
  BY <1>1, <1>2, <1>3
<1>7. Good(terminal_println(terminal_print(t)))
  BY <1>1, <1>2, <1>3
<1>8. Good(Printed(t, 2 * files + 1))
  <2>1. 2 * files + 1 \in Nat \ {0} /\ 2 * files + 1 <= 2 * MaxFiles + 1
    BY LinesTyped
  <2>2. /\ Printed(t, 2 * files + 1) \in Screens
        /\ Printed(t, 2 * files + 1).size = t.size + (2 * files + 1)
        /\ \A r \in Rows : r >= t.size + (2 * files + 1) =>
             Printed(t, 2 * files + 1).lines[r].text = t.lines[r].text
    BY <2>1, PrintedLines
  <2> QED
    BY <1>1, <2>1, <2>2, LinesTyped
<1>9. \/ Output(t, kind) = Printed(t, 2 * files + 1)
      \/ Output(t, kind) = terminal_println(terminal_println(terminal_println(t)))
      \/ Output(t, kind) = terminal_println(terminal_print(terminal_println(t)))
      \/ Output(t, kind) = terminal_println(terminal_print(t))
      \/ Output(t, kind) = terminal_println(t)
      \/ Output(t, kind) = t
  BY DEF Output
<1>10. Good(Output(t, kind))
  <2> HIDE DEF Good
  <2> QED
    BY <1>4, <1>5, <1>6, <1>7, <1>8, <1>9
<1> QED
  BY <1>10

(* What ENTER leaves: an empty screen, or so many more lines, of which the *)
(* last and those behind it are as they were.                              *)
LEMMA CommandRun ==
  ASSUME TerminalTypeOK, size <= MaxLines, NEW kind
  PROVE  /\ Run(kind) \in Screens /\ Run(kind).index = 0
         /\ kind = "clear" =>
              /\ Run(kind).size = 1
              /\ \A r \in Rows : Run(kind).lines[r].text = BlankText
         /\ kind # "clear" =>
              /\ Run(kind).size > size
              /\ Run(kind).size <= size + 4 \/ Run(kind).size <= size + 2 * MaxFiles + 2
              /\ \A r \in Rows : r >= Run(kind).size - 1 =>
                   Run(kind).lines[r].text = lines[r].text
<1> DEFINE cut  == [lines EXCEPT ![size - 1].text = Tokenised(@)]
           t    == [Terminal EXCEPT !.lines[size - 1].text = Tokenised(@)]
           line(r) == [text |-> IF r = size - 1 THEN Tokenised(lines[r].text) ELSE lines[r].text,
                       starter |-> lines[r].starter]
           ask  == [t EXCEPT !.lines[0].starter = TRUE]
           u    == IF kind = "terminal" THEN ask ELSE t
<1>1. /\ size \in Nat /\ size > 0 /\ size - 1 \in Rows /\ 0 \in Rows
      /\ index \in Nat /\ files \in 0 .. MaxFiles
      /\ lines \in [Rows -> Line]
  BY LinesTyped DEF TerminalTypeOK, Rows, Line
<1>2. \A r \in Rows : line(r) \in Line /\ lines[r] \in Line /\ r \in Nat
  <2>1. "NUL" \in Mark
    BY DEF Mark
  <2>2. \A r \in Rows : /\ lines[r] \in Line /\ lines[r].text \in [Cells -> Mark]
                        /\ lines[r].starter \in BOOLEAN /\ r \in Nat
    BY <1>1, LinesTyped DEF Line
  <2>3. \A r \in Rows : Tokenised(lines[r].text) \in [Cells -> Mark]
    BY <2>1, <2>2 DEF Tokenised
  <2> QED
    BY <2>2, <2>3 DEF Line
<1>3. t = [lines |-> [r \in Rows |-> line(r)], size |-> size, index |-> index]
  <2>1. t = [lines |-> cut, size |-> size, index |-> index]
    BY DEF Terminal
  <2>2. \A r \in Rows : cut[r] = line(r)
    <3> SUFFICES ASSUME NEW r \in Rows
                 PROVE  cut[r] = line(r)
      OBVIOUS
    <3>1. CASE r = size - 1
      <4>1. cut[r] = [lines[r] EXCEPT !.text = Tokenised(lines[r].text)]
        BY <1>1, <3>1
      <4> QED
        BY <1>2, <3>1, <4>1 DEF Line
    <3>2. CASE r # size - 1
      <4>1. cut[r] = lines[r]
        BY <1>1, <3>2
      <4> QED
        BY <1>2, <3>2, <4>1 DEF Line
    <3> QED
      BY <3>1, <3>2
  <2>3. cut = [r \in Rows |-> line(r)]
    <3>1. cut = [r \in Rows |-> cut[r]]
      BY <1>1
    <3> HIDE DEF cut, line
    <3> QED
      BY <2>2, <3>1
  <2> HIDE DEF cut, line, t
  <2> QED
    BY <2>1, <2>3
<1>4. /\ t \in Screens /\ t.size = size /\ t.index = index
      /\ \A r \in Rows : t.lines[r] = line(r)
  <2> HIDE DEF t, line
  <2> QED
    BY <1>1, <1>2, <1>3 DEF Screens
<1>5. \A r \in Rows : r >= size => t.lines[r].text = lines[r].text
  <2> HIDE DEF t
  <2>1. ASSUME NEW r \in Rows, r >= size
        PROVE  t.lines[r].text = lines[r].text
    <3>1. r # size - 1
      BY <1>1, <2>1, LinesTyped
    <3>2. t.lines[r] = [text |-> lines[r].text, starter |-> lines[r].starter]
      BY <1>4, <3>1
    <3> QED
      BY <3>2
  <2> QED
    BY <2>1
<1>6. /\ u \in Screens /\ u.size = size
      /\ \A r \in Rows : u.lines[r].text = t.lines[r].text
  <2> DEFINE first(r) == IF r = 0 THEN [text |-> t.lines[r].text, starter |-> TRUE]
                                  ELSE t.lines[r]
             all == [t.lines EXCEPT ![0].starter = TRUE]
  <2> HIDE DEF t
  <2>1. ask = [lines |-> all, size |-> size, index |-> index]
    <3>1. ask = [t EXCEPT !.lines = all]
      OBVIOUS
    <3> HIDE DEF ask, all
    <3> QED
      BY <1>4, <3>1 DEF Screens
  <2>2. \A r \in Rows : all[r] = first(r) /\ first(r) \in Line
    <3> SUFFICES ASSUME NEW r \in Rows
                 PROVE  all[r] = first(r) /\ first(r) \in Line
      OBVIOUS
    <3>1. t.lines \in [Rows -> Line] /\ t.lines[r] \in Line
      BY <1>4, ScreenFields
    <3>2. CASE r = 0
      <4>1. all[r] = [t.lines[r] EXCEPT !.starter = TRUE]
        BY <3>1, <3>2
      <4> QED
        BY <3>1, <3>2, <4>1 DEF Line
    <3>3. CASE r # 0
      BY <3>1, <3>3
    <3> QED
      BY <3>2, <3>3
  <2>3. all \in [Rows -> Line]
    <3>1. all = [r \in Rows |-> all[r]]
      BY <1>4, ScreenFields
    <3> HIDE DEF all, first
    <3> QED
      BY <2>2, <3>1
  <2>4. \A r \in Rows : all[r].text = t.lines[r].text
    BY <2>2
  <2> HIDE DEF ask, all, first
  <2>5. /\ ask \in Screens /\ ask.size = size
        /\ \A r \in Rows : ask.lines[r].text = t.lines[r].text
    BY <1>1, <2>1, <2>3, <2>4 DEF Screens
  <2> QED
    BY <1>4, <2>5
<1>7. CASE kind = "clear"
  <2> HIDE DEF t
  <2>1. Run(kind) = [lines |-> [r \in Rows |-> [t.lines[r] EXCEPT !.text = BlankText]],
                     size |-> 1, index |-> 0]
    BY <1>7 DEF Run, Cleared, t
  <2>2. BlankText \in [Cells -> Mark]
    BY DEF BlankText, Mark
  <2>3. \A r \in Rows : [t.lines[r] EXCEPT !.text = BlankText]
                          = [text |-> BlankText, starter |-> t.lines[r].starter]
    BY <1>4, ScreenFields DEF Line
  <2>4. Run(kind) = [lines |-> [r \in Rows |-> [text |-> BlankText,
                                                starter |-> t.lines[r].starter]],
                     size |-> 1, index |-> 0]
    BY <2>1, <2>3
  <2>5. [r \in Rows |-> [text |-> BlankText, starter |-> t.lines[r].starter]]
          \in [Rows -> Line]
    BY <1>4, <2>2, ScreenFields DEF Line
  <2> QED
    BY <1>7, <2>4, <2>5 DEF Screens
<1>8. CASE kind # "clear"
  <2>1. Run(kind) = terminal_new_line(Output(u, kind))
    BY <1>8 DEF Run
  <2> DEFINE o == Output(u, kind)
  <2> HIDE DEF u, t
  <2>2. /\ o \in Screens
        /\ o.size >= u.size
        /\ o.size <= u.size + 3 \/ o.size <= u.size + 2 * MaxFiles + 1
        /\ \A r \in Rows : r >= o.size => o.lines[r].text = u.lines[r].text
    BY <1>1, <1>6, OutputLines
  <2>3. o.size \in Nat /\ o.size > 0
    BY <2>2, ScreenFields
  <2> HIDE DEF o
  <2>4. /\ terminal_new_line(o) \in Screens
        /\ terminal_new_line(o).size = o.size + 1 /\ terminal_new_line(o).index = 0
        /\ \A r \in Rows : terminal_new_line(o).lines[r].text = o.lines[r].text
    BY <2>2, NewLine
  <2>5. Run(kind) = terminal_new_line(o)
    BY <2>1 DEF o
  <2>6. ASSUME NEW r \in Rows, r >= Run(kind).size - 1
        PROVE  Run(kind).lines[r].text = lines[r].text
    <3>1. r >= o.size
      BY <2>3, <2>4, <2>5, <2>6, LinesTyped
    <3>2. r >= size
      BY <1>1, <1>6, <2>2, <2>3, <3>1, LinesTyped
    <3> QED
      BY <1>5, <1>6, <2>2, <2>4, <2>5, <3>1, <3>2
  <2> QED
    BY <1>1, <1>6, <1>8, <2>2, <2>3, <2>4, <2>5, <2>6, LinesTyped
<1> QED
  BY <1>7, <1>8

(* What a key other than ENTER does to the last line.                      *)
LEMMA CharacterTyped ==
  ASSUME TerminalTypeOK, size <= MaxLines, NEW mark \in Mark, NEW place \in Nat,
         NEW v, v = terminal_strcpy([lines |-> lines, size |-> size, index |-> place], mark)
  PROVE  /\ v \in Screens /\ v.size = size /\ v.index = place + 1
         /\ size - 1 \in Rows
         /\ \A r \in Rows : r # size - 1 => v.lines[r] = lines[r]
         /\ v.lines[size - 1].text = [c \in Cells |-> IF c = place THEN mark
                                                       ELSE lines[size - 1].text[c]]
<1> DEFINE t == [lines |-> lines, size |-> size, index |-> place]
<1>1. size \in Nat \ {0} /\ size - 1 \in Rows /\ lines \in [Rows -> Line]
  BY LinesTyped DEF TerminalTypeOK, Rows, Line
<1>2. t \in Screens /\ t.lines = lines /\ t.size = size /\ t.index = place
  BY <1>1 DEF Screens
<1>3. v = terminal_strcpy(t, mark)
  OBVIOUS
<1> DEFINE w == terminal_strcpy(t, mark)
<1> HIDE DEF t
<1>4. /\ w \in Screens /\ w.size = t.size /\ w.index = t.index + 1
      /\ \A r \in Rows : r # t.size - 1 => w.lines[r] = t.lines[r]
      /\ \A r \in Rows : r = t.size - 1 => w.lines[r] =
           [text |-> [c \in Cells |-> IF c = t.index THEN mark ELSE t.lines[r].text[c]],
            starter |-> t.lines[r].starter]
  BY <1>2, CharacterStored
<1>5. /\ v \in Screens /\ v.size = t.size /\ v.index = t.index + 1
      /\ \A r \in Rows : r # t.size - 1 => v.lines[r] = t.lines[r]
      /\ \A r \in Rows : r = t.size - 1 => v.lines[r] =
           [text |-> [c \in Cells |-> IF c = t.index THEN mark ELSE t.lines[r].text[c]],
            starter |-> t.lines[r].starter]
  BY <1>3, <1>4
<1>6. v.lines[size - 1] =
        [text |-> [c \in Cells |-> IF c = place THEN mark ELSE lines[size - 1].text[c]],
         starter |-> lines[size - 1].starter]
  BY <1>1, <1>2, <1>5
<1> QED
  BY <1>1, <1>2, <1>5, <1>6

LEMMA KeyTyped ==
  ASSUME TerminalTypeOK, size <= MaxLines, TypeChar \/ TypeSpace
  PROVE  /\ lines' \in [Rows -> Line] /\ size' = size /\ index' = index + 1
         /\ index < MaxTyped /\ UNCHANGED <<files, phase, row, reset>> /\ phase # "lost"
         /\ size - 1 \in Rows
         /\ \A r \in Rows : r # size - 1 => lines'[r] = lines[r]
         /\ \E mark \in Chars \cup {"space"} :
              lines'[size - 1].text = [c \in Cells |-> IF c = index THEN mark
                                                       ELSE lines[size - 1].text[c]]
<1>1. PICK mark \in Chars \cup {"space"} : Becomes(terminal_strcpy(Terminal, mark))
  BY DEF TypeChar, TypeSpace
<1>2. index \in Nat /\ mark \in Mark
  <2>1. index \in 0 .. MaxTyped
    BY DEF TerminalTypeOK
  <2> QED
    BY <1>1, <2>1, LinesTyped DEF Mark
<1> DEFINE v == terminal_strcpy([lines |-> lines, size |-> size, index |-> index], mark)
<1>3. lines' = v.lines /\ size' = v.size /\ index' = v.index
  BY <1>1 DEF Becomes, Terminal
<1>4. v = terminal_strcpy([lines |-> lines, size |-> size, index |-> index], mark)
  OBVIOUS
<1> HIDE DEF v
<1>5. /\ v \in Screens /\ v.size = size /\ v.index = index + 1
      /\ size - 1 \in Rows
      /\ \A r \in Rows : r # size - 1 => v.lines[r] = lines[r]
      /\ v.lines[size - 1].text = [c \in Cells |-> IF c = index THEN mark
                                                    ELSE lines[size - 1].text[c]]
  BY <1>2, <1>4, CharacterTyped
<1>6. index < MaxTyped /\ UNCHANGED <<files, phase, row, reset>> /\ phase # "lost"
  BY DEF TypeChar, TypeSpace
<1>7. lines' \in [Rows -> Line]
  BY <1>3, <1>5, ScreenFields
<1> QED
  BY <1>3, <1>5, <1>6, <1>7

LEMMA KeyErased ==
  ASSUME TerminalTypeOK, size <= MaxLines, Backspace
  PROVE  /\ lines' \in [Rows -> Line] /\ size' = size /\ index' = index - 1
         /\ index > 0 /\ UNCHANGED <<files, phase, row, reset>> /\ phase # "lost"
         /\ size - 1 \in Rows
         /\ \A r \in Rows : r # size - 1 => lines'[r] = lines[r]
         /\ lines'[size - 1].text = [c \in Cells |-> IF c = index - 1 THEN "NUL"
                                                     ELSE lines[size - 1].text[c]]
<1>1. index > 0 /\ UNCHANGED <<files, phase, row, reset>> /\ phase # "lost"
  BY DEF Backspace
<1>2. index - 1 \in Nat /\ index \in Nat /\ "NUL" \in Mark
  <2>1. index \in 0 .. MaxTyped
    BY DEF TerminalTypeOK
  <2> QED
    BY <1>1, <2>1, LinesTyped DEF Mark
<1> DEFINE v == terminal_strcpy([lines |-> lines, size |-> size, index |-> index - 1], "NUL")
<1>3. [Terminal EXCEPT !.index = @ - 1] = [lines |-> lines, size |-> size, index |-> index - 1]
  BY DEF Terminal
<1>4. Becomes([v EXCEPT !.index = @ - 1])
  BY <1>3 DEF Backspace
<1> HIDE DEF v
<1>5. /\ v \in Screens /\ v.size = size /\ v.index = (index - 1) + 1
      /\ size - 1 \in Rows
      /\ \A r \in Rows : r # size - 1 => v.lines[r] = lines[r]
      /\ v.lines[size - 1].text = [c \in Cells |-> IF c = index - 1 THEN "NUL"
                                                    ELSE lines[size - 1].text[c]]
  BY <1>2, CharacterTyped DEF v
<1>6. [v EXCEPT !.index = @ - 1]
        = [lines |-> v.lines, size |-> v.size, index |-> v.index - 1]
  BY <1>5 DEF Screens
<1>7. lines' = v.lines /\ size' = v.size /\ index' = v.index - 1
  BY <1>4, <1>6 DEF Becomes
<1>8. lines' \in [Rows -> Line]
  BY <1>5, <1>7, ScreenFields
<1>9. index' = index - 1
  BY <1>2, <1>5, <1>7
<1> QED
  BY <1>1, <1>5, <1>7, <1>8, <1>9

-----------------------------------------------------------------------------
(* While the lines can be told apart they are within the array: a command  *)
(* that runs past them loses the terminal.                                 *)
LinesFit == phase # "lost" => size <= MaxLines

(* Between clearings the last line holds what was typed, and those behind  *)
(* it are blank; a clearing has blanked the lines it has been at, and the  *)
(* counters it has reset stay so until it ends.                            *)
LastLineTyped ==
  phase = "idle" =>
    /\ reset = {}
    /\ \A c \in Cells :
         lines[size - 1].text[c] \in IF c < index THEN Chars \cup {"space"} ELSE {"NUL"}
    /\ \A r \in size .. MaxLines - 1 : lines[r].text = BlankText
ClearingBlanks ==
  /\ phase = "rows" => reset = {} /\ \A r \in Rows : r < row => lines[r].text = BlankText
  /\ phase = "ends" =>
       /\ \A r \in Rows : lines[r].text = BlankText
       /\ "size" \in reset => size = 1
       /\ "index" \in reset => index = 0

TerminalInv ==
  /\ TerminalTypeOK
  /\ LinesFit
  /\ ~raced => LastLineTyped /\ ClearingBlanks

(* The invariant holds at first, and each step of the keyboard and of the  *)
(* main loop keeps it.                                                     *)
LEMMA TerminalInitInv == TerminalInit => TerminalInv
<1> SUFFICES ASSUME TerminalInit
             PROVE  TerminalInv
  OBVIOUS
<1>1. BlankText \in [Cells -> Mark] /\ \A c \in Cells : BlankText[c] = "NUL"
  BY DEF BlankText, Mark
<1>2. 0 \in Rows /\ \A r \in Rows : lines[r].text = BlankText
  BY LinesTyped DEF TerminalInit, Rows
<1>3. \A r \in 1 .. MaxLines - 1 : r \in Rows
  BY LinesTyped DEF Rows
<1>4. lines \in [Rows -> Line]
  BY <1>1 DEF TerminalInit, Line
<1>5. /\ size = 1 /\ index = 0 /\ files = 0 /\ keys = 0 /\ raced = FALSE
      /\ phase = "idle" /\ row = 0 /\ reset = {}
  BY DEF TerminalInit
<1>6. TerminalTypeOK
  <2>1. 0 \in 0 .. MaxTyped /\ 0 \in 0 .. MaxFiles /\ 0 \in 0 .. MaxKeys
    BY LinesTyped
  <2>2. 1 \in Nat \ {0} /\ FALSE \in BOOLEAN
    OBVIOUS
  <2> QED
    BY <1>2, <1>4, <1>5, <2>1, <2>2 DEF TerminalTypeOK, Line
<1>7. LinesFit
  BY <1>5, LinesTyped DEF LinesFit
<1>8. LastLineTyped
  <2>1. \A c \in Cells : c \in Nat
    BY DEF Cells
  <2> HIDE DEF BlankText, Cells
  <2>2. \A c \in Cells : lines[0].text[c] = "NUL" /\ ~(c < 0)
    BY <1>1, <1>2, <2>1
  <2> QED
    BY <1>2, <1>3, <1>5, <2>2 DEF LastLineTyped
<1>9. ClearingBlanks
  BY <1>5 DEF ClearingBlanks
<1> QED
  BY <1>6, <1>7, <1>8, <1>9 DEF TerminalInv

(* A key that comes when nothing is to be cleared.                         *)
LEMMA KeyCalm ==
  ASSUME TerminalTypeOK, terminal_keyboard_int
  PROVE  /\ TypeChar \/ TypeSpace \/ Backspace \/ Enter
         /\ ~raced' => ~raced /\ phase = "idle" /\ size <= ClearAt
         /\ keys' \in 0 .. MaxKeys /\ raced' \in BOOLEAN
<1>1. raced \in BOOLEAN /\ keys \in 0 .. MaxKeys /\ size \in Nat
  BY DEF TerminalTypeOK
<1>2. CASE Due
  BY <1>1, <1>2, LinesTyped DEF terminal_keyboard_int
<1>3. CASE ~Due
  <2>1. phase = "idle" /\ size <= ClearAt
    BY <1>1, <1>3, LinesTyped DEF Due
  <2> QED
    BY <1>1, <1>3, <2>1 DEF terminal_keyboard_int
<1> QED
  BY <1>2, <1>3

LEMMA KeyNext ==
  ASSUME TerminalInv, terminal_keyboard_int, TypeChar \/ TypeSpace \/ Backspace
  PROVE  TerminalInv'
<1>1. TerminalTypeOK /\ LinesFit
  BY DEF TerminalInv
<1>2. phase # "lost"
  BY DEF TypeChar, TypeSpace, Backspace
<1>3. size <= MaxLines
  BY <1>1, <1>2 DEF LinesFit
<1>4. /\ lines' \in [Rows -> Line] /\ size' = size /\ size - 1 \in Rows
      /\ UNCHANGED <<files, phase, row, reset>>
      /\ \A r \in Rows : r # size - 1 => lines'[r] = lines[r]
  BY <1>1, <1>3, KeyTyped, KeyErased
<1>5. index \in Nat /\ index <= MaxTyped /\ size \in Nat
  <2>1. index \in 0 .. MaxTyped /\ size \in Nat
    BY <1>1 DEF TerminalTypeOK
  <2> QED
    BY <2>1, LinesTyped
<1>6. index' \in 0 .. MaxTyped
  <2>1. CASE TypeChar \/ TypeSpace
    <3>1. index' = index + 1 /\ index < MaxTyped
      BY <1>1, <1>3, <2>1, KeyTyped
    <3> QED
      BY <1>5, <3>1, LinesTyped
  <2>2. CASE Backspace
    <3>1. index' = index - 1 /\ index > 0
      BY <1>1, <1>3, <2>2, KeyErased
    <3> QED
      BY <1>5, <3>1, LinesTyped
  <2> QED
    BY <2>1, <2>2
<1>7. keys' \in 0 .. MaxKeys /\ raced' \in BOOLEAN
      /\ (~raced' => ~raced /\ phase = "idle" /\ size <= ClearAt)
  BY <1>1, KeyCalm
<1>8. TerminalTypeOK'
  BY <1>1, <1>4, <1>6, <1>7 DEF TerminalTypeOK, Line
<1>9. LinesFit'
  BY <1>3, <1>4 DEF LinesFit
<1>10. ASSUME ~raced'
       PROVE  LastLineTyped'
  <2>1. /\ reset = {} /\ phase = "idle"
        /\ \A c \in Cells :
             lines[size - 1].text[c] \in IF c < index THEN Chars \cup {"space"} ELSE {"NUL"}
        /\ \A r \in size .. MaxLines - 1 : lines[r].text = BlankText
    BY <1>7, <1>10 DEF TerminalInv, LastLineTyped
  <2>2. \A r \in size .. MaxLines - 1 : lines'[r].text = BlankText
    <3>1. \A r \in size .. MaxLines - 1 : r \in Rows /\ r # size - 1
      BY <1>5, LinesTyped DEF Rows
    <3> QED
      BY <1>4, <2>1, <3>1
  <2>3. \A c \in Cells : c \in Int
    BY LinesTyped DEF Cells
  <2>4. \A c \in Cells : lines'[size - 1].text[c]
                           \in IF c < index' THEN Chars \cup {"space"} ELSE {"NUL"}
    <3>1. CASE TypeChar \/ TypeSpace
      <4>1. /\ index' = index + 1
            /\ \E mark \in Chars \cup {"space"} :
                 lines'[size - 1].text = [c \in Cells |-> IF c = index THEN mark
                                                          ELSE lines[size - 1].text[c]]
        BY <1>1, <1>3, <3>1, KeyTyped
      <4>2. PICK mark \in Chars \cup {"space"} :
                 lines'[size - 1].text = [c \in Cells |-> IF c = index THEN mark
                                                          ELSE lines[size - 1].text[c]]
        BY <4>1
      <4>3. SUFFICES ASSUME NEW c \in Cells
                     PROVE  lines'[size - 1].text[c]
                              \in IF c < index' THEN Chars \cup {"space"} ELSE {"NUL"}
        OBVIOUS
      <4>4. CASE c = index
        BY <1>5, <4>1, <4>2, <4>4
      <4>5. CASE c # index
        BY <1>5, <2>1, <2>3, <4>1, <4>2, <4>5
      <4> QED
        BY <4>4, <4>5
    <3>2. CASE Backspace
      <4>1. /\ index' = index - 1
            /\ lines'[size - 1].text = [c \in Cells |-> IF c = index - 1 THEN "NUL"
                                                        ELSE lines[size - 1].text[c]]
        BY <1>1, <1>3, <3>2, KeyErased
      <4>2. SUFFICES ASSUME NEW c \in Cells
                     PROVE  lines'[size - 1].text[c]
                              \in IF c < index' THEN Chars \cup {"space"} ELSE {"NUL"}
        OBVIOUS
      <4>3. CASE c = index - 1
        BY <1>5, <4>1, <4>3
      <4>4. CASE c # index - 1
        BY <1>5, <2>1, <2>3, <4>1, <4>4
      <4> QED
        BY <4>3, <4>4
    <3> QED
      BY <3>1, <3>2
  <2> QED
    BY <1>4, <2>1, <2>2, <2>4 DEF LastLineTyped
<1>11. ASSUME ~raced'
       PROVE  ClearingBlanks'
  BY <1>4, <1>7, <1>11 DEF ClearingBlanks
<1> QED
  BY <1>8, <1>9, <1>10, <1>11 DEF TerminalInv

(* The last line of n, and the lines behind it.                            *)
LEMMA RowsBehind ==
  ASSUME NEW n \in Nat, n > 0, n <= MaxLines
  PROVE  /\ n - 1 \in Rows /\ n - 1 \in n - 1 .. MaxLines - 1
         /\ \A r \in n .. MaxLines - 1 : r \in n - 1 .. MaxLines - 1
         /\ \A r \in n - 1 .. MaxLines - 1 : r \in Rows /\ r >= n - 1
         /\ \A k \in Nat : n > k =>
              \A r \in n - 1 .. MaxLines - 1 : r \in k .. MaxLines - 1
BY LinesTyped DEF Rows

LEMMA EnterNext ==
  ASSUME TerminalInv, terminal_keyboard_int, Enter
  PROVE  TerminalInv'
<1>1. TerminalTypeOK /\ LinesFit /\ phase # "lost"
  BY DEF TerminalInv, Enter
<1>2. size <= MaxLines
  BY <1>1 DEF LinesFit
<1>3. PICK kind : /\ Becomes(Run(kind))
                  /\ files' = IF kind = "touch" /\ files < MaxFiles THEN files + 1 ELSE files
                  /\ phase' = IF size' > MaxLines THEN "lost" ELSE phase
  BY DEF Enter
<1>4. UNCHANGED <<row, reset>>
  BY DEF Enter
<1> DEFINE after == Run(kind)
<1>5. /\ after \in Screens /\ after.index = 0
      /\ kind = "clear" => after.size = 1 /\ \A r \in Rows : after.lines[r].text = BlankText
      /\ kind # "clear" => /\ after.size > size
                           /\ \A r \in Rows : r >= after.size - 1 =>
                                after.lines[r].text = lines[r].text
  BY <1>1, <1>2, CommandRun
<1>6. lines' = after.lines /\ size' = after.size /\ index' = after.index
  BY <1>3 DEF Becomes
<1> HIDE DEF after
<1>7. /\ lines' \in [Rows -> Line] /\ size' \in Nat /\ size' > 0 /\ index' = 0
      /\ kind = "clear" => size' = 1 /\ \A r \in Rows : lines'[r].text = BlankText
      /\ kind # "clear" => /\ size' > size
                           /\ \A r \in Rows : r >= size' - 1 => lines'[r].text = lines[r].text
  BY <1>5, <1>6, ScreenFields
<1>8. keys' \in 0 .. MaxKeys /\ raced' \in BOOLEAN
      /\ (~raced' => ~raced /\ phase = "idle" /\ size <= ClearAt)
  BY <1>1, KeyCalm
<1>9. /\ files \in 0 .. MaxFiles /\ size \in Nat /\ size > 0
      /\ phase \in {"idle", "rows", "ends", "lost"}
  BY <1>1 DEF TerminalTypeOK
<1>10. TerminalTypeOK'
  <2>1. files' \in 0 .. MaxFiles /\ 0 \in 0 .. MaxTyped
    BY <1>3, <1>9, LinesTyped
  <2>2. phase' \in {"idle", "rows", "ends", "lost"}
    BY <1>3, <1>9
  <2> QED
    BY <1>1, <1>4, <1>7, <1>8, <2>1, <2>2 DEF TerminalTypeOK, Line
<1>11. LinesFit'
  BY <1>3, <1>7, LinesTyped DEF LinesFit
<1>12. ASSUME ~raced', phase' = "idle"
       PROVE  LastLineTyped'
  <2>1. size' \in Nat /\ size' > 0 /\ size' <= MaxLines
    <3>1. size' \in Nat /\ size' > 0
      BY <1>7
    <3>2. ~(size' > MaxLines)
      BY <1>3, <1>12
    <3> QED
      BY <3>1, <3>2, LinesTyped
  <2>2. reset = {} /\ \A r \in size .. MaxLines - 1 : lines[r].text = BlankText
    BY <1>8, <1>12 DEF TerminalInv, LastLineTyped
  <2>3. \A r \in size' - 1 .. MaxLines - 1 : lines'[r].text = BlankText
    <3>1. \A r \in size' - 1 .. MaxLines - 1 : r \in Rows /\ r >= size' - 1
      BY <2>1, RowsBehind
    <3>2. kind # "clear" => \A r \in size' - 1 .. MaxLines - 1 : r \in size .. MaxLines - 1
      <4>1. kind # "clear" => size' > size
        BY <1>7
      <4> QED
        BY <1>9, <2>1, <4>1, RowsBehind
    <3> HIDE DEF BlankText
    <3> QED
      BY <1>7, <2>2, <3>1, <3>2
  <2>4. \A c \in Cells : c \in Nat /\ BlankText[c] = "NUL"
    BY LinesTyped DEF Cells, BlankText
  <2>5. size' - 1 \in size' - 1 .. MaxLines - 1
        /\ \A r \in size' .. MaxLines - 1 : r \in size' - 1 .. MaxLines - 1
    BY <2>1, RowsBehind
  <2>6. \A c \in Cells : lines'[size' - 1].text[c] = "NUL" /\ ~(c < index')
    <3>1. lines'[size' - 1].text = BlankText
      BY <2>3, <2>5
    <3>2. index' = 0
      BY <1>7
    <3> HIDE DEF BlankText
    <3> QED
      BY <2>4, <3>1, <3>2
  <2> QED
    BY <1>4, <2>2, <2>3, <2>5, <2>6 DEF LastLineTyped
<1>13. ASSUME ~raced'
       PROVE  ClearingBlanks'
  BY <1>3, <1>8, <1>13 DEF ClearingBlanks
<1>14. ~raced' => LastLineTyped'
  <2>1. phase' # "idle" => LastLineTyped'
    BY DEF LastLineTyped
  <2> QED
    BY <1>12, <2>1
<1> QED
  BY <1>10, <1>11, <1>13, <1>14 DEF TerminalInv

LEMMA ClearRowNext ==
  ASSUME TerminalInv, ClearRow, keys' \in 0 .. MaxKeys, UNCHANGED raced
  PROVE  TerminalInv'
<1>1. TerminalTypeOK /\ LinesFit /\ phase = "rows"
  BY DEF TerminalInv, ClearRow
<1>2. /\ UNCHANGED <<size, index, files, reset>>
      /\ row' = (row + 1) % MaxLines
      /\ phase' = IF row' = 0 THEN "ends" ELSE "rows"
      /\ lines' = [lines EXCEPT ![row].text = BlankText]
  BY DEF ClearRow
<1>3. row \in Rows /\ row \in Nat /\ row < MaxLines /\ lines \in [Rows -> Line]
  BY <1>1, LinesTyped DEF TerminalTypeOK, Line
<1>4. /\ row' \in Rows
      /\ row' = 0 => \A r \in Rows : r < row \/ r = row
      /\ row' # 0 => \A r \in Rows : r < row' => r < row \/ r = row
  <2>1. CASE row + 1 = MaxLines
    <3>1. row' = 0
      BY <1>2, <1>3, <2>1, LinesTyped
    <3> QED
      BY <1>3, <2>1, <3>1, LinesTyped DEF Rows
  <2>2. CASE row + 1 # MaxLines
    <3>1. row' = row + 1
      BY <1>2, <1>3, <2>2, LinesTyped
    <3> QED
      BY <1>3, <2>2, <3>1, LinesTyped DEF Rows
  <2> QED
    BY <2>1, <2>2
<1>5. /\ lines' \in [Rows -> Line]
      /\ \A r \in Rows : r # row => lines'[r] = lines[r]
      /\ lines'[row].text = BlankText
  <2>1. BlankText \in [Cells -> Mark]
    BY DEF BlankText, Mark
  <2>2. lines'[row] = [lines[row] EXCEPT !.text = BlankText]
    BY <1>2, <1>3
  <2>3. lines[row] \in Line
    BY <1>3
  <2> HIDE DEF BlankText
  <2>4. lines'[row] = [text |-> BlankText, starter |-> lines[row].starter]
    BY <2>2, <2>3 DEF Line
  <2>5. lines'[row] \in Line
    BY <2>1, <2>3, <2>4 DEF Line
  <2>6. \A r \in Rows : r # row => lines'[r] = lines[r]
    BY <1>2, <1>3
  <2>7. lines' = [r \in Rows |-> lines'[r]]
    BY <1>2, <1>3
  <2>8. \A r \in Rows : lines'[r] \in Line
    BY <1>3, <2>5, <2>6
  <2> QED
    BY <2>4, <2>6, <2>7, <2>8
<1>6. TerminalTypeOK'
  BY <1>1, <1>2, <1>4, <1>5 DEF TerminalTypeOK, Line
<1>7. LinesFit'
  BY <1>1, <1>2 DEF LinesFit
<1>8. LastLineTyped'
  BY <1>2 DEF LastLineTyped
<1>9. ASSUME ~raced'
      PROVE  ClearingBlanks'
  <2>1. reset = {} /\ \A r \in Rows : r < row => lines[r].text = BlankText
    BY <1>1, <1>9 DEF TerminalInv, ClearingBlanks
  <2>2. \A r \in Rows : r < row \/ r = row => lines'[r].text = BlankText
    <3>1. \A r \in Rows : r < row => r # row
      BY <1>3, LinesTyped
    <3> HIDE DEF BlankText
    <3> QED
      BY <1>5, <2>1, <3>1
  <2> HIDE DEF BlankText
  <2> QED
    BY <1>2, <1>4, <2>1, <2>2 DEF ClearingBlanks
<1> QED
  BY <1>6, <1>7, <1>8, <1>9 DEF TerminalInv

LEMMA ResetNext ==
  ASSUME TerminalInv, NEW counter \in {"size", "index"}, Reset(counter),
         keys' \in 0 .. MaxKeys, UNCHANGED raced
  PROVE  TerminalInv'
<1>1. TerminalTypeOK /\ LinesFit /\ phase = "ends"
  BY DEF TerminalInv, Reset
<1>2. /\ counter \notin reset
      /\ size' = IF counter = "size" THEN 1 ELSE size
      /\ index' = IF counter = "index" THEN 0 ELSE index
      /\ reset' = IF reset = {} THEN {counter} ELSE {}
      /\ phase' = IF reset = {} THEN "ends" ELSE "idle"
      /\ UNCHANGED <<lines, files, row>>
  BY DEF Reset
<1>3. reset \in {{}, {"size"}, {"index"}} /\ size \in Nat \ {0} /\ index \in 0 .. MaxTyped
  BY <1>1 DEF TerminalTypeOK
<1>4. TerminalTypeOK'
  <2>1. size' \in Nat \ {0} /\ index' \in 0 .. MaxTyped
    BY <1>2, <1>3, LinesTyped
  <2>2. reset' \in {{}, {"size"}, {"index"}} /\ phase' \in {"idle", "rows", "ends", "lost"}
    BY <1>2
  <2> QED
    BY <1>1, <1>2, <2>1, <2>2 DEF TerminalTypeOK
<1>5. LinesFit'
  BY <1>1, <1>2, <1>3, LinesTyped DEF LinesFit
<1>6. ASSUME ~raced'
      PROVE  LastLineTyped' /\ ClearingBlanks'
  <2>1. /\ \A r \in Rows : lines[r].text = BlankText
        /\ "size" \in reset => size = 1
        /\ "index" \in reset => index = 0
    BY <1>1, <1>6 DEF TerminalInv, ClearingBlanks
  <2>2. CASE reset = {}
    <3>1. LastLineTyped'
      BY <1>2, <2>2 DEF LastLineTyped
    <3>2. ClearingBlanks'
      BY <1>2, <2>1, <2>2 DEF ClearingBlanks
    <3> QED
      BY <3>1, <3>2
  <2>3. CASE reset # {}
    <3>1. size' = 1 /\ index' = 0 /\ reset' = {} /\ phase' = "idle" /\ lines' = lines
      BY <1>2, <1>3, <2>1, <2>3
    <3>2. \A c \in Cells : c \in Nat /\ BlankText[c] = "NUL"
      BY LinesTyped DEF Cells, BlankText
    <3>3. 1 - 1 \in Rows /\ \A r \in 1 .. MaxLines - 1 : r \in Rows
      BY LinesTyped DEF Rows
    <3> HIDE DEF BlankText
    <3>4. \A c \in Cells : lines[1 - 1].text[c] = "NUL" /\ ~(c < 0)
      BY <2>1, <3>2, <3>3
    <3>5. LastLineTyped'
      BY <2>1, <3>1, <3>3, <3>4 DEF LastLineTyped
    <3>6. ClearingBlanks'
      BY <3>1 DEF ClearingBlanks
    <3> QED
      BY <3>5, <3>6
  <2> QED
    BY <2>2, <2>3
<1> QED
  BY <1>4, <1>5, <1>6 DEF TerminalInv

LEMMA TerminalNextInv == TerminalInv /\ [TerminalNext]_terminal_vars => TerminalInv'
<1> SUFFICES ASSUME TerminalInv, [TerminalNext]_terminal_vars
             PROVE  TerminalInv'
  OBVIOUS
<1>1. CASE terminal_keyboard_int
  <2>1. CASE TypeChar \/ TypeSpace \/ Backspace
    BY <1>1, <2>1, KeyNext
  <2>2. CASE Enter
    BY <1>1, <2>2, EnterNext
  <2> QED
    BY <1>1, <2>1, <2>2 DEF terminal_keyboard_int
<1>2. CASE terminal_update
  <2>1. keys' \in 0 .. MaxKeys /\ UNCHANGED raced
    <3>1. keys \in 0 .. MaxKeys /\ 0 \in 0 .. MaxKeys
      BY LinesTyped DEF TerminalInv, TerminalTypeOK
    <3> QED
      BY <1>2, <3>1 DEF terminal_update
  <2>2. CASE Update
    <3>1. /\ phase = "idle" /\ phase' = "rows" /\ row' = 0
          /\ UNCHANGED <<lines, size, index, files, reset>>
      BY <2>2 DEF Update, screen
    <3>2. 0 \in Rows /\ \A r \in Rows : ~(r < 0)
      BY LinesTyped DEF Rows
    <3>3. TerminalTypeOK'
      BY <2>1, <3>1, <3>2 DEF TerminalInv, TerminalTypeOK
    <3>4. LinesFit'
      BY <3>1 DEF TerminalInv, LinesFit
    <3>5. LastLineTyped'
      BY <3>1 DEF LastLineTyped
    <3>6. ~raced' => ClearingBlanks'
      BY <2>1, <3>1, <3>2 DEF TerminalInv, LastLineTyped, ClearingBlanks
    <3> QED
      BY <3>3, <3>4, <3>5, <3>6 DEF TerminalInv
  <2>3. CASE ClearRow
    BY <2>1, <2>3, ClearRowNext
  <2>4. CASE \E counter \in {"size", "index"} : Reset(counter)
    BY <2>1, <2>4, ResetNext
  <2> QED
    BY <1>2, <2>2, <2>3, <2>4 DEF terminal_update
<1>3. CASE UNCHANGED terminal_vars
  BY <1>3 DEF TerminalInv, TerminalTypeOK, LinesFit, LastLineTyped, ClearingBlanks,
              terminal_vars, screen
<1> QED
  BY <1>1, <1>2, <1>3 DEF TerminalNext

(* The terminal's lines, counters and flags always have their types: the   *)
(* place in a line never falls below its beginning.                        *)
THEOREM TerminalTypeCorrect == TerminalSpec => []TerminalTypeOK
<1>1. TerminalInv => TerminalTypeOK
  BY DEF TerminalInv
<1> QED
  BY <1>1, TerminalInitInv, TerminalNextInv, PTL DEF TerminalSpec

(* While no key overtakes the main loop, the last line is what was typed   *)
(* into it and the lines behind it are blank (terminal_keyboard_int and    *)
(* terminal_update of app/terminal.c).                                     *)
THEOREM LastLineIsTyped == TerminalSpec => []TypedOnly
<1>1. TerminalInv => TypedOnly
  BY DEF TerminalInv, LastLineTyped, TypedOnly
<1> QED
  BY <1>1, TerminalInitInv, TerminalNextInv, PTL DEF TerminalSpec

(* While no key overtakes the main loop, the lines of the terminal do not  *)
(* run out, if what cat prints, and what ls prints of all the files there  *)
(* may be, fits behind the lines that are not yet cleared.                 *)
THEOREM LinesAlwaysSuffice ==
  ASSUME ClearAt + 4 <= MaxLines, ClearAt + 2 * MaxFiles + 2 <= MaxLines
  PROVE  TerminalSpec => []LinesSuffice
<1>1. TerminalInit => LinesSuffice
  BY DEF TerminalInit, LinesSuffice
<1>2. ASSUME TerminalInv, LinesSuffice, [TerminalNext]_terminal_vars
      PROVE  LinesSuffice'
  <2> SUFFICES ASSUME ~raced'
               PROVE  phase' # "lost"
    BY DEF LinesSuffice
  <2>1. TerminalTypeOK /\ raced \in BOOLEAN /\ size \in Nat \ {0}
    BY <1>2 DEF TerminalInv, TerminalTypeOK
  <2>2. CASE terminal_keyboard_int
    <3>1. phase = "idle" /\ size <= ClearAt /\ (TypeChar \/ TypeSpace \/ Backspace \/ Enter)
      BY <2>1, <2>2, KeyCalm
    <3>2. CASE TypeChar \/ TypeSpace \/ Backspace
      BY <3>1, <3>2 DEF TypeChar, TypeSpace, Backspace
    <3>3. CASE Enter
      <4>1. PICK kind : Becomes(Run(kind)) /\ phase' = IF size' > MaxLines THEN "lost" ELSE phase
        BY <3>3 DEF Enter
      <4>2. size <= MaxLines
        BY <2>1, <3>1, LinesTyped
      <4>3. \/ Run(kind).size = 1 \/ Run(kind).size <= size + 4
            \/ Run(kind).size <= size + 2 * MaxFiles + 2
        BY <2>1, <4>2, CommandRun
      <4>4. size' = Run(kind).size /\ size' \in Nat
        <5>1. Run(kind) \in Screens
          BY <2>1, <4>2, CommandRun
        <5> QED
          BY <4>1, <5>1, ScreenFields DEF Becomes
      <4>5. size' <= MaxLines
        BY <1>2, <2>1, <3>1, <4>3, <4>4, LinesTyped
      <4> QED
        BY <3>1, <4>1, <4>4, <4>5, LinesTyped
    <3> QED
      BY <3>1, <3>2, <3>3
  <2>3. CASE terminal_update
    <3>1. phase' \in {"idle", "rows", "ends"}
      BY <2>3 DEF terminal_update, Update, ClearRow, Reset
    <3> QED
      BY <3>1
  <2>4. CASE UNCHANGED terminal_vars
    BY <1>2, <2>4 DEF terminal_vars, LinesSuffice
  <2> QED
    BY <1>2, <2>2, <2>3, <2>4 DEF TerminalNext
<1> QED
  BY <1>1, <1>2, TerminalInitInv, TerminalNextInv, PTL DEF TerminalSpec
=============================================================================
