------------------------------- MODULE Rtc_proofs -------------------------------

(* Theorems about reading the clock, for every number of fields, every     *)
(* range of values and every layout of the top bar.                        *)
EXTENDS Rtc, TLAPS

(* What the assumptions say of the constants.                              *)
LEMMA ConstantsTyped ==
  /\ Fields \in Nat /\ Fields > 1 /\ Lowest \in Nat /\ Highest \in Nat
  /\ Lowest <= Highest /\ Highest <= 99
  /\ Len(TopBar) \in Nat /\ DOMAIN TopBar = 1 .. Len(TopBar)
  /\ \A i \in 1 .. Len(TopBar) : TopBar[i] \in Field
BY RtcAssumption DEF Field

(* A value has two digits.                                                 *)
LEMMA ValuesTyped == \A v \in Value : v \in 0 .. 99
<1>1. Lowest \in Nat /\ Highest \in Nat /\ Highest <= 99
  BY ConstantsTyped
<1> QED
  BY <1>1 DEF Value

(* A value fits in a byte in BCD, and comes back.                          *)
LEMMA BcdRoundTrip ==
  ASSUME NEW v \in 0 .. 99
  PROVE  bintbcd(v) \in Byte /\ bcdtbin(bintbcd(v)) = v
BY DEF bintbcd, bcdtbin, Byte

(* A byte converts to a byte.                                              *)
LEMMA BytesConvert ==
  ASSUME NEW b \in Byte
  PROVE  bcdtbin(b) \in Byte
BY DEF bcdtbin, Byte

(* The clock shows a value in every field.                                 *)
LEMMA FieldsValued ==
  ASSUME PortTyped, NEW f \in Field
  PROVE  clock[f] \in Value /\ clock[f] \in 0 .. 99
<1>1. clock[f] \in Value
  BY DEF PortTyped
<1> QED
  BY <1>1, ValuesTyped

(* The clock never goes back: the field that goes up, and those behind it. *)
LEMMA TickGoesOn ==
  ASSUME PortTyped, Tick
  PROVE  /\ clock' \in [Field -> Value]
         /\ \E f \in Field : clock'[f] > clock[f]
                             /\ \A g \in f + 1 .. Fields : clock'[g] = clock[g]
<1>1. PICK f \in Field :
        /\ clock[f] < Highest
        /\ clock' = [g \in Field |-> IF g < f THEN Lowest
                                     ELSE IF g = f THEN clock[g] + 1 ELSE clock[g]]
  BY DEF Tick
<1>2. f \in Nat /\ clock[f] \in Value /\ Lowest \in Value /\ clock[f] + 1 \in Value
  <2>1. clock[f] \in Value
    BY <1>1 DEF PortTyped
  <2> QED
    BY <1>1, <2>1, ConstantsTyped DEF Field, Value
<1>3. \A g \in Field : clock[g] \in Value
  BY DEF PortTyped
<1>4. clock'[f] = clock[f] + 1
  BY <1>1, <1>2
<1>5. \A g \in f + 1 .. Fields : g \in Field /\ ~(g < f) /\ g # f
  BY <1>2, ConstantsTyped DEF Field
<1>6. \A g \in f + 1 .. Fields : clock'[g] = clock[g]
  BY <1>1, <1>5
<1>7. clock' \in [Field -> Value]
  BY <1>1, <1>2, <1>3
<1>8. clock'[f] > clock[f]
  BY <1>2, <1>4 DEF Value
<1> QED
  BY <1>1, <1>6, <1>7, <1>8

-----------------------------------------------------------------------------

(* Types.                                                                  *)

(* The top bar draws the fields in order, each after it has been put in    *)
(* the buffer.                                                             *)
Progress ==
  /\ pc \in {"select", "read", "convert"} => drawn = <<>>
  /\ pc \in {"format", "draw"} => Len(drawn) = item - 1
  /\ pc = "draw" => item <= Len(TopBar)
TypeInv == TypeOK /\ Progress

(* The types hold when the kernel starts.                                  *)
LEMMA TypeInit == Init => TypeInv
<1> SUFFICES ASSUME Init PROVE TypeInv
  OBVIOUS
<1>1. 0 \in Register /\ Byte = 0 .. 255
  BY DEF Register, REG_B, Byte
<1>2. PortTyped
  BY <1>1 DEF Init, PortTyped, REG_B
<1>3. ReadingTyped
  <2>1. got \in [Register -> Byte]
    BY <1>1 DEF Init
  <2> QED
    BY <1>1, <2>1 DEF Init, ReadingTyped, REG_B
<1>4. ShownTyped
  <2>1. drawn = <<>> /\ item = 1 /\ ret = 0 /\ time = [f \in Field |-> 0]
    BY DEF Init
  <2>2. time \in [Field -> Byte]
    BY <1>1, <2>1
  <2>3. drawn \in Seq(0 .. 999) /\ Len(drawn) = 0
    BY <2>1
  <2>4. ret \in 0 .. 999 /\ item \in 1 .. Len(TopBar) + 1 /\ 0 <= Len(TopBar)
    BY <2>1, ConstantsTyped
  <2> QED
    BY <2>2, <2>3, <2>4 DEF ShownTyped
<1> QED
  BY <1>2, <1>3, <1>4 DEF TypeInv, TypeOK, Progress, Init

(* What the clock puts on the bus is a byte.                               *)
LEMMA SelectedTyped ==
  ASSUME PortTyped
  PROVE  Selected \in Byte
<1>1. CASE select = REG_B
  BY <1>1 DEF Selected, PortTyped
<1>2. CASE select # REG_B
  <2>1. select \in Field
    BY <1>2 DEF PortTyped, Register
  <2>2. clock[select] \in 0 .. 99
    BY <2>1, FieldsValued
  <2>3. bintbcd(clock[select]) \in Byte
    BY <2>2, BcdRoundTrip
  <2>4. clock[select] \in Byte
    BY <2>2 DEF Byte
  <2> QED
    BY <1>2, <2>3, <2>4 DEF Selected
<1> QED
  BY <1>1, <1>2

(* The register after the one at hand is a register.                       *)
LEMMA NextRegister ==
  ASSUME reg \in Register
  PROVE  (IF reg = Fields THEN REG_B ELSE reg + 1) \in Register
BY ConstantsTyped DEF Register, Field, REG_B

(* The record has its type after the conversion.                           *)
LEMMA ConvertedTyped ==
  ASSUME got \in [Register -> Byte]
  PROVE  Converted(got) \in [Field -> Byte]
<1>1. ASSUME NEW f \in Field
      PROVE  bcdtbin(got[f]) \in Byte /\ got[f] \in Byte
  BY BytesConvert DEF Register
<1> QED
  BY <1>1 DEF Converted

(* Every step keeps the types.                                             *)
LEMMA TypeNext == TypeInv /\ [Next]_vars => TypeInv'
<1> SUFFICES ASSUME TypeInv, [Next]_vars
             PROVE  TypeInv'
  OBVIOUS
<1> USE DEF TypeInv, TypeOK
<1>1. CASE Tick /\ UNCHANGED raced
  <2>1. UNCHANGED <<regb, select, ret, topbar, aliased, raced>>
    BY <1>1 DEF Tick
  <2>2. clock' \in [Field -> Value]
    BY <1>1, TickGoesOn
  <2> QED
    BY <2>1, <2>2 DEF PortTyped, ReadingTyped, ShownTyped, Progress, topbar
<1>2. CASE Begin /\ UNCHANGED raced
  <2>1. PortTyped'
    BY <1>2 DEF Begin, PortTyped, port
  <2>2. 1 \in Register
    BY ConstantsTyped DEF Register, Field
  <2>3. ReadingTyped'
    BY <1>2, <2>2 DEF Begin, ReadingTyped
  <2>4. ShownTyped'
    <3>1. drawn' = <<>> /\ UNCHANGED <<ret, time, item>>
      BY <1>2 DEF Begin
    <3>2. drawn' \in Seq(0 .. 999) /\ Len(drawn') <= Len(TopBar)
      BY <3>1, ConstantsTyped
    <3> QED
      BY <3>1, <3>2 DEF ShownTyped
  <2> QED
    BY <1>2, <2>1, <2>3, <2>4 DEF Begin, Progress
<1>3. CASE Select /\ UNCHANGED raced
  BY <1>3 DEF Select, PortTyped, ReadingTyped, ShownTyped, Progress
<1>4. CASE Read /\ UNCHANGED raced
  <2>1. PortTyped' /\ ShownTyped' /\ Progress'
    BY <1>4 DEF Read, PortTyped, ShownTyped, Progress, port
  <2>2. ReadingTyped'
    <3>1. reg' \in Register
      BY <1>4, NextRegister DEF Read, ReadingTyped
    <3>2. got' \in [Register -> Byte]
      BY <1>4, SelectedTyped DEF Read, ReadingTyped
    <3> QED
      BY <1>4, <3>1, <3>2 DEF Read, ReadingTyped
  <2> QED
    BY <2>1, <2>2
<1>5. CASE Convert /\ UNCHANGED raced
  <2>1. PortTyped' /\ ReadingTyped'
    BY <1>5 DEF Convert, PortTyped, ReadingTyped, port
  <2>2. pc = "convert" /\ pc' = "format" /\ item' = 1 /\ UNCHANGED <<drawn, ret>>
    BY <1>5 DEF Convert
  <2>3. time' \in [Field -> Byte]
    BY <1>5, ConvertedTyped DEF Convert, ReadingTyped
  <2>4. item' \in 1 .. Len(TopBar) + 1
    BY <2>2, ConstantsTyped
  <2>5. ShownTyped'
    BY <2>2, <2>3, <2>4 DEF ShownTyped
  <2>6. drawn' = <<>>
    BY <2>2 DEF Progress
  <2>7. Len(drawn') = item' - 1
    BY <2>2, <2>6
  <2> QED
    BY <2>1, <2>2, <2>5, <2>7 DEF Progress
<1>6. CASE Format /\ UNCHANGED raced
  <2>1. PortTyped' /\ ReadingTyped'
    BY <1>6 DEF Format, PortTyped, ReadingTyped, port
  <2>2. item \in 1 .. Len(TopBar)
    BY <1>6, ConstantsTyped DEF Format, ShownTyped
  <2>3. ret' \in 0 .. 999
    <3>1. TopBar[item] \in Field
      BY <2>2, ConstantsTyped
    <3>2. time[TopBar[item]] \in Byte
      BY <3>1 DEF ShownTyped
    <3> QED
      BY <1>6, <3>2 DEF Format, Byte
  <2>4. ShownTyped'
    BY <1>6, <2>3 DEF Format, ShownTyped
  <2> QED
    BY <1>6, <2>1, <2>4 DEF Format, Progress
<1>7. CASE Draw /\ UNCHANGED raced
  <2>1. PortTyped' /\ ReadingTyped'
    BY <1>7 DEF Draw, PortTyped, ReadingTyped, port
  <2>2. Len(drawn) = item - 1 /\ item <= Len(TopBar) /\ item \in 1 .. Len(TopBar) + 1
    BY <1>7 DEF Draw, Progress, ShownTyped
  <2>3. drawn' = Append(drawn, ret) /\ item' = item + 1 /\ UNCHANGED <<ret, time>>
    BY <1>7 DEF Draw
  <2>4. drawn' \in Seq(0 .. 999) /\ Len(drawn') = Len(drawn) + 1
    BY <2>3 DEF ShownTyped
  <2>5. Len(drawn') <= Len(TopBar) /\ item' \in 1 .. Len(TopBar) + 1 /\ Len(drawn') = item' - 1
    BY <2>2, <2>3, <2>4, ConstantsTyped
  <2>6. ShownTyped'
    BY <2>3, <2>4, <2>5 DEF ShownTyped
  <2> QED
    BY <1>7, <2>1, <2>5, <2>6 DEF Draw, Progress
<1>8. CASE End /\ UNCHANGED raced
  BY <1>8 DEF End, PortTyped, ReadingTyped, ShownTyped, Progress, port
<1>9. CASE ShellTime /\ raced' = (raced \/ pc # "idle")
  <2>1. PortTyped'
    BY <1>9 DEF ShellTime, PortTyped, Register, REG_B
  <2>2. ReadingTyped'
    BY <1>9 DEF ShellTime, ReadingTyped
  <2>3. \A f \in Field : clock[f] \in 0 .. 99
    BY FieldsValued
  <2>4. ret' \in 0 .. 999
    <3>1. 2 \in Field
      BY ConstantsTyped DEF Field
    <3>2. clock[2] \in 0 .. 99
      BY <2>3, <3>1
    <3> QED
      BY <1>9, <3>2 DEF ShellTime
  <2>5. time' \in [Field -> Byte]
    <3>1. clock \in [Field -> Byte]
      BY <2>3 DEF Byte, PortTyped
    <3> QED
      BY <1>9, <3>1 DEF ShellTime, ShownTyped
  <2>6. ShownTyped'
    BY <1>9, <2>4, <2>5 DEF ShellTime, ShownTyped
  <2> QED
    BY <1>9, <2>1, <2>2, <2>6 DEF ShellTime, Progress
<1>10. CASE ShellRand /\ raced' = (raced \/ pc # "idle")
  <2>1. PortTyped' /\ ReadingTyped' /\ Progress'
    BY <1>10 DEF ShellRand, PortTyped, ReadingTyped, Progress, port, topbar
  <2>2. ret' \in 0 .. 999
    BY <1>10 DEF ShellRand
  <2> QED
    BY <1>10, <2>1, <2>2 DEF ShellRand, ShownTyped, topbar
<1>11. CASE UNCHANGED vars
  BY <1>11 DEF vars, port, topbar, PortTyped, ReadingTyped, ShownTyped, Progress
<1> QED
  BY <1>1, <1>2, <1>3, <1>4, <1>5, <1>6, <1>7, <1>8, <1>9, <1>10, <1>11
     DEF Next, render_topbar, Shell

(* TypeOK: every variable keeps its type.                                  *)
THEOREM TypeCorrect == Spec => []TypeOK
BY TypeInit, TypeNext, PTL DEF Spec, TypeInv

-----------------------------------------------------------------------------

(* The fields.                                                             *)

(* What a field's register holds, as long as the mode does not change.     *)
Coded == {IF InBcd THEN bintbcd(v) ELSE v : v \in Value}
ReadIn(f) == reg = REG_B \/ f < reg
FieldsInv == ~raced =>
  /\ pc = "read" => select = reg
  /\ pc \in {"select", "read"} => \A f \in Field : ReadIn(f) => got[f] \in Coded
  /\ pc = "convert" => got[REG_B] = regb /\ \A f \in Field : got[f] \in Coded
  /\ pc \in {"format", "draw"} => time \in [Field -> Value]

(* A field that is selected is put on the bus in the clock's code.         *)
LEMMA SelectedCoded ==
  ASSUME PortTyped, select \in Field
  PROVE  Selected \in Coded
<1>1. select # REG_B
  BY DEF Field, REG_B
<1>2. clock[select] \in Value
  BY FieldsValued
<1> QED
  BY <1>1, <1>2 DEF Selected, Coded

(* The conversion takes the code back.                                     *)
LEMMA CodedConverts ==
  ASSUME got[REG_B] = regb, \A f \in Field : got[f] \in Coded
  PROVE  Converted(got) \in [Field -> Value]
<1> SUFFICES ASSUME NEW f \in Field
             PROVE  (IF InBcd THEN bcdtbin(got[f]) ELSE got[f]) \in Value
  BY DEF Converted, InBcd
<1>1. PICK v \in Value : got[f] = IF InBcd THEN bintbcd(v) ELSE v
  BY DEF Coded
<1>2. v \in 0 .. 99
  BY ValuesTyped
<1>3. bcdtbin(bintbcd(v)) = v
  BY <1>2, BcdRoundTrip
<1> QED
  BY <1>1, <1>3

(* One more field has been read in.                                        *)
LEMMA ReadsIn ==
  ASSUME reg \in Register, NEW f \in Field, NEW r,
         r = IF reg = Fields THEN REG_B ELSE reg + 1, r = REG_B \/ f < r, reg # REG_B
  PROVE  ReadIn(f) \/ f = reg
BY ConstantsTyped DEF ReadIn, Register, Field, REG_B

(* Every step keeps them.                                                  *)
LEMMA FieldsNext == TypeOK /\ FieldsInv /\ [Next]_vars => FieldsInv'
<1> SUFFICES ASSUME TypeOK, FieldsInv, [Next]_vars, ~raced'
             PROVE  /\ pc' = "read" => select' = reg'
                    /\ pc' \in {"select", "read"} => \A f \in Field : ReadIn(f)' => got'[f] \in Coded'
                    /\ pc' = "convert" => got'[REG_B] = regb' /\ \A f \in Field : got'[f] \in Coded'
                    /\ pc' \in {"format", "draw"} => time' \in [Field -> Value]
  BY DEF FieldsInv
<1>1. regb' = regb /\ Coded' = Coded
  BY DEF Next, render_topbar, Shell, Tick, Begin, Select, Read, Convert, Format, Draw, End,
     ShellTime, ShellRand, port, topbar, vars, Coded, InBcd
<1>2. ~raced
  BY DEF Next, render_topbar, Shell, vars, TypeOK, ReadingTyped
<1>3. CASE Tick
  BY <1>1, <1>2, <1>3 DEF Tick, topbar, FieldsInv, ReadIn
<1>4. CASE Begin
  <2>1. pc' = "select" /\ reg' = 1
    BY <1>4 DEF Begin
  <2>2. \A f \in Field : ~ReadIn(f)'
    BY <2>1 DEF ReadIn, Field, REG_B
  <2> QED
    BY <2>1, <2>2
<1>5. CASE Select
  BY <1>1, <1>2, <1>5 DEF Select, FieldsInv, ReadIn
<1>6. CASE Read
  <2>1. /\ pc = "read" /\ reg' = IF reg = Fields THEN REG_B ELSE reg + 1
        /\ got' = [got EXCEPT ![reg] = Selected]
        /\ pc' = IF reg = REG_B THEN "convert" ELSE "select"
    BY <1>6 DEF Read
  <2>2. /\ select = reg /\ reg \in Register /\ got \in [Register -> Byte]
        /\ \A f \in Field : ReadIn(f) => got[f] \in Coded
    BY <1>2, <2>1 DEF FieldsInv, TypeOK, ReadingTyped
  <2>3. CASE reg = REG_B
    <3>1. \A f \in Field : ReadIn(f) /\ f # reg
      BY <2>3 DEF ReadIn, Field, REG_B
    <3>2. got'[REG_B] = regb
      BY <2>1, <2>2, <2>3 DEF Selected
    <3>3. \A f \in Field : got'[f] = got[f]
      BY <2>1, <2>2, <3>1 DEF Register
    <3> QED
      BY <1>1, <2>1, <2>2, <2>3, <3>1, <3>2, <3>3
  <2>4. CASE reg # REG_B
    <3>1. reg \in Field /\ Selected \in Coded
      BY <2>2, <2>4, SelectedCoded DEF Register, TypeOK
    <3>2. ASSUME NEW f \in Field, ReadIn(f)'
          PROVE  got'[f] \in Coded
      <4>1. ReadIn(f) \/ f = reg
        BY <2>1, <2>2, <2>4, <3>2, ReadsIn DEF ReadIn
      <4>2. f \in Register
        BY DEF Register
      <4> QED
        BY <2>1, <2>2, <3>1, <4>1, <4>2
    <3> QED
      BY <1>1, <2>1, <2>4, <3>2
  <2> QED
    BY <2>3, <2>4
<1>7. CASE Convert
  BY <1>2, <1>7, CodedConverts DEF Convert, FieldsInv
<1>8. CASE Format \/ Draw \/ End
  BY <1>2, <1>8 DEF Format, Draw, End, FieldsInv
<1>9. CASE Shell
  <2>1. pc = "idle" /\ pc' = pc
    BY <1>9, <1>2 DEF Shell, ShellTime, ShellRand, topbar
  <2> QED
    BY <2>1
<1>10. CASE UNCHANGED vars
  BY <1>1, <1>2, <1>10 DEF vars, port, topbar, FieldsInv, ReadIn
<1> QED
  BY <1>3, <1>4, <1>5, <1>6, <1>7, <1>8, <1>9, <1>10 DEF Next, render_topbar

(* FieldsInRange: whatever the clock shows and in both codes, the fields   *)
(* of the time get_time makes up are in their ranges.                      *)
THEOREM FieldsCorrect == Spec => []FieldsInRange
<1>1. Init => FieldsInv
  BY DEF Init, FieldsInv
<1>2. FieldsInv => FieldsInRange
  BY DEF FieldsInv, FieldsInRange
<1> QED
  BY <1>1, <1>2, FieldsNext, TypeCorrect, PTL DEF Spec

-----------------------------------------------------------------------------

(* The top bar.                                                            *)

(* What has been drawn is of the time, and so is what is in the buffer.    *)
ShowsInv == ~raced =>
  /\ pc \in {"format", "draw"} => \A i \in 1 .. Len(drawn) : drawn[i] = time[TopBar[i]]
  /\ pc = "draw" => ret = time[TopBar[item]]

(* Every step keeps it so.                                                 *)
LEMMA ShowsNext == TypeInv /\ ShowsInv /\ [Next]_vars => ShowsInv'
<1> SUFFICES ASSUME TypeInv, ShowsInv, [Next]_vars, ~raced'
             PROVE  /\ pc' \in {"format", "draw"} =>
                         \A i \in 1 .. Len(drawn') : drawn'[i] = time'[TopBar[i]]
                    /\ pc' = "draw" => ret' = time'[TopBar[item']]
  BY DEF ShowsInv
<1>1. ~raced
  BY DEF Next, render_topbar, Shell, vars, TypeInv, TypeOK, ReadingTyped
<1>2. CASE Tick \/ Begin \/ Select \/ Read \/ End \/ UNCHANGED vars
  BY <1>1, <1>2 DEF Tick, Begin, Select, Read, End, vars, topbar, ShowsInv
<1>3. CASE Convert
  <2>1. pc = "convert" /\ pc' = "format" /\ drawn' = drawn
    BY <1>3 DEF Convert
  <2>2. drawn' = <<>>
    BY <2>1 DEF TypeInv, Progress
  <2> QED
    BY <2>1, <2>2
<1>4. CASE Format
  BY <1>1, <1>4 DEF Format, ShowsInv
<1>5. CASE Draw
  <2>1. pc = "draw" /\ pc' = "format" /\ drawn' = Append(drawn, ret) /\ UNCHANGED time
    BY <1>5 DEF Draw
  <2>2. /\ ret = time[TopBar[item]] /\ Len(drawn) = item - 1
        /\ \A i \in 1 .. Len(drawn) : drawn[i] = time[TopBar[i]]
    BY <1>1, <2>1 DEF ShowsInv, TypeInv, Progress
  <2>3. drawn \in Seq(0 .. 999) /\ item \in Nat
    BY ConstantsTyped DEF TypeInv, TypeOK, ShownTyped
  <2>4. Len(drawn') = Len(drawn) + 1 /\ Len(drawn) \in Nat
    BY <2>1, <2>3
  <2>5. ASSUME NEW i \in 1 .. Len(drawn')
        PROVE  drawn'[i] = time[TopBar[i]]
    <3>1. CASE i \in 1 .. Len(drawn)
      BY <2>1, <2>2, <2>3, <3>1
    <3>2. CASE i = Len(drawn) + 1
      <4>1. drawn'[i] = ret /\ i = item
        BY <2>1, <2>2, <2>3, <2>4, <3>2
      <4> QED
        BY <2>2, <4>1
    <3> QED
      BY <2>4, <3>1, <3>2
  <2> QED
    BY <2>1, <2>5
<1>6. CASE Shell
  <2>1. pc = "idle" /\ pc' = pc
    BY <1>1, <1>6 DEF Shell, ShellTime, ShellRand, topbar
  <2> QED
    BY <2>1
<1> QED
  BY <1>2, <1>3, <1>4, <1>5, <1>6 DEF Next, render_topbar

(* ShowsTime: whatever the layout, the top bar shows the fields of the     *)
(* time though all of them pass through one buffer.                        *)
THEOREM TopBarShowsTime == Spec => []ShowsTime
<1>1. Init => ShowsInv
  BY DEF Init, ShowsInv
<1>2. TypeInv /\ ShowsInv => ShowsTime
  <2> SUFFICES ASSUME TypeInv, ShowsInv, ~raced, pc # "idle"
               PROVE  \A i \in 1 .. Len(drawn) : drawn[i] = time[TopBar[i]]
    BY DEF ShowsTime
  <2>1. CASE pc \in {"format", "draw"}
    BY <2>1 DEF ShowsInv
  <2>2. CASE pc \in {"select", "read", "convert"}
    <3>1. drawn = <<>>
      BY <2>2 DEF TypeInv, Progress
    <3> QED
      BY <3>1
  <2> QED
    BY <2>1, <2>2 DEF TypeInv, TypeOK, ReadingTyped
<1>3. Spec => []TypeInv
  BY TypeInit, TypeNext, PTL DEF Spec
<1> QED
  BY <1>1, <1>2, <1>3, ShowsNext, PTL DEF Spec

-----------------------------------------------------------------------------

(* The time read.                                                          *)

Times == [Field -> Value]

(* Fields and values are numbers.                                          *)
LEMMA FieldsNumbered ==
  /\ Fields \in Nat
  /\ \A f \in Field : f \in Nat /\ f >= 1 /\ f <= Fields
  /\ \A v \in Value : v \in Int
<1>1. Fields \in Nat
  BY ConstantsTyped
<1>2. \A v \in Value : v \in Int
  BY ValuesTyped
<1> QED
  BY <1>1, <1>2 DEF Field

(* Of two fields that differ the more significant one counts.              *)
LEMMA NotBeforeTransitive ==
  ASSUME NEW s \in Times, NEW t \in Times, NEW u \in Times,
         NotBefore(t, s), NotBefore(u, t)
  PROVE  NotBefore(u, s)
<1>1. CASE t = s \/ u = t
  BY <1>1
<1>2. CASE t # s /\ u # t
  <2>1. PICK f \in Field : t[f] > s[f] /\ \A g \in f + 1 .. Fields : t[g] = s[g]
    BY <1>2 DEF NotBefore
  <2>2. PICK e \in Field : u[e] > t[e] /\ \A g \in e + 1 .. Fields : u[g] = t[g]
    BY <1>2 DEF NotBefore
  <2>3. f \in Nat /\ e \in Nat /\ Fields \in Nat /\ f <= Fields /\ e <= Fields
    BY FieldsNumbered
  <2>4. \A g \in Field : s[g] \in Int /\ t[g] \in Int /\ u[g] \in Int
    BY FieldsNumbered DEF Times
  <2>5. CASE f <= e
    <3>1. u[e] > s[e]
      <4>1. CASE f = e
        BY <2>1, <2>2, <2>4, <4>1
      <4>2. CASE f # e
        <5>1. e \in f + 1 .. Fields
          BY <2>3, <2>5, <4>2
        <5> QED
          BY <2>1, <2>2, <5>1
      <4> QED
        BY <4>1, <4>2
    <3>2. \A g \in e + 1 .. Fields : g \in f + 1 .. Fields
      BY <2>3, <2>5
    <3>3. \A g \in e + 1 .. Fields : u[g] = s[g]
      BY <2>1, <2>2, <3>2
    <3> QED
      BY <3>1, <3>3 DEF NotBefore
  <2>6. CASE e < f
    <3>1. f \in e + 1 .. Fields
      BY <2>3, <2>6
    <3>2. u[f] > s[f]
      BY <2>1, <2>2, <3>1
    <3>3. \A g \in f + 1 .. Fields : g \in e + 1 .. Fields
      BY <2>3, <2>6
    <3>4. \A g \in f + 1 .. Fields : u[g] = s[g]
      BY <2>1, <2>2, <3>3
    <3> QED
      BY <3>2, <3>4 DEF NotBefore
  <2> QED
    BY <2>3, <2>5, <2>6
<1> QED
  BY <1>1, <1>2

(* What a byte read means, and the time made up of the fields read so far  *)
(* and of those the clock still shows.                                     *)
Meant(b) == IF InBcd THEN bcdtbin(b) ELSE b
Mixed == [f \in Field |-> IF ReadIn(f) THEN Meant(got[f]) ELSE clock[f]]

AheadInv == ~raced =>
  /\ pc \in {"select", "read"} => NotBefore(Mixed, start)
  /\ pc = "convert" => NotBefore(Converted(got), start)
  /\ pc \in {"format", "draw"} => NotBefore(time, start)

(* Every value comes back from its code.                                   *)
LEMMA CodedMeans ==
  ASSUME NEW b \in Coded
  PROVE  Meant(b) \in Value
<1>1. PICK v \in Value : b = IF InBcd THEN bintbcd(v) ELSE v
  BY DEF Coded
<1>2. bcdtbin(bintbcd(v)) = v
  BY ValuesTyped, BcdRoundTrip
<1> QED
  BY <1>1, <1>2 DEF Meant

(* It is a time.                                                           *)
LEMMA MixedTyped ==
  ASSUME PortTyped, \A f \in Field : ReadIn(f) => got[f] \in Coded
  PROVE  Mixed \in Times
<1>1. \A f \in Field : clock[f] \in Value
  BY FieldsValued
<1>2. \A f \in Field : ReadIn(f) => Meant(got[f]) \in Value
  BY CodedMeans
<1> QED
  BY <1>1, <1>2 DEF Mixed, Times

(* A field that is read takes the clock's place with the clock's value.    *)
LEMMA ReadKeepsMixed ==
  ASSUME TypeOK, Read, select = reg, reg # REG_B, UNCHANGED InBcd
  PROVE  Mixed' = Mixed
<1>1. /\ reg' = IF reg = Fields THEN REG_B ELSE reg + 1
      /\ got' = [got EXCEPT ![reg] = Selected] /\ clock' = clock
  BY DEF Read, port
<1>2. reg \in Field /\ got \in [Register -> Byte] /\ Field \subseteq Register
  BY DEF TypeOK, ReadingTyped, Register
<1>3. Meant(Selected) = clock[reg]
  <2>1. clock[reg] \in 0 .. 99
    BY <1>2, FieldsValued DEF TypeOK
  <2>2. bcdtbin(bintbcd(clock[reg])) = clock[reg]
    BY <2>1, BcdRoundTrip
  <2> QED
    BY <2>2 DEF Meant, Selected
<1>4. ASSUME NEW f \in Field
      PROVE  (IF ReadIn(f)' THEN Meant(got[f])' ELSE clock'[f])
               = IF ReadIn(f) THEN Meant(got[f]) ELSE clock[f]
  <2>1. f \in Nat /\ f <= Fields /\ reg \in Nat /\ reg <= Fields /\ f >= 1 /\ Fields \in Nat
    BY <1>2, FieldsNumbered
  <2>2. ReadIn(f)' <=> ReadIn(f) \/ f = reg
    BY <1>1, <2>1 DEF ReadIn, REG_B
  <2>3. ~(ReadIn(f) /\ f = reg)
    BY <2>1 DEF ReadIn, REG_B
  <2>4. Meant(got[f])' = Meant(got'[f])
    BY DEF Meant
  <2>5. CASE f = reg
    <3>1. got'[f] = Selected
      BY <1>1, <1>2, <2>5
    <3> QED
      BY <1>3, <2>2, <2>3, <2>4, <2>5, <3>1
  <2>6. CASE f # reg
    <3>1. got'[f] = got[f]
      BY <1>1, <1>2, <2>6
    <3> QED
      BY <1>1, <2>2, <2>4, <2>6, <3>1
  <2> QED
    BY <2>5, <2>6
<1> QED
  BY <1>4 DEF Mixed

(* The clock goes on: a field that has been read stays, and if one that    *)
(* has not goes up, what is read so far counts no more.                    *)
LEMMA TickMixes ==
  ASSUME TypeOK, Tick, \A f \in Field : ReadIn(f) => got[f] \in Coded
  PROVE  NotBefore(Mixed', Mixed) /\ Mixed' \in Times
<1>1. UNCHANGED <<reg, got, regb>>
  BY DEF Tick, topbar
<1>2. PICK f \in Field : clock'[f] > clock[f] /\ \A g \in f + 1 .. Fields : clock'[g] = clock[g]
  BY TickGoesOn DEF TypeOK
<1>3. \A g \in Field : /\ Mixed[g] = IF ReadIn(g) THEN Meant(got[g]) ELSE clock[g]
                       /\ Mixed'[g] = IF ReadIn(g) THEN Meant(got[g]) ELSE clock'[g]
  BY <1>1 DEF Mixed, ReadIn, Meant, InBcd
<1>4. f \in Nat /\ f >= 1 /\ f <= Fields /\ Fields \in Nat /\ reg \in Nat
  BY FieldsNumbered DEF TypeOK, ReadingTyped, Register, REG_B
<1>5. ASSUME ReadIn(f)
      PROVE  NotBefore(Mixed', Mixed)
  <2>1. \A g \in Field : ReadIn(g) \/ g \in f + 1 .. Fields
    BY <1>4, <1>5, FieldsNumbered DEF ReadIn
  <2>2. \A g \in Field : Mixed'[g] = Mixed[g]
    BY <1>2, <1>3, <2>1
  <2>3. Mixed' = Mixed
    BY <2>2 DEF Mixed
  <2> QED
    BY <2>3 DEF NotBefore
<1>6. ASSUME ~ReadIn(f)
      PROVE  NotBefore(Mixed', Mixed)
  <2>1. Mixed'[f] > Mixed[f]
    BY <1>2, <1>3, <1>6
  <2>2. \A g \in f + 1 .. Fields : g \in Field
    BY <1>4 DEF Field
  <2>3. \A g \in f + 1 .. Fields : Mixed'[g] = Mixed[g]
    BY <1>2, <1>3, <2>2
  <2> QED
    BY <2>1, <2>3 DEF NotBefore
<1>7. Mixed' \in Times
  <2>1. \A g \in Field : clock'[g] \in Value
    BY TickGoesOn DEF TypeOK
  <2>2. \A g \in Field : ReadIn(g) => Meant(got[g]) \in Value
    BY CodedMeans
  <2>3. \A g \in Field : Mixed'[g] \in Value
    BY <1>3, <2>1, <2>2
  <2>4. Mixed' = [g \in Field |-> Mixed'[g]]
    BY DEF Mixed
  <2> HIDE DEF Mixed
  <2> QED
    BY <2>3, <2>4 DEF Times
<1> QED
  BY <1>5, <1>6, <1>7

(* Every step keeps the time read from falling behind.                     *)
LEMMA AheadNext == TypeOK /\ FieldsInv /\ AheadInv /\ [Next]_vars => AheadInv'
<1> SUFFICES ASSUME TypeOK, FieldsInv, AheadInv, [Next]_vars, ~raced'
             PROVE  /\ pc' \in {"select", "read"} => NotBefore(Mixed', start')
                    /\ pc' = "convert" => NotBefore(Converted(got)', start')
                    /\ pc' \in {"format", "draw"} => NotBefore(time', start')
  BY DEF AheadInv, NotBefore
<1>1. regb' = regb /\ ~raced
  BY DEF Next, render_topbar, Shell, Tick, Begin, Select, Read, Convert, Format, Draw, End,
     ShellTime, ShellRand, port, topbar, vars, TypeOK, ReadingTyped
<1>2. CASE Tick
  <2>1. UNCHANGED <<pc, got, time, start>>
    BY <1>2 DEF Tick, topbar
  <2>2. CASE pc \in {"select", "read"}
    <3>1. \A f \in Field : ReadIn(f) => got[f] \in Coded
      BY <1>1, <2>2 DEF FieldsInv
    <3>2. NotBefore(Mixed, start) /\ NotBefore(Mixed', Mixed) /\ Mixed' \in Times
      BY <1>1, <1>2, <2>2, <3>1, TickMixes DEF AheadInv
    <3>3. Mixed \in Times /\ start \in Times
      BY <3>1, MixedTyped DEF TypeOK, PortTyped, Times
    <3>4. NotBefore(Mixed', start)
      BY <3>2, <3>3, NotBeforeTransitive
    <3> QED
      BY <2>1, <2>2, <3>4
  <2>3. CASE pc \notin {"select", "read"}
    <3>1. Converted(got)' = Converted(got)
      BY <2>1 DEF Converted
    <3> QED
      BY <1>1, <2>1, <2>3, <3>1 DEF AheadInv
  <2> QED
    BY <2>2, <2>3
<1>3. CASE Begin
  <2>1. pc' = "select" /\ reg' = 1 /\ start' = clock /\ clock' = clock
    BY <1>3 DEF Begin, port
  <2>2. \A f \in Field : ~ReadIn(f)'
    BY <2>1, FieldsNumbered DEF ReadIn, REG_B
  <2>3. clock \in [Field -> Value]
    BY DEF TypeOK, PortTyped
  <2>4. Mixed' = clock
    BY <2>1, <2>2, <2>3 DEF Mixed
  <2> QED
    BY <2>1, <2>4 DEF NotBefore
<1>4. CASE Select
  <2>1. pc = "select" /\ pc' = "read" /\ UNCHANGED <<clock, reg, got, start>>
    BY <1>4 DEF Select
  <2>2. Mixed' = Mixed
    BY <1>1, <2>1 DEF Mixed, ReadIn, Meant, InBcd
  <2> QED
    BY <1>1, <2>1, <2>2 DEF AheadInv
<1>5. CASE Read
  <2>1. /\ pc = "read" /\ UNCHANGED start /\ got' = [got EXCEPT ![reg] = Selected]
        /\ pc' = IF reg = REG_B THEN "convert" ELSE "select"
    BY <1>5 DEF Read
  <2>2. select = reg /\ NotBefore(Mixed, start)
    BY <1>1, <2>1 DEF FieldsInv, AheadInv
  <2>3. CASE reg = REG_B
    <3>1. /\ Selected = regb /\ got \in [Register -> Byte]
          /\ REG_B \in Register /\ \A f \in Field : f \in Register /\ f # REG_B
      BY <2>2, <2>3 DEF Selected, TypeOK, ReadingTyped, Register, Field, REG_B
    <3>2. got'[REG_B] = regb /\ \A f \in Field : got'[f] = got[f]
      BY <2>1, <2>3, <3>1
    <3>3. Converted(got)' = Mixed
      BY <2>3, <3>2 DEF Converted, Mixed, Meant, InBcd, ReadIn
    <3> QED
      BY <2>1, <2>2, <2>3, <3>3
  <2>4. CASE reg # REG_B
    <3>1. Mixed' = Mixed
      BY <1>1, <1>5, <2>2, <2>4, ReadKeepsMixed DEF InBcd
    <3> QED
      BY <2>1, <2>2, <2>4, <3>1
  <2> QED
    BY <2>3, <2>4
<1>6. CASE Convert
  BY <1>1, <1>6 DEF Convert, AheadInv
<1>7. CASE Format \/ Draw \/ End
  BY <1>1, <1>7 DEF Format, Draw, End, AheadInv
<1>8. CASE Shell
  <2>1. pc = "idle" /\ pc' = pc
    BY <1>1, <1>8 DEF Shell, ShellTime, ShellRand, topbar
  <2> QED
    BY <2>1
<1>9. CASE UNCHANGED vars
  <2>1. Mixed' = Mixed /\ Converted(got)' = Converted(got) /\ UNCHANGED <<pc, time, start>>
    BY <1>9 DEF vars, port, topbar, Mixed, ReadIn, Meant, InBcd, Converted
  <2> QED
    BY <1>1, <2>1 DEF AheadInv
<1> QED
  BY <1>2, <1>3, <1>4, <1>5, <1>6, <1>7, <1>8, <1>9 DEF Next, render_topbar

(* NeverBehind: however often the clock goes on between two fields, and    *)
(* whatever it shows, the time read is not before the time reading began.  *)
THEOREM ReadingNeverBehind == Spec => []NeverBehind
<1>1. Init => FieldsInv /\ AheadInv
  BY DEF Init, FieldsInv, AheadInv
<1>2. AheadInv => NeverBehind
  BY DEF AheadInv, NeverBehind
<1> QED
  BY <1>1, <1>2, FieldsNext, AheadNext, TypeCorrect, PTL DEF Spec
=============================================================================
