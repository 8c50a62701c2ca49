---------------------------------- MODULE Rtc ----------------------------------
(***************************************************************************)
(* Reading the real time clock (time/rtc.c) and showing it: the top bar    *)
(* (display/display.c) does so in the main loop, the shell's command time  *)
(* in the keyboard interrupt.  The two share the clock's index port, the   *)
(* buffer that __itoa returns, and, because both pass get_time a pointer   *)
(* that was never set, perhaps the record it fills.                        *)
(*                                                                         *)
(* The fields of a time are numbered from the least significant one, as    *)
(* get_time reads them.  Each takes the values from Lowest to Highest;     *)
(* weekDay, which is not part of the date, is left out, as are the         *)
(* constants get_time adds.                                                *)
(***************************************************************************)
EXTENDS Integers, Sequences

CONSTANTS
  Fields,   (* how many fields a time has                                    *)
  Lowest,   (* the least value of a field                                    *)
  Highest,  (* and the greatest                                              *)
  TopBar    (* the fields the top bar shows, in order                        *)

ASSUME RtcAssumption ==
  /\ Fields \in Nat \ {0, 1}
  /\ Lowest \in Nat /\ Highest \in Lowest .. 99
  /\ TopBar \in Seq(1 .. Fields)

REG_B == 0
Field == 1 .. Fields
Register == Field \cup {REG_B}
Value == Lowest .. Highest
Byte == 0 .. 255

VARIABLES
  clock,   (* the fields of the time it is                                   *)
  regb,    (* the register that says whether fields are binary               *)
  select,  (* what the index port selects                                    *)
  ret,     (* the number in the buffer of __itoa                             *)
  pc,      (* the main loop: "idle", "select" and "read" in read_rtc,        *)
           (* "convert", "format" and "draw"                                 *)
  reg,     (* the register it reads                                          *)
  got,     (* the bytes it has read                                          *)
  time,    (* the record of the top bar                                      *)
  item,    (* the field of the top bar it shows                              *)
  drawn,   (* the fields it has drawn in this frame                          *)
  aliased, (* whether the shell's record is the same                         *)
  start,   (* history: the clock when get_time began                         *)
  raced    (* history: a command came while the top bar was drawn            *)

port == <<clock, regb, select>>
topbar == <<pc, reg, got, time, item, drawn, start>>
vars == <<port, ret, topbar, aliased, raced>>

(* Times are compared by the most significant field that differs.          *)
NotBefore(t, s) ==
  t = s \/ \E f \in Field : t[f] > s[f] /\ \A g \in f + 1 .. Fields : t[g] = s[g]

(* ~regb & REGB_DM, and the two conversions.                               *)
InBcd == (regb \div 4) % 2 = 0
bintbcd(n) == (n \div 10) * 16 + (n % 10)

bcdtbin(n) == (n % 16) + (n \div 16) * 10

(* What the data port returns.                                             *)
Selected ==
  IF select = REG_B THEN regb
  ELSE IF InBcd THEN bintbcd(clock[select])
  ELSE clock[select]

Converted(bytes) == [f \in Field |->
  IF (bytes[REG_B] \div 4) % 2 = 0 THEN bcdtbin(bytes[f]) ELSE bytes[f]]

-----------------------------------------------------------------------------
(* The clock goes on by itself: a field goes up, and those before it start *)
(* again, from wherever they were, since fields, and months, differ in     *)
(* length.  The last field does not start again.                           *)
Tick == \E f \in Field :
  /\ clock[f] < Highest
  /\ clock' = [g \in Field |-> IF g < f THEN Lowest
                               ELSE IF g = f THEN clock[g] + 1 ELSE clock[g]]
  /\ UNCHANGED <<regb, select, ret, topbar, aliased>>

(* The top bar calls get_time: the registers in order, REG_B last.         *)
Begin ==
  /\ pc = "idle" /\ pc' = "select"
  /\ reg' = 1 /\ start' = clock /\ drawn' = <<>>
  /\ UNCHANGED <<port, ret, got, time, item, aliased>>

Select ==
  /\ pc = "select" /\ pc' = "read"
  /\ select' = reg
  /\ UNCHANGED <<clock, regb, ret, reg, got, time, item, drawn, start, aliased>>

(* Mistaken form: the registers are read from the most significant one.    *)
ReadDownwards ==
  /\ pc = "read"
  /\ got' = [got EXCEPT ![IF reg = REG_B THEN REG_B ELSE Fields + 1 - reg] =
       IF reg = REG_B THEN Selected
       ELSE IF InBcd THEN bintbcd(clock[Fields + 1 - reg])
       ELSE clock[Fields + 1 - reg]]
  /\ reg' = IF reg = Fields THEN REG_B ELSE reg + 1
  /\ pc' = IF reg = REG_B THEN "convert" ELSE "select"
  /\ UNCHANGED <<port, ret, time, item, drawn, start, aliased>>

Read ==
  /\ pc = "read"
  /\ got' = [got EXCEPT ![reg] = Selected]
  /\ reg' = IF reg = Fields THEN REG_B ELSE reg + 1
  /\ pc' = IF reg = REG_B THEN "convert" ELSE "select"
  /\ UNCHANGED <<port, ret, time, item, drawn, start, aliased>>

Convert ==
  /\ pc = "convert" /\ pc' = "format"
  /\ time' = Converted(got)
  /\ item' = 1
  /\ UNCHANGED <<port, ret, reg, got, drawn, start, aliased>>

(* render_topbar: a field goes to the buffer and from there to the screen. *)
(* Mistaken form: all are put in the buffer before the first is drawn.     *)
FormatAll ==
  /\ pc = "format" /\ item <= Len(TopBar) /\ pc' = "draw"
  /\ ret' = time[TopBar[Len(TopBar)]]
  /\ UNCHANGED <<port, reg, got, time, item, drawn, start, aliased>>

Format ==
  /\ pc = "format" /\ item <= Len(TopBar) /\ pc' = "draw"
  /\ ret' = time[TopBar[item]]
  /\ UNCHANGED <<port, reg, got, time, item, drawn, start, aliased>>

Draw ==
  /\ pc = "draw" /\ pc' = "format"
  /\ drawn' = Append(drawn, ret) /\ item' = item + 1
  /\ UNCHANGED <<port, ret, reg, got, time, start, aliased>>

End ==
  /\ pc = "format" /\ item > Len(TopBar) /\ pc' = "idle"
  /\ UNCHANGED <<port, ret, reg, got, time, item, drawn, start, aliased>>

-----------------------------------------------------------------------------
(* The shell's commands, in the interrupt: time reads the clock, prints    *)
(* the fields, the minute last, and leaves its traces; rand prints any     *)
(* number.                                                                 *)

ShellTime ==
  /\ select' = REG_B
  /\ ret' = clock[2]
  /\ time' = IF aliased THEN clock ELSE time
  /\ UNCHANGED <<clock, regb, pc, reg, got, item, drawn, start, aliased>>

ShellRand ==
  /\ ret' = 999
  /\ UNCHANGED <<port, topbar, aliased>>

-----------------------------------------------------------------------------
(* 24 hours, in BCD or binary.                                             *)
Init ==
  /\ clock \in [Field -> Value] /\ regb \in {2, 6}
  /\ select = REG_B /\ ret = 0
  /\ pc = "idle" /\ reg = REG_B /\ got = [r \in Register |-> 0]
  /\ time = [f \in Field |-> 0] /\ item = 1 /\ drawn = <<>>
  /\ aliased \in BOOLEAN /\ start = clock
  /\ raced = FALSE

render_topbar ==
  /\ Begin \/ Select \/ Read \/ Convert \/ Format \/ Draw \/ End
  /\ UNCHANGED raced
Shell == (ShellTime \/ ShellRand) /\ raced' = (raced \/ pc # "idle")

Next == (Tick /\ UNCHANGED raced) \/ render_topbar \/ Shell
Spec == Init /\ [][Next]_vars

-----------------------------------------------------------------------------
(* Every variable has its type.                                            *)
PortTyped == {clock, start} \subseteq [Field -> Value] /\ regb \in Byte /\ select \in Register
ReadingTyped ==
  /\ pc \in {"idle", "select", "read", "convert", "format", "draw"}
  /\ reg \in Register /\ got \in [Register -> Byte] /\ aliased \in BOOLEAN /\ raced \in BOOLEAN
ShownTyped ==
  /\ ret \in 0 .. 999 /\ time \in [Field -> Byte]
  /\ item \in 1 .. Len(TopBar) + 1 /\ drawn \in Seq(0 .. 999) /\ Len(drawn) <= Len(TopBar)
TypeOK == PortTyped /\ ReadingTyped /\ ShownTyped

(* When no command comes in between, the time get_time makes up from       *)
(* fields read one after the other is never behind the time at which it    *)
(* began, though the clock may go on between any two of them: the fields   *)
(* are read from the least significant one.                                *)
NeverBehind == ~raced /\ pc = "format" => NotBefore(time, start)

(* rtc.h, "[0, 59]", "[0, 23]" and so on: when no command comes in between *)
(* every field is in its range, in BCD and in binary.                      *)
FieldsInRange == ~raced /\ pc = "format" => time \in [Field -> Value]

(* When no command comes in between, the top bar shows the fields of the   *)
(* time, though all pass through one buffer.                               *)
ShowsTime == ~raced /\ pc # "idle" => \A i \in 1 .. Len(drawn) : drawn[i] = time[TopBar[i]]
===============================================================================
