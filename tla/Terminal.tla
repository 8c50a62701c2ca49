------------------------------- MODULE Terminal -------------------------------
(***************************************************************************)
(* The terminal (app/terminal.c) and the part of the shell's command       *)
(* handler that shows in it (shell/shell.c, with strtok_r of lib/string.c).*)
(*                                                                         *)
(* The terminal is an array of lines, the number of lines in use and the   *)
(* place in the last of them.  The keyboard interrupt types into the last  *)
(* line and, at ENTER, runs the command: one step, whatever it prints.     *)
(* Only the main loop, once a frame, sees that too many lines are in use;  *)
(* it then clears them one after the other, and keys may come in between.  *)
(***************************************************************************)
EXTENDS Integers, Sequences, FiniteSetsExt

CONSTANTS
  Chars,     (* what a key may type, without the space                       *)
  Commands,  (* the kind of command each first word is, as a function        *)
  MaxLines,  (* length of terminal_display_buffer                            *)
  Columns,   (* length of a line; what overruns it is not modelled           *)
  ClearAt,   (* the number of lines above which the screen is cleared        *)
  MaxTyped,  (* bound on the characters typed in one line                    *)
  MaxFiles,  (* bound on the files touch makes                               *)
  MaxKeys    (* bound on the keys that come during one clearing              *)

Kinds == {"clear", "touch", "ls", "cat", "time", "rand", "terminal", "quiet", "unknown"}

ASSUME TerminalAssumption ==
  /\ {"NUL", "space", "output"} \cap Chars = {}
  /\ \A word \in DOMAIN Commands : word \in Seq(Chars) /\ Commands[word] \in Kinds \ {"unknown"}
  /\ {MaxLines, Columns, ClearAt} \subseteq Nat \ {0} /\ ClearAt <= MaxLines
  /\ {MaxTyped, MaxFiles, MaxKeys} \subseteq Nat

VARIABLES
  lines,  (* terminal_display_buffer: the cells and the prompt of each line  *)
  size,   (* current_char_buffer_size                                        *)
  index,  (* current_char_buffer_char_index                                  *)
  files,  (* how many files there are                                        *)
  phase,  (* the main loop: "idle", "rows" while it clears the lines, "ends" *)
          (* while it resets the counters; "lost" once a line beyond the     *)
          (* last has been written                                           *)
  row,    (* the line it clears next                                         *)
  reset,  (* the counters it has reset                                       *)
  keys,   (* history: the keys that came since this clearing was due         *)
  raced   (* history: whether any ever came while one was                    *)

screen == <<lines, size, index>>
terminal_vars == <<screen, files, phase, row, reset, keys, raced>>

Rows  == 0 .. MaxLines - 1
Cells == 0 .. Columns - 1
BlankText == [c \in Cells |-> "NUL"]

-----------------------------------------------------------------------------
(* The text of a line and its first word.                                  *)

Length(text) == Min({c \in Cells : text[c] = "NUL"} \cup {Columns})

(* Where words begin and end.                                              *)
Begins(text) == {c \in 0 .. Length(text) - 1 : text[c] # "space"
                                               /\ (c = 0 \/ text[c - 1] = "space")}
Ends(text) == {c \in 1 .. Length(text) : text[c - 1] # "space"
                                         /\ (c = Length(text) \/ text[c] = "space")}

FirstWord(text) == LET from == Min(Begins(text))  to == Min(Ends(text))
                   IN  [k \in 1 .. to - from |-> text[from + k - 1]]

(* strtok_r writes a zero behind every word, in the terminal's own line.   *)
Tokenised(text) == [c \in Cells |-> IF c \in Ends(text) THEN "NUL" ELSE text[c]]

(* Without a word, args[0] is what the stack held: any command at all.     *)
Kind(text) ==
  IF Begins(text) = {} THEN Kinds
  ELSE IF FirstWord(text) \in DOMAIN Commands THEN {Commands[FirstWord(text)]}
  ELSE {"unknown"}

-----------------------------------------------------------------------------
(* Printing.  A terminal t is a record of the three variables of screen.   *)

(* What overruns a line or the lines is not modelled.                      *)
terminal_strcpy(t, mark) == [t EXCEPT
  !.lines = [r \in Rows |-> IF r # t.size - 1 THEN t.lines[r] ELSE
     [t.lines[r] EXCEPT !.text = [c \in Cells |-> IF c = t.index THEN mark ELSE @[c]]]],
  !.index = @ + 1]

Starter(t, on) == [t EXCEPT
  !.lines = [r \in Rows |-> IF r = t.size - 1 THEN [t.lines[r] EXCEPT !.starter = on]
                                              ELSE t.lines[r]]]

terminal_new_line(t) == Starter([lines |-> t.lines, size |-> t.size + 1, index |-> 0], TRUE)

terminal_print(t) == terminal_strcpy(Starter(t, FALSE), "output")

(* Mistaken form: the line is ended twice.                                 *)
PrintlnTwice(t) ==
  Starter(terminal_new_line(terminal_new_line(terminal_strcpy(t, "output"))), FALSE)

terminal_println(t) == Starter(terminal_new_line(terminal_strcpy(t, "output")), FALSE)

(* terminal_println n times, as the loop of ls does: each line but the     *)
(* first is printed into from its beginning.                               *)
Printed(t, n) ==
  [lines |-> [r \in Rows |->
     [text |-> IF r \in t.size - 1 .. t.size + n - 2
               THEN [c \in Cells |-> IF c = (IF r = t.size - 1 THEN t.index ELSE 0)
                                     THEN "output" ELSE t.lines[r].text[c]]
               ELSE t.lines[r].text,
      starter |-> t.lines[r].starter /\ r \notin t.size .. t.size + n - 1]],
   size  |-> t.size + n,
   index |-> 0]

(* What each command prints.                                               *)
Output(t, kind) ==
  CASE kind = "ls"      -> Printed(t, 2 * files + 1)
    [] kind = "cat"     -> terminal_println(terminal_println(terminal_println(t)))
    [] kind = "time"    -> terminal_println(terminal_print(terminal_println(t)))
    [] kind = "rand"    -> terminal_println(terminal_print(t))
    [] kind = "unknown" -> terminal_println(t)
    [] OTHER            -> t

Cleared(t) == [lines |-> [r \in Rows |-> [t.lines[r] EXCEPT !.text = BlankText]],
               size |-> 1, index |-> 0]

Terminal == [lines |-> lines, size |-> size, index |-> index]
Becomes(t) == lines' = t.lines /\ size' = t.size /\ index' = t.index

-----------------------------------------------------------------------------
(* terminal_keyboard_int.                                                  *)

TypeChar == \E ch \in Chars :
  /\ phase # "lost" /\ index < MaxTyped
  /\ Becomes(terminal_strcpy(Terminal, ch))
  /\ UNCHANGED <<files, phase, row, reset>>

TypeSpace ==
  /\ phase # "lost" /\ 0 < index /\ index < MaxTyped
  /\ Becomes(terminal_strcpy(Terminal, "space"))
  /\ UNCHANGED <<files, phase, row, reset>>

(* Mistaken form: the beginning of the line does not stop it.              *)
BackspaceUnchecked ==
  /\ phase # "lost"
  /\ Becomes([terminal_strcpy([Terminal EXCEPT !.index = @ - 1], "NUL")
               EXCEPT !.index = @ - 1])
  /\ UNCHANGED <<files, phase, row, reset>>

Backspace ==
  /\ phase # "lost" /\ index > 0
  /\ Becomes([terminal_strcpy([Terminal EXCEPT !.index = @ - 1], "NUL")
               EXCEPT !.index = @ - 1])
  /\ UNCHANGED <<files, phase, row, reset>>

(* The terminal after a command: the line is tokenised, the command        *)
(* prints, and a new line follows unless the command has cleared.          *)
Run(kind) == LET
    t == [Terminal EXCEPT !.lines[size - 1].text = Tokenised(@)]
    u == IF kind = "terminal" THEN [t EXCEPT !.lines[0].starter = TRUE] ELSE t
  IN IF kind = "clear" THEN Cleared(t) ELSE terminal_new_line(Output(u, kind))

Enter ==
  /\ phase # "lost"
  /\ \E kind \in Kind(lines[size - 1].text) :
       /\ Becomes(Run(kind))
       /\ files' = IF kind = "touch" /\ files < MaxFiles THEN files + 1 ELSE files
       /\ phase' = IF size' > MaxLines THEN "lost" ELSE phase
  /\ UNCHANGED <<row, reset>>

-----------------------------------------------------------------------------
(* terminal_update in the main loop: a line at a time, then the counters,  *)
(* in the order the compiler likes.                                        *)

Update ==
  /\ phase = "idle" /\ size > ClearAt
  /\ phase' = "rows" /\ row' = 0
  /\ UNCHANGED <<screen, files, reset>>

(* Mistaken form: the loop stops at the lines in use, the first excepted.  *)
ClearRowAfterFirst ==
  /\ phase = "rows"
  /\ lines' = [lines EXCEPT ![row].text = IF row = 0 THEN @ ELSE BlankText]
  /\ row' = (row + 1) % MaxLines
  /\ phase' = IF row' = 0 THEN "ends" ELSE "rows"
  /\ UNCHANGED <<size, index, files, reset>>

ClearRow ==
  /\ phase = "rows"
  /\ lines' = [lines EXCEPT ![row].text = BlankText]
  /\ row' = (row + 1) % MaxLines
  /\ phase' = IF row' = 0 THEN "ends" ELSE "rows"
  /\ UNCHANGED <<size, index, files, reset>>

(* Mistaken form: the number of lines is not reset.                        *)
ResetIndexOnly(counter) ==
  /\ phase = "ends" /\ counter \in {"size", "index"} \ reset
  /\ size' = size
  /\ index' = IF counter = "index" THEN 0 ELSE index
  /\ reset' = IF reset = {} THEN {counter} ELSE {}
  /\ phase' = IF reset = {} THEN "ends" ELSE "idle"
  /\ UNCHANGED <<lines, files, row>>

Reset(counter) ==
  /\ phase = "ends" /\ counter \in {"size", "index"} \ reset
  /\ size' = IF counter = "size" THEN 1 ELSE size
  /\ index' = IF counter = "index" THEN 0 ELSE index
  /\ reset' = IF reset = {} THEN {counter} ELSE {}
  /\ phase' = IF reset = {} THEN "ends" ELSE "idle"
  /\ UNCHANGED <<lines, files, row>>

-----------------------------------------------------------------------------
(* After terminal_init, which sets the first line's prompt.                *)
TerminalInit ==
  /\ lines = [r \in Rows |-> [text |-> BlankText, starter |-> r = 0]]
  /\ size = 1 /\ index = 0
  /\ files = 0
  /\ phase = "idle" /\ row = 0 /\ reset = {}
  /\ keys = 0 /\ raced = FALSE

Due == phase # "idle" \/ size > ClearAt
terminal_keyboard_int ==
  /\ TypeChar \/ TypeSpace \/ Backspace \/ Enter
  /\ IF Due THEN keys < MaxKeys /\ keys' = keys + 1 /\ raced' = TRUE
            ELSE UNCHANGED <<keys, raced>>

terminal_update ==
  /\ Update \/ ClearRow \/ \E counter \in {"size", "index"} : Reset(counter)
  /\ keys' = IF phase' = "idle" THEN 0 ELSE keys
  /\ UNCHANGED raced

TerminalNext == terminal_keyboard_int \/ terminal_update
TerminalSpec == TerminalInit /\ [][TerminalNext]_terminal_vars /\ WF_terminal_vars(terminal_update)

-----------------------------------------------------------------------------
(* Every variable has its type.                                            *)
Mark == Chars \cup {"space", "NUL", "output"}
TerminalTypeOK ==
  /\ lines \in [Rows -> [text : [Cells -> Mark], starter : BOOLEAN]]
  /\ size \in Nat \ {0} /\ index \in 0 .. MaxTyped
  /\ files \in 0 .. MaxFiles
  /\ phase \in {"idle", "rows", "ends", "lost"}
  /\ row \in Rows /\ reset \in {{}, {"size"}, {"index"}}
  /\ keys \in 0 .. MaxKeys /\ raced \in BOOLEAN

(* When the main loop is ahead of the keys the lines never run out, with   *)
(* so many files as fit: what one command prints fits behind the lines     *)
(* that do not yet make the main loop clear.                               *)
LinesSuffice == ~raced => phase # "lost"

(* When the main loop is ahead of the keys, the last line holds what was   *)
(* typed into it and nothing else, and the lines behind it are blank: a    *)
(* command is never mixed with what was once on the screen.                *)
TypedOnly == ~raced /\ phase = "idle" =>
  /\ \A c \in Cells :
       lines[size - 1].text[c] \in IF c < index THEN Chars \cup {"space"} ELSE {"NUL"}
  /\ \A r \in size .. MaxLines - 1 : lines[r].text = BlankText

(* The screen is cleared once it is too long, whatever is typed.           *)
ScreenIsCleared == []<>(phase = "lost" \/ size <= ClearAt)
===============================================================================
