------------------------------ MODULE FileEditor ------------------------------
(***************************************************************************)
(* The RAM file system (ramfs/fs.c) and its two users: the file editor     *)
(* (app/file_editor.c) and the shell's commands touch and write.           *)
(*                                                                         *)
(* The editor's Select button is served by the main loop, over several     *)
(* steps; the keys are served by the keyboard interrupt, in one step, and  *)
(* go to the window that has the focus.  While the button is served the    *)
(* editor has the focus, so the keys that arrive go to the editor.         *)
(*                                                                         *)
(* A file holds a pointer to its text.  It is one of three: the empty      *)
(* literal ramfs_create sets, the literal file_edit_keyboard copies the    *)
(* text to when it saves, and, after write, the stack of a handler that    *)
(* has returned.                                                           *)
(***************************************************************************)
EXTENDS Integers, Sequences

CONSTANTS
  Paths,       (* the names that may be typed, "" among them                 *)
  Keys,        (* the characters that may be typed                           *)
  BufferSize,  (* length of file_buffer                                      *)
  MaxFiles,    (* MAX_RAMFS_FILES; create does not check it, the model stops *)
  StackTexts   (* what the stack may come to hold                            *)

ASSUME SizeAssumption == BufferSize \in Nat \ {0} /\ MaxFiles \in Nat \ {0}
ASSUME EditorAssumption ==
  /\ "" \in Paths
  /\ {"NUL", "CR", "LF"} \cap Keys = {}
  /\ StackTexts \subseteq Seq(Keys \cup {"CR", "LF"})

VARIABLES
  files,              (* ramfs.files                                         *)
  file_length,        (* ramfs.file_length                                   *)
  literal,            (* the text in the literal that saves go to            *)
  stack,              (* the text in the stack that write left behind        *)
  focus,              (* the window that has the focus                       *)
  pc,                 (* where the main loop is in select_btn_click          *)
  found,              (* the file it has found, in a register                *)
  file_to_edit,
  file_path,
  file_buffer,
  file_buffer_index,
  raced               (* history: a key came while the button was served     *)

ramfs  == <<files, file_length, literal, stack>>
editor == <<file_to_edit, file_path, file_buffer, file_buffer_index>>
vars   == <<ramfs, focus, pc, found, editor, raced>>

NULL  == -1
Slots == 0 .. MaxFiles - 1
Cells == 0 .. BufferSize - 1
Char  == Keys \cup {"CR", "LF"}
Pointers == {"none", "empty", "literal", "stack"}

EmptyBuffer == [c \in Cells |-> "NUL"]

(* The string a buffer holds.  In a full one the code reads on; the model  *)
(* stops at the end.                                                       *)
Length(buffer) ==
  CHOOSE n \in 0 .. BufferSize :
    /\ \A c \in 0 .. n - 1 : buffer[c] # "NUL"
    /\ n = BufferSize \/ buffer[n] = "NUL"
Text(buffer) == [k \in 1 .. Length(buffer) |-> buffer[k - 1]]

(* strcpy(file_buffer, text): what follows the final zero stays.           *)
Copied(text) == [c \in Cells |->
  IF c < Len(text) THEN text[c + 1] ELSE IF c = Len(text) THEN "NUL" ELSE file_buffer[c]]

Contents(f) ==
  IF files[f].buffer = "literal" THEN literal
  ELSE IF files[f].buffer = "stack" THEN stack
  ELSE <<>>

-----------------------------------------------------------------------------
(* ramfs                                                                   *)

Named(path) == {f \in Slots : files[f].path = path /\ ~files[f].deleted}
ramfs_open(path) ==
  IF Named(path) = {} THEN NULL
  ELSE CHOOSE f \in Named(path) : \A g \in Named(path) : f <= g

(* The text that is passed in is not used.                                 *)
ramfs_create(path) ==
  /\ file_length < MaxFiles
  /\ files' = [files EXCEPT ![file_length] =
       [path |-> path, buffer |-> "empty", deleted |-> FALSE]]
  /\ file_length' = file_length + 1

-----------------------------------------------------------------------------
(* The shell, which has the keys while the terminal has the focus.         *)

Touch(path) ==
  /\ focus = "terminal"
  /\ ramfs_create(path)
  /\ UNCHANGED <<literal, stack, focus, pc, found, editor>>

(* The file is given a pointer into cmd_handler's own frame.  A file that  *)
(* is not there is not asked about: the store goes through a null pointer  *)
(* and changes nothing here.                                               *)
Write(path, text) ==
  /\ focus = "terminal" /\ ramfs_open(path) # NULL
  /\ files' = [files EXCEPT ![ramfs_open(path)].buffer = "stack"]
  /\ stack' = text
  /\ UNCHANGED <<file_length, literal, focus, pc, found, editor>>

(* The frame is gone once the command is done: later calls use the stack.  *)
StackReused ==
  /\ stack' \in StackTexts
  /\ UNCHANGED <<files, file_length, literal, focus, pc, found, editor>>

-----------------------------------------------------------------------------
(* select_btn_click, in the main loop.                                     *)

(* Another window gets the focus, by a click as well.                      *)
ChangeFocus ==
  /\ pc = "idle"
  /\ focus' \in {"editor", "terminal"}
  /\ UNCHANGED <<ramfs, pc, found, editor>>

(* The button is there as long as no file is open.                         *)
(* Mistaken form: the name is not looked for.                              *)
SelectOpensBlind ==
  /\ pc = "idle" /\ focus = "editor" /\ file_to_edit = NULL
  /\ pc' = "create" /\ found' = NULL
  /\ UNCHANGED <<ramfs, focus, editor>>

SelectOpens ==
  /\ pc = "idle" /\ focus = "editor" /\ file_to_edit = NULL
  /\ file_to_edit' = ramfs_open(file_path)
  /\ found' = file_to_edit'
  /\ pc' = IF file_to_edit' = NULL THEN "create" ELSE "copy"
  /\ UNCHANGED <<ramfs, focus, file_path, file_buffer, file_buffer_index>>

SelectCreates ==
  /\ pc = "create" /\ pc' = "reset"
  /\ ramfs_create(file_path)
  /\ file_to_edit' = file_length
  /\ UNCHANGED <<literal, stack, focus, found, file_path, file_buffer, file_buffer_index>>

SelectResets ==
  /\ pc = "reset" /\ pc' = "clear"
  /\ file_buffer_index' = 0
  /\ UNCHANGED <<ramfs, focus, found, file_to_edit, file_path, file_buffer>>

(* The compiler keeps the pointer in a register: a key that closes the     *)
(* file meanwhile does not matter to the copy.                             *)
SelectCopies ==
  /\ pc = "copy" /\ pc' = "length"
  /\ file_buffer' = Copied(Contents(found))
  /\ UNCHANGED <<ramfs, focus, found, file_to_edit, file_path, file_buffer_index>>

(* Mistaken form: the final zero is counted.                               *)
SelectMeasuresZero ==
  /\ pc = "length" /\ pc' = "clear"
  /\ file_buffer_index' = Length(file_buffer) + 1
  /\ UNCHANGED <<ramfs, focus, found, file_to_edit, file_path, file_buffer>>

SelectMeasures ==
  /\ pc = "length" /\ pc' = "clear"
  /\ file_buffer_index' = Length(file_buffer)
  /\ UNCHANGED <<ramfs, focus, found, file_to_edit, file_path, file_buffer>>

(* Mistaken form: the editor waits for a name.                             *)
SelectEndsWaits ==
  /\ pc = "clear" /\ pc' = "idle"
  /\ file_path # "" /\ file_path' = "" /\ found' = NULL
  /\ UNCHANGED <<ramfs, focus, file_to_edit, file_buffer, file_buffer_index>>

SelectEnds ==
  /\ pc = "clear" /\ pc' = "idle"
  /\ file_path' = "" /\ found' = NULL
  /\ UNCHANGED <<ramfs, focus, file_to_edit, file_buffer, file_buffer_index>>

-----------------------------------------------------------------------------
(* file_editor_keyboard_int.                                               *)

(* No file is open: the path is being typed, up to any path at all.        *)
TypePath ==
  /\ focus = "editor" /\ file_to_edit = NULL
  /\ file_path' \in Paths
  /\ UNCHANGED <<ramfs, focus, pc, found, file_to_edit, file_buffer, file_buffer_index>>

Editing == focus = "editor" /\ file_to_edit # NULL

(* END.  Mistaken form: the buffer is left as it was.                      *)
SaveKeepsBuffer ==
  /\ Editing
  /\ literal' = Text(file_buffer)
  /\ files' = [files EXCEPT ![file_to_edit].buffer = "literal"]
  /\ file_to_edit' = NULL
  /\ file_buffer_index' = 0
  /\ UNCHANGED <<file_length, stack, focus, pc, found, file_path, file_buffer>>

Save ==
  /\ Editing
  /\ literal' = Text(file_buffer)
  /\ files' = [files EXCEPT ![file_to_edit].buffer = "literal"]
  /\ file_to_edit' = NULL
  /\ file_buffer' = EmptyBuffer
  /\ file_buffer_index' = 0
  /\ UNCHANGED <<file_length, stack, focus, pc, found, file_path>>

(* ESC                                                                     *)
Discard ==
  /\ Editing
  /\ file_to_edit' = NULL
  /\ file_buffer' = EmptyBuffer
  /\ file_buffer_index' = 0
  /\ UNCHANGED <<ramfs, focus, pc, found, file_path>>

Backspace ==
  /\ Editing /\ file_buffer_index > 0
  /\ file_buffer_index' = file_buffer_index - 1
  /\ file_buffer' = [c \in Cells |-> IF c = file_buffer_index - 1 THEN "NUL" ELSE file_buffer[c]]
  /\ UNCHANGED <<ramfs, focus, pc, found, file_to_edit, file_path>>

(* A key stores one character, ENTER two; only the place of the first is   *)
(* checked, and the second may fall just outside the buffer.               *)
Put(chars) ==
  /\ Editing /\ file_buffer_index < BufferSize
  /\ file_buffer' = [c \in Cells |->
       IF c - file_buffer_index \in 0 .. Len(chars) - 1
       THEN chars[c - file_buffer_index + 1] ELSE file_buffer[c]]
  /\ file_buffer_index' = file_buffer_index + Len(chars)
  /\ UNCHANGED <<ramfs, focus, pc, found, file_to_edit, file_path>>

-----------------------------------------------------------------------------
Init ==
  /\ files = [f \in Slots |-> [path |-> "", buffer |-> "none", deleted |-> TRUE]]
  /\ file_length = 0
  /\ literal = <<>> /\ stack = <<>>
  /\ focus = "terminal"
  /\ pc = "idle"
  /\ file_to_edit = NULL /\ found = NULL
  /\ file_path = ""
  /\ file_buffer = EmptyBuffer /\ file_buffer_index = 0
  /\ raced = FALSE

(* The button being served.                                                *)
Select ==
  /\ SelectCreates \/ SelectResets \/ SelectCopies \/ SelectMeasures \/ SelectEnds
  /\ UNCHANGED raced

Shell == \E path \in Paths : Touch(path) \/ \E text \in StackTexts : Write(path, text)

(* One key in the editor.                                                  *)
file_editor_keyboard_int ==
  \/ TypePath \/ Save \/ Discard \/ Backspace
  \/ Put(<<"CR", "LF">>) \/ \E key \in Keys : Put(<<key>>)

Next ==
  \/ Select
  \/ (Shell \/ StackReused \/ ChangeFocus \/ SelectOpens) /\ UNCHANGED raced
  \/ file_editor_keyboard_int /\ raced' = (raced \/ pc # "idle")
Spec == Init /\ [][Next]_vars /\ WF_vars(Select)

-----------------------------------------------------------------------------
(* Every variable has its type.  The index may be one past the end of the  *)
(* buffer by ENTER.                                                        *)
RamfsTyped ==
  /\ files \in [Slots -> [path : Paths, buffer : Pointers, deleted : BOOLEAN]]
  /\ file_length \in 0 .. MaxFiles
  /\ literal \in Seq(Char) /\ stack \in StackTexts \cup {<<>>}
ControlTyped ==
  /\ focus \in {"editor", "terminal"} /\ raced \in BOOLEAN
  /\ pc \in {"idle", "create", "reset", "copy", "length", "clear"}
  /\ {file_to_edit, found} \subseteq Slots \cup {NULL}
BufferTyped ==
  /\ file_path \in Paths
  /\ file_buffer \in [Cells -> Char \cup {"NUL"}]
  /\ file_buffer_index \in 0 .. BufferSize + 1
TypeOK == RamfsTyped /\ ControlTyped /\ BufferTyped

(* The files in use are the first ones of the array, each has a text, and  *)
(* the file being edited is one of them, whenever the keys come.           *)
FilesInUse ==
  /\ \A f \in Slots : f < file_length <=> ~files[f].deleted
  /\ \A f \in Slots : f < file_length => files[f].buffer # "none"
  /\ {file_to_edit, found} \subseteq 0 .. file_length - 1 \cup {NULL}

(* As long as nobody has typed while the button was being served:          *)
(* between clicks, the file being edited is the one its path opens: what   *)
(* is saved is what cat will show, though touch may make a second file of  *)
(* the same name.                                                          *)
EditedFileOpens ==
  ~raced /\ pc = "idle" /\ file_to_edit # NULL => file_to_edit = ramfs_open(files[file_to_edit].path)

(* Under the same condition, the text is what lies before the index,       *)
(* nothing lies after it, and without a file there is no text: what was    *)
(* typed for one file never turns up in another.                           *)
BufferMatchesIndex == ~raced /\ pc = "idle" =>
  /\ \A c \in Cells : file_buffer[c] = "NUL" <=> c >= file_buffer_index
  /\ file_to_edit = NULL => file_buffer_index = 0

(* When a file has been opened so, the editor shows its text, with the     *)
(* index behind it; a text on the stack may have changed under it.         *)
OpenShowsFile == ~raced /\ pc = "clear" /\ found # NULL /\ files[found].buffer # "stack" =>
  /\ Text(file_buffer) = Contents(found)
  /\ file_buffer_index = Len(Contents(found))

(* README.md, "END To write to file": the file that is open is written,    *)
(* the others keep their text.                                             *)
EndWritesOneFile ==
  [][Save => \A f \in 0 .. file_length - 1 : f # file_to_edit => Contents(f)' = Contents(f)]_vars

(* A click on Select is served to the end, whatever is typed meanwhile,    *)
(* unless the files have run out.                                          *)
SelectIsServed == []<>(pc = "idle" \/ file_length = MaxFiles)
===============================================================================
