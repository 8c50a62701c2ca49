--------------------------- MODULE FileEditor_proofs ---------------------------

(* Theorems about the RAM file system and the editor, for every set of     *)
(* names and characters and every size of the array and the buffer.        *)
EXTENDS FileEditor, WellFoundedInduction, SequenceTheorems, TLAPS

(* A set of naturals that is not empty has a least element.                *)
LEMMA LeastOf ==
  ASSUME NEW S, S \subseteq Nat, S # {}
  PROVE  \E m \in S : \A n \in S : m <= n
<1>1. IsWellFoundedOn(OpToRel(<, Nat), Nat)
  BY NatLessThanWellFounded
<1>2. PICK m \in S : \A n \in S : ~(<<n, m>> \in OpToRel(<, Nat))
  BY <1>1, WFMin
<1>3. \A n \in S : ~(n < m)
  BY <1>2 DEF OpToRel
<1> QED
  BY <1>3

(* The constants' types, and the final zero is no character.               *)
LEMMA SizesTyped ==
  BufferSize \in Nat /\ BufferSize > 0 /\ MaxFiles \in Nat /\ MaxFiles > 0
BY SizeAssumption

(* What the constants say of characters.                                   *)
LEMMA CharsTyped == "NUL" \notin Char /\ "CR" \in Char /\ "LF" \in Char /\ Keys \subseteq Char
BY EditorAssumption DEF Char

(* What the stack may hold is text, and the empty name is a name.          *)
LEMMA StackTyped == StackTexts \cup {<<>>} \subseteq Seq(Char) /\ "" \in Paths
<1>1. StackTexts \subseteq Seq(Char)
  BY EditorAssumption DEF Char
<1>2. <<>> \in Seq(Char)
  OBVIOUS
<1> QED
  BY <1>1, <1>2, EditorAssumption

(* Slots are numbers within the file system.                               *)
LEMMA SlotsTyped ==
  /\ Slots \subseteq Nat /\ Cells \subseteq Nat /\ NULL \notin Slots
  /\ \A f \in 0 .. MaxFiles : f < MaxFiles => f \in Slots
BY SizesTyped DEF Slots, Cells, NULL

-----------------------------------------------------------------------------

(* Strings.                                                                *)

(* The length of a string is where its first zero is.                      *)
LEMMA LengthIs ==
  ASSUME NEW buffer
  PROVE  /\ Length(buffer) \in 0 .. BufferSize
         /\ \A c \in 0 .. Length(buffer) - 1 : buffer[c] # "NUL"
         /\ Length(buffer) = BufferSize \/ buffer[Length(buffer)] = "NUL"
<1> DEFINE Ends == {n \in 0 .. BufferSize : n = BufferSize \/ buffer[n] = "NUL"}
<1>1. BufferSize \in Ends /\ Ends \subseteq Nat
  BY SizesTyped
<1>2. PICK n \in Ends : \A k \in Ends : n <= k
  <2> HIDE DEF Ends
  <2> QED
    BY <1>1, LeastOf
<1>3. n \in 0 .. BufferSize /\ (n = BufferSize \/ buffer[n] = "NUL")
  OBVIOUS
<1>4. \A c \in 0 .. n - 1 : buffer[c] # "NUL"
  <2> SUFFICES ASSUME NEW c \in 0 .. n - 1, buffer[c] = "NUL"
               PROVE  FALSE
    OBVIOUS
  <2>1. c \in Ends
    BY <1>3, SizesTyped
  <2> QED
    BY <1>2, <1>3, <2>1, SizesTyped
<1> QED
  BY <1>3, <1>4 DEF Length

(* A buffer that has zeros from place n on and none before it holds a      *)
(* string of that length.                                                  *)
LEMMA LengthOf ==
  ASSUME NEW buffer, NEW n \in Nat, \A c \in Cells : buffer[c] = "NUL" <=> c >= n
  PROVE  Length(buffer) = IF n <= BufferSize THEN n ELSE BufferSize
<1> DEFINE k == Length(buffer)
<1>1. /\ k \in 0 .. BufferSize /\ \A c \in 0 .. k - 1 : buffer[c] # "NUL"
      /\ k = BufferSize \/ buffer[k] = "NUL"
  BY LengthIs
<1> HIDE DEF k
<1>2. CASE k = BufferSize
  <2>1. k - 1 \in Cells /\ k - 1 \in 0 .. k - 1
    BY <1>2, SizesTyped DEF Cells
  <2>2. ~(k - 1 >= n)
    BY <1>1, <2>1
  <2> QED
    BY <1>1, <1>2, <2>2, SizesTyped DEF k
<1>3. CASE k # BufferSize
  <2>1. k \in Cells /\ buffer[k] = "NUL"
    BY <1>1, <1>3, SizesTyped DEF Cells
  <2>2. k >= n
    BY <2>1
  <2>3. ASSUME n < k PROVE FALSE
    <3>1. n \in 0 .. k - 1 /\ n \in Cells
      BY <1>1, <2>3, SizesTyped DEF Cells
    <3> QED
      BY <1>1, <3>1
  <2> QED
    BY <1>1, <2>2, <2>3, SizesTyped DEF k
<1> QED
  BY <1>2, <1>3

(* What is saved is a text.                                                *)
LEMMA TextTyped ==
  ASSUME NEW buffer \in [Cells -> Char \cup {"NUL"}]
  PROVE  Text(buffer) \in Seq(Char) /\ Len(Text(buffer)) = Length(buffer)
<1> DEFINE n == Length(buffer)
<1>1. n \in Nat /\ n <= BufferSize /\ \A c \in 0 .. n - 1 : buffer[c] # "NUL"
  BY LengthIs, SizesTyped
<1> HIDE DEF n
<1>2. ASSUME NEW k \in 1 .. n
      PROVE  buffer[k - 1] \in Char
  <2>1. k - 1 \in 0 .. n - 1 /\ k - 1 \in Cells
    BY <1>1, SizesTyped DEF Cells
  <2> QED
    BY <1>1, <2>1
<1>3. [k \in 1 .. n |-> buffer[k - 1]] \in Seq(Char)
  BY <1>1, <1>2
<1>4. Len([k \in 1 .. n |-> buffer[k - 1]]) = n
  BY <1>1
<1> QED
  BY <1>3, <1>4 DEF Text, n

(* A file's text is one, and so is what the buffer holds after it has been *)
(* copied there.                                                           *)
LEMMA ContentsTyped ==
  ASSUME RamfsTyped, NEW f
  PROVE  Contents(f) \in Seq(Char)
<1>1. literal \in Seq(Char) /\ stack \in Seq(Char) /\ <<>> \in Seq(Char)
  BY StackTyped DEF RamfsTyped
<1> QED
  BY <1>1 DEF Contents

(* A copied string keeps the type of a buffer.                             *)
LEMMA CopiedTyped ==
  ASSUME NEW text \in Seq(Char), file_buffer \in [Cells -> Char \cup {"NUL"}]
  PROVE  Copied(text) \in [Cells -> Char \cup {"NUL"}]
<1>1. ASSUME NEW c \in Cells, c < Len(text)
      PROVE  text[c + 1] \in Char
  <2>1. c + 1 \in 1 .. Len(text)
    BY <1>1, SlotsTyped
  <2> QED
    BY <2>1
<1> QED
  BY <1>1 DEF Copied

-----------------------------------------------------------------------------

(* Types.                                                                  *)

(* What ramfs_open finds is in the array, has the name and is the first.   *)
LEMMA OpenFinds ==
  ASSUME NEW path
  PROVE  /\ Named(path) = {} => ramfs_open(path) = NULL
         /\ Named(path) # {} => /\ ramfs_open(path) \in Named(path)
                                /\ \A g \in Named(path) : ramfs_open(path) <= g
<1>1. Named(path) \subseteq Nat
  BY SlotsTyped DEF Named
<1>2. Named(path) # {} => \E f \in Named(path) : \A g \in Named(path) : f <= g
  BY <1>1, LeastOf
<1> QED
  BY <1>2 DEF ramfs_open

(* What open returns is a slot or none.                                    *)
LEMMA OpenTyped ==
  ASSUME NEW path
  PROVE  ramfs_open(path) \in Slots \cup {NULL}
BY OpenFinds DEF Named

(* The empty buffer is a buffer.                                           *)
LEMMA EmptyTyped == EmptyBuffer \in [Cells -> Char \cup {"NUL"}]
BY DEF EmptyBuffer

(* A new file.                                                             *)
LEMMA CreateTyped ==
  ASSUME RamfsTyped, NEW path \in Paths, ramfs_create(path), UNCHANGED <<literal, stack>>
  PROVE  RamfsTyped' /\ file_length \in Slots
<1>1. file_length \in Slots
  BY SlotsTyped DEF RamfsTyped, ramfs_create
<1>2. file_length' \in 0 .. MaxFiles
  BY SizesTyped DEF RamfsTyped, ramfs_create
<1>3. files' \in [Slots -> [path : Paths, buffer : Pointers, deleted : BOOLEAN]]
  BY DEF RamfsTyped, ramfs_create, Pointers
<1> QED
  BY <1>1, <1>2, <1>3 DEF RamfsTyped

(* A file gets another text.                                               *)
LEMMA BufferSetTyped ==
  ASSUME RamfsTyped, NEW f, NEW b \in Pointers, files' = [files EXCEPT ![f].buffer = b]
  PROVE  files' \in [Slots -> [path : Paths, buffer : Pointers, deleted : BOOLEAN]]
BY DEF RamfsTyped

(* What a key stores keeps the buffer's type.                              *)
LEMMA PutTyped ==
  ASSUME BufferTyped, NEW chars \in Seq(Char), Len(chars) \in 1 .. 2, Put(chars)
  PROVE  BufferTyped'
<1>1. /\ file_buffer_index < BufferSize /\ file_buffer_index \in Nat
      /\ file_buffer_index' = file_buffer_index + Len(chars) /\ UNCHANGED file_path
  BY SizesTyped DEF Put, BufferTyped
<1>2. file_buffer_index' \in 0 .. BufferSize + 1
  <2> DEFINE n == Len(chars)
  <2>1. n \in 1 .. 2 /\ file_buffer_index' = file_buffer_index + n
    BY <1>1
  <2> HIDE DEF n
  <2> QED
    BY <1>1, <2>1, SizesTyped
<1>3. ASSUME NEW c \in Cells, c - file_buffer_index \in 0 .. Len(chars) - 1
      PROVE  chars[c - file_buffer_index + 1] \in Char
  <2>1. (c - file_buffer_index) + 1 \in 1 .. Len(chars)
    BY <1>1, <1>3, SlotsTyped
  <2> QED
    BY <2>1
<1>4. file_buffer' \in [Cells -> Char \cup {"NUL"}]
  BY <1>3 DEF Put, BufferTyped
<1> QED
  BY <1>1, <1>2, <1>4 DEF BufferTyped

(* Every step keeps the types.                                             *)
LEMMA TypeNext == TypeOK /\ [Next]_vars => TypeOK'
<1> SUFFICES ASSUME TypeOK, [Next]_vars
             PROVE  TypeOK'
  OBVIOUS
<1> USE DEF TypeOK
<1>1. raced' \in BOOLEAN
  BY DEF Next, Select, vars, ControlTyped
<1>2. CASE SelectOpens
  BY <1>1, <1>2, OpenTyped DEF SelectOpens, ramfs, RamfsTyped, ControlTyped, BufferTyped
<1>3. CASE SelectCreates
  <2>1. file_path \in Paths
    BY DEF BufferTyped
  <2>2. RamfsTyped' /\ file_length \in Slots
    BY <1>3, <2>1, CreateTyped DEF SelectCreates
  <2>3. ControlTyped'
    BY <1>1, <1>3, <2>2 DEF SelectCreates, ControlTyped
  <2> QED
    BY <1>3, <2>2, <2>3 DEF SelectCreates, BufferTyped
<1>4. CASE SelectResets
  <2>1. file_buffer_index' \in 0 .. BufferSize + 1
    BY <1>4, SizesTyped DEF SelectResets
  <2> QED
    BY <1>1, <1>4, <2>1 DEF SelectResets, ramfs, RamfsTyped, ControlTyped, BufferTyped
<1>5. CASE SelectCopies
  <2>1. file_buffer' \in [Cells -> Char \cup {"NUL"}]
    BY <1>5, ContentsTyped, CopiedTyped DEF SelectCopies, BufferTyped
  <2> QED
    BY <1>1, <1>5, <2>1 DEF SelectCopies, ramfs, RamfsTyped, ControlTyped, BufferTyped
<1>6. CASE SelectMeasures
  <2>1. Length(file_buffer) \in 0 .. BufferSize + 1
    BY LengthIs, SizesTyped
  <2> QED
    BY <1>1, <1>6, <2>1 DEF SelectMeasures, ramfs, RamfsTyped, ControlTyped, BufferTyped
<1>7. CASE SelectEnds
  BY <1>1, <1>7, StackTyped DEF SelectEnds, ramfs, RamfsTyped, ControlTyped, BufferTyped
<1>8. ASSUME NEW path \in Paths, Touch(path)
      PROVE  TypeOK'
  <2>1. RamfsTyped'
    BY <1>8, CreateTyped DEF Touch
  <2> QED
    BY <1>1, <1>8, <2>1 DEF Touch, editor, ControlTyped, BufferTyped
<1>9. ASSUME NEW path \in Paths, NEW text \in StackTexts, Write(path, text)
      PROVE  TypeOK'
  <2>1. files' \in [Slots -> [path : Paths, buffer : Pointers, deleted : BOOLEAN]]
    BY <1>9, BufferSetTyped DEF Write, Pointers
  <2>2. RamfsTyped'
    BY <1>9, <2>1 DEF Write, RamfsTyped
  <2> QED
    BY <1>1, <1>9, <2>2 DEF Write, editor, ControlTyped, BufferTyped
<1>10. CASE StackReused
  BY <1>1, <1>10 DEF StackReused, editor, RamfsTyped, ControlTyped, BufferTyped
<1>11. CASE ChangeFocus
  BY <1>1, <1>11 DEF ChangeFocus, ramfs, editor, RamfsTyped, ControlTyped, BufferTyped
<1>12. CASE TypePath
  BY <1>1, <1>12 DEF TypePath, ramfs, RamfsTyped, ControlTyped, BufferTyped
<1>13. CASE Save \/ Discard
  <2>1. file_buffer_index' \in 0 .. BufferSize + 1 /\ BufferTyped'
    <3>1. file_buffer_index' = 0 /\ file_buffer' = EmptyBuffer /\ UNCHANGED file_path
      BY <1>13 DEF Save, Discard
    <3>2. 0 \in 0 .. BufferSize + 1
      BY SizesTyped
    <3> QED
      BY <3>1, <3>2, EmptyTyped DEF BufferTyped
  <2>2. ControlTyped'
    BY <1>1, <1>13 DEF Save, Discard, ControlTyped
  <2>3. CASE Save
    <3>1. literal' \in Seq(Char)
      BY <2>3, TextTyped DEF Save, BufferTyped
    <3>2. files' \in [Slots -> [path : Paths, buffer : Pointers, deleted : BOOLEAN]]
      BY <2>3, BufferSetTyped DEF Save, Pointers
    <3> QED
      BY <2>1, <2>2, <2>3, <3>1, <3>2 DEF Save, RamfsTyped
  <2>4. CASE Discard
    BY <2>1, <2>2, <2>4 DEF Discard, ramfs, RamfsTyped
  <2> QED
    BY <1>13, <2>3, <2>4
<1>14. CASE Backspace
  <2>1. file_buffer_index' \in 0 .. BufferSize + 1
    BY <1>14, SizesTyped DEF Backspace, BufferTyped
  <2>2. file_buffer' \in [Cells -> Char \cup {"NUL"}]
    BY <1>14 DEF Backspace, BufferTyped
  <2> QED
    BY <1>1, <1>14, <2>1, <2>2 DEF Backspace, ramfs, RamfsTyped, ControlTyped, BufferTyped
<1>15. ASSUME NEW chars \in Seq(Char), Len(chars) \in 1 .. 2, Put(chars)
       PROVE  TypeOK'
  <2>1. BufferTyped'
    BY <1>15, PutTyped
  <2> QED
    BY <1>1, <1>15, <2>1 DEF Put, ramfs, RamfsTyped, ControlTyped
<1>16. CASE Put(<<"CR", "LF">>) \/ \E key \in Keys : Put(<<key>>)
  <2>1. <<"CR", "LF">> \in Seq(Char) /\ Len(<<"CR", "LF">>) = 2
    BY CharsTyped
  <2>2. \A key \in Keys : <<key>> \in Seq(Char) /\ Len(<<key>>) = 1
    BY CharsTyped
  <2>3. CASE Put(<<"CR", "LF">>)
    <3>1. Len(<<"CR", "LF">>) \in 1 .. 2
      BY <2>1
    <3> QED
      BY <1>15, <2>1, <2>3, <3>1
  <2>4. ASSUME NEW key \in Keys, Put(<<key>>)
        PROVE  TypeOK'
    <3>1. Len(<<key>>) \in 1 .. 2
      BY <2>2
    <3> QED
      BY <1>15, <2>2, <2>4, <3>1
  <2> QED
    BY <1>16, <2>3, <2>4
<1>17. CASE UNCHANGED vars
  BY <1>17 DEF vars, ramfs, editor, RamfsTyped, ControlTyped, BufferTyped
<1> QED
  BY <1>2, <1>3, <1>4, <1>5, <1>6, <1>7, <1>8, <1>9, <1>10, <1>11, <1>12, <1>13, <1>14, <1>16, <1>17
     DEF Next, Select, Shell, file_editor_keyboard_int

(* TypeOK: every variable keeps its type.                                  *)
THEOREM TypeCorrect == Spec => []TypeOK
<1>1. Init => TypeOK
  <2> SUFFICES ASSUME Init PROVE TypeOK
    OBVIOUS
  <2>1. files \in [Slots -> [path : Paths, buffer : Pointers, deleted : BOOLEAN]]
    BY StackTyped DEF Init, Pointers
  <2>2. file_length \in 0 .. MaxFiles /\ file_buffer_index \in 0 .. BufferSize + 1
    <3>1. file_length = 0 /\ file_buffer_index = 0
      BY DEF Init
    <3> QED
      BY <3>1, SizesTyped
  <2>3. literal \in Seq(Char)
    <3>1. literal = <<>>
      BY DEF Init
    <3> QED
      BY <3>1
  <2>4. RamfsTyped
    BY <2>1, <2>2, <2>3 DEF Init, RamfsTyped
  <2>5. BufferTyped
    BY <2>2, EmptyTyped, StackTyped DEF Init, BufferTyped
  <2> QED
    BY <2>4, <2>5 DEF Init, TypeOK, ControlTyped
<1> QED
  BY <1>1, TypeNext, PTL DEF Spec

-----------------------------------------------------------------------------

(* Files in use.                                                           *)

FilesInv ==
  /\ FilesInUse
  /\ pc = "copy" => found # NULL

(* A text that is set leaves the rest of its file and the other files      *)
(* alone.                                                                  *)
LEMMA BufferSetKeeps ==
  ASSUME RamfsTyped, NEW f, NEW b, files' = [files EXCEPT ![f].buffer = b]
  PROVE  /\ \A g \in Slots : files'[g].deleted = files[g].deleted
         /\ \A g \in Slots : files'[g].path = files[g].path
         /\ \A g \in Slots : g = f => files'[g].buffer = b
         /\ \A g \in Slots : g # f => files'[g].buffer = files[g].buffer
BY DEF RamfsTyped

(* So does a new file.                                                     *)
LEMMA CreateKeeps ==
  ASSUME RamfsTyped, NEW path, ramfs_create(path)
  PROVE  /\ file_length \in Slots /\ file_length' = file_length + 1
         /\ \A g \in Slots : files'[g] =
              IF g = file_length THEN [path |-> path, buffer |-> "empty", deleted |-> FALSE]
              ELSE files[g]
BY SlotsTyped DEF RamfsTyped, ramfs_create

(* What is found is in use.                                                *)
LEMMA OpenInUse ==
  ASSUME RamfsTyped, FilesInUse, NEW path
  PROVE  ramfs_open(path) \in 0 .. file_length - 1 \cup {NULL}
<1>1. CASE ramfs_open(path) = NULL
  BY <1>1
<1>2. CASE ramfs_open(path) # NULL
  <2>1. ramfs_open(path) \in Slots /\ ~files[ramfs_open(path)].deleted
    BY <1>2, OpenFinds DEF Named
  <2>2. ramfs_open(path) < file_length
    BY <2>1 DEF FilesInUse
  <2> QED
    BY <2>1, <2>2, SlotsTyped, SizesTyped DEF RamfsTyped
<1> QED
  BY <1>1, <1>2

(* A new file is in use.                                                   *)
LEMMA CreateInUse ==
  ASSUME RamfsTyped, FilesInUse, NEW path, ramfs_create(path),
         found' \in {found, NULL}, file_to_edit' \in {file_to_edit, file_length}
  PROVE  FilesInUse'
<1>1. /\ file_length \in Slots /\ file_length' = file_length + 1
      /\ \A g \in Slots : files'[g] =
           IF g = file_length THEN [path |-> path, buffer |-> "empty", deleted |-> FALSE]
           ELSE files[g]
  BY CreateKeeps
<1>2. ASSUME NEW f \in Slots
      PROVE  f < file_length' <=> f < file_length \/ f = file_length
  BY <1>1, SlotsTyped
<1>3. ~(file_length < file_length) /\ file_length \in 0 .. file_length' - 1
  BY <1>1, SlotsTyped
<1>4. \A f \in Slots : f < file_length' <=> ~files'[f].deleted
  BY <1>1, <1>2, <1>3 DEF FilesInUse
<1>5. \A f \in Slots : f < file_length' => files'[f].buffer # "none"
  BY <1>1, <1>2, <1>3 DEF FilesInUse
<1>6. 0 .. file_length - 1 \subseteq 0 .. file_length' - 1
  BY <1>1, SlotsTyped
<1> QED
  BY <1>3, <1>4, <1>5, <1>6 DEF FilesInUse

(* A text is not taken away.                                               *)
LEMMA BufferSetInUse ==
  ASSUME RamfsTyped, FilesInUse, NEW f, NEW b \in {"stack", "literal"},
         files' = [files EXCEPT ![f].buffer = b], UNCHANGED <<file_length, found>>,
         file_to_edit' \in {file_to_edit, NULL}
  PROVE  FilesInUse'
<1>1. \A g \in Slots : files'[g].deleted = files[g].deleted
  BY BufferSetKeeps
<1>2. \A g \in Slots : files'[g].buffer = b \/ files'[g].buffer = files[g].buffer
  BY BufferSetKeeps
<1>3. b # "none"
  OBVIOUS
<1>4. \A g \in Slots : g < file_length => files'[g].buffer # "none"
  BY <1>2, <1>3 DEF FilesInUse
<1> QED
  BY <1>1, <1>4 DEF FilesInUse

(* Every step keeps the files in use at the front.                         *)
LEMMA FilesNext == TypeOK /\ FilesInv /\ [Next]_vars => FilesInv'
<1> SUFFICES ASSUME TypeOK, FilesInv, [Next]_vars
             PROVE  FilesInv'
  OBVIOUS
<1> USE DEF FilesInv, TypeOK
<1>1. CASE SelectOpens
  <2>1. FilesInUse'
    BY <1>1, OpenInUse DEF SelectOpens, ramfs, FilesInUse
  <2> QED
    BY <1>1, <2>1 DEF SelectOpens
<1>2. CASE SelectCreates
  <2>1. /\ ramfs_create(file_path) /\ file_to_edit' = file_length /\ found' = found
        /\ pc' = "reset"
    BY <1>2 DEF SelectCreates
  <2>2. FilesInUse'
    BY <2>1, CreateInUse
  <2> QED
    BY <2>1, <2>2
<1>3. CASE SelectResets \/ SelectCopies \/ SelectMeasures
  BY <1>3 DEF SelectResets, SelectCopies, SelectMeasures, ramfs, FilesInUse
<1>4. CASE SelectEnds \/ StackReused \/ ChangeFocus \/ TypePath \/ Discard \/ Backspace
           \/ \E chars : Put(chars)
  BY <1>4 DEF SelectEnds, StackReused, ChangeFocus, TypePath, Discard, Backspace, Put,
     ramfs, editor, FilesInUse
<1>5. ASSUME NEW path \in Paths, Touch(path)
      PROVE  FilesInv'
  <2>1. ramfs_create(path) /\ UNCHANGED <<file_to_edit, found, pc>>
    BY <1>5 DEF Touch, editor
  <2>2. FilesInUse'
    BY <2>1, CreateInUse
  <2> QED
    BY <2>1, <2>2
<1>6. ASSUME NEW path \in Paths, NEW text \in StackTexts, Write(path, text)
      PROVE  FilesInv'
  <2>1. FilesInUse'
    BY <1>6, BufferSetInUse DEF Write, editor
  <2> QED
    BY <1>6, <2>1 DEF Write
<1>7. CASE Save
  <2>1. FilesInUse'
    BY <1>7, BufferSetInUse DEF Save
  <2> QED
    BY <1>7, <2>1 DEF Save
<1>8. CASE UNCHANGED vars
  BY <1>8 DEF vars, ramfs, editor, FilesInUse
<1> QED
  BY <1>1, <1>2, <1>3, <1>4, <1>5, <1>6, <1>7, <1>8 DEF Next, Select, Shell,
     file_editor_keyboard_int

(* FilesInv holds when the kernel starts.                                  *)
LEMMA FilesInit == Init => FilesInv
<1> SUFFICES ASSUME Init PROVE FilesInv
  OBVIOUS
<1>1. file_length = 0 /\ file_to_edit = NULL /\ found = NULL /\ pc = "idle"
      /\ \A f \in Slots : files[f].deleted
  BY DEF Init
<1>2. \A f \in Slots : ~(f < 0)
  BY SlotsTyped
<1> QED
  BY <1>1, <1>2 DEF FilesInv, FilesInUse

(* FilesInUse: the files in use are the first ones, each with a text, and  *)
(* the file being edited is one of them, whenever the keys come.           *)
THEOREM FilesStayInUse == Spec => []FilesInUse
BY FilesInit, FilesNext, TypeCorrect, PTL DEF Spec, FilesInv

-----------------------------------------------------------------------------

(* While the button is served.                                             *)

(* The editor has the focus, a file is new if none was found, and a text   *)
(* that is saved fits in the buffer.                                       *)
SelectInv ==
  /\ pc # "idle" => focus = "editor"
  /\ pc \in {"create", "reset"} => found = NULL
  /\ Len(literal) <= BufferSize

(* Every step keeps the Select button's order.                             *)
LEMMA SelectNext == TypeOK /\ SelectInv /\ [Next]_vars => SelectInv'
<1> SUFFICES ASSUME TypeOK, SelectInv, [Next]_vars
             PROVE  SelectInv'
  OBVIOUS
<1>1. pc' # "idle" => focus' = "editor"
  <2>1. Select \/ SelectOpens => (pc # "idle" \/ focus = "editor") /\ UNCHANGED focus
    BY DEF Select, SelectOpens, SelectCreates, SelectResets, SelectCopies, SelectMeasures, SelectEnds
  <2>2. Shell \/ StackReused \/ file_editor_keyboard_int \/ UNCHANGED vars
          => UNCHANGED <<pc, focus>>
    BY DEF Shell, StackReused, file_editor_keyboard_int, Touch, Write, TypePath, Save, Discard,
       Backspace, Put, vars
  <2>3. ChangeFocus => pc' = "idle"
    BY DEF ChangeFocus
  <2> QED
    BY <2>1, <2>2, <2>3 DEF Next, SelectInv
<1>2. pc' \in {"create", "reset"} => found' = NULL
  <2>1. CASE SelectOpens \/ SelectCreates
    BY <2>1 DEF SelectOpens, SelectCreates, SelectInv
  <2>2. CASE SelectResets \/ SelectCopies \/ SelectMeasures \/ SelectEnds
    BY <2>2 DEF SelectResets, SelectCopies, SelectMeasures, SelectEnds
  <2>3. Shell \/ StackReused \/ ChangeFocus \/ file_editor_keyboard_int \/ UNCHANGED vars
          => UNCHANGED <<pc, found>>
    BY DEF Shell, StackReused, ChangeFocus, file_editor_keyboard_int, Touch, Write, TypePath, Save,
       Discard, Backspace, Put, vars
  <2> QED
    BY <2>1, <2>2, <2>3 DEF Next, Select, SelectInv
<1>3. UNCHANGED literal \/ literal' = Text(file_buffer)
  BY DEF Next, Select, Shell, file_editor_keyboard_int, SelectOpens, SelectCreates,
     SelectResets, SelectCopies, SelectMeasures, SelectEnds, Touch, Write, StackReused, ChangeFocus,
     TypePath, Save, Discard, Backspace, Put, vars, ramfs
<1>4. Len(Text(file_buffer)) <= BufferSize
  BY LengthIs, TextTyped, SizesTyped DEF TypeOK, BufferTyped
<1> QED
  BY <1>1, <1>2, <1>3, <1>4 DEF SelectInv

(* A key that comes in between is noticed.                                 *)
LEMMA KeysAreNoticed ==
  ASSUME TypeOK, file_editor_keyboard_int, raced' = (raced \/ pc # "idle"), ~raced'
  PROVE  pc = "idle" /\ pc' = "idle" /\ ~raced
BY DEF TypeOK, ControlTyped, file_editor_keyboard_int, TypePath, Save, Discard, Backspace, Put

-----------------------------------------------------------------------------

(* The file being edited.                                                  *)

(* It is the first of its name, and a file is made only if there is none   *)
(* of that name.                                                           *)
First(f) ==
  /\ f \in Slots /\ ~files[f].deleted
  /\ \A g \in Slots : files[g].path = files[f].path /\ ~files[g].deleted => f <= g
FirstInv == ~raced =>
  /\ pc = "create" => file_to_edit = NULL /\ Named(file_path) = {}
  /\ file_to_edit # NULL => First(file_to_edit)

(* What ramfs_open finds is the first of its name.                         *)
LEMMA OpenIsFirst ==
  ASSUME NEW path, ramfs_open(path) # NULL
  PROVE  First(ramfs_open(path))
BY OpenFinds DEF First, Named

(* A new file is behind the others.                                        *)
LEMMA CreateKeepsFirst ==
  ASSUME TypeOK, FilesInUse, NEW path, ramfs_create(path), NEW f, First(f)
  PROVE  First(f)'
<1>1. /\ file_length \in Slots
      /\ \A g \in Slots : files'[g] =
           IF g = file_length THEN [path |-> path, buffer |-> "empty", deleted |-> FALSE]
           ELSE files[g]
  BY CreateKeeps DEF TypeOK
<1>2. f < file_length /\ f \in Slots
  BY DEF First, FilesInUse
<1>3. f # file_length /\ f <= file_length
  BY <1>1, <1>2, SlotsTyped
<1>4. files'[f] = files[f]
  BY <1>1, <1>2, <1>3
<1>5. \A g \in Slots : files'[g].path = files'[f].path /\ ~files'[g].deleted => f <= g
  BY <1>1, <1>3, <1>4 DEF First
<1> QED
  BY <1>2, <1>4, <1>5 DEF First

(* Setting a file's buffer changes nobody's first slot.                    *)
LEMMA BufferSetKeepsFirst ==
  ASSUME RamfsTyped, NEW g, NEW b, files' = [files EXCEPT ![g].buffer = b], NEW f, First(f)
  PROVE  First(f)'
BY BufferSetKeeps DEF First

(* A file of a name that was not there is the first of its name.           *)
LEMMA CreatedIsFirst ==
  ASSUME TypeOK, NEW path, ramfs_create(path), Named(path) = {}, NEW f, f = file_length
  PROVE  First(f)'
<1>1. /\ file_length \in Slots
      /\ \A g \in Slots : files'[g] =
           IF g = file_length THEN [path |-> path, buffer |-> "empty", deleted |-> FALSE]
           ELSE files[g]
  BY CreateKeeps DEF TypeOK
<1>2. ASSUME NEW g \in Slots, files'[g].path = path, ~files'[g].deleted
      PROVE  g = file_length
  BY <1>1, <1>2 DEF Named
<1>3. f <= f
  BY <1>1, SlotsTyped
<1> QED
  BY <1>1, <1>2, <1>3 DEF First

(* Every step keeps the edited file the first of its name.                 *)
LEMMA FirstNext == TypeOK /\ FilesInv /\ SelectInv /\ FirstInv /\ [Next]_vars => FirstInv'
<1> SUFFICES ASSUME TypeOK, FilesInv, SelectInv, FirstInv, [Next]_vars, ~raced'
             PROVE  /\ pc' = "create" => file_to_edit' = NULL /\ Named(file_path)' = {}
                    /\ file_to_edit' # NULL => First(file_to_edit)'
  BY DEF FirstInv
<1>1. ~raced
  BY DEF Next, Select, vars, TypeOK, ControlTyped
<1>2. /\ pc = "create" => file_to_edit = NULL /\ Named(file_path) = {}
      /\ file_to_edit # NULL => First(file_to_edit)
  BY <1>1 DEF FirstInv
<1>3. CASE SelectOpens
  <2>1. /\ file_to_edit' = ramfs_open(file_path) /\ UNCHANGED <<files, file_path>>
        /\ pc' = "create" => file_to_edit' = NULL
    BY <1>3 DEF SelectOpens, ramfs
  <2>2. ramfs_open(file_path) = NULL => Named(file_path) = {}
    BY OpenFinds, SlotsTyped DEF Named
  <2>3. ramfs_open(file_path) # NULL => First(ramfs_open(file_path))
    BY OpenIsFirst
  <2> QED
    BY <2>1, <2>2, <2>3 DEF Named, First
<1>4. CASE SelectCreates
  <2>1. /\ pc' = "reset" /\ ramfs_create(file_path) /\ file_to_edit' = file_length
        /\ Named(file_path) = {}
    BY <1>2, <1>4 DEF SelectCreates
  <2>2. PICK f : f = file_length
    OBVIOUS
  <2>3. First(f)'
    BY <2>1, <2>2, CreatedIsFirst
  <2> QED
    BY <2>1, <2>2, <2>3 DEF First
<1>5. CASE SelectResets \/ SelectCopies \/ SelectMeasures \/ SelectEnds
  BY <1>2, <1>5 DEF SelectResets, SelectCopies, SelectMeasures, SelectEnds, ramfs, First
<1>6. ASSUME NEW path \in Paths, Touch(path)
      PROVE  /\ pc' = "create" => file_to_edit' = NULL /\ Named(file_path)' = {}
             /\ file_to_edit' # NULL => First(file_to_edit)'
  <2>1. pc' = "idle" /\ ramfs_create(path) /\ file_to_edit' = file_to_edit
    BY <1>6 DEF Touch, editor, SelectInv, TypeOK, ControlTyped
  <2>2. file_to_edit # NULL => First(file_to_edit)'
    <3> DEFINE f == file_to_edit
    <3>1. f # NULL => First(f)
      BY <1>2
    <3> HIDE DEF f
    <3> QED
      BY <2>1, <3>1, CreateKeepsFirst DEF FilesInv, First, f
  <2> QED
    BY <2>1, <2>2
<1>7. ASSUME NEW path \in Paths, NEW text \in StackTexts, Write(path, text)
      PROVE  /\ pc' = "create" => file_to_edit' = NULL /\ Named(file_path)' = {}
             /\ file_to_edit' # NULL => First(file_to_edit)'
  <2>1. /\ pc' = "idle" /\ files' = [files EXCEPT ![ramfs_open(path)].buffer = "stack"]
        /\ file_to_edit' = file_to_edit
    BY <1>7 DEF Write, editor, SelectInv, TypeOK, ControlTyped
  <2> QED
    BY <1>2, <2>1, BufferSetKeeps DEF TypeOK, First
<1>8. CASE StackReused \/ ChangeFocus
  BY <1>2, <1>8 DEF StackReused, ChangeFocus, ramfs, editor, First, Named
<1>9. CASE file_editor_keyboard_int /\ raced' = (raced \/ pc # "idle")
  <2>1. pc' = "idle"
    BY <1>9, KeysAreNoticed
  <2>2. file_to_edit' = NULL \/ UNCHANGED <<files, file_to_edit>>
    BY <1>9 DEF file_editor_keyboard_int, TypePath, Save, Discard, Backspace, Put, ramfs
  <2> QED
    BY <1>2, <2>1, <2>2 DEF First
<1>10. CASE UNCHANGED vars
  BY <1>2, <1>10 DEF vars, ramfs, editor, First, Named
<1> QED
  BY <1>3, <1>4, <1>5, <1>6, <1>7, <1>8, <1>9, <1>10 DEF Next, Select, Shell

(* FirstInv and SelectInv hold when the kernel starts.                     *)
LEMMA EditInit == Init => SelectInv /\ FirstInv
<1> SUFFICES ASSUME Init PROVE SelectInv /\ FirstInv
  OBVIOUS
<1>1. pc = "idle" /\ literal = <<>> /\ file_to_edit = NULL
  BY DEF Init
<1>2. Len(literal) <= BufferSize
  BY <1>1, SizesTyped
<1> QED
  BY <1>1, <1>2 DEF SelectInv, FirstInv

(* EditedFileOpens: between clicks, the file being edited is the one its   *)
(* path opens, as long as nobody typed while the button was being served.  *)
THEOREM EditedFileIsFirst == Spec => []EditedFileOpens
<1>1. FirstInv => EditedFileOpens
  <2> SUFFICES ASSUME FirstInv, ~raced, pc = "idle", file_to_edit # NULL
               PROVE  file_to_edit = ramfs_open(files[file_to_edit].path)
    BY DEF EditedFileOpens
  <2> DEFINE g == ramfs_open(files[file_to_edit].path)
  <2>1. First(file_to_edit)
    BY DEF FirstInv
  <2>2. file_to_edit \in Named(files[file_to_edit].path)
    BY <2>1 DEF First, Named
  <2>3. g \in Named(files[file_to_edit].path) /\ g <= file_to_edit
    BY <2>2, OpenFinds
  <2>4. file_to_edit <= g
    BY <2>1, <2>3 DEF First, Named
  <2>5. g \in Nat /\ file_to_edit \in Nat
    BY <2>1, <2>3, SlotsTyped DEF First, Named
  <2> HIDE DEF g
  <2>6. g = file_to_edit
    BY <2>3, <2>4, <2>5
  <2> QED
    BY <2>6 DEF g
<1> QED
  BY <1>1, EditInit, SelectNext, FirstNext, FilesInit, FilesNext, TypeCorrect, PTL DEF Spec

-----------------------------------------------------------------------------

(* The text being edited.                                                  *)

(* The buffer holds the text before the index and nothing behind it; while *)
(* a file is opened it is empty, then it holds that file's text.           *)
Matches == \A c \in Cells : file_buffer[c] = "NUL" <=> c >= file_buffer_index
Shaped == \E n \in Nat : \A c \in Cells : file_buffer[c] = "NUL" <=> c >= n
Opened == pc \in {"length", "clear"} /\ found # NULL /\ files[found].buffer # "stack"
Shown == \A c \in Cells :
  file_buffer[c] = IF c < Len(Contents(found)) THEN Contents(found)[c + 1] ELSE "NUL"
TextInv == ~raced =>
  /\ pc \in {"reset", "copy", "length", "clear"} => file_to_edit # NULL
  /\ pc = "length" => Shaped
  /\ pc # "length" => Matches
  /\ (pc = "idle" /\ file_to_edit = NULL) \/ pc \in {"create", "reset", "copy"}
       => file_buffer_index = 0
  /\ pc = "clear" => file_buffer_index <= BufferSize
  /\ Opened => Shown

(* A text that is copied to an empty buffer is all there is in it.         *)
LEMMA CopiedIsShaped ==
  ASSUME NEW text \in Seq(Char), \A c \in Cells : file_buffer[c] = "NUL"
  PROVE  /\ \A c \in Cells : Copied(text)[c] = IF c < Len(text) THEN text[c + 1] ELSE "NUL"
         /\ \A c \in Cells : Copied(text)[c] = "NUL" <=> c >= Len(text)
<1>1. \A c \in Cells : Copied(text)[c] = IF c < Len(text) THEN text[c + 1] ELSE "NUL"
  BY DEF Copied
<1>2. ASSUME NEW c \in Cells
      PROVE  c < Len(text) => text[c + 1] # "NUL"
  <2>1. c < Len(text) => c + 1 \in 1 .. Len(text)
    BY SlotsTyped
  <2>2. c < Len(text) => text[c + 1] \in Char
    BY <2>1
  <2> QED
    BY <2>2, CharsTyped
<1>3. \A c \in Cells : c >= Len(text) <=> ~(c < Len(text))
  <2> DEFINE n == Len(text)
  <2>1. n \in Nat
    OBVIOUS
  <2> HIDE DEF n
  <2>2. \A c \in Cells : c >= n <=> ~(c < n)
    BY <2>1, SlotsTyped
  <2> QED
    BY <2>2 DEF n
<1> QED
  BY <1>1, <1>2, <1>3

(* The string in such a buffer is the text, if it fits.                    *)
LEMMA ShownReads ==
  ASSUME Shown, Contents(found) \in Seq(Char), Len(Contents(found)) <= BufferSize
  PROVE  /\ Length(file_buffer) = Len(Contents(found))
         /\ Text(file_buffer) = Contents(found)
<1> DEFINE text == Contents(found)
           n == Len(text)
<1>1. text \in Seq(Char) /\ n \in Nat /\ n <= BufferSize
  OBVIOUS
<1>2. \A c \in Cells : file_buffer[c] = IF c < n THEN text[c + 1] ELSE "NUL"
  BY DEF Shown
<1>3. \A k \in 1 .. n : text[k] \in Char
  OBVIOUS
<1> HIDE DEF n, text
<1>4. \A c \in Cells : c < n => c + 1 \in 1 .. n
  BY <1>1, SlotsTyped
<1>5. \A c \in Cells : file_buffer[c] = "NUL" <=> ~(c < n)
  BY <1>2, <1>3, <1>4, CharsTyped
<1>6. \A c \in Cells : file_buffer[c] = "NUL" <=> c >= n
  <2>1. \A c \in Cells : c >= n <=> ~(c < n)
    BY <1>1, SlotsTyped
  <2> QED
    BY <1>5, <2>1
<1>7. Length(file_buffer) = n
  BY <1>1, <1>6, LengthOf
<1>8. Text(file_buffer) = [k \in 1 .. n |-> file_buffer[k - 1]]
  BY <1>7 DEF Text
<1>9. ASSUME NEW k \in 1 .. n
      PROVE  file_buffer[k - 1] = text[k]
  <2>1. k - 1 \in Cells /\ k - 1 < n /\ (k - 1) + 1 = k
    BY <1>1, SizesTyped DEF Cells
  <2> QED
    BY <1>2, <2>1
<1>10. text = [k \in 1 .. n |-> text[k]]
  BY <1>1 DEF n
<1>11. [k \in 1 .. n |-> file_buffer[k - 1]] = [k \in 1 .. n |-> text[k]]
  BY <1>9
<1> QED
  BY <1>7, <1>8, <1>10, <1>11 DEF n, text

(* The keys keep the index behind the text.                                *)
LEMMA BackspaceMatches ==
  ASSUME TypeOK, Matches, Backspace
  PROVE  Matches'
<1>1. /\ file_buffer_index > 0 /\ file_buffer_index \in Nat
      /\ file_buffer_index' = file_buffer_index - 1
  BY SizesTyped DEF Backspace, TypeOK, BufferTyped
<1>2. file_buffer' = [c \in Cells |->
        IF c = file_buffer_index - 1 THEN "NUL" ELSE file_buffer[c]]
  BY DEF Backspace
<1>3. \A c \in Cells : c >= file_buffer_index' <=> c = file_buffer_index - 1 \/ c >= file_buffer_index
  BY <1>1, SlotsTyped
<1> QED
  BY <1>2, <1>3 DEF Matches

(* A character put at the index keeps what lies before it.                 *)
LEMMA PutMatches ==
  ASSUME TypeOK, Matches, NEW chars \in Seq(Char), Len(chars) \in 1 .. 2, Put(chars)
  PROVE  Matches'
<1> DEFINE n == Len(chars)
<1>1. /\ file_buffer_index \in Nat /\ file_buffer_index' = file_buffer_index + n /\ n \in 1 .. 2
  BY SizesTyped DEF Put, TypeOK, BufferTyped
<1>2. \A c \in Cells : file_buffer'[c] =
        IF c - file_buffer_index \in 0 .. n - 1
        THEN chars[c - file_buffer_index + 1] ELSE file_buffer[c]
  BY DEF Put
<1>3. \A k \in 1 .. n : chars[k] \in Char
  OBVIOUS
<1> HIDE DEF n
<1>4. ASSUME NEW c \in Cells, c - file_buffer_index \in 0 .. n - 1
      PROVE  chars[c - file_buffer_index + 1] # "NUL" /\ ~(c >= file_buffer_index')
  <2>1. (c - file_buffer_index) + 1 \in 1 .. n /\ ~(c >= file_buffer_index')
    BY <1>1, <1>4, SlotsTyped
  <2> QED
    BY <1>3, <2>1, CharsTyped
<1>5. ASSUME NEW c \in Cells, c - file_buffer_index \notin 0 .. n - 1
      PROVE  c >= file_buffer_index' <=> c >= file_buffer_index
  BY <1>1, <1>5, SlotsTyped
<1> QED
  BY <1>2, <1>4, <1>5 DEF Matches

(* An empty buffer matches the index zero.                                 *)
LEMMA EmptyMatches ==
  ASSUME NEW buffer, buffer = EmptyBuffer
  PROVE  \A c \in Cells : buffer[c] = "NUL" <=> c >= 0
BY SlotsTyped DEF EmptyBuffer

(* The keys, when nothing else is going on.                                *)
LEMMA TextKeys ==
  ASSUME TypeOK, TextInv, file_editor_keyboard_int, raced' = (raced \/ pc # "idle"), ~raced'
  PROVE  TextInv'
<1>1. pc = "idle" /\ pc' = "idle" /\ ~raced
  BY KeysAreNoticed
<1>2. Matches /\ (file_to_edit = NULL => file_buffer_index = 0)
  BY <1>1 DEF TextInv
<1> SUFFICES Matches' /\ (file_to_edit' = NULL => file_buffer_index' = 0)
  BY <1>1 DEF TextInv, Opened
<1>3. CASE TypePath
  BY <1>2, <1>3 DEF TypePath, Matches
<1>4. CASE Save \/ Discard
  BY <1>4, EmptyMatches DEF Save, Discard, Matches
<1>5. CASE Backspace
  BY <1>2, <1>5, BackspaceMatches DEF Backspace, Editing
<1>6. ASSUME NEW chars \in Seq(Char), Len(chars) \in 1 .. 2, Put(chars)
      PROVE  Matches' /\ (file_to_edit' = NULL => file_buffer_index' = 0)
  BY <1>2, <1>6, PutMatches DEF Put, Editing
<1>7. CASE Put(<<"CR", "LF">>)
  <2>1. <<"CR", "LF">> \in Seq(Char) /\ Len(<<"CR", "LF">>) = 2
    BY CharsTyped
  <2>2. Len(<<"CR", "LF">>) \in 1 .. 2
    BY <2>1
  <2> QED
    BY <1>6, <1>7, <2>1, <2>2
<1>8. ASSUME NEW key \in Keys, Put(<<key>>)
      PROVE  Matches' /\ (file_to_edit' = NULL => file_buffer_index' = 0)
  <2>1. <<key>> \in Seq(Char) /\ Len(<<key>>) = 1
    BY CharsTyped
  <2>2. Len(<<key>>) \in 1 .. 2
    BY <2>1
  <2> QED
    BY <1>6, <1>8, <2>1, <2>2
<1> QED
  BY <1>3, <1>4, <1>5, <1>7, <1>8 DEF file_editor_keyboard_int

(* The steps that open a file.                                             *)
LEMMA TextSelect ==
  ASSUME TypeOK, FilesInv, SelectInv, TextInv, ~raced, ~raced', SelectOpens \/ Select
  PROVE  TextInv'
<1>1. /\ pc \in {"reset", "copy", "length", "clear"} => file_to_edit # NULL
      /\ pc = "length" => Shaped
      /\ pc # "length" => Matches
      /\ (pc = "idle" /\ file_to_edit = NULL) \/ pc \in {"create", "reset", "copy"}
           => file_buffer_index = 0
      /\ pc = "clear" => file_buffer_index <= BufferSize
      /\ Opened => Shown
  BY DEF TextInv
<1>2. CASE SelectOpens
  <2>1. /\ pc = "idle" /\ file_to_edit = NULL /\ pc' \in {"create", "copy"}
        /\ UNCHANGED <<file_buffer, file_buffer_index>>
        /\ pc' = "copy" => file_to_edit' # NULL
    BY <1>2 DEF SelectOpens
  <2> QED
    BY <1>1, <2>1 DEF TextInv, Matches, Opened
<1>3. CASE SelectCreates
  <2>1. /\ pc = "create" /\ pc' = "reset" /\ file_to_edit' = file_length
        /\ UNCHANGED <<file_buffer, file_buffer_index>>
    BY <1>3 DEF SelectCreates
  <2>2. file_length # NULL
    BY <1>3, SlotsTyped, CreateKeeps DEF SelectCreates, TypeOK
  <2> QED
    BY <1>1, <2>1, <2>2 DEF TextInv, Matches, Opened
<1>4. CASE SelectResets
  <2>1. /\ pc = "reset" /\ pc' = "clear" /\ file_buffer_index' = 0
        /\ UNCHANGED <<file_buffer, found, file_to_edit>>
    BY <1>4 DEF SelectResets
  <2>2. found = NULL /\ file_buffer_index' <= BufferSize
    BY <2>1, SizesTyped DEF SelectInv
  <2> QED
    BY <1>1, <2>1, <2>2 DEF TextInv, Matches, Opened
<1>5. CASE SelectCopies
  <2>1. /\ pc = "copy" /\ pc' = "length" /\ file_buffer' = Copied(Contents(found))
        /\ UNCHANGED <<ramfs, found, file_to_edit>>
    BY <1>5 DEF SelectCopies
  <2>2. Contents(found)' = Contents(found)
    BY <2>1 DEF Contents, ramfs
  <2>3. \A c \in Cells : file_buffer[c] = "NUL"
    BY <1>1, <2>1, SlotsTyped DEF Matches
  <2> DEFINE text == Contents(found)
             n == Len(text)
  <2>4. text \in Seq(Char) /\ n \in Nat
    BY ContentsTyped DEF TypeOK
  <2> HIDE DEF text
  <2>5. /\ \A c \in Cells : file_buffer'[c] = IF c < n THEN text[c + 1] ELSE "NUL"
        /\ \A c \in Cells : file_buffer'[c] = "NUL" <=> c >= n
    BY <2>1, <2>3, <2>4, CopiedIsShaped DEF text
  <2>6. Shaped'
    BY <2>4, <2>5 DEF Shaped
  <2>7. Shown'
    BY <2>2, <2>5 DEF Shown, text
  <2> QED
    BY <1>1, <2>1, <2>6, <2>7 DEF TextInv
<1>6. CASE SelectMeasures
  <2>1. /\ pc = "length" /\ pc' = "clear" /\ file_buffer_index' = Length(file_buffer)
        /\ UNCHANGED <<ramfs, found, file_buffer, file_to_edit>>
    BY <1>6 DEF SelectMeasures
  <2>2. Matches'
    <3>1. PICK n \in Nat : \A c \in Cells : file_buffer[c] = "NUL" <=> c >= n
      BY <1>1, <2>1 DEF Shaped
    <3>2. Length(file_buffer) = IF n <= BufferSize THEN n ELSE BufferSize
      BY <3>1, LengthOf
    <3>3. \A c \in Cells : c >= n <=> c >= Length(file_buffer)
      BY <3>2, SizesTyped DEF Cells
    <3> QED
      BY <2>1, <3>1, <3>3 DEF Matches
  <2>3. Opened' => Shown'
    BY <1>1, <2>1 DEF Opened, Shown, Contents, ramfs
  <2>4. file_buffer_index' <= BufferSize
    BY <2>1, LengthIs, SizesTyped
  <2> QED
    BY <1>1, <2>1, <2>2, <2>3, <2>4 DEF TextInv
<1>7. CASE SelectEnds
  <2>1. pc = "clear" /\ pc' = "idle" /\ found' = NULL
        /\ UNCHANGED <<file_buffer, file_buffer_index, file_to_edit>>
    BY <1>7 DEF SelectEnds
  <2> QED
    BY <1>1, <2>1 DEF TextInv, Matches, Opened
<1> QED
  BY <1>2, <1>3, <1>4, <1>5, <1>6, <1>7 DEF Select

(* Every step keeps the text and the index together.                       *)
LEMMA TextNext == TypeOK /\ FilesInv /\ SelectInv /\ TextInv /\ [Next]_vars => TextInv'
<1> SUFFICES ASSUME TypeOK, FilesInv, SelectInv, TextInv, [Next]_vars, ~raced'
             PROVE  TextInv'
  BY DEF TextInv
<1>1. ~raced
  BY DEF Next, Select, vars, TypeOK, ControlTyped
<1>2. CASE Select \/ SelectOpens
  BY <1>1, <1>2, TextSelect
<1>3. CASE file_editor_keyboard_int /\ raced' = (raced \/ pc # "idle")
  BY <1>3, TextKeys
<1>4. CASE Shell \/ ChangeFocus
  <2>1. pc = "idle" /\ pc' = "idle"
    BY <1>4 DEF Shell, ChangeFocus, Touch, Write, SelectInv, TypeOK, ControlTyped
  <2>2. UNCHANGED <<file_buffer, file_buffer_index, file_to_edit>>
    BY <1>4 DEF Shell, ChangeFocus, Touch, Write, editor
  <2> QED
    BY <1>1, <2>1, <2>2 DEF TextInv, Matches, Opened
<1>5. CASE StackReused
  <2>1. UNCHANGED <<files, literal, pc, found, file_buffer, file_buffer_index, file_to_edit>>
    BY <1>5 DEF StackReused, editor
  <2>2. Opened => Contents(found)' = Contents(found)
    BY <2>1 DEF Opened, Contents
  <2> QED
    BY <1>1, <2>1, <2>2 DEF TextInv, Matches, Shaped, Opened, Shown
<1>6. CASE UNCHANGED vars
  BY <1>1, <1>6 DEF vars, ramfs, editor, TextInv, Matches, Shaped, Opened, Shown, Contents
<1> QED
  BY <1>2, <1>3, <1>4, <1>5, <1>6 DEF Next

(* The two hold when the kernel starts.                                    *)
LEMMA TextInit == Init => TextInv
<1> SUFFICES ASSUME Init PROVE TextInv
  OBVIOUS
<1>1. pc = "idle" /\ file_buffer = EmptyBuffer /\ file_buffer_index = 0
  BY DEF Init
<1> QED
  BY <1>1, EmptyMatches DEF TextInv, Matches, Opened

(* The five invariants together.                                           *)
LEMMA EditorInvariant == Spec => [](TypeOK /\ FilesInv /\ SelectInv /\ FirstInv /\ TextInv)
BY EditInit, SelectNext, FirstNext, FilesInit, FilesNext, TextInit, TextNext, TypeCorrect, PTL
   DEF Spec

(* BufferMatchesIndex: the text is what lies before the index, nothing     *)
(* lies after it, and without a file there is none.                        *)
THEOREM TextIsBeforeIndex == Spec => []BufferMatchesIndex
<1>1. TextInv => BufferMatchesIndex
  BY DEF TextInv, BufferMatchesIndex, Matches
<1> QED
  BY <1>1, EditorInvariant, PTL

(* OpenShowsFile: a file that has been opened is shown as it is, with the  *)
(* index behind it, unless its text is on the stack.                       *)
THEOREM OpenedFileIsShown == Spec => []OpenShowsFile
<1>1. TypeOK /\ SelectInv /\ TextInv => OpenShowsFile
  <2> SUFFICES ASSUME TypeOK, SelectInv, TextInv, ~raced, pc = "clear", found # NULL,
                      files[found].buffer # "stack"
               PROVE  /\ Text(file_buffer) = Contents(found)
                      /\ file_buffer_index = Len(Contents(found))
    BY DEF OpenShowsFile
  <2>1. Shown /\ Matches
    BY DEF TextInv, Opened
  <2>2. Contents(found) \in Seq(Char) /\ Len(Contents(found)) <= BufferSize
    <3>1. Contents(found) = literal \/ Contents(found) = <<>>
      BY DEF Contents
    <3>2. Len(<<>>) <= BufferSize
      BY SizesTyped
    <3> QED
      BY <3>1, <3>2, ContentsTyped DEF SelectInv, TypeOK
  <2>3. Text(file_buffer) = Contents(found) /\ Length(file_buffer) = Len(Contents(found))
    BY <2>1, <2>2, ShownReads
  <2>4. file_buffer_index = Length(file_buffer)
    <3>1. file_buffer_index <= BufferSize
      BY DEF TextInv
    <3>2. file_buffer_index \in Nat
      BY SizesTyped DEF TypeOK, BufferTyped
    <3> QED
      BY <2>1, <3>1, <3>2, LengthOf DEF Matches
  <2> QED
    BY <2>3, <2>4
<1> QED
  BY <1>1, EditorInvariant, PTL
===============================================================================
