-------------------------- MODULE BootLoader_proofs ---------------------------

(* Theorems about the boot loader, for every kernel, every set of          *)
(* configuration tables and every size of the memory and its map, and      *)
(* about the loader with its messages, for every run of failures of the    *)
(* serial port.                                                            *)
EXTENDS SerialConsole, TLAPS

(* The actions in groups, by the variables they change.                    *)
Calls ==
  \/ SetUp \/ InitSerial \/ NoGraphics \/ OpenVolume
  \/ ReadIdentity \/ ValidateIdentity \/ ReadHeader \/ ReadHeaders
  \/ SegmentsEnd \/ ExitBootServices \/ EnterKernel
Allocations ==
  \/ InitGraphics \/ SetMode \/ AllocateIdentity \/ AllocateHeader \/ AllocateHeaders
  \/ AllocateBuffer
Releases ==
  \/ FreeIdentity \/ FreeBuffer \/ FreeHeader \/ FreeHeaders \/ CloseGraphics

(* Every step is one of a group or one of those apart.                     *)
LEMMA ActionGroups ==
  Next <=> \/ Calls \/ Allocations \/ Releases \/ OpenKernel \/ SetEntry \/ SkipHeader
           \/ AllocateSegment \/ CopySegment \/ ZeroSegment \/ CloseKernel \/ LoadFont
           \/ FindRsdp \/ AskSize \/ AllocateMap \/ GetMap \/ Fails \/ FirmwareEvent
BY DEF Next, efi_main, HandOver, load_kernel_image, LoadSegments, Calls, Allocations, Releases

(* What a call, an allocation and a release change.                        *)
LEMMA CallFrame == Calls => UNCHANGED <<image, tables, firmware, loader, failed>>
BY DEF Calls, SetUp, InitSerial, NoGraphics, OpenVolume, ReadIdentity, ValidateIdentity,
       ReadHeader, ReadHeaders, SegmentsEnd, ExitBootServices, EnterKernel, Call, Step,
       firmware, loader

(* An allocation takes buffers and makes the map's key stale.              *)
LEMMA AllocationFrame ==
  Allocations => /\ UNCHANGED <<image, tables, pages, files, described, disturbed, loader, failed>>
                 /\ fresh' = FALSE
                 /\ \E buffers \in SUBSET Buffers : pool' = pool \cup buffers
<1> SUFFICES ASSUME NEW buffers \in SUBSET Buffers, NEW from, NEW to, Allocate(from, buffers, to)
             PROVE  /\ UNCHANGED <<image, tables, pages, files, described, disturbed, loader, failed>>
                    /\ fresh' = FALSE
                    /\ \E b \in SUBSET Buffers : pool' = pool \cup b
  BY DEF Allocations, InitGraphics, SetMode, AllocateIdentity, AllocateHeader, AllocateHeaders,
         AllocateBuffer, Buffers
<1> QED
  BY DEF Allocate, Allocates, Step

(* So does giving one back.                                                *)
LEMMA ReleaseFrame ==
  Releases => /\ UNCHANGED <<image, tables, pages, files, described, disturbed, loader, failed>>
              /\ fresh' = FALSE
              /\ pool' \subseteq pool
BY DEF Releases, FreeIdentity, FreeBuffer, FreeHeader, FreeHeaders, CloseGraphics, Free, Frees,
       Step

-----------------------------------------------------------------------------

(* The search for the ACPI root.                                           *)

(* RsdpIsRootPointer: for every order of the configuration tables, what    *)
(* efi_main's loop finds for the kernel is a root pointer.                 *)
THEOREM RootPointerFound == Spec => []RsdpIsRootPointer
<1>1. Init => RsdpIsRootPointer
  BY DEF Init, RsdpIsRootPointer
<1>2. RsdpIsRootPointer /\ [Next]_vars => RsdpIsRootPointer'
  <2> SUFFICES ASSUME RsdpIsRootPointer, [Next]_vars
               PROVE  RsdpIsRootPointer'
    OBVIOUS
  <2>1. CASE FindRsdp
    BY <2>1 DEF FindRsdp, RsdpIsRootPointer, Matches, Signed, Step
  <2>2. UNCHANGED <<rsdp, tables>> => RsdpIsRootPointer'
    BY DEF RsdpIsRootPointer
  <2>3. CASE Calls \/ Allocations \/ Releases
    BY <2>2, <2>3, CallFrame, AllocationFrame, ReleaseFrame DEF loader
  <2>4. CASE \/ OpenKernel \/ SetEntry \/ SkipHeader \/ AllocateSegment \/ CopySegment
             \/ ZeroSegment \/ CloseKernel \/ LoadFont \/ AskSize \/ AllocateMap \/ GetMap
    BY <2>2, <2>4 DEF OpenKernel, SetEntry, SkipHeader, AllocateSegment, CopySegment,
       ZeroSegment, CloseKernel, LoadFont, AskSize, AllocateMap, GetMap, Step, loader
  <2>5. CASE Fails \/ FirmwareEvent
    BY <2>2, <2>5 DEF Fails, GiveUp, FirmwareEvent, loader
  <2>6. CASE UNCHANGED vars
    BY <2>2, <2>6 DEF vars, loader
  <2> QED
    BY <2>1, <2>3, <2>4, <2>5, <2>6, ActionGroups
<1> QED
  BY <1>1, <1>2, PTL DEF Spec

-----------------------------------------------------------------------------

(* Types.                                                                  *)

(* The number of a header is that of one while its segment is loaded, and  *)
(* the map has at most two descriptors more than the firmware bounds it    *)
(* to, and only once the loader has made its buffer.                       *)
Loading == {"buffer", "copy", "free buffer", "zero"}
Bounded ==
  /\ pc \in Loading => AtHeader
  /\ pc \notin {"map", "exit", "enter", "entered", "failed"} => described <= MaxDescriptors
  /\ pc = "map buffer" => room <= MaxDescriptors
TypeInv == TypeOK /\ Bounded

(* The constants' types.                                                   *)
LEMMA SizesTyped ==
  PageSize \in Nat \ {0, 1} /\ NPages \in Nat \ {0} /\ MaxDescriptors \in Nat \ {0}
BY BootAssumption

(* The tables form a sequence.                                             *)
LEMMA TablesTyped ==
  ASSUME tables \in ConfigTables
  PROVE  Len(tables) \in Nat /\ DOMAIN tables = 1 .. Len(tables)
<1> DEFINE Kinds == {"ACPI 2.0", "ACPI 1.0", "other"}
<1>1. tables \in Seq(Kinds)
  BY BootAssumption
<1> HIDE DEF Kinds
<1> QED
  BY <1>1

(* So do the program headers.                                              *)
LEMMA HeadersTyped ==
  ASSUME image \in Images
  PROVE  /\ Len(image.headers) \in Nat
         /\ DOMAIN image.headers = 1 .. Len(image.headers)
         /\ \A n \in DOMAIN image.headers : image.headers[n] \in Header
<1>1. image.headers \in Seq(Header)
  BY BootAssumption
<1> QED
  BY <1>1

(* What each kind of step keeps.                                           *)
Sets == /\ image \in Images /\ tables \in ConfigTables
        /\ pool \subseteq Buffers /\ pages \subseteq Page /\ files \subseteq {"kernel", "font"}
        /\ fresh \in BOOLEAN /\ disturbed \in BOOLEAN
Numbers == /\ p \in 1 .. Len(image.headers) + 1 /\ rsdp \in 0 .. Len(tables)
           /\ described \in 1 .. MaxDescriptors + 2 /\ room \in 0 .. MaxDescriptors + 2
MemoryTyped == memory \in [Cell -> Nat \cup {BLANK, ZERO, ENTRY, FONT}]

(* The three parts are the whole of the type.                              *)
LEMMA TypeParts ==
  /\ TypeOK => Sets /\ Numbers /\ MemoryTyped
  /\ Sets' /\ Numbers' /\ MemoryTyped' => TypeOK'
BY DEF TypeOK, Sets, Numbers, MemoryTyped

(* A step that changes only the pool and the flags keeps it.               *)
LEMMA QuietTypes ==
  ASSUME TypeInv, UNCHANGED <<image, tables, pages, files, described, memory, p, rsdp, room>>,
         pool' \subseteq Buffers, fresh' \in BOOLEAN, disturbed' \in BOOLEAN
  PROVE  TypeOK'
BY DEF TypeInv, TypeOK

(* The types hold when efi_main is entered.                                *)
LEMMA TypeInit == Init => TypeInv
<1> SUFFICES ASSUME Init PROVE TypeInv
  OBVIOUS
<1>1. image \in Images /\ tables \in ConfigTables /\ pool \subseteq Buffers /\ pages \subseteq Page
      /\ files \subseteq {"kernel", "font"}
  BY DEF Init
<1>2. p \in 1 .. Len(image.headers) + 1 /\ rsdp \in 0 .. Len(tables)
  <2>1. Len(image.headers) \in Nat /\ Len(tables) \in Nat
    BY <1>1, HeadersTyped, TablesTyped
  <2>2. p = 1 /\ rsdp = 0
    BY DEF Init
  <2> QED
    BY <2>1, <2>2
<1>3. memory \in [Cell -> Nat \cup {BLANK, ZERO, ENTRY, FONT}]
  BY DEF Init
<1>4. described \in 1 .. MaxDescriptors + 2 /\ room \in 0 .. MaxDescriptors + 2 /\ described <= MaxDescriptors
  <2>1. described = 1 /\ room = 0
    BY DEF Init
  <2> QED
    BY <2>1, SizesTyped
<1>5. fresh \in BOOLEAN /\ disturbed \in BOOLEAN /\ pc = "set up"
  BY DEF Init
<1> QED
  BY <1>1, <1>2, <1>3, <1>4, <1>5 DEF TypeInv, TypeOK, Bounded, Loading

(* What the copy of a segment leaves is of the memory's type.              *)
LEMMA CopyTyped ==
  ASSUME image \in Images, AtHeader, MemoryTyped
  PROVE  [c \in Cell |-> IF c - Segment.paddr \in 0 .. Segment.filesz - 1
                         THEN Segment.offset + (c - Segment.paddr) ELSE memory[c]]
           \in [Cell -> Nat \cup {BLANK, ZERO, ENTRY, FONT}]
<1>1. Segment \in Header
  BY HeadersTyped DEF AtHeader, Segment
<1>2. Segment.offset \in Nat /\ Segment.filesz \in Nat /\ Segment.paddr \in Cell
  BY <1>1 DEF Header
<1>3. ASSUME NEW c \in Cell, c - Segment.paddr \in 0 .. Segment.filesz - 1
      PROVE  Segment.offset + (c - Segment.paddr) \in Nat
  BY <1>2, <1>3
<1> QED
  BY <1>3 DEF MemoryTyped

(* Every step keeps the types.                                             *)
LEMMA TypeNext == TypeInv /\ [Next]_vars => TypeInv'
<1> SUFFICES ASSUME TypeInv, [Next]_vars
             PROVE  TypeInv'
  OBVIOUS
<1> USE DEF TypeInv
<1>1. Len(image.headers) \in Nat /\ Len(tables) \in Nat /\ MaxDescriptors \in Nat
      /\ DOMAIN image.headers = 1 .. Len(image.headers) /\ DOMAIN tables = 1 .. Len(tables)
  BY HeadersTyped, TablesTyped, SizesTyped DEF TypeOK
<1>2. CASE Calls
  <2>1. TypeOK'
    BY <1>2, CallFrame, QuietTypes DEF TypeOK, firmware, loader
  <2>2. Bounded'
    BY <1>2 DEF Bounded, Loading, AtHeader, Calls, SetUp, InitSerial, NoGraphics, OpenVolume,
       ReadIdentity, ValidateIdentity, ReadHeader, ReadHeaders, SegmentsEnd, ExitBootServices,
       EnterKernel, Call, Step, loader
  <2> QED
    BY <2>1, <2>2
<1>3. CASE Allocations
  <2>1. TypeOK'
    BY <1>3, AllocationFrame, QuietTypes DEF TypeOK, loader
  <2>2. Bounded'
    BY <1>3 DEF Bounded, Loading, AtHeader, Allocations, InitGraphics, SetMode, AllocateIdentity,
       AllocateHeader, AllocateHeaders, AllocateBuffer, Allocate, Step, loader
  <2> QED
    BY <2>1, <2>2
<1>4. CASE Releases
  <2>1. TypeOK'
    BY <1>4, ReleaseFrame, QuietTypes DEF TypeOK, loader
  <2>2. Bounded'
    BY <1>4 DEF Bounded, Loading, AtHeader, Releases, FreeIdentity, FreeBuffer, FreeHeader,
       FreeHeaders, CloseGraphics, Free, Step, loader
  <2> QED
    BY <2>1, <2>2
<1>5. CASE OpenKernel \/ CloseKernel
  BY <1>5 DEF OpenKernel, CloseKernel, Step, loader, TypeOK, Bounded, Loading, AtHeader
<1>6. CASE SetEntry \/ CopySegment
  <2>1. Sets'
    BY <1>6, TypeParts DEF SetEntry, CopySegment, Step, Sets
  <2>2. Numbers'
    BY <1>6, TypeParts DEF SetEntry, CopySegment, Step, Numbers
  <2>3. MemoryTyped'
    <3>1. CASE SetEntry
      BY <3>1, TypeParts DEF SetEntry, MemoryTyped
    <3>2. CASE CopySegment
      <4>1. image \in Images /\ AtHeader /\ MemoryTyped
        BY <3>2, TypeParts DEF CopySegment, Step, Bounded, Loading, Sets
      <4> QED
        BY <3>2, <4>1, CopyTyped DEF CopySegment, MemoryTyped
    <3> QED
      BY <1>6, <3>1, <3>2
  <2>5. Bounded'
    BY <1>6 DEF SetEntry, CopySegment, Step, Bounded, Loading, AtHeader
  <2> QED
    BY <2>1, <2>2, <2>3, <2>5, TypeParts
<1>7. CASE SkipHeader \/ AllocateSegment
  <2>1. Sets'
    BY <1>7, TypeParts DEF SkipHeader, AllocateSegment, Step, Sets, loader, PagesOf
  <2>2. Numbers' /\ MemoryTyped'
    BY <1>1, <1>7, TypeParts DEF SkipHeader, AllocateSegment, Step, loader, Numbers, MemoryTyped,
       AtHeader
  <2>3. Bounded'
    BY <1>7 DEF SkipHeader, AllocateSegment, Step, loader, Bounded, Loading, AtHeader
  <2> QED
    BY <2>1, <2>2, <2>3, TypeParts
<1>8. CASE ZeroSegment
  BY <1>1, <1>8 DEF ZeroSegment, Step, TypeOK, Bounded, Loading, AtHeader
<1>9. CASE LoadFont
  BY <1>9 DEF LoadFont, Allocates, Step, TypeOK, Bounded, Loading, AtHeader, Buffers
<1>10. CASE FindRsdp
  <2>1. Sets' /\ MemoryTyped'
    BY <1>10, TypeParts DEF FindRsdp, Step, Sets, MemoryTyped
  <2>2. rsdp' \in DOMAIN tables \cup {0}
    BY <1>10 DEF FindRsdp, Matches
  <2>3. Numbers'
    <3>1. UNCHANGED <<image, tables, p, described, room>>
      BY <1>10 DEF FindRsdp, Step
    <3> QED
      BY <1>1, <2>2, <3>1, TypeParts DEF Numbers
  <2>4. Bounded'
    BY <1>10 DEF FindRsdp, Step, Bounded, Loading, AtHeader
  <2> QED
    BY <2>1, <2>3, <2>4, TypeParts
<1>11. CASE AskSize \/ AllocateMap
  <2>1. Sets' /\ MemoryTyped'
    BY <1>11, TypeParts DEF AskSize, AllocateMap, Allocates, Step, Sets, MemoryTyped, Buffers
  <2>2. Numbers' /\ Bounded'
    <3>1. CASE AskSize
      <4>1. /\ UNCHANGED <<image, tables, p, rsdp>>
            /\ described' \in 1 .. MaxDescriptors /\ room' = described'
        BY <3>1 DEF AskSize, Step
      <4>2. pc' = "map buffer"
        BY <3>1 DEF AskSize, Step
      <4> QED
        <5>1. Numbers'
          BY <1>1, <4>1, TypeParts DEF Numbers
        <5>2. described' <= MaxDescriptors /\ room' <= MaxDescriptors
          BY <1>1, <4>1
        <5> QED
          BY <4>2, <5>1, <5>2 DEF Bounded, Loading
    <3>2. CASE AllocateMap
      <4>1. /\ UNCHANGED <<image, tables, p, rsdp>>
            /\ described' \in described .. described + 2 /\ room' = room + 2
        BY <3>2 DEF AllocateMap, Step
      <4>2. pc = "map buffer" /\ pc' = "map"
        BY <3>2 DEF AllocateMap, Step
      <4> QED
        <5>1. described <= MaxDescriptors /\ room <= MaxDescriptors
          BY <4>2 DEF Bounded
        <5>2. Numbers'
          BY <1>1, <4>1, <5>1, TypeParts DEF Numbers
        <5> QED
          BY <4>2, <5>2 DEF Bounded, Loading
    <3> QED
      BY <1>11, <3>1, <3>2
  <2> QED
    BY <2>1, <2>2, TypeParts
<1>12. CASE GetMap
  BY <1>1, <1>12 DEF GetMap, Step, TypeOK, Bounded, Loading, AtHeader
<1>13. CASE Fails \/ FirmwareEvent
  <2>1. Sets' /\ MemoryTyped'
    BY <1>13, TypeParts DEF Fails, GiveUp, FirmwareEvent, Sets, MemoryTyped, firmware, loader
  <2>2. Numbers'
    <3>1. /\ UNCHANGED <<image, tables, p, rsdp, room>>
          /\ described' = described \/ described' \in 1 .. MaxDescriptors
      BY <1>13 DEF Fails, GiveUp, FirmwareEvent, firmware, loader
    <3> QED
      BY <1>1, <3>1, TypeParts DEF Numbers
  <2>3. Bounded'
    <3>1. CASE Fails
      BY <3>1 DEF Fails, GiveUp, Bounded, Loading
    <3>2. CASE FirmwareEvent
      <4>1. UNCHANGED <<pc, image, p, room>> /\ described' \in 1 .. MaxDescriptors
        BY <3>2 DEF FirmwareEvent, loader
      <4> QED
        <5>1. AtHeader' <=> AtHeader
          BY <4>1 DEF AtHeader
        <5>2. described' <= MaxDescriptors
          BY <1>1, <4>1
        <5> QED
          BY <4>1, <5>1, <5>2 DEF Bounded
    <3> QED
      BY <1>13, <3>1, <3>2
  <2> QED
    BY <2>1, <2>2, <2>3, TypeParts
<1>14. CASE UNCHANGED vars
  BY <1>14 DEF vars, firmware, loader, TypeOK, Bounded, Loading, AtHeader
<1> QED
  BY <1>2, <1>3, <1>4, <1>5, <1>6, <1>7, <1>8, <1>9, <1>10, <1>11, <1>12, <1>13, <1>14, ActionGroups

(* TypeOK: every variable keeps its type.                                  *)
THEOREM TypeCorrect == Spec => []TypeOK
BY TypeInit, TypeNext, PTL DEF Spec, TypeInv

-----------------------------------------------------------------------------

(* The memory map and its key.                                             *)

(* Of the steps that go on, only GetMap leads to ExitBootServices, only    *)
(* AllocateMap to the second GetMemoryMap and only AskSize to AllocateMap. *)
GoesOn ==
  \/ Calls \/ Allocations \/ Releases \/ OpenKernel \/ SetEntry \/ SkipHeader
  \/ AllocateSegment \/ CopySegment \/ ZeroSegment \/ CloseKernel \/ LoadFont \/ FindRsdp

(* No other step of the loader goes to one of these calls or fails.        *)
LEMMA GoesOnFrame ==
  GoesOn => pc' \notin {"map buffer", "map", "exit", "failed"} /\ UNCHANGED <<failed, disturbed>>
<1>1. Calls => pc' \notin {"map buffer", "map", "exit", "failed"} /\ UNCHANGED <<failed, disturbed>>
  BY DEF Calls, SetUp, InitSerial, NoGraphics, OpenVolume, ReadIdentity, ValidateIdentity,
     ReadHeader, ReadHeaders, SegmentsEnd, ExitBootServices, EnterKernel, Call, Step
<1>2. Allocations => pc' \notin {"map buffer", "map", "exit", "failed"} /\ UNCHANGED <<failed, disturbed>>
  BY DEF Allocations, InitGraphics, SetMode, AllocateIdentity, AllocateHeader, AllocateHeaders,
     AllocateBuffer, Allocate, Step
<1>3. Releases => pc' \notin {"map buffer", "map", "exit", "failed"} /\ UNCHANGED <<failed, disturbed>>
  BY DEF Releases, FreeIdentity, FreeBuffer, FreeHeader, FreeHeaders, CloseGraphics, Free, Step
<1>4. OpenKernel \/ SetEntry \/ SkipHeader \/ AllocateSegment \/ CopySegment \/ ZeroSegment
      \/ CloseKernel \/ LoadFont \/ FindRsdp
        => pc' \notin {"map buffer", "map", "exit", "failed"} /\ UNCHANGED <<failed, disturbed>>
  BY DEF OpenKernel, SetEntry, SkipHeader, AllocateSegment, CopySegment, ZeroSegment,
     CloseKernel, LoadFont, FindRsdp, Step
<1> QED
  BY <1>1, <1>2, <1>3, <1>4 DEF GoesOn

(* Every step goes on, is one of the three calls or an end to them.        *)
LEMMA NextGroups ==
  Next <=> GoesOn \/ AskSize \/ AllocateMap \/ GetMap \/ Fails \/ FirmwareEvent
BY ActionGroups DEF GoesOn

(* The key is fresh when boot services are to end.                         *)
KeyInv == KeyIsFresh /\ (pc = "exit" => fresh \/ disturbed)

(* KeyIsFresh: ExitBootServices is refused only because of the firmware.   *)
THEOREM KeyStaysFresh == Spec => []KeyIsFresh
<1>1. Init => KeyInv
  BY DEF Init, KeyInv, KeyIsFresh
<1>2. KeyInv /\ [Next]_vars => KeyInv'
  <2> SUFFICES ASSUME KeyInv, [Next]_vars
               PROVE  KeyInv'
    OBVIOUS
  <2>1. CASE GoesOn
    BY <2>1, GoesOnFrame DEF KeyInv, KeyIsFresh
  <2>2. CASE AskSize \/ AllocateMap \/ GetMap
    BY <2>2 DEF AskSize, AllocateMap, GetMap, Step, KeyInv, KeyIsFresh
  <2>3. CASE Fails
    <3>1. pc' = "failed" /\ failed' = pc /\ (pc = "exit" => ~fresh) /\ UNCHANGED disturbed
      BY <2>3 DEF Fails, GiveUp, firmware
    <3> QED
      BY <3>1 DEF KeyInv, KeyIsFresh
  <2>4. CASE FirmwareEvent
    BY <2>4 DEF FirmwareEvent, KeyInv, KeyIsFresh
  <2>5. CASE UNCHANGED vars
    BY <2>5 DEF vars, firmware, KeyInv, KeyIsFresh
  <2> QED
    BY <2>1, <2>2, <2>3, <2>4, <2>5, NextGroups
<1> QED
  BY <1>1, <1>2, PTL DEF Spec, KeyInv

(* Two descriptors more than there were is room enough.                    *)
MapInv ==
  /\ MapFits
  /\ ~disturbed => (pc \in {"map buffer", "map"} => described <= room)

(* MapFits: the map fits in its buffer unless the firmware has changed it. *)
THEOREM MapAlwaysFits == Spec => []MapFits
<1>1. Init => MapInv
  BY DEF Init, MapInv, MapFits
<1>2. TypeOK /\ MapInv /\ [Next]_vars => MapInv'
  <2> SUFFICES ASSUME TypeOK, MapInv, [Next]_vars
               PROVE  MapInv'
    OBVIOUS
  <2>1. CASE GoesOn
    BY <2>1, GoesOnFrame DEF MapInv, MapFits
  <2>2. CASE AskSize \/ AllocateMap
    <3>1. pc' \in {"map buffer", "map"} /\ UNCHANGED <<failed, disturbed>>
      BY <2>2 DEF AskSize, AllocateMap, Step
    <3>2. CASE AskSize
      <4>1. described' \in 1 .. MaxDescriptors /\ room' = described'
        BY <3>2 DEF AskSize
      <4>2. described' <= room'
        BY <4>1, SizesTyped
      <4> QED
        BY <3>1, <4>2 DEF MapInv, MapFits
    <3>3. CASE AllocateMap
      <4>1. ~disturbed => described <= room
        BY <3>3 DEF AllocateMap, Step, MapInv
      <4>2. described \in Int /\ room \in Int
        BY SizesTyped DEF TypeOK
      <4>3. described' \in described .. described + 2 /\ room' = room + 2
        BY <3>3 DEF AllocateMap
      <4>4. described <= room => described' <= room'
        BY <4>2, <4>3
      <4> QED
        BY <3>1, <4>1, <4>4 DEF MapInv, MapFits
    <3> QED
      BY <2>2, <3>2, <3>3
  <2>3. CASE GetMap
    BY <2>3 DEF GetMap, Step, MapInv, MapFits
  <2>4. CASE Fails
    <3>1. /\ pc' = "failed" /\ failed' = pc /\ UNCHANGED disturbed
          /\ pc = "map" => described > room
      BY <2>4 DEF Fails, GiveUp, firmware
    <3>2. pc = "map" => ~(described <= room)
      BY <3>1, SizesTyped DEF TypeOK
    <3> QED
      BY <3>1, <3>2 DEF MapInv, MapFits
  <2>5. CASE FirmwareEvent
    BY <2>5 DEF FirmwareEvent, MapInv, MapFits
  <2>6. CASE UNCHANGED vars
    BY <2>6 DEF vars, firmware, loader, MapInv, MapFits
  <2> QED
    BY <2>1, <2>2, <2>3, <2>4, <2>5, <2>6, NextGroups
<1> QED
  BY <1>1, <1>2, TypeCorrect, PTL DEF Spec, MapInv

-----------------------------------------------------------------------------

(* What is left when the kernel is entered.                                *)

(* Each buffer is there only between the step that allocates it and the    *)
(* one that frees it.                                                      *)
BufferPhases ==
  /\ "handles" \in pool => pc \notin {"size", "map buffer", "map", "exit", "enter", "entered"}
  /\ "identity" \in pool => pc \in {"read identity", "validate", "free identity", "failed"}
  /\ "header" \in pool =>
       pc \in {"read header", "headers", "read headers", "entry", "segment", "close",
               "free header", "failed"} \cup Loading
  /\ "program headers" \in pool =>
       pc \in {"read headers", "entry", "segment", "close", "free header", "free headers",
               "failed"} \cup Loading
  /\ "segment" \in pool => pc \in {"copy", "free buffer", "failed"}
  /\ "kernel" \in files =>
       pc \in {"identity", "read identity", "validate", "free identity", "header", "read header",
               "headers", "read headers", "entry", "segment", "close", "failed"} \cup Loading
MapPhase == pc \in {"map", "exit", "enter", "entered"} => "map" \in pool
KeyPhase == pc \in {"enter", "entered"} => fresh
HandInv == BufferPhases /\ MapPhase /\ KeyPhase

(* Every step keeps what is in the pool to its phases.                     *)
LEMMA HandNext ==
  ASSUME HandInv, [Next]_vars
  PROVE  HandInv'
<1>1. CASE Calls
  BY <1>1 DEF Calls, SetUp, InitSerial, NoGraphics, OpenVolume, ReadIdentity, ValidateIdentity,
     ReadHeader, ReadHeaders, SegmentsEnd, ExitBootServices, EnterKernel, Call, Step,
     HandInv, BufferPhases, MapPhase, KeyPhase, Loading
<1>2. CASE Allocations
  BY <1>2 DEF Allocations, InitGraphics, SetMode, AllocateIdentity, AllocateHeader,
     AllocateHeaders, AllocateBuffer, Allocate, Allocates, Step,
     HandInv, BufferPhases, MapPhase, KeyPhase, Loading
<1>3. CASE Releases
  BY <1>3 DEF Releases, FreeIdentity, FreeBuffer, FreeHeader, FreeHeaders, CloseGraphics, Free,
     Frees, Step, HandInv, BufferPhases, MapPhase, KeyPhase, Loading
<1>4. CASE OpenKernel \/ CloseKernel
  BY <1>4 DEF OpenKernel, CloseKernel, Step, HandInv, BufferPhases, MapPhase, KeyPhase, Loading
<1>5. CASE SetEntry \/ SkipHeader \/ AllocateSegment \/ CopySegment \/ ZeroSegment
  BY <1>5 DEF SetEntry, SkipHeader, AllocateSegment, CopySegment, ZeroSegment, Step,
     HandInv, BufferPhases, MapPhase, KeyPhase, Loading
<1>6. CASE LoadFont
  <2>1. pc = "font" /\ pc' = "rsdp" /\ files' \subseteq files \cup {"font"}
    BY <1>6 DEF LoadFont, Step
  <2>2. pool' \subseteq pool \cup {"font header", "glyphs", "font"}
    BY <1>6 DEF LoadFont, Allocates
  <2> QED
    BY <2>1, <2>2 DEF HandInv, BufferPhases, MapPhase, KeyPhase, Loading
<1>7. CASE FindRsdp \/ AskSize
  BY <1>7 DEF FindRsdp, AskSize, Step, HandInv, BufferPhases, MapPhase, KeyPhase, Loading
<1>8. CASE AllocateMap \/ GetMap
  BY <1>8 DEF AllocateMap, GetMap, Allocates, Step, HandInv, BufferPhases, MapPhase, KeyPhase,
     Loading
<1>9. CASE Fails
  BY <1>9 DEF Fails, GiveUp, firmware, HandInv, BufferPhases, MapPhase, KeyPhase, Loading
<1>10. CASE FirmwareEvent
  BY <1>10 DEF FirmwareEvent, HandInv, BufferPhases, MapPhase, KeyPhase, Loading
<1>11. CASE UNCHANGED vars
  BY <1>11 DEF vars, firmware, HandInv, BufferPhases, MapPhase, KeyPhase, Loading
<1> QED
  BY <1>1, <1>2, <1>3, <1>4, <1>5, <1>6, <1>7, <1>8, <1>9, <1>10, <1>11, ActionGroups

(* HandsOver: when the kernel is entered its map is true and still there,  *)
(* and nothing of what loading it took is left.                            *)
THEOREM LoaderHandsOver == Spec => []HandsOver
<1>1. Init => HandInv
  BY DEF Init, HandInv, BufferPhases, MapPhase, KeyPhase
<1>2. TypeOK /\ HandInv => HandsOver
  BY DEF TypeOK, HandInv, BufferPhases, MapPhase, KeyPhase, HandsOver, Buffers, Loading
<1> QED
  BY <1>1, <1>2, HandNext, TypeCorrect, PTL DEF Spec

-----------------------------------------------------------------------------

(* Segments and pages.                                                     *)

(* Division of a cell's number by a size.                                  *)
LEMMA Quotient ==
  ASSUME NEW c \in Nat, NEW d \in Nat \ {0}
  PROVE  /\ c \div d \in Nat
         /\ (c \div d) * d <= c
         /\ c < (c \div d) * d + d
         /\ c % d = 0 => c = (c \div d) * d
OBVIOUS

(* A common factor may be cancelled,                                       *)
LEMMA Cancel ==
  ASSUME NEW a \in Int, NEW b \in Int, NEW d \in Nat \ {0}, a * d < b * d
  PROVE  a < b
<1> SUFFICES ASSUME b <= a PROVE FALSE
  OBVIOUS
<1>1. (a - b) * d >= 0
  OBVIOUS
<1> QED
  BY <1>1

(* and put back.                                                           *)
LEMMA Monotone ==
  ASSUME NEW a \in Int, NEW b \in Int, NEW d \in Nat \ {0}, a <= b
  PROVE  a * d <= b * d
<1>1. (b - a) * d >= 0
  OBVIOUS
<1> QED
  BY <1>1

(* A segment lies on its pages, above the first.                           *)
LEMMA OnItsPages ==
  ASSUME NEW h, h.paddr \in Nat, h.memsz \in Nat, h.paddr % PageSize = 0, h.paddr > 0,
         h.paddr + h.memsz - 1 \in Cell, NEW k \in 0 .. h.memsz - 1
  PROVE  /\ h.paddr + k \in Cell /\ h.paddr + k > 1
         /\ (h.paddr + k) \div PageSize \in PagesOf(h)
<1> DEFINE d == PageSize
           a == h.paddr
           q == a \div d
           c == a + k
           n == c \div d
<1>1. d \in Nat /\ d > 1 /\ NPages \in Nat
  BY SizesTyped
<1>2. a \in Nat /\ a > 0 /\ a % d = 0 /\ c \in Nat /\ c >= a /\ c <= a + h.memsz - 1
  OBVIOUS
<1>3. a + h.memsz - 1 <= NPages * d - 1 /\ NPages * d \in Nat
  BY <1>1 DEF Cell
<1> HIDE DEF a, c
<1>4. q \in Nat /\ a = q * d
  BY <1>1, <1>2, Quotient
<1>5. n \in Nat /\ n * d <= c /\ c < n * d + d
  BY <1>1, <1>2, Quotient
<1> HIDE DEF q, n, d
<1>6. q >= 1
  BY <1>1, <1>2, <1>4
<1>7. d <= a
  <2>1. 1 * d <= q * d
    BY <1>1, <1>4, <1>6, Monotone
  <2> QED
    BY <1>1, <1>4, <2>1
<1>8. q <= n
  <2>1. q * d < (n + 1) * d
    BY <1>1, <1>2, <1>4, <1>5
  <2>2. q < n + 1
    BY <1>1, <1>4, <1>5, <2>1, Cancel
  <2> QED
    BY <1>4, <1>5, <2>2
<1>9. a <= n * d
  BY <1>1, <1>4, <1>5, <1>8, Monotone
<1>10. n < NPages
  <2>1. n * d < NPages * d
    BY <1>1, <1>2, <1>3, <1>5
  <2> QED
    BY <1>1, <1>5, <2>1, Cancel
<1>11. c \in 0 .. NPages * d - 1 /\ c > 1
  BY <1>1, <1>2, <1>3, <1>7
<1>12. n \in 0 .. NPages - 1 /\ n * d \in a .. a + h.memsz - 1
  BY <1>1, <1>2, <1>5, <1>9, <1>10
<1> QED
  BY <1>11, <1>12 DEF Cell, Page, PagesOf, n, c, d, a

(* What the assumption says of a header.                                   *)
LEMMA HeaderFacts ==
  ASSUME image \in Images, NEW n \in DOMAIN image.headers, NEW h, h = image.headers[n]
  PROVE  /\ h.offset \in Nat /\ h.filesz \in Nat /\ h.memsz \in Nat /\ h.paddr \in Nat
         /\ h.paddr % PageSize = 0 /\ h.paddr > 0
         /\ h.filesz <= h.memsz /\ h.paddr + h.memsz - 1 \in Cell
<1>1. h \in Header
  BY HeadersTyped
<1>2. h.offset \in Nat /\ h.filesz \in Nat /\ h.memsz \in Nat /\ h.paddr \in Cell
  BY <1>1 DEF Header
<1>3. h.paddr \in Nat
  BY <1>2, SizesTyped DEF Cell
<1> QED
  BY <1>2, <1>3, BootAssumption

(* Segments without a common page have no common cell.                     *)
LEMMA Apart ==
  ASSUME image \in Images,
         NEW n \in DOMAIN image.headers, NEW h, h = image.headers[n],
         NEW m \in DOMAIN image.headers, NEW g, g = image.headers[m],
         PagesOf(h) \cap PagesOf(g) = {}, NEW k \in 0 .. h.memsz - 1
  PROVE  (h.paddr + k) - g.paddr \notin 0 .. g.memsz - 1
<1> SUFFICES ASSUME (h.paddr + k) - g.paddr \in 0 .. g.memsz - 1
             PROVE  FALSE
  OBVIOUS
<1> DEFINE j == (h.paddr + k) - g.paddr
<1>1. h.paddr \in Nat /\ g.paddr \in Nat /\ k \in Int
  BY HeaderFacts
<1>2. h.paddr + k = g.paddr + j
  BY <1>1
<1>3. (h.paddr + k) \div PageSize \in PagesOf(h)
  BY HeaderFacts, OnItsPages
<1>4. (g.paddr + j) \div PageSize \in PagesOf(g)
  BY HeaderFacts, OnItsPages
<1> QED
  BY <1>2, <1>3, <1>4

-----------------------------------------------------------------------------

(* The kernel in memory.                                                   *)

InMemory(h) ==
  /\ PagesOf(h) \subseteq pages
  /\ \A k \in 0 .. h.memsz - 1 :
       memory[h.paddr + k] = IF k < h.filesz THEN h.offset + k ELSE ZERO

(* The calls after the segments, and all from the first segment on.        *)
AfterSegments ==
  {"close", "free header", "free headers", "font", "rsdp", "close graphics", "size",
   "map buffer", "map", "exit", "enter", "entered"}
AfterEntry == {"segment"} \cup Loading \cup AfterSegments

(* The entry point stays where it is, the segments before the one at hand  *)
(* are in memory on pages that are not its own, and so is what it has in   *)
(* the file once that is copied.                                           *)
EntryInv == pc \in AfterEntry => memory[0] = ENTRY
OrderInv == pc \notin AfterEntry \cup {"failed"} => p = 1
LoadedInv == \A n \in DOMAIN image.headers :
  n < p /\ image.headers[n].load => InMemory(image.headers[n])
SegmentInv == pc \in Loading =>
  /\ Segment.load /\ PagesOf(Segment) \subseteq pages
  /\ \A n \in DOMAIN image.headers :
       n < p /\ image.headers[n].load => PagesOf(image.headers[n]) \cap PagesOf(Segment) = {}
FileInv == pc \in {"free buffer", "zero"} =>
  \A k \in 0 .. Segment.filesz - 1 : memory[Segment.paddr + k] = Segment.offset + k
EndInv == pc \in AfterSegments => ~AtHeader
WholeInv == EntryInv /\ OrderInv /\ LoadedInv /\ SegmentInv /\ FileInv /\ EndInv

(* The steps that leave the memory alone.                                  *)
Quiet ==
  \/ Calls \/ Allocations \/ Releases \/ OpenKernel \/ CloseKernel \/ FindRsdp \/ AskSize
  \/ AllocateMap \/ GetMap \/ Fails \/ FirmwareEvent \/ UNCHANGED vars

(* What the steps that touch no memory leave alone.                        *)
LEMMA QuietFrame == Quiet => UNCHANGED <<image, pages, memory, p>>
<1>1. Calls \/ Allocations \/ Releases => UNCHANGED <<image, pages, memory, p>>
  BY CallFrame, AllocationFrame, ReleaseFrame DEF firmware, loader
<1>2. OpenKernel \/ CloseKernel \/ FindRsdp \/ AskSize \/ AllocateMap \/ GetMap
        => UNCHANGED <<image, pages, memory, p>>
  BY DEF OpenKernel, CloseKernel, FindRsdp, AskSize, AllocateMap, GetMap, Step, loader
<1>3. Fails \/ FirmwareEvent \/ UNCHANGED vars => UNCHANGED <<image, pages, memory, p>>
  BY DEF Fails, GiveUp, FirmwareEvent, vars, firmware, loader
<1> QED
  BY <1>1, <1>2, <1>3 DEF Quiet

(* Where they go.                                                          *)
Moves ==
  /\ pc' \in AfterEntry => pc \in AfterEntry
  /\ pc' \in AfterEntry \cup {"failed"} \/ pc \notin AfterEntry \cup {"failed"}
  /\ pc' \in Loading => pc \in Loading
  /\ pc' \in {"free buffer", "zero"} => pc \in {"free buffer", "zero"}
  /\ pc' \in AfterSegments => pc \in AfterSegments \/ ~AtHeader

(* Such a step never goes back, and ends the segments only after the last. *)
LEMMA QuietMoves == Quiet => Moves
<1> USE DEF Moves, AfterEntry, AfterSegments, Loading
<1>1. Calls => Moves
  BY DEF Calls, SetUp, InitSerial, NoGraphics, OpenVolume, ReadIdentity, ValidateIdentity,
     ReadHeader, ReadHeaders, SegmentsEnd, ExitBootServices, EnterKernel, Call, Step
<1>2. Allocations => Moves
  BY DEF Allocations, InitGraphics, SetMode, AllocateIdentity, AllocateHeader, AllocateHeaders,
     AllocateBuffer, Allocate, Step
<1>3. Releases => Moves
  BY DEF Releases, FreeIdentity, FreeBuffer, FreeHeader, FreeHeaders, CloseGraphics, Free, Step
<1>4. OpenKernel \/ CloseKernel \/ FindRsdp \/ AskSize \/ AllocateMap \/ GetMap => Moves
  BY DEF OpenKernel, CloseKernel, FindRsdp, AskSize, AllocateMap, GetMap, Step
<1>5. Fails \/ FirmwareEvent \/ UNCHANGED vars => Moves
  BY DEF Fails, GiveUp, FirmwareEvent, vars
<1> QED
  BY <1>1, <1>2, <1>3, <1>4, <1>5 DEF Quiet

(* So they keep the invariant.                                             *)
LEMMA WholeQuiet ==
  ASSUME WholeInv, Quiet
  PROVE  WholeInv'
<1>1. UNCHANGED <<image, pages, memory, p>>
  BY QuietFrame
<1>2. Moves
  BY QuietMoves
<1>3. LoadedInv'
  BY <1>1 DEF WholeInv, LoadedInv, InMemory
<1>4. EntryInv' /\ OrderInv'
  BY <1>1, <1>2 DEF WholeInv, EntryInv, OrderInv, Moves
<1>5. Segment' = Segment /\ (AtHeader' <=> AtHeader)
  BY <1>1 DEF Segment, AtHeader
<1>6. SegmentInv'
  BY <1>1, <1>2, <1>5 DEF WholeInv, SegmentInv, Moves
<1>7. FileInv' /\ EndInv'
  BY <1>1, <1>2, <1>5 DEF WholeInv, FileInv, EndInv, Moves
<1> QED
  BY <1>3, <1>4, <1>6, <1>7 DEF WholeInv

(* The invariant holds before anything is loaded.                          *)
LEMMA WholeInit == Init => WholeInv
<1> SUFFICES ASSUME Init PROVE WholeInv
  OBVIOUS
<1>1. pc = "set up" /\ p = 1
  BY DEF Init
<1>2. LoadedInv
  <2>1. DOMAIN image.headers = 1 .. Len(image.headers) /\ Len(image.headers) \in Nat
    BY HeadersTyped DEF Init
  <2>2. p = 1
    BY <1>1
  <2>3. \A n \in DOMAIN image.headers : ~(n < p)
    BY <2>1, <2>2
  <2> QED
    BY <2>3 DEF LoadedInv
<1> QED
  BY <1>1, <1>2 DEF WholeInv, EntryInv, OrderInv, SegmentInv, FileInv, EndInv, AfterEntry,
     AfterSegments, Loading

(* The segments loaded stay in memory as long as their cells are not       *)
(* written.                                                                *)
LEMMA LoadedStays ==
  ASSUME WholeInv, UNCHANGED <<image, p>>, pages \subseteq pages',
         \A n \in DOMAIN image.headers : \A k \in 0 .. image.headers[n].memsz - 1 :
           n < p /\ image.headers[n].load
             => memory'[image.headers[n].paddr + k] = memory[image.headers[n].paddr + k]
  PROVE  LoadedInv'
<1> SUFFICES ASSUME NEW n \in DOMAIN image.headers, n < p, image.headers[n].load
             PROVE  InMemory(image.headers[n])'
  BY DEF LoadedInv
<1> DEFINE h == image.headers[n]
<1>1. InMemory(h) /\ h' = h
  BY DEF WholeInv, LoadedInv
<1> HIDE DEF h
<1>2. \A k \in 0 .. h.memsz - 1 : memory'[h.paddr + k] = memory[h.paddr + k]
  BY DEF h
<1>3. InMemory(h)'
  BY <1>1, <1>2 DEF InMemory
<1> QED
  BY <1>3 DEF h

(* Nothing of a segment is at the entry point or at the font's size.       *)
LEMMA SegmentsHigh ==
  ASSUME image \in Images, NEW n \in DOMAIN image.headers,
         NEW k \in 0 .. image.headers[n].memsz - 1
  PROVE  image.headers[n].paddr + k \in Cell \ {0, 1}
<1> DEFINE h == image.headers[n]
<1>1. /\ h.paddr \in Nat /\ h.memsz \in Nat /\ h.paddr % PageSize = 0 /\ h.paddr > 0
      /\ h.paddr + h.memsz - 1 \in Cell
  BY HeaderFacts
<1> HIDE DEF h
<1>2. h.paddr + k \in Cell /\ h.paddr + k > 1
  BY <1>1, OnItsPages DEF h
<1>3. h.paddr + k \notin {0, 1}
  BY <1>1, <1>2
<1> QED
  BY <1>2, <1>3 DEF h

(* Keeping the entry point touches no segment.                             *)
LEMMA WholeSetEntry ==
  ASSUME TypeInv, WholeInv, SetEntry
  PROVE  WholeInv'
<1>1. pc = "entry" /\ pc' = "segment" /\ UNCHANGED <<image, p, pages>>
  BY DEF SetEntry, Step
<1>2. memory' = [memory EXCEPT ![0] = ENTRY]
  BY DEF SetEntry
<1>3. 0 \in Cell
  BY SizesTyped DEF Cell
<1>4. EntryInv'
  BY <1>2, <1>3 DEF EntryInv, TypeInv, TypeOK
<1>5. LoadedInv'
  <2>1. image \in Images
    BY DEF TypeInv, TypeOK
  <2> QED
    BY <1>1, <1>2, <2>1, SegmentsHigh, LoadedStays DEF TypeInv, TypeOK
<1>6. OrderInv' /\ SegmentInv' /\ FileInv' /\ EndInv'
  BY <1>1 DEF OrderInv, SegmentInv, FileInv, EndInv, AfterEntry, AfterSegments, Loading
<1> QED
  BY <1>4, <1>5, <1>6 DEF WholeInv

(* Nor does the size of the font, which is stored at another cell.         *)
LEMMA WholeLoadFont ==
  ASSUME TypeInv, WholeInv, LoadFont
  PROVE  WholeInv'
<1>1. pc = "font" /\ pc' = "rsdp" /\ UNCHANGED <<image, p, pages>>
  BY DEF LoadFont, Step
<1>2. memory' = memory \/ memory' = [memory EXCEPT ![1] = FONT]
  BY DEF LoadFont
<1>3. image \in Images /\ memory \in [Cell -> Nat \cup {BLANK, ZERO, ENTRY, FONT}]
  BY DEF TypeInv, TypeOK
<1>4. \A c \in Cell \ {1} : memory'[c] = memory[c]
  BY <1>2, <1>3
<1>5. EntryInv'
  <2>1. 0 \in Cell \ {1}
    BY SizesTyped DEF Cell
  <2> QED
    BY <1>1, <1>4, <2>1 DEF WholeInv, EntryInv, AfterEntry, AfterSegments
<1>6. LoadedInv'
  BY <1>1, <1>3, <1>4, SegmentsHigh, LoadedStays
<1>7. AtHeader' <=> AtHeader
  BY <1>1 DEF AtHeader
<1>8. OrderInv' /\ SegmentInv' /\ FileInv' /\ EndInv'
  BY <1>1, <1>7 DEF WholeInv, OrderInv, SegmentInv, FileInv, EndInv, AfterEntry, AfterSegments,
     Loading
<1> QED
  BY <1>5, <1>6, <1>8 DEF WholeInv

(* A header that is not to be loaded is passed over.                       *)
LEMMA WholeSkipHeader ==
  ASSUME TypeInv, WholeInv, SkipHeader
  PROVE  WholeInv'
<1>1. pc = "segment" /\ pc' = "segment" /\ UNCHANGED <<image, pages, memory>>
  BY DEF SkipHeader, Step
<1>2. p' = p + 1 /\ ~image.headers[p].load
  BY DEF SkipHeader, Segment
<1>3. LoadedInv'
  <2>1. DOMAIN image.headers \subseteq Int /\ p \in Int
    BY HeadersTyped DEF TypeInv, TypeOK
  <2>2. \A n \in DOMAIN image.headers : n < p' => n < p \/ n = p
    BY <1>2, <2>1
  <2> QED
    BY <1>1, <1>2, <2>2 DEF WholeInv, LoadedInv, InMemory
<1>4. EntryInv' /\ OrderInv' /\ SegmentInv' /\ FileInv' /\ EndInv'
  BY <1>1 DEF WholeInv, EntryInv, OrderInv, SegmentInv, FileInv, EndInv, AfterEntry,
     AfterSegments, Loading
<1> QED
  BY <1>3, <1>4 DEF WholeInv

(* A segment's pages were free, so no other segment is on them.            *)
LEMMA WholeAllocateSegment ==
  ASSUME TypeInv, WholeInv, AllocateSegment
  PROVE  WholeInv'
<1>1. pc = "segment" /\ pc' \in {"buffer", "zero"} /\ UNCHANGED <<image, p, memory>>
  BY DEF AllocateSegment, Step, loader
<1>2. /\ AtHeader /\ Segment.load /\ PagesOf(Segment) \cap pages = {}
      /\ pages' = pages \cup PagesOf(Segment)
  BY DEF AllocateSegment
<1>3. Segment' = Segment
  BY <1>1 DEF Segment
<1>4. LoadedInv'
  BY <1>1, <1>2, LoadedStays
<1>5. SegmentInv'
  BY <1>1, <1>2, <1>3 DEF WholeInv, LoadedInv, InMemory, SegmentInv
<1>6. FileInv'
  <2>1. CASE pc' = "buffer"
    BY <2>1 DEF FileInv
  <2>2. CASE pc' = "zero"
    <3>1. ~(Segment.filesz > 0)
      BY <2>2 DEF AllocateSegment, Step
    <3>2. Segment.filesz \in Nat
      BY <1>2, HeaderFacts DEF AtHeader, Segment, TypeInv, TypeOK
    <3>3. 0 .. Segment.filesz - 1 = {}
      BY <3>1, <3>2
    <3> QED
      BY <1>3, <3>3 DEF FileInv
  <2> QED
    BY <1>1, <2>1, <2>2
<1>7. EntryInv' /\ OrderInv' /\ EndInv'
  BY <1>1 DEF WholeInv, EntryInv, OrderInv, EndInv, AfterEntry, AfterSegments, Loading
<1> QED
  BY <1>4, <1>5, <1>6, <1>7 DEF WholeInv

(* What may be written while the segment at hand is loaded: its own cells. *)
LEMMA OwnCells ==
  ASSUME TypeInv, WholeInv, pc \in Loading,
         \A c \in Cell : c - Segment.paddr \notin 0 .. Segment.memsz - 1 => memory'[c] = memory[c]
  PROVE  /\ memory'[0] = memory[0]
         /\ \A n \in DOMAIN image.headers : \A k \in 0 .. image.headers[n].memsz - 1 :
              n < p /\ image.headers[n].load
                => memory'[image.headers[n].paddr + k] = memory[image.headers[n].paddr + k]
<1>1. image \in Images /\ p \in DOMAIN image.headers
  BY DEF TypeInv, TypeOK, Bounded, AtHeader
<1>2. /\ Segment.paddr \in Nat /\ Segment.paddr > 0
  BY <1>1, HeaderFacts DEF Segment
<1>3. memory'[0] = memory[0]
  <2>1. 0 \in Cell
    BY SizesTyped DEF Cell
  <2>2. 0 - Segment.paddr \notin 0 .. Segment.memsz - 1
    BY <1>2
  <2> QED
    BY <2>1, <2>2
<1>4. ASSUME NEW n \in DOMAIN image.headers, NEW k \in 0 .. image.headers[n].memsz - 1,
             n < p, image.headers[n].load
      PROVE  memory'[image.headers[n].paddr + k] = memory[image.headers[n].paddr + k]
  <2>1. PagesOf(image.headers[n]) \cap PagesOf(Segment) = {}
    BY <1>4 DEF WholeInv, SegmentInv
  <2>2. (image.headers[n].paddr + k) - Segment.paddr \notin 0 .. Segment.memsz - 1
    BY <1>1, <2>1, Apart DEF Segment
  <2>3. image.headers[n].paddr + k \in Cell
    BY <1>1, SegmentsHigh
  <2>4. PICK c \in Cell : c = image.headers[n].paddr + k
    BY <2>3
  <2>5. c - Segment.paddr \notin 0 .. Segment.memsz - 1
    BY <2>2, <2>4, Zenon
  <2>6. memory'[c] = memory[c]
    BY <2>5
  <2> QED
    BY <2>4, <2>6, Zenon
<1> QED
  BY <1>3, <1>4

(* The copy writes the segment's own cells, as they are in the file.       *)
LEMMA WholeCopySegment ==
  ASSUME TypeInv, WholeInv, CopySegment
  PROVE  WholeInv'
<1>1. pc = "copy" /\ pc' = "free buffer" /\ UNCHANGED <<image, p, pages>>
  BY DEF CopySegment, Step
<1>2. image \in Images /\ p \in DOMAIN image.headers
  BY <1>1 DEF TypeInv, TypeOK, Bounded, AtHeader, Loading
<1>3. /\ Segment.paddr \in Nat /\ Segment.filesz \in Nat /\ Segment.memsz \in Nat
      /\ Segment.filesz <= Segment.memsz /\ Segment.offset \in Nat
  BY <1>2, HeaderFacts DEF Segment
<1>4. memory' = [c \in Cell |-> IF c - Segment.paddr \in 0 .. Segment.filesz - 1
                               THEN Segment.offset + (c - Segment.paddr) ELSE memory[c]]
  BY DEF CopySegment
<1>5. \A c \in Cell : c - Segment.paddr \notin 0 .. Segment.memsz - 1 => memory'[c] = memory[c]
  <2>1. 0 .. Segment.filesz - 1 \subseteq 0 .. Segment.memsz - 1
    BY <1>3
  <2> QED
    BY <1>4, <2>1
<1>6. LoadedInv' /\ memory'[0] = memory[0]
  BY <1>1, <1>5, OwnCells, LoadedStays DEF Loading
<1>7. Segment' = Segment
  BY <1>1 DEF Segment
<1>8. FileInv'
  <2> SUFFICES ASSUME NEW k \in 0 .. Segment.filesz - 1
               PROVE  memory'[Segment.paddr + k] = Segment.offset + k
    BY <1>7 DEF FileInv
  <2>1. k \in 0 .. Segment.memsz - 1
    BY <1>3
  <2>2. Segment.paddr + k \in Cell
    BY <1>2, <2>1, SegmentsHigh DEF Segment
  <2>3. (Segment.paddr + k) - Segment.paddr = k
    BY <1>3
  <2> QED
    BY <1>4, <2>2, <2>3
<1>9. EntryInv' /\ OrderInv' /\ SegmentInv' /\ EndInv'
  BY <1>1, <1>6, <1>7 DEF WholeInv, EntryInv, OrderInv, SegmentInv, EndInv, AfterEntry,
     AfterSegments, Loading
<1> QED
  BY <1>6, <1>8, <1>9 DEF WholeInv

(* With the rest zeroed the segment is all in memory.                      *)
LEMMA WholeZeroSegment ==
  ASSUME TypeInv, WholeInv, ZeroSegment
  PROVE  WholeInv'
<1>1. pc = "zero" /\ pc' = "segment" /\ UNCHANGED <<image, pages>>
  BY DEF ZeroSegment, Step
<1>2. image \in Images /\ p \in DOMAIN image.headers
  BY <1>1 DEF TypeInv, TypeOK, Bounded, AtHeader, Loading
<1>3. /\ Segment.paddr \in Nat /\ Segment.filesz \in Nat /\ Segment.memsz \in Nat
      /\ Segment.filesz <= Segment.memsz /\ Segment.offset \in Nat
  BY <1>2, HeaderFacts DEF Segment
<1>4. memory' = [c \in Cell |-> IF c - Segment.paddr \in Segment.filesz .. Segment.memsz - 1
                               THEN ZERO ELSE memory[c]]
  BY DEF ZeroSegment
<1>5. \A c \in Cell : c - Segment.paddr \notin 0 .. Segment.memsz - 1 => memory'[c] = memory[c]
  <2>1. Segment.filesz .. Segment.memsz - 1 \subseteq 0 .. Segment.memsz - 1
    BY <1>3
  <2> QED
    BY <1>4, <2>1
<1>6. /\ memory'[0] = memory[0]
      /\ \A n \in DOMAIN image.headers : \A k \in 0 .. image.headers[n].memsz - 1 :
           n < p /\ image.headers[n].load
             => memory'[image.headers[n].paddr + k] = memory[image.headers[n].paddr + k]
  BY <1>1, <1>5, OwnCells DEF Loading
<1>7. Segment.load /\ PagesOf(Segment) \subseteq pages
  BY <1>1 DEF WholeInv, SegmentInv, Loading
<1>8. ASSUME NEW k \in 0 .. Segment.memsz - 1
      PROVE  memory'[Segment.paddr + k] = IF k < Segment.filesz THEN Segment.offset + k ELSE ZERO
  <2>1. Segment.paddr + k \in Cell
    BY <1>2, SegmentsHigh DEF Segment
  <2>2. (Segment.paddr + k) - Segment.paddr = k
    BY <1>3
  <2>3. memory'[Segment.paddr + k] =
          IF k \in Segment.filesz .. Segment.memsz - 1 THEN ZERO ELSE memory[Segment.paddr + k]
    BY <1>4, <2>1, <2>2
  <2>4. CASE k < Segment.filesz
    <3>1. k \in 0 .. Segment.filesz - 1 /\ k \notin Segment.filesz .. Segment.memsz - 1
      BY <1>3, <2>4
    <3>2. memory[Segment.paddr + k] = Segment.offset + k
      BY <1>1, <3>1 DEF WholeInv, FileInv
    <3> QED
      BY <2>3, <2>4, <3>1, <3>2
  <2>5. CASE ~(k < Segment.filesz)
    <3>1. k \in Segment.filesz .. Segment.memsz - 1
      BY <1>3, <2>5
    <3> QED
      BY <2>3, <2>5, <3>1
  <2> QED
    BY <2>4, <2>5
<1>9. LoadedInv'
  <2> SUFFICES ASSUME NEW n \in DOMAIN image.headers, n < p', image.headers[n].load
               PROVE  InMemory(image.headers[n])'
    BY <1>1 DEF LoadedInv
  <2>1. CASE n < p
    BY <1>1, <1>6, <2>1 DEF WholeInv, LoadedInv, InMemory
  <2>2. CASE n = p
    <3>1. image.headers[n] = Segment
      BY <2>2 DEF Segment
    <3>2. PagesOf(image.headers[n]) \subseteq pages
      BY <1>7, <3>1
    <3>3. \A k \in 0 .. image.headers[n].memsz - 1 :
            memory'[image.headers[n].paddr + k] =
              IF k < image.headers[n].filesz THEN image.headers[n].offset + k ELSE ZERO
      BY <1>8, <3>1
    <3> QED
      BY <1>1, <3>2, <3>3 DEF InMemory
  <2>3. n \in Int /\ p \in Int /\ p' = p + 1
    BY <1>2, HeadersTyped DEF ZeroSegment
  <2>4. n < p \/ n = p
    BY <2>3
  <2> QED
    BY <2>1, <2>2, <2>4
<1>10. EntryInv' /\ OrderInv' /\ SegmentInv' /\ FileInv' /\ EndInv'
  BY <1>1, <1>6 DEF WholeInv, EntryInv, OrderInv, SegmentInv, FileInv, EndInv, AfterEntry,
     AfterSegments, Loading
<1> QED
  BY <1>9, <1>10 DEF WholeInv

(* KernelIsWhole: a kernel that is entered is all in memory, every segment *)
(* on pages that are the loader's, and its entry point is kept.            *)
THEOREM KernelLoadedWhole == Spec => []KernelIsWhole
<1>1. TypeInv /\ WholeInv /\ [Next]_vars => WholeInv'
  <2> SUFFICES ASSUME TypeInv, WholeInv, [Next]_vars
               PROVE  WholeInv'
    OBVIOUS
  <2>1. CASE Quiet
    BY <2>1, WholeQuiet
  <2>2. CASE SetEntry \/ LoadFont
    BY <2>2, WholeSetEntry, WholeLoadFont
  <2>3. CASE SkipHeader \/ AllocateSegment
    BY <2>3, WholeSkipHeader, WholeAllocateSegment
  <2>4. CASE CopySegment \/ ZeroSegment
    BY <2>4, WholeCopySegment, WholeZeroSegment
  <2> QED
    BY <2>1, <2>2, <2>3, <2>4, ActionGroups DEF Quiet
<1>2. TypeInv /\ WholeInv => KernelIsWhole
  <2> SUFFICES ASSUME TypeInv, WholeInv, pc = "entered"
               PROVE  /\ memory[0] = ENTRY
                      /\ \A n \in DOMAIN image.headers :
                           image.headers[n].load => InMemory(image.headers[n])
    BY DEF KernelIsWhole, InMemory
  <2>1. memory[0] = ENTRY /\ p \notin DOMAIN image.headers
    BY DEF WholeInv, EntryInv, EndInv, AfterEntry, AfterSegments, AtHeader
  <2>2. /\ Len(image.headers) \in Nat /\ DOMAIN image.headers = 1 .. Len(image.headers)
        /\ p \in 1 .. Len(image.headers) + 1
    BY HeadersTyped DEF TypeInv, TypeOK
  <2>3. \A n \in DOMAIN image.headers : n < p
    BY <2>1, <2>2
  <2> QED
    BY <2>1, <2>3 DEF WholeInv, LoadedInv
<1>3. Spec => []TypeInv
  BY TypeInit, TypeNext, PTL DEF Spec
<1> QED
  BY <1>1, <1>2, <1>3, WholeInit, PTL DEF Spec
-----------------------------------------------------------------------------
(* The messages.                                                           *)

(* With its messages, the nested ones about the port's failures included,  *)
(* the loader takes no step of its own that it does not take without:      *)
(* debug_print_line and print_to_serial_out leave its state alone.         *)
THEOREM ConsoleRunsLoader == ConsoleSpec => Spec
<1>1. ConsoleInit => Init
  BY DEF ConsoleInit
<1>2. [ConsoleNext]_all => [Next]_vars
  BY DEF ConsoleNext, Thread, LocateProtocol, debug_print_line, print_to_serial_out,
         WriteFails, WriteSucceeds, Turn, Next, all
<1> QED
  BY <1>1, <1>2, PTL DEF ConsoleSpec, Spec

(* The kernel that is entered is whole whatever was printed, and however   *)
(* often the port failed.                                                  *)
THEOREM KernelWholeWithMessages == ConsoleSpec => []KernelIsWhole
BY ConsoleRunsLoader, KernelLoadedWhole, PTL

(* And what it gets is true: ExitBootServices, with or without messages    *)
(* about the calls before it, succeeds only with a map that is current.    *)
THEOREM HandsOverWithMessages == ConsoleSpec => []HandsOver
BY ConsoleRunsLoader, LoaderHandsOver, PTL

===============================================================================
