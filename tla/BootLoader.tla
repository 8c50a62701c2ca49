------------------------------ MODULE BootLoader ------------------------------
(***************************************************************************)
(* The boot loader (bootloader/src): efi_main of main.c with the loading   *)
(* of the kernel (loader.c, elf.c).  It is one long sequence of calls of   *)
(* the firmware's boot services.  Nearly every call may fail, and then the *)
(* loader gives up, with whatever it has allocated; the firmware may       *)
(* change its memory map on its own between any two calls.                 *)
(*                                                                         *)
(* Memory is counted in cells, some of which make a page.  The cell of     *)
(* the kernel's file at an offset is written as the offset.                *)
(***************************************************************************)
EXTENDS Integers, Sequences

CONSTANTS
  Images,         (* the files the kernel may be                             *)
  ConfigTables,   (* the firmware's configuration tables                     *)
  PageSize,
  NPages,         (* pages of memory                                         *)
  MaxDescriptors  (* bound on the descriptors of the memory map              *)

BLANK == -1       (* what a cell holds that the loader has not written       *)
ZERO  == -2
ENTRY == -3       (* the kernel's entry point                                *)
FONT  == -4       (* the width and height of a font                          *)

Page == 0 .. NPages - 1
Cell == 0 .. NPages * PageSize - 1

(* A program header.  Segments begin on a page, as the linker aligns them, *)
(* above page 0, and are no longer in the file than in memory.             *)
Header == [load : BOOLEAN, offset : Nat, filesz : Nat, memsz : Nat \ {0}, paddr : Cell]

ASSUME BootAssumption ==
  /\ PageSize \in Nat \ {0, 1} /\ NPages \in Nat \ {0} /\ MaxDescriptors \in Nat \ {0}
  /\ \A image \in Images :
       /\ image.elf \in BOOLEAN /\ image.class \in Nat /\ image.lsb \in BOOLEAN
       /\ image.headers \in Seq(Header)
       /\ \A n \in DOMAIN image.headers : LET h == image.headers[n] IN
            /\ h.paddr % PageSize = 0 /\ h.paddr > 0
            /\ h.filesz <= h.memsz /\ h.paddr + h.memsz - 1 \in Cell
  /\ ConfigTables \subseteq Seq({"ACPI 2.0", "ACPI 1.0", "other"})

VARIABLES
  pc,         (* the call that comes next; "entered" when the kernel runs    *)
  failed,     (* history: the call the loader has given up at                *)
  image,      (* the kernel's file                                           *)
  tables,     (* the configuration tables                                    *)
  pool,       (* the buffers allocated and not freed                         *)
  pages,      (* the pages allocated                                         *)
  files,      (* the files open                                              *)
  memory,
  p,          (* the program header at hand                                  *)
  rsdp,       (* the table given to the kernel as the ACPI root, or 0        *)
  described,  (* how many descriptors the memory map has                     *)
  room,       (* memory_map_size, in descriptors                             *)
  fresh,      (* whether memory_map and its key are those of the memory as   *)
              (* it is                                                       *)
  disturbed   (* history: the firmware has changed the map on its own        *)

firmware == <<pool, pages, files, described, fresh, disturbed>>
loader   == <<memory, p, rsdp, room>>
vars     == <<pc, failed, image, tables, firmware, loader>>

-----------------------------------------------------------------------------
(* The firmware.                                                           *)

Step(from, to) == pc = from /\ pc' = to /\ UNCHANGED <<failed, image, tables, disturbed>>

(* Anything that allocates or frees changes the map.                       *)
Allocates(buffers) == pool' = pool \cup buffers /\ fresh' = FALSE
Frees(buffer)      == pool' = pool \ {buffer} /\ fresh' = FALSE

(* A call with nothing to show for it that matters here.                   *)
Call(from, to) == Step(from, to) /\ UNCHANGED <<pool, pages, files, described, fresh, loader>>

Allocate(from, buffers, to) ==
  Step(from, to) /\ Allocates(buffers) /\ UNCHANGED <<pages, files, described, loader>>

Free(from, buffer, to) ==
  Step(from, to) /\ Frees(buffer) /\ UNCHANGED <<pages, files, described, loader>>

(* The loader gives up.  It prints a message and may wait for a key.       *)
GiveUp ==
  /\ failed' = pc /\ pc' = "failed"
  /\ UNCHANGED <<image, tables, firmware, loader>>

(* A timer or another driver changes the map while boot services are on.   *)
FirmwareEvent ==
  /\ pc \notin {"enter", "entered", "failed"}
  /\ described' \in 1 .. MaxDescriptors
  /\ fresh' = FALSE /\ disturbed' = TRUE
  /\ UNCHANGED <<pc, failed, image, tables, pool, pages, files, loader>>

-----------------------------------------------------------------------------
(* Services.  Without a serial device the loader goes on; without a        *)
(* graphics device too, but then the console has none to open.             *)

SetUp == Call("set up", "serial")
InitSerial == Call("serial", "graphics")
InitGraphics == Allocate("graphics", {"handles"}, "mode")
NoGraphics == Call("graphics", "mode")

(* find_video_mode does not free what QueryMode gives it.                  *)
SetMode == "handles" \in pool /\ Allocate("mode", {"mode info"}, "volume")
OpenVolume == Call("volume", "open")

-----------------------------------------------------------------------------
(* load_kernel_image.                                                      *)

OpenKernel ==
  /\ Step("open", "identity")
  /\ files' = files \cup {"kernel"}
  /\ UNCHANGED <<pool, pages, described, fresh, loader>>

AllocateIdentity == Allocate("identity", {"identity"}, "read identity")
ReadIdentity == Call("read identity", "validate")

Valid == image.elf /\ image.class \in {32, 64} /\ image.lsb
ValidateIdentity == Valid /\ Call("validate", "free identity")
FreeIdentity == Free("free identity", "identity", "header")

AllocateHeader == Allocate("header", {"header"}, "read header")
ReadHeader == Call("read header", "headers")
AllocateHeaders == Allocate("headers", {"program headers"}, "read headers")
ReadHeaders == Call("read headers", "entry")

(* The entry point is stored through a null pointer: at address 0.         *)
SetEntry ==
  /\ Step("entry", "segment")
  /\ memory' = [memory EXCEPT ![0] = ENTRY]
  /\ UNCHANGED <<pool, pages, files, described, fresh, p, rsdp, room>>

(* load_program_segments and load_segment.                                 *)
AtHeader == p \in DOMAIN image.headers
Segment == image.headers[p]
PagesOf(h) == {n \in Page : n * PageSize \in h.paddr .. h.paddr + h.memsz - 1}

(* Mistaken form: the number is only increased for a segment.              *)
SkipHeaderStays == AtHeader /\ ~Segment.load /\ Call("segment", "segment")

SkipHeader ==
  /\ AtHeader /\ ~Segment.load
  /\ Step("segment", "segment")
  /\ p' = p + 1
  /\ UNCHANGED <<pool, pages, files, described, fresh, memory, rsdp, room>>

AllocateSegment ==
  /\ AtHeader /\ Segment.load
  /\ Step("segment", IF Segment.filesz > 0 THEN "buffer" ELSE "zero")
  /\ PagesOf(Segment) \cap pages = {}
  /\ pages' = pages \cup PagesOf(Segment)
  /\ fresh' = FALSE
  /\ UNCHANGED <<pool, files, described, loader>>

AllocateBuffer == Allocate("buffer", {"segment"}, "copy")

CopySegment ==
  /\ Step("copy", "free buffer")
  /\ memory' = [c \in Cell |->
       IF c - Segment.paddr \in 0 .. Segment.filesz - 1
       THEN Segment.offset + (c - Segment.paddr) ELSE memory[c]]
  /\ UNCHANGED <<pool, pages, files, described, fresh, p, rsdp, room>>

FreeBuffer == Free("free buffer", "segment", "zero")

(* Mistaken form: the zeros begin where the segment does.                  *)
ZeroSegmentFromStart ==
  /\ Step("zero", "segment")
  /\ memory' = [c \in Cell |->
       IF c - Segment.paddr \in 0 .. Segment.memsz - Segment.filesz - 1 THEN ZERO ELSE memory[c]]
  /\ p' = p + 1
  /\ UNCHANGED <<pool, pages, files, described, fresh, rsdp, room>>

ZeroSegment ==
  /\ Step("zero", "segment")
  /\ memory' = [c \in Cell |->
       IF c - Segment.paddr \in Segment.filesz .. Segment.memsz - 1 THEN ZERO ELSE memory[c]]
  /\ p' = p + 1
  /\ UNCHANGED <<pool, pages, files, described, fresh, rsdp, room>>

(* A kernel of which nothing has been loaded is refused.                   *)
SegmentsEnd == ~AtHeader /\ pages # {} /\ Call("segment", "close")

CloseKernel ==
  /\ Step("close", "free header")
  /\ files' = files \ {"kernel"}
  /\ UNCHANGED <<pool, pages, described, fresh, loader>>

(* Mistaken form: the header is not freed.                                 *)
KeepHeader == Call("free header", "free headers")

FreeHeader == Free("free header", "header", "free headers")
FreeHeaders == Free("free headers", "program headers", "font")

-----------------------------------------------------------------------------
(* load_psf1_font, whose calls are not checked, and the search for the     *)
(* ACPI root.                                                              *)

(* A font that is not there, or is none, is a null pointer, and the stores *)
(* of its width and height go to page 0.  No file is closed.               *)
LoadFont == \E found, good \in BOOLEAN :
  /\ Step("font", "rsdp")
  /\ files' = IF found THEN files \cup {"font"} ELSE files
  /\ IF found THEN Allocates(IF good THEN {"font header", "glyphs", "font"} ELSE {"font header"})
              ELSE UNCHANGED <<pool, fresh>>
  /\ memory' = IF found /\ good THEN memory ELSE [memory EXCEPT ![1] = FONT]
  /\ UNCHANGED <<pages, described, p, rsdp, room>>

(* The loop moves its pointer on and indexes from it as well: the type it  *)
(* looks at is that of the entry twice as far.  Of the signature only the  *)
(* first letter is compared, over and over: the ACPI roots are taken to be *)
(* the only tables that begin with an R.                                   *)
GuidAt(n) == IF 2 * n - 1 \in DOMAIN tables THEN tables[2 * n - 1] ELSE "other"
Signed(n) == tables[n] \in {"ACPI 1.0", "ACPI 2.0"}

Matches == {n \in DOMAIN tables : GuidAt(n) = "ACPI 2.0" /\ Signed(n)}

(* The last match counts.                                                  *)
FindRsdp ==
  /\ Step("rsdp", "close graphics")
  /\ rsdp' \in {n \in Matches : \A k \in Matches : k <= n} \cup IF Matches = {} THEN {0} ELSE {}
  /\ UNCHANGED <<pool, pages, files, described, fresh, memory, p, room>>

CloseGraphics == Free("close graphics", "handles", "size")

-----------------------------------------------------------------------------
(* get_memory_map and ExitBootServices.                                    *)

(* The first call only tells how large the map is.                         *)
AskSize ==
  /\ Step("size", "map buffer")
  /\ described' \in 1 .. MaxDescriptors
  /\ room' = described'
  /\ UNCHANGED <<pool, pages, files, fresh, memory, p, rsdp>>

(* The buffer is made for two descriptors more, which allocating it may    *)
(* add.  Mistaken form: for one.                                           *)
AllocateMapForOne ==
  /\ Step("map buffer", "map")
  /\ room' = room + 1
  /\ described' \in described .. described + 2
  /\ Allocates({"map"})
  /\ UNCHANGED <<pages, files, memory, p, rsdp>>

AllocateMap ==
  /\ Step("map buffer", "map")
  /\ room' = room + 2
  /\ described' \in described .. described + 2
  /\ Allocates({"map"})
  /\ UNCHANGED <<pages, files, memory, p, rsdp>>

(* Mistaken form: the key of the first call is kept.                       *)
GetMapKeepsKey == described <= room /\ Call("map", "exit")

GetMap ==
  /\ described <= room
  /\ Step("map", "exit")
  /\ fresh' = TRUE
  /\ room' = described
  /\ UNCHANGED <<pool, pages, files, described, memory, p, rsdp>>

ExitBootServices == fresh /\ Call("exit", "enter")

(* The kernel is entered where address 0 says.                             *)
EnterKernel == Call("enter", "entered")

(* The calls that may fail for reasons of their own; those that fail for   *)
(* reasons the model knows have them as well.                              *)
Fails ==
  \/ /\ pc \in {"set up", "serial", "graphics", "mode", "volume", "open", "identity",
                "read identity", "free identity", "header", "read header", "headers",
                "read headers", "buffer", "copy", "free buffer", "close", "free header",
                "free headers", "close graphics", "size", "map buffer"}
     /\ GiveUp
  \/ pc = "validate" /\ ~Valid /\ GiveUp
  \/ pc = "segment" /\ AtHeader /\ Segment.load /\ GiveUp
  \/ pc = "zero" /\ Segment.filesz < Segment.memsz /\ GiveUp
  \/ pc = "segment" /\ ~AtHeader /\ pages = {} /\ GiveUp
  \/ pc = "map" /\ described > room /\ GiveUp
  \/ pc = "exit" /\ ~fresh /\ GiveUp

-----------------------------------------------------------------------------
Init ==
  /\ pc = "set up" /\ failed = "nowhere"
  /\ image \in Images /\ tables \in ConfigTables
  /\ pool = {} /\ pages = {} /\ files = {}
  /\ memory = [c \in Cell |-> BLANK]
  /\ p = 1 /\ rsdp = 0
  /\ described = 1 /\ room = 0 /\ fresh = FALSE /\ disturbed = FALSE

LoadSegments ==
  \/ SkipHeader \/ AllocateSegment \/ AllocateBuffer \/ CopySegment \/ FreeBuffer
  \/ ZeroSegment \/ SegmentsEnd

load_kernel_image ==
  \/ OpenKernel \/ AllocateIdentity \/ ReadIdentity \/ ValidateIdentity \/ FreeIdentity
  \/ AllocateHeader \/ ReadHeader \/ AllocateHeaders \/ ReadHeaders \/ SetEntry
  \/ LoadSegments \/ CloseKernel \/ FreeHeader \/ FreeHeaders

(* The second half of efi_main, with the kernel in memory.                 *)
HandOver ==
  \/ LoadFont \/ FindRsdp \/ CloseGraphics
  \/ AskSize \/ AllocateMap \/ GetMap \/ ExitBootServices \/ EnterKernel

efi_main ==
  \/ SetUp \/ InitSerial \/ InitGraphics \/ NoGraphics \/ SetMode \/ OpenVolume
  \/ load_kernel_image \/ HandOver
  \/ Fails

Next == efi_main \/ FirmwareEvent
Spec == Init /\ [][Next]_vars

-----------------------------------------------------------------------------
Buffers == {"handles", "mode info", "identity", "header", "program headers", "segment",
            "font header", "glyphs", "font", "map"}

(* Every variable has its type.                                            *)
TypeOK ==
  /\ image \in Images /\ tables \in ConfigTables
  /\ pool \subseteq Buffers /\ pages \subseteq Page /\ files \subseteq {"kernel", "font"}
  /\ memory \in [Cell -> Nat \cup {BLANK, ZERO, ENTRY, FONT}]
  /\ p \in 1 .. Len(image.headers) + 1
  /\ rsdp \in 0 .. Len(tables)
  /\ described \in 1 .. MaxDescriptors + 2 /\ room \in 0 .. MaxDescriptors + 2
  /\ fresh \in BOOLEAN /\ disturbed \in BOOLEAN

(* A kernel that is entered is all in memory, each segment with what it    *)
(* has in the file and with zeros behind it, on pages that are its own,    *)
(* and it is entered at its entry point, though that was kept at a null    *)
(* pointer all the while.                                                  *)
KernelIsWhole == pc = "entered" =>
  /\ memory[0] = ENTRY
  /\ \A n \in DOMAIN image.headers : LET h == image.headers[n] IN h.load =>
       /\ PagesOf(h) \subseteq pages
       /\ \A k \in 0 .. h.memsz - 1 :
            memory[h.paddr + k] = IF k < h.filesz THEN h.offset + k ELSE ZERO

(* The kernel gets a memory map that is true, in a buffer that is still    *)
(* there, and of the loader's own buffers nothing is left but the font and *)
(* what the search for a video mode forgot.                                *)
HandsOver == pc = "entered" =>
  /\ fresh /\ "map" \in pool
  /\ pool \ {"map", "mode info"} \subseteq {"font header", "glyphs", "font"}
  /\ "kernel" \notin files

(* main.c, "Up to two new descriptors may be created": the loader fails to *)
(* get the memory map into the buffer it made for it only when the         *)
(* firmware has changed the map on its own.                                *)
MapFits == failed = "map" => disturbed

(* Boot services are refused to end only for the same reason: the loader   *)
(* itself allocates and frees nothing after it has got the map.            *)
KeyIsFresh == failed = "exit" => disturbed

(* What the kernel is given as the ACPI root is a root pointer, though the *)
(* search looks at the type of one entry and at the table of another.      *)
RsdpIsRootPointer == rsdp # 0 => tables[rsdp] \in {"ACPI 1.0", "ACPI 2.0"}
===============================================================================
