------------------------- MODULE PageFrameAllocator -------------------------
(***************************************************************************)
(* The page frame allocator of the kernel (paging/page_frame_allocator.c   *)
(* over paging/bitmap.c).  One bit per 4 KiB frame says whether the frame  *)
(* is taken, and three counters say how much memory is free, in use by     *)
(* somebody, or kept back for the firmware.                                *)
(*                                                                         *)
(* Addresses are frame numbers and the counters count frames: every        *)
(* address the allocator handles is divided by 4096 and every counter      *)
(* moves by 4096, so byte counters that wrap at 2^64 are frame counters    *)
(* that wrap at 2^52 (CounterMod).                                         *)
(*                                                                         *)
(* The bitmap has no more bits than its buffer, but none of the operations *)
(* checks an index against it: a bit past the end is a bit of whatever     *)
(* memory follows the buffer.  Those bits start with arbitrary contents    *)
(* (the ledger calls them stale) and are then read and written like the    *)
(* others; only the search for a free frame stays inside the buffer.       *)
(***************************************************************************)
EXTENDS Integers, Sequences, FiniteSets

CONSTANTS
  MemoryMaps,   (* memory maps the firmware may report: sequences of         *)
                (* descriptors [type, start, count], start and count in     *)
                (* frames                                                    *)
  NFrames,      (* addressable frames: frame numbers are 0 .. NFrames-1      *)
  ByteBits,     (* bits in a byte of the bitmap: 8                           *)
  PageBytes,    (* bytes in a frame: 4096                                    *)
  BitmapStruct, (* frame of the allocator's bitmap structure (not its buffer)*)
  CounterMod    (* the counters are counted modulo this: 2^52                *)

Frame == 0 .. NFrames - 1

(* EfiConventionalMemory *)
Conventional == 7

(* A memory map as the firmware reports it: nothing about the order, the   *)
(* gaps or the sizes of the descriptors is assumed, except that they and   *)
(* the bitmap made for them stay inside the addressable frames.            *)
Descriptor == [type : Nat, start : Frame, count : 0 .. NFrames]

(* get_memory_size: the sum of the counts of the descriptors.              *)
MemoryFrames(m) ==
  Cardinality({d \in (DOMAIN m) \X (0 .. NFrames) : d[2] < m[d[1]].count})

(* Bits of a bitmap whose size is memory_size / 4096 / 8 + 1 bytes.        *)
BitmapBytes(m) == MemoryFrames(m) \div ByteBits + 1
BitmapBits(m)  == BitmapBytes(m) * ByteBits

ASSUME SizeAssumption ==
  /\ NFrames \in Nat \ {0}
  /\ ByteBits \in Nat \ {0}
  /\ PageBytes \in Nat \ {0}
  /\ BitmapStruct \in Frame
  /\ CounterMod \in Nat \ {0}
  /\ CounterMod > NFrames

ASSUME MapAssumption ==
  \A m \in MemoryMaps :
    /\ m \in Seq(Descriptor)
    /\ MemoryFrames(m) < NFrames
    /\ BitmapBits(m) <= NFrames

VARIABLES
  mmap,         (* the memory map of this boot; never changes                *)
  initialized,  (* the allocator has read the map                            *)
  bits,         (* this->bitmap.size, in bits                                *)
  taken,        (* the frames whose bit is 1                                 *)
  free,         (* free_memory / 4096                                        *)
  used,         (* used_memory / 4096                                        *)
  reserved,     (* reserved_memory / 4096                                    *)
  result,       (* what the last request_page returned                       *)
  ledger,       (* history: who took each frame, which the code never records*)
  callers       (* history: "owners" until a page is freed by somebody who   *)
                (* did not request it, or reserved or unreserved from outside*)

vars == <<mmap, initialized, bits, taken, free, used, reserved, result, ledger, callers>>

(* The null pointer is address 0, and so is the address of frame 0.        *)
NULL == 0

Status == {"free", "requested", "locked", "reserved", "stale"}

(* Counters are unsigned and wrap.                                         *)
Wrap(n) == n % CounterMod

(* The frames an operation on page_count pages from address visits.        *)
Pages(address, page_count) ==
  {f \in Frame : address <= f /\ f < address + page_count}

(* The frames of the descriptors that are not conventional memory.         *)
FirmwareFrames(m) ==
  UNION {Pages(m[i].start, m[i].count) :
           i \in {j \in DOMAIN m : m[j].type # Conventional}}

Record(S, status) == ledger' = [f \in Frame |-> IF f \in S THEN status ELSE ledger[f]]

(* Nothing in the code keeps a caller from freeing pages it does not own,  *)
(* or from the two calls that only reading the map makes; that it happened *)
(* is remembered.                                                          *)
Owned(pages) == \A f \in pages : ledger[f] = "requested"
Freed(pages) ==
  callers' = IF callers = "owners" /\ Owned(pages) THEN "owners" ELSE "anybody"

-----------------------------------------------------------------------------
(***************************************************************************)
(* Reading the memory map, once.  init_bitmap clears the bits it has; then *)
(* the pages of the bitmap structure are locked and every descriptor that  *)
(* is not conventional memory is reserved.  A page whose bit is already 1  *)
(* is left alone and not counted.                                          *)
(***************************************************************************)
ReadMemoryMap ==
  LET n         == BitmapBits(mmap)
      beyond    == {f \in taken : f >= n}
      structure == Pages(BitmapStruct, BitmapBytes(mmap) \div PageBytes + 1)
      locks     == structure \ beyond
      reserves  == FirmwareFrames(mmap) \ (beyond \union structure)
  IN  /\ ~initialized
      /\ initialized' = TRUE
      /\ bits' = n
      /\ taken' = beyond \union locks \union reserves
      /\ free' = Wrap(MemoryFrames(mmap) - Cardinality(locks) - Cardinality(reserves))
      /\ used' = Wrap(used + Cardinality(locks))
      /\ reserved' = Wrap(reserved + Cardinality(reserves))
      /\ ledger' = [f \in Frame |-> IF f \in beyond THEN "stale"
                                      ELSE IF f \in locks THEN "locked"
                                      ELSE IF f \in reserves THEN "reserved" ELSE "free"]
      /\ UNCHANGED <<mmap, result, callers>>

(* A mistaken lock_pages that counts pages already taken once more.        *)
LockPagesRecount(address, page_count) ==
  LET locks == Pages(address, page_count)
  IN  /\ initialized
      /\ taken' = taken \union locks
      /\ free' = Wrap(free - Cardinality(locks))
      /\ used' = Wrap(used + Cardinality(locks))
      /\ Record(locks \ taken, "locked")
      /\ UNCHANGED <<mmap, initialized, bits, reserved, result, callers>>

(* lock_pages: a page that is already taken is skipped.                    *)
LockPages(address, page_count) ==
  LET locks == Pages(address, page_count) \ taken
  IN  /\ initialized
      /\ taken' = taken \union locks
      /\ free' = Wrap(free - Cardinality(locks))
      /\ used' = Wrap(used + Cardinality(locks))
      /\ Record(locks, "locked")
      /\ UNCHANGED <<mmap, initialized, bits, reserved, result, callers>>

(* Mistaken forms of free_pages: the counter moves for pages that were not *)
(* taken; the last bit is left set; one page too many is freed.            *)
FreePagesUnchecked(address, page_count) ==
  LET pages == Pages(address, page_count)
      frees == pages \intersect taken
  IN  /\ initialized
      /\ taken' = taken \ frees
      /\ free' = Wrap(free + Cardinality(pages))
      /\ used' = Wrap(used - Cardinality(frees))
      /\ Record(frees, "free")
      /\ Freed(Pages(address, page_count))
      /\ UNCHANGED <<mmap, initialized, bits, reserved, result>>

FreePagesKeepsLast(address, page_count) ==
  LET frees == Pages(address, page_count) \intersect taken
  IN  /\ initialized
      /\ taken' = taken \ Pages(address, page_count - 1)
      /\ free' = Wrap(free + Cardinality(frees))
      /\ used' = Wrap(used - Cardinality(frees))
      /\ Record(frees, "free")
      /\ Freed(Pages(address, page_count))
      /\ UNCHANGED <<mmap, initialized, bits, reserved, result>>

FreePagesOneMore(address, page_count) ==
  LET frees == Pages(address, page_count + 1) \intersect taken
  IN  /\ initialized
      /\ taken' = taken \ frees
      /\ free' = Wrap(free + Cardinality(frees))
      /\ used' = Wrap(used - Cardinality(frees))
      /\ Record(frees, "free")
      /\ Freed(Pages(address, page_count))
      /\ UNCHANGED <<mmap, initialized, bits, reserved, result>>

(* free_pages: a page that is not taken is skipped.                        *)
FreePages(address, page_count) ==
  LET frees == Pages(address, page_count) \intersect taken
  IN  /\ initialized
      /\ taken' = taken \ frees
      /\ free' = Wrap(free + Cardinality(frees))
      /\ used' = Wrap(used - Cardinality(frees))
      /\ Record(frees, "free")
      /\ Freed(Pages(address, page_count))
      /\ UNCHANGED <<mmap, initialized, bits, reserved, result>>

ReservePages(address, page_count) ==
  LET reserves == Pages(address, page_count) \ taken
  IN  /\ initialized
      /\ taken' = taken \union reserves
      /\ free' = Wrap(free - Cardinality(reserves))
      /\ reserved' = Wrap(reserved + Cardinality(reserves))
      /\ Record(reserves, "reserved")
      /\ callers' = "anybody"
      /\ UNCHANGED <<mmap, initialized, bits, used, result>>

UnreservePages(address, page_count) ==
  LET frees == Pages(address, page_count) \intersect taken
  IN  /\ initialized
      /\ taken' = taken \ frees
      /\ free' = Wrap(free + Cardinality(frees))
      /\ reserved' = Wrap(reserved - Cardinality(frees))
      /\ Record(frees, "free")
      /\ callers' = "anybody"
      /\ UNCHANGED <<mmap, initialized, bits, used, result>>

(* request_page searches the bitmap from the bottom for a 0 bit and locks  *)
(* that page.                                                              *)
Open == {f \in Frame : f < bits /\ f \notin taken}

(* A mistaken request_page that hands a page out without locking it.       *)
RequestPageUnlocked ==
  /\ initialized
  /\ \E f \in Open :
       /\ \A g \in Open : f <= g
       /\ result' = f
       /\ Record({f}, "requested")
  /\ UNCHANGED <<mmap, initialized, bits, taken, free, used, reserved, callers>>

RequestPage ==
  /\ initialized
  /\ \E f \in Open :
       /\ \A g \in Open : f <= g
       /\ result' = f
       /\ taken' = taken \union {f}
       /\ free' = Wrap(free - 1)
       /\ used' = Wrap(used + 1)
       /\ Record({f}, "requested")
  /\ UNCHANGED <<mmap, initialized, bits, reserved, callers>>

RequestFails ==
  /\ initialized
  /\ Open = {}
  /\ result' = NULL
  /\ UNCHANGED <<mmap, initialized, bits, taken, free, used, reserved, ledger, callers>>

-----------------------------------------------------------------------------
Init ==
  /\ mmap \in MemoryMaps
  /\ initialized = FALSE
  /\ bits = 0
  /\ taken \in SUBSET Frame
  /\ free = 0
  /\ used = 0
  /\ reserved = 0
  /\ result = NULL
  /\ ledger = [f \in Frame |-> IF f \in taken THEN "stale" ELSE "free"]
  /\ callers = "owners"

(* Any call with any range of frames.                                      *)
Next ==
  \/ ReadMemoryMap
  \/ RequestPage
  \/ RequestFails
  \/ \E a \in Frame, n \in 0 .. NFrames :
       \/ LockPages(a, n)
       \/ FreePages(a, n)
       \/ ReservePages(a, n)
       \/ UnreservePages(a, n)

Spec == Init /\ [][Next]_vars

-----------------------------------------------------------------------------
(* Every variable ranges over what the declarations in the code allow.     *)
TypeOK ==
  /\ mmap \in MemoryMaps
  /\ initialized \in BOOLEAN
  /\ bits \in 0 .. NFrames
  /\ taken \in SUBSET Frame
  /\ free \in 0 .. CounterMod - 1
  /\ used \in 0 .. CounterMod - 1
  /\ reserved \in 0 .. CounterMod - 1
  /\ result \in Frame
  /\ ledger \in [Frame -> Status]
  /\ callers \in {"owners", "anybody"}

Frames(status) == {f \in Frame : ledger[f] = status}

(* The bitmap never loses track of an owner: a bit is 1 exactly when some  *)
(* call took the frame and no call has given it back (or when it lies past *)
(* the buffer and has never been touched).                                 *)
BitmapMatchesLedger == taken = {f \in Frame : ledger[f] # "free"}

(* The three counters add up to the memory of the machine, modulo their    *)
(* width, whatever calls are made with whatever ranges: every early return *)
(* skips both halves of an update or neither.                              *)
Conservation ==
  initialized => Wrap(free + used + reserved) = Wrap(MemoryFrames(mmap))

(* As long as pages are freed only by whoever requested them (and nobody   *)
(* outside reserves or unreserves any), the used and                       *)
(* reserved figures are the exact numbers of frames owned that way and     *)
(* never wrap: get_used_ram and get_reserved_ram tell the truth.           *)
CountersExact ==
  callers = "owners" =>
    /\ used = Cardinality(Frames("requested") \union Frames("locked"))
    /\ reserved = Cardinality(Frames("reserved"))

(* A frame the firmware did not report as conventional memory is never     *)
(* handed out by request_page, whatever sequence of requests, locks and    *)
(* frees is made, as long as pages are freed by whoever requested them.    *)
FirmwareFramesSafe ==
  initialized /\ callers = "owners" =>
    \A f \in FirmwareFrames(mmap) : ledger[f] \notin {"free", "requested"}

(* The frames the search can reach are a pool from which each request      *)
(* takes a frame nobody holds, and only an empty pool refuses.             *)
Pool == INSTANCE FramePool WITH
          filled <- initialized, pool <- Open, handed <- Frames("requested")
PoolSpec == Pool!Spec
=============================================================================
