---------------------------- MODULE Paging_proofs ----------------------------
(* Theorems about the page frame allocator, for every memory map, number   *)
(* of frames and counter width, and about the page tables, for any         *)
(* addresses and as many places in a table as there may be.                *)
EXTENDS PageFrameAllocator, PageTables, FiniteSetTheorems, TLAPS

-----------------------------------------------------------------------------
(* Arithmetic of counters that wrap.                                       *)

(* A multiple of the modulus can be taken out of a remainder.              *)
LEMMA WrapMultiple ==
  ASSUME NEW a \in Int, NEW b \in Int, NEW q \in Int, a = b + q * CounterMod
  PROVE  Wrap(a) = Wrap(b)
<1> DEFINE M == CounterMod
<1>1. M \in Nat \ {0}
  BY SizeAssumption
<1> HIDE DEF M
<1> DEFINE qa == a \div M
           ra == a % M
           qb == b \div M
           rb == b % M
<1>2. qa \in Int /\ ra \in 0 .. M - 1 /\ a = M * qa + ra
  BY <1>1
<1>3. qb \in Int /\ rb \in 0 .. M - 1 /\ b = M * qb + rb
  BY <1>1
<1>r. ra = Wrap(a) /\ rb = Wrap(b)
  BY DEF Wrap, M
<1> HIDE DEF qa, ra, qb, rb
<1>4. a = b + q * M
  BY DEF M
<1> DEFINE d == qb + q - qa
<1>5. ra - rb = d * M
  BY <1>1, <1>2, <1>3, <1>4
<1>6. d \in Int
  BY <1>2, <1>3
<1> HIDE DEF d
<1>7. CASE d >= 1
  <2>1. d * M >= M
    BY <1>1, <1>6, <1>7
  <2> QED
    BY <2>1, <1>1, <1>2, <1>3, <1>5
<1>8. CASE d <= -1
  <2>1. d * M <= -M
    BY <1>1, <1>6, <1>8
  <2> QED
    BY <2>1, <1>1, <1>2, <1>3, <1>5
<1>9. CASE d = 0
  <2>1. d * M = 0
    BY <1>1, <1>9
  <2>2. ra = rb
    BY <2>1, <1>2, <1>3, <1>5
  <2> QED
    BY <2>2, <1>r
<1> QED
  BY <1>6, <1>7, <1>8, <1>9

(* A wrapped number differs from the number by a multiple of the modulus.  *)
LEMMA WrapDecompose ==
  ASSUME NEW a \in Int
  PROVE  /\ Wrap(a) \in 0 .. CounterMod - 1
         /\ \E q \in Int : Wrap(a) = a + q * CounterMod
<1>1. CounterMod \in Nat \ {0}
  BY SizeAssumption
<1>2. Wrap(a) \in 0 .. CounterMod - 1
  BY <1>1 DEF Wrap
<1>3. a = (a \div CounterMod) * CounterMod + Wrap(a)
  BY <1>1 DEF Wrap
<1>4. a \div CounterMod \in Int
  BY <1>1
<1>5. Wrap(a) = a + (-(a \div CounterMod)) * CounterMod
  BY <1>1, <1>2, <1>3, <1>4
<1> QED
  BY <1>2, <1>4, <1>5

(* Three counters that wrap add up, modulo their width, to what three      *)
(* unbounded counters would.                                               *)
LEMMA WrapSum ==
  ASSUME NEW a \in Int, NEW b \in Int, NEW c \in Int
  PROVE  Wrap(Wrap(a) + Wrap(b) + Wrap(c)) = Wrap(a + b + c)
<1>1. PICK p \in Int : Wrap(a) = a + p * CounterMod
  BY WrapDecompose
<1>2. PICK q \in Int : Wrap(b) = b + q * CounterMod
  BY WrapDecompose
<1>3. PICK r \in Int : Wrap(c) = c + r * CounterMod
  BY WrapDecompose
<1>4. CounterMod \in Int
  BY SizeAssumption
<1>5. Wrap(a) + Wrap(b) + Wrap(c) = (a + b + c) + (p + q + r) * CounterMod
  BY <1>1, <1>2, <1>3, <1>4
<1>6. /\ Wrap(a) + Wrap(b) + Wrap(c) \in Int
      /\ a + b + c \in Int
      /\ p + q + r \in Int
  BY <1>1, <1>2, <1>3, <1>4
<1> QED
  BY <1>5, <1>6, WrapMultiple

(* A number that fits the counters is not changed.                         *)
LEMMA WrapSmall ==
  ASSUME NEW a \in 0 .. CounterMod - 1
  PROVE  Wrap(a) = a
BY SizeAssumption DEF Wrap

-----------------------------------------------------------------------------
(* Sets of frames.                                                         *)

(* The machine's frames are finitely many,                                 *)
LEMMA FrameFinite == IsFiniteSet(Frame) /\ Cardinality(Frame) = NFrames
BY FS_Interval, SizeAssumption DEF Frame

(* and so is every set of them.                                            *)
LEMMA FramesFinite ==
  ASSUME NEW S \in SUBSET Frame
  PROVE  /\ IsFiniteSet(S)
         /\ Cardinality(S) \in 0 .. NFrames
<1>1. IsFiniteSet(S) /\ Cardinality(S) <= NFrames
  BY FrameFinite, FS_Subset
<1> QED
  BY <1>1, FS_CardinalityType, SizeAssumption

(* What a memory map describes has its type.                               *)
LEMMA MapTypes ==
  ASSUME NEW m \in MemoryMaps
  PROVE  /\ MemoryFrames(m) \in 0 .. NFrames - 1
         /\ BitmapBytes(m) \in Nat
         /\ BitmapBits(m) \in 0 .. NFrames
<1> DEFINE D == {d \in (DOMAIN m) \X (0 .. NFrames) : d[2] < m[d[1]].count}
<1>1. m \in Seq(Descriptor) /\ MemoryFrames(m) < NFrames /\ BitmapBits(m) <= NFrames
  BY MapAssumption
<1>2. DOMAIN m = 1 .. Len(m) /\ Len(m) \in Nat
  BY <1>1
<1>3. IsFiniteSet(DOMAIN m) /\ IsFiniteSet(0 .. NFrames)
  BY <1>2, FS_Interval, SizeAssumption
<1>4. IsFiniteSet((DOMAIN m) \X (0 .. NFrames))
  BY <1>3, FS_Product
<1>5. IsFiniteSet(D)
  BY <1>4, FS_Subset
<1>6. MemoryFrames(m) \in Nat
  BY <1>5, FS_CardinalityType DEF MemoryFrames
<1>7. BitmapBytes(m) \in Nat
  BY <1>6, SizeAssumption DEF BitmapBytes
<1>8. BitmapBits(m) \in Nat
  BY <1>7, SizeAssumption DEF BitmapBits
<1> QED
  BY <1>1, <1>6, <1>7, <1>8, SizeAssumption

(* A range of pages is a set of frames.                                    *)
LEMMA PagesType ==
  ASSUME NEW a, NEW n
  PROVE  Pages(a, n) \in SUBSET Frame
BY DEF Pages

(* The frames the bitmap leaves open are frames.                           *)
LEMMA OpenType == Open \in SUBSET Frame
BY DEF Open

-----------------------------------------------------------------------------
(* Type correctness.                                                       *)

(* Every variable keeps its type under any sequence of calls; in           *)
(* particular the counters stay unsigned and the bits of descriptors above *)
(* the bitmap stay inside the addressable frames.                          *)
THEOREM TypeCorrect == Spec => []TypeOK
<1>1. Init => TypeOK
  <2> SUFFICES ASSUME Init PROVE TypeOK
    OBVIOUS
  <2>1. ledger \in [Frame -> Status]
    BY DEF Init, Status
  <2>2. 0 \in Frame /\ 0 \in 0 .. NFrames /\ 0 \in 0 .. CounterMod - 1
    BY SizeAssumption DEF Frame
  <2> QED
    BY <2>1, <2>2 DEF Init, TypeOK, NULL
<1>2. TypeOK /\ [Next]_vars => TypeOK'
  <2> SUFFICES ASSUME TypeOK, [Next]_vars
               PROVE  TypeOK'
    OBVIOUS
  <2> USE DEF TypeOK
  <2>w. \A n \in Int : Wrap(n) \in 0 .. CounterMod - 1
    BY WrapDecompose
  <2>c. \A S \in SUBSET Frame : Cardinality(S) \in Int
    BY FramesFinite
  <2>i. free \in Int /\ used \in Int /\ reserved \in Int
    OBVIOUS
  <2>r. \A S, st : st \in Status /\ Record(S, st) => ledger' \in [Frame -> Status]
    BY DEF Record
  <2>s. "requested" \in Status /\ "locked" \in Status /\ "reserved" \in Status
        /\ "free" \in Status /\ "stale" \in Status
    BY DEF Status
  <2>1. CASE ReadMemoryMap
    <3> DEFINE beyond    == {f \in taken : f >= BitmapBits(mmap)}
               structure == Pages(BitmapStruct, BitmapBytes(mmap) \div PageBytes + 1)
               locks     == structure \ beyond
               reserves  == FirmwareFrames(mmap) \ (beyond \union structure)
    <3>1. FirmwareFrames(mmap) \in SUBSET Frame /\ structure \in SUBSET Frame
      BY PagesType DEF FirmwareFrames
    <3>2. locks \in SUBSET Frame /\ reserves \in SUBSET Frame /\ beyond \in SUBSET Frame
      BY <3>1
    <3>3. bits' \in 0 .. NFrames /\ MemoryFrames(mmap) \in Int
      BY <2>1, MapTypes DEF ReadMemoryMap
    <3>4. taken' = beyond \union locks \union reserves
      BY <2>1 DEF ReadMemoryMap
    <3>5. ledger' \in [Frame -> Status]
      <4>1. ledger' = [f \in Frame |-> IF f \in beyond THEN "stale"
                                         ELSE IF f \in locks THEN "locked"
                                         ELSE IF f \in reserves THEN "reserved" ELSE "free"]
        BY <2>1 DEF ReadMemoryMap
      <4> HIDE DEF beyond, locks, reserves
      <4> QED
        BY <4>1, <2>s
    <3>6. /\ free' = Wrap(MemoryFrames(mmap) - Cardinality(locks) - Cardinality(reserves))
          /\ used' = Wrap(used + Cardinality(locks))
          /\ reserved' = Wrap(reserved + Cardinality(reserves))
      BY <2>1 DEF ReadMemoryMap
    <3>7. /\ free' \in 0 .. CounterMod - 1
          /\ used' \in 0 .. CounterMod - 1
          /\ reserved' \in 0 .. CounterMod - 1
      <4>1. Cardinality(locks) \in Int /\ Cardinality(reserves) \in Int
        BY <3>2, <2>c
      <4> HIDE DEF locks, reserves
      <4> QED
        BY <4>1, <3>3, <3>6, <2>w, <2>i
    <3> QED
      BY <2>1, <3>2, <3>3, <3>4, <3>5, <3>7 DEF ReadMemoryMap
  <2>2. ASSUME NEW a \in Frame, NEW n \in 0 .. NFrames, LockPages(a, n)
        PROVE  TypeOK'
    BY <2>2, PagesType, <2>w, <2>c, <2>i, <2>r, <2>s DEF LockPages
  <2>3. ASSUME NEW a \in Frame, NEW n \in 0 .. NFrames, FreePages(a, n)
        PROVE  TypeOK'
    BY <2>3, PagesType, <2>w, <2>c, <2>i, <2>r, <2>s DEF FreePages, Freed
  <2>4. ASSUME NEW a \in Frame, NEW n \in 0 .. NFrames, ReservePages(a, n)
        PROVE  TypeOK'
    BY <2>4, PagesType, <2>w, <2>c, <2>i, <2>r, <2>s DEF ReservePages
  <2>5. ASSUME NEW a \in Frame, NEW n \in 0 .. NFrames, UnreservePages(a, n)
        PROVE  TypeOK'
    BY <2>5, PagesType, <2>w, <2>c, <2>i, <2>r, <2>s DEF UnreservePages
  <2>6. CASE RequestPage
    BY <2>6, OpenType, <2>w, <2>i, <2>r, <2>s DEF RequestPage
  <2>7. CASE RequestFails
    BY <2>7, SizeAssumption DEF RequestFails, NULL, Frame
  <2>8. CASE UNCHANGED vars
    BY <2>8 DEF vars
  <2> QED
    BY <2>1, <2>2, <2>3, <2>4, <2>5, <2>6, <2>7, <2>8 DEF Next
<1> QED
  BY <1>1, <1>2, PTL DEF Spec

-----------------------------------------------------------------------------
(* The bitmap and its owners.                                              *)

(* A bit is 1 exactly as long as some call has taken the frame and none    *)
(* has given it back, for any sequence of calls with any ranges.           *)
THEOREM BitmapCorrect == Spec => []BitmapMatchesLedger
<1>1. Init => BitmapMatchesLedger
  BY DEF Init, BitmapMatchesLedger
<1>2. TypeOK /\ BitmapMatchesLedger /\ [Next]_vars => BitmapMatchesLedger'
  <2> SUFFICES ASSUME TypeOK, BitmapMatchesLedger, [Next]_vars
               PROVE  BitmapMatchesLedger'
    OBVIOUS
  <2> USE DEF TypeOK, BitmapMatchesLedger, Record
  <2>1. CASE ReadMemoryMap
    <3>1. FirmwareFrames(mmap) \in SUBSET Frame
      BY PagesType DEF FirmwareFrames
    <3> QED
      BY <2>1, <3>1, PagesType DEF ReadMemoryMap
  <2>2. ASSUME NEW a \in Frame, NEW n \in 0 .. NFrames, LockPages(a, n)
        PROVE  BitmapMatchesLedger'
    BY <2>2, PagesType DEF LockPages
  <2>3. ASSUME NEW a \in Frame, NEW n \in 0 .. NFrames, FreePages(a, n)
        PROVE  BitmapMatchesLedger'
    BY <2>3 DEF FreePages
  <2>4. ASSUME NEW a \in Frame, NEW n \in 0 .. NFrames, ReservePages(a, n)
        PROVE  BitmapMatchesLedger'
    BY <2>4, PagesType DEF ReservePages
  <2>5. ASSUME NEW a \in Frame, NEW n \in 0 .. NFrames, UnreservePages(a, n)
        PROVE  BitmapMatchesLedger'
    BY <2>5 DEF UnreservePages
  <2>6. CASE RequestPage
    BY <2>6, OpenType DEF RequestPage
  <2>7. CASE RequestFails \/ UNCHANGED vars
    BY <2>7 DEF RequestFails, vars
  <2> QED
    BY <2>1, <2>2, <2>3, <2>4, <2>5, <2>6, <2>7 DEF Next
<1> QED
  BY <1>1, <1>2, TypeCorrect, PTL DEF Spec

-----------------------------------------------------------------------------
(* The counters.                                                           *)

(* Until the map is read nothing is counted.                               *)
NothingCounted == ~initialized => used = 0 /\ reserved = 0

(* Moving n frames from one counter to another leaves the sum alone.       *)
LEMMA MoveBetween ==
  ASSUME NEW a \in 0 .. CounterMod - 1, NEW b \in 0 .. CounterMod - 1,
         NEW c \in 0 .. CounterMod - 1, NEW n \in Int
  PROVE  /\ Wrap(Wrap(a + n) + Wrap(b - n) + c) = Wrap(a + b + c)
         /\ Wrap(Wrap(a - n) + Wrap(b + n) + c) = Wrap(a + b + c)
         /\ Wrap(Wrap(a + n) + b + Wrap(c - n)) = Wrap(a + b + c)
         /\ Wrap(Wrap(a - n) + b + Wrap(c + n)) = Wrap(a + b + c)
<1>1. Wrap(b) = b /\ Wrap(c) = c
  BY WrapSmall
<1>2. a \in Int /\ b \in Int /\ c \in Int
  OBVIOUS
<1>3. /\ (a + n) + (b - n) + c = a + b + c
      /\ (a - n) + (b + n) + c = a + b + c
      /\ (a + n) + b + (c - n) = a + b + c
      /\ (a - n) + b + (c + n) = a + b + c
  BY <1>2
<1>4. a + n \in Int /\ a - n \in Int /\ b + n \in Int /\ b - n \in Int
      /\ c + n \in Int /\ c - n \in Int
  BY <1>2
<1> DEFINE ap == a + n
           am == a - n
           bp == b + n
           bm == b - n
           cp == c + n
           cm == c - n
<1>5. ap \in Int /\ am \in Int /\ bp \in Int /\ bm \in Int /\ cp \in Int /\ cm \in Int
  BY <1>4
<1> HIDE DEF ap, am, bp, bm, cp, cm
<1>6. Wrap(Wrap(ap) + Wrap(bm) + Wrap(c)) = Wrap(ap + bm + c)
  BY <1>2, <1>5, WrapSum
<1>7. Wrap(Wrap(am) + Wrap(bp) + Wrap(c)) = Wrap(am + bp + c)
  BY <1>2, <1>5, WrapSum
<1>8. Wrap(Wrap(ap) + Wrap(b) + Wrap(cm)) = Wrap(ap + b + cm)
  BY <1>2, <1>5, WrapSum
<1>9. Wrap(Wrap(am) + Wrap(b) + Wrap(cp)) = Wrap(am + b + cp)
  BY <1>2, <1>5, WrapSum
<1> QED
  BY <1>1, <1>3, <1>6, <1>7, <1>8, <1>9 DEF ap, am, bp, bm, cp, cm

(* free + used + reserved is the memory of the machine, modulo the width   *)
(* of the counters, after any sequence of calls with any ranges.           *)
THEOREM MemoryConserved == Spec => []Conservation
<1> DEFINE Inv == NothingCounted /\ Conservation
<1>1. Init => Inv
  BY DEF Init, NothingCounted, Conservation
<1>2. TypeOK /\ Inv /\ [Next]_vars => Inv'
  <2> SUFFICES ASSUME TypeOK, Inv, [Next]_vars
               PROVE  Inv'
    OBVIOUS
  <2>c. \A S \in SUBSET Frame : Cardinality(S) \in Int
    BY FramesFinite
  <2>t. /\ free \in 0 .. CounterMod - 1
        /\ used \in 0 .. CounterMod - 1
        /\ reserved \in 0 .. CounterMod - 1
        /\ taken \in SUBSET Frame
    BY DEF TypeOK
  <2>1. CASE ReadMemoryMap
    <3> DEFINE beyond    == {f \in taken : f >= BitmapBits(mmap)}
               structure == Pages(BitmapStruct, BitmapBytes(mmap) \div PageBytes + 1)
               locks     == structure \ beyond
               reserves  == FirmwareFrames(mmap) \ (beyond \union structure)
               total     == MemoryFrames(mmap)
               l         == Cardinality(locks)
               r         == Cardinality(reserves)
    <3>1. FirmwareFrames(mmap) \in SUBSET Frame /\ structure \in SUBSET Frame
      BY PagesType DEF FirmwareFrames
    <3>2. l \in Int /\ r \in Int
      BY <3>1, <2>c
    <3>3. total \in Int
      BY MapTypes DEF TypeOK
    <3>4. initialized' = TRUE /\ used = 0 /\ reserved = 0 /\ mmap' = mmap
      BY <2>1 DEF ReadMemoryMap, NothingCounted
    <3>5. free' = Wrap(total - l - r) /\ used' = Wrap(used + l) /\ reserved' = Wrap(reserved + r)
      BY <2>1 DEF ReadMemoryMap
    <3> HIDE DEF l, r, total
    <3>6. Wrap(free' + used' + reserved') = Wrap((total - l - r) + (0 + l) + (0 + r))
      BY <3>2, <3>3, <3>4, <3>5, WrapSum
    <3>7. (total - l - r) + (0 + l) + (0 + r) = total
      BY <3>2, <3>3
    <3> QED
      BY <3>4, <3>6, <3>7 DEF Conservation, NothingCounted, total
  <2>2. ASSUME NEW a \in Frame, NEW n \in 0 .. NFrames, LockPages(a, n)
        PROVE  Inv'
    <3>1. Cardinality(Pages(a, n) \ taken) \in Int
      BY <2>c, PagesType
    <3> QED
      BY <2>2, <3>1, <2>t, MoveBetween DEF LockPages, NothingCounted, Conservation
  <2>3. ASSUME NEW a \in Frame, NEW n \in 0 .. NFrames, FreePages(a, n)
        PROVE  Inv'
    <3>1. Cardinality(Pages(a, n) \intersect taken) \in Int
      BY <2>c, <2>t
    <3> QED
      BY <2>3, <3>1, <2>t, MoveBetween DEF FreePages, NothingCounted, Conservation
  <2>4. ASSUME NEW a \in Frame, NEW n \in 0 .. NFrames, ReservePages(a, n)
        PROVE  Inv'
    <3>1. Cardinality(Pages(a, n) \ taken) \in Int
      BY <2>c, PagesType
    <3> QED
      BY <2>4, <3>1, <2>t, MoveBetween DEF ReservePages, NothingCounted, Conservation
  <2>5. ASSUME NEW a \in Frame, NEW n \in 0 .. NFrames, UnreservePages(a, n)
        PROVE  Inv'
    <3>1. Cardinality(Pages(a, n) \intersect taken) \in Int
      BY <2>c, <2>t
    <3> QED
      BY <2>5, <3>1, <2>t, MoveBetween DEF UnreservePages, NothingCounted, Conservation
  <2>6. CASE RequestPage
    BY <2>6, <2>t, MoveBetween DEF RequestPage, NothingCounted, Conservation
  <2>7. CASE RequestFails \/ UNCHANGED vars
    BY <2>7 DEF RequestFails, vars, NothingCounted, Conservation
  <2> QED
    BY <2>1, <2>2, <2>3, <2>4, <2>5, <2>6, <2>7 DEF Next
<1> QED
  BY <1>1, <1>2, TypeCorrect, PTL DEF Spec

-----------------------------------------------------------------------------
(* The allocator implements a pool of frames.                              *)

(* Only frames inside the bitmap are ever handed out.                      *)
HandedInBitmap ==
  /\ ~initialized => bits = 0
  /\ \A f \in Frames("requested") : f < bits

(* What has been handed out is in the bitmap.                              *)
LEMMA HandedInBitmapHolds == Spec => []HandedInBitmap
<1>1. Init => HandedInBitmap
  BY DEF Init, HandedInBitmap, Frames
<1>2. TypeOK /\ HandedInBitmap /\ [Next]_vars => HandedInBitmap'
  <2> SUFFICES ASSUME TypeOK, HandedInBitmap, [Next]_vars
               PROVE  HandedInBitmap'
    OBVIOUS
  <2> USE DEF TypeOK, HandedInBitmap, Record, Frames
  <2>1. CASE ReadMemoryMap
    BY <2>1 DEF ReadMemoryMap
  <2>2. ASSUME NEW a \in Frame, NEW n \in 0 .. NFrames,
               \/ LockPages(a, n) \/ FreePages(a, n)
               \/ ReservePages(a, n) \/ UnreservePages(a, n)
        PROVE  HandedInBitmap'
    BY <2>2 DEF LockPages, FreePages, ReservePages, UnreservePages
  <2>3. CASE RequestPage
    BY <2>3 DEF RequestPage, Open
  <2>4. CASE RequestFails \/ UNCHANGED vars
    BY <2>4 DEF RequestFails, vars
  <2> QED
    BY <2>1, <2>2, <2>3, <2>4 DEF Next
<1> QED
  BY <1>1, <1>2, TypeCorrect, PTL DEF Spec

(* Every call is a step of the pool or leaves it alone: a request takes a  *)
(* frame that is in the pool and in nobody's hands, and is refused only    *)
(* when the pool is empty.                                                 *)
THEOREM ImplementsPool == Spec => PoolSpec
<1>1. Init => Pool!Init
  BY SizeAssumption DEF Init, Pool!Init, Pool!Refusal, Open, Frames, Frame, NULL
<1>2. /\ TypeOK /\ BitmapMatchesLedger /\ HandedInBitmap
      /\ [Next]_vars
      => [Pool!Next]_(Pool!vars)
  <2> SUFFICES ASSUME TypeOK, BitmapMatchesLedger, HandedInBitmap, [Next]_vars
               PROVE  Pool!Next \/ UNCHANGED Pool!vars
    OBVIOUS
  <2> USE DEF TypeOK, HandedInBitmap, BitmapMatchesLedger, Record, Frames, Open
  <2>f. Pool!Frame = Frame
    BY DEF Pool!Frame, Frame
  <2>1. CASE ReadMemoryMap
    <3>1. Frames("requested")' = Frames("requested")
      BY <2>1, SizeAssumption DEF ReadMemoryMap, Frame
    <3>2. Open' \in SUBSET Frame
      OBVIOUS
    <3> QED
      BY <2>1, <2>f, <3>1, <3>2 DEF ReadMemoryMap, Pool!Next, Pool!Fill
  <2>2. ASSUME NEW a \in Frame, NEW n \in 0 .. NFrames,
               LockPages(a, n) \/ ReservePages(a, n)
        PROVE  Pool!Next
    <3>1. Frames("requested")' = Frames("requested")
      BY <2>2 DEF LockPages, ReservePages
    <3>2. Open' \in SUBSET Open
      BY <2>2 DEF LockPages, ReservePages
    <3> QED
      BY <2>2, <3>1, <3>2 DEF LockPages, ReservePages, Pool!Next, Pool!Withdraw
  <2>3. ASSUME NEW a \in Frame, NEW n \in 0 .. NFrames,
               FreePages(a, n) \/ UnreservePages(a, n)
        PROVE  Pool!Next
    <3> DEFINE frees == Pages(a, n) \intersect taken
               S     == {f \in frees : f < bits}
    <3>1. Open' = Open \union S
      BY <2>3 DEF FreePages, UnreservePages
    <3>2. Frames("requested")' = Frames("requested") \ S
      BY <2>3 DEF FreePages, UnreservePages
    <3>3. S \in SUBSET Pool!Frame
      BY <2>f
    <3>4. initialized /\ initialized' = initialized /\ result' = result
      BY <2>3 DEF FreePages, UnreservePages
    <3>5. Pool!GiveBack
      <4> HIDE DEF S, Open, Frames
      <4> QED
        BY <3>1, <3>2, <3>3, <3>4 DEF Pool!GiveBack
    <3> QED
      BY <3>5 DEF Pool!Next
  <2>4. CASE RequestPage
    <3>1. PICK f \in Open : /\ result' = f
                            /\ taken' = taken \union {f}
                            /\ Record({f}, "requested")
      BY <2>4 DEF RequestPage
    <3>2. initialized /\ initialized' = initialized /\ bits' = bits
      BY <2>4 DEF RequestPage
    <3>3. f \notin Frames("requested")
      OBVIOUS
    <3>4. Open' = Open \ {f}
      BY <3>1, <3>2
    <3>5. Frames("requested")' = Frames("requested") \union {f}
      BY <3>1
    <3>6. Pool!Take
      <4> HIDE DEF Open, Frames
      <4> QED
        BY <3>1, <3>2, <3>3, <3>4, <3>5 DEF Pool!Take
    <3> QED
      BY <3>6 DEF Pool!Next
  <2>5. CASE RequestFails
    BY <2>5 DEF RequestFails, Pool!Next, Pool!Refuse, Pool!Refusal, NULL
  <2>6. CASE UNCHANGED vars
    BY <2>6 DEF vars, Pool!vars
  <2> QED
    BY <2>1, <2>2, <2>3, <2>4, <2>5, <2>6 DEF Next
<1> QED
  BY <1>1, <1>2, TypeCorrect, BitmapCorrect, HandedInBitmapHolds, PTL
  DEF Spec, PoolSpec, Pool!Spec

-----------------------------------------------------------------------------
(* What holds while pages are freed only by whoever requested them.        *)

(* The calls after which it still holds.                                   *)
OwnersStep ==
  \/ ReadMemoryMap
  \/ RequestPage
  \/ RequestFails
  \/ \E a \in Frame, n \in 0 .. NFrames :
       \/ LockPages(a, n)
       \/ Owned(Pages(a, n)) /\ FreePages(a, n)
  \/ UNCHANGED vars

(* When nobody has trespassed after a step, nobody had before it, and the  *)
(* step is an owner's call.                                                *)
LEMMA OwnersOnly ==
  ASSUME [Next]_vars, callers' = "owners"
  PROVE  callers = "owners" /\ OwnersStep
<1>1. CASE ReadMemoryMap
  BY <1>1 DEF ReadMemoryMap, OwnersStep
<1>2. CASE RequestPage
  BY <1>2 DEF RequestPage, OwnersStep
<1>3. CASE RequestFails
  BY <1>3 DEF RequestFails, OwnersStep
<1>4. ASSUME NEW a \in Frame, NEW n \in 0 .. NFrames, LockPages(a, n)
      PROVE  callers = "owners" /\ OwnersStep
  BY <1>4 DEF LockPages, OwnersStep
<1>5. ASSUME NEW a \in Frame, NEW n \in 0 .. NFrames, FreePages(a, n)
      PROVE  callers = "owners" /\ OwnersStep
  <2>1. Freed(Pages(a, n))
    BY <1>5 DEF FreePages
  <2>2. callers = "owners" /\ Owned(Pages(a, n))
    BY <2>1 DEF Freed
  <2> QED
    BY <1>5, <2>2 DEF OwnersStep
<1>6. ASSUME NEW a \in Frame, NEW n \in 0 .. NFrames, ReservePages(a, n)
      PROVE  FALSE
  BY <1>6 DEF ReservePages
<1>7. ASSUME NEW a \in Frame, NEW n \in 0 .. NFrames, UnreservePages(a, n)
      PROVE  FALSE
  BY <1>7 DEF UnreservePages
<1>8. CASE UNCHANGED vars
  BY <1>8 DEF vars, OwnersStep
<1> QED
  BY <1>1, <1>2, <1>3, <1>4, <1>5, <1>6, <1>7, <1>8 DEF Next

(* A frame the firmware keeps is never handed out, nor does it become free *)
(* while pages are freed by their owners, for every memory map - also one  *)
(* whose descriptors overlap, leave holes or lie above the bitmap.         *)
THEOREM FirmwareFramesKept == Spec => []FirmwareFramesSafe
<1>1. Init => FirmwareFramesSafe
  BY DEF Init, FirmwareFramesSafe
<1>2. /\ TypeOK /\ BitmapMatchesLedger /\ FirmwareFramesSafe
      /\ [Next]_vars
      => FirmwareFramesSafe'
  <2> SUFFICES ASSUME TypeOK, BitmapMatchesLedger, FirmwareFramesSafe, [Next]_vars,
                      callers' = "owners"
               PROVE  FirmwareFramesSafe'
    BY DEF FirmwareFramesSafe
  <2>o. callers = "owners" /\ OwnersStep
    BY OwnersOnly
  <2> USE <2>o DEF TypeOK, BitmapMatchesLedger, FirmwareFramesSafe, Record
  <2>0. FirmwareFrames(mmap) \in SUBSET Frame
    BY PagesType DEF FirmwareFrames
  <2>1. CASE ReadMemoryMap
    BY <2>1, <2>0 DEF ReadMemoryMap
  <2>2. ASSUME NEW a \in Frame, NEW n \in 0 .. NFrames, LockPages(a, n)
        PROVE  FirmwareFramesSafe'
    BY <2>2, <2>0 DEF LockPages
  <2>3. ASSUME NEW a \in Frame, NEW n \in 0 .. NFrames, FreePages(a, n),
               Owned(Pages(a, n))
        PROVE  FirmwareFramesSafe'
    BY <2>3, <2>0 DEF FreePages, Owned
  <2>4. CASE RequestPage
    BY <2>4, <2>0 DEF RequestPage, Open
  <2>5. CASE RequestFails \/ UNCHANGED vars
    BY <2>5 DEF RequestFails, vars
  <2> QED
    BY <2>1, <2>2, <2>3, <2>4, <2>5 DEF OwnersStep
<1> QED
  BY <1>1, <1>2, TypeCorrect, BitmapCorrect, PTL DEF Spec

(* Wrapping changes neither the sum of two disjoint sets of frames nor the *)
(* difference of nested ones.                                              *)
LEMMA CountUnion ==
  ASSUME NEW S \in SUBSET Frame, NEW T \in SUBSET Frame, S \intersect T = {}
  PROVE  Wrap(Cardinality(S) + Cardinality(T)) = Cardinality(S \union T)
<1>1. IsFiniteSet(S) /\ IsFiniteSet(T) /\ S \union T \in SUBSET Frame
  BY FramesFinite
<1>2. Cardinality(S \union T) = Cardinality(S) + Cardinality(T) - Cardinality({})
  BY <1>1, FS_Union
<1>3. Cardinality(S) \in Nat /\ Cardinality(T) \in Nat /\ Cardinality({}) = 0
  BY FramesFinite, FS_EmptySet, SizeAssumption
<1>4. Cardinality(S \union T) \in 0 .. NFrames
  BY <1>1, FramesFinite
<1>5. Cardinality(S \union T) = Cardinality(S) + Cardinality(T)
  BY <1>2, <1>3
<1>6. Cardinality(S \union T) \in 0 .. CounterMod - 1
  BY <1>4, SizeAssumption
<1> QED
  BY <1>5, <1>6, WrapSmall

(* Taking a part away subtracts its size.                                  *)
LEMMA CountMinus ==
  ASSUME NEW S \in SUBSET Frame, NEW T \in SUBSET S
  PROVE  Wrap(Cardinality(S) - Cardinality(T)) = Cardinality(S \ T)
<1>1. IsFiniteSet(S) /\ S \ T \in SUBSET Frame /\ S \intersect T = T
  BY FramesFinite
<1>2. Cardinality(S \ T) = Cardinality(S) - Cardinality(T)
  BY <1>1, FS_Difference
<1>3. Cardinality(S \ T) \in 0 .. NFrames
  BY <1>1, FramesFinite
<1>4. Cardinality(S \ T) \in 0 .. CounterMod - 1
  BY <1>3, SizeAssumption
<1> QED
  BY <1>2, <1>4, WrapSmall

(* While pages are freed by their owners the used and the reserved counter *)
(* are exactly the numbers of frames owned that way: neither drifts nor    *)
(* wraps.                                                                  *)
THEOREM CountersTellTheTruth == Spec => []CountersExact
<1> DEFINE Theirs == Frames("requested") \union Frames("locked")
           Blank == ~initialized => Theirs = {} /\ Frames("reserved") = {}
           Exact == used = Cardinality(Theirs) /\ reserved = Cardinality(Frames("reserved"))
           Inv   == callers = "owners" => Blank /\ Exact
<1>1. Init => Inv
  <2> SUFFICES ASSUME Init PROVE Inv
    OBVIOUS
  <2>1. Theirs = {} /\ Frames("reserved") = {}
    BY DEF Init, Frames
  <2> HIDE DEF Theirs
  <2> QED
    BY <2>1, FS_EmptySet DEF Init, Theirs
<1>2. TypeOK /\ BitmapMatchesLedger /\ Inv /\ [Next]_vars => Inv'
  <2> SUFFICES ASSUME TypeOK, BitmapMatchesLedger, Inv, [Next]_vars, callers' = "owners"
               PROVE  Blank' /\ Exact'
    OBVIOUS
  <2>a. callers = "owners" /\ OwnersStep
    BY OwnersOnly
  <2>b. Blank /\ Exact
    BY <2>a
  <2>t. taken \in SUBSET Frame /\ ledger \in [Frame -> Status]
    BY DEF TypeOK
  <2>o. Theirs \in SUBSET Frame /\ Frames("reserved") \in SUBSET Frame
    BY DEF Frames
  <2>u. used = Cardinality(Theirs) /\ reserved = Cardinality(Frames("reserved"))
    BY <2>b
  <2>1. CASE ReadMemoryMap
    <3> DEFINE beyond    == {f \in taken : f >= BitmapBits(mmap)}
               structure == Pages(BitmapStruct, BitmapBytes(mmap) \div PageBytes + 1)
               locks     == structure \ beyond
               reserves  == FirmwareFrames(mmap) \ (beyond \union structure)
    <3>1. locks \in SUBSET Frame /\ reserves \in SUBSET Frame
      BY PagesType DEF FirmwareFrames
    <3>2. ~initialized /\ initialized' = TRUE
      BY <2>1 DEF ReadMemoryMap
    <3>3. Theirs = {} /\ Frames("reserved") = {}
      BY <2>b, <3>2
    <3>4. Theirs' = Theirs \union locks /\ Frames("reserved")' = Frames("reserved") \union reserves
      <4>1. ledger' = [f \in Frame |-> IF f \in beyond THEN "stale"
                                         ELSE IF f \in locks THEN "locked"
                                         ELSE IF f \in reserves THEN "reserved" ELSE "free"]
        BY <2>1 DEF ReadMemoryMap
      <4>2. locks \intersect beyond = {} /\ reserves \intersect (beyond \union locks) = {}
        OBVIOUS
      <4> HIDE DEF beyond, locks, reserves
      <4> QED
        BY <4>1, <4>2, <3>1, <3>3 DEF Frames
    <3>5. used' = Wrap(used + Cardinality(locks)) /\ reserved' = Wrap(reserved + Cardinality(reserves))
      BY <2>1 DEF ReadMemoryMap
    <3> HIDE DEF locks, reserves
    <3>6. /\ Wrap(Cardinality(Theirs) + Cardinality(locks)) = Cardinality(Theirs \union locks)
          /\ Wrap(Cardinality(Frames("reserved")) + Cardinality(reserves))
             = Cardinality(Frames("reserved") \union reserves)
      BY <3>1, <3>3, <2>o, CountUnion
    <3> QED
      BY <2>u, <3>2, <3>4, <3>5, <3>6
  <2>2. ASSUME NEW a \in Frame, NEW n \in 0 .. NFrames, LockPages(a, n)
        PROVE  Blank' /\ Exact'
    <3> DEFINE locks == Pages(a, n) \ taken
    <3>1. locks \in SUBSET Frame /\ Theirs \intersect locks = {}
      BY PagesType DEF BitmapMatchesLedger, Frames
    <3>2. Theirs' = Theirs \union locks /\ Frames("reserved")' = Frames("reserved")
      BY <2>2, <2>t, <3>1 DEF LockPages, Record, Frames, BitmapMatchesLedger
    <3>3. /\ used' = Wrap(used + Cardinality(locks)) /\ reserved' = reserved
          /\ initialized' = initialized /\ initialized
      BY <2>2 DEF LockPages
    <3> HIDE DEF locks
    <3>4. Wrap(Cardinality(Theirs) + Cardinality(locks)) = Cardinality(Theirs \union locks)
      BY <3>1, <2>o, CountUnion
    <3> QED
      BY <2>u, <3>2, <3>3, <3>4
  <2>3. ASSUME NEW a \in Frame, NEW n \in 0 .. NFrames, FreePages(a, n),
               Owned(Pages(a, n))
        PROVE  Blank' /\ Exact'
    <3> DEFINE frees == Pages(a, n) \intersect taken
    <3>1. frees \in SUBSET Theirs
      BY <2>3, <2>t DEF Frames, Owned
    <3>2. Theirs' = Theirs \ frees /\ Frames("reserved")' = Frames("reserved")
      BY <2>3, <2>t, <3>1 DEF FreePages, Record, Frames
    <3>3. /\ used' = Wrap(used - Cardinality(frees)) /\ reserved' = reserved
          /\ initialized' = initialized /\ initialized
      BY <2>3 DEF FreePages
    <3> HIDE DEF frees
    <3>4. Wrap(Cardinality(Theirs) - Cardinality(frees)) = Cardinality(Theirs \ frees)
      BY <3>1, <2>o, CountMinus
    <3> QED
      BY <2>u, <3>2, <3>3, <3>4
  <2>4. CASE RequestPage
    <3>1. PICK f \in Open : Record({f}, "requested")
      BY <2>4 DEF RequestPage
    <3>2. f \in Frame /\ f \notin Theirs /\ f \notin Frames("reserved")
      BY DEF Open, BitmapMatchesLedger, Frames
    <3>3. Theirs' = Theirs \union {f} /\ Frames("reserved")' = Frames("reserved")
      BY <3>1, <3>2, <2>t DEF Record, Frames
    <3>4. /\ used' = Wrap(used + 1) /\ reserved' = reserved
          /\ initialized' = initialized /\ initialized
      BY <2>4 DEF RequestPage
    <3>5. Cardinality({f}) = 1 /\ {f} \in SUBSET Frame /\ Theirs \intersect {f} = {}
      BY FS_Singleton, <3>2
    <3>6. Wrap(Cardinality(Theirs) + Cardinality({f})) = Cardinality(Theirs \union {f})
      BY <3>5, <2>o, CountUnion
    <3> QED
      BY <2>u, <3>3, <3>4, <3>5, <3>6
  <2>5. CASE RequestFails \/ UNCHANGED vars
    BY <2>b, <2>5 DEF RequestFails, vars, Frames
  <2> QED
    BY <2>a, <2>1, <2>2, <2>3, <2>4, <2>5 DEF OwnersStep
<1>3. Inv => CountersExact
  BY DEF CountersExact
<1> QED
  BY <1>1, <1>2, <1>3, TypeCorrect, BitmapCorrect, PTL DEF Spec

-----------------------------------------------------------------------------
(* The processor's walk through the tables m for an address: the table, or *)
(* at last the frame, that it comes to after k entries.                    *)
Index(v, k) == IF k = 0 THEN v.pdp_i ELSE IF k = 1 THEN v.pd_i ELSE IF k = 2 THEN v.pt_i ELSE v.p_i
Entry(m, t, i) == IF t \in PageFrames THEN m[t][i] ELSE NotPresent
Walk(m, v, k) ==
  LET pdp == Entry(m, pml4, v.pdp_i)
      pd  == Entry(m, pdp, v.pd_i)
      pt  == Entry(m, pd, v.pt_i)
  IN  IF k = 0 THEN pml4 ELSE IF k = 1 THEN pdp ELSE IF k = 2 THEN pd
      ELSE IF k = 3 THEN pt ELSE Entry(m, pt, v.p_i)

(* The part of an address that says which table the walk comes to.         *)
Prefix(v, k) == <<k, v.pdp_i, IF k = 1 THEN 0 ELSE v.pd_i, IF k = 3 THEN v.pt_i ELSE 0>>

(* The tables that the addresses need, and those that have been made.      *)
Needed  == {Prefix(v, k) : v \in Virtual, k \in 1 .. 3}
Made(m) == {q \in Needed : \E v \in Virtual, k \in 1 .. 3 :
              q = Prefix(v, k) /\ Walk(m, v, k) \in PageFrames}

(* The tables whose entries are tables.                                    *)
Inner(m) == {t \in PageFrames : \E v \in Address, k \in 0 .. 2 : t = Walk(m, v, k)}

(* Tables are not shared: an entry above the lowest level points to a      *)
(* frame that was requested for it, to which no other such entry points,   *)
(* and never to the null pointer, the root or a frame that is still left.  *)
(* Frames that are left hold nothing.                                      *)
Taken(spare) == PageFrames \ (spare \cup {NoFrame, pml4})
EntriesTaken(m, spare) ==
  \A t \in Inner(m), i \in Indexes : m[t][i] \in Taken(spare) \cup {NotPresent}
EntriesApart(m) == \A s, t \in Inner(m), i, j \in Indexes :
  m[s][i] = m[t][j] /\ m[s][i] # NotPresent => s = t /\ i = j
TablesSeparate(m, spare) ==
  /\ m \in [PageFrames -> Table]
  /\ spare \subseteq PageFrames \ {NoFrame, pml4}
  /\ \A f \in spare : m[f] = Empty
  /\ EntriesTaken(m, spare)
  /\ EntriesApart(m)

(* Every frame is left or holds a table that was needed.                   *)
FramesCounted(m, spare) ==
  IsFiniteSet(spare) /\ IsFiniteSet(Made(m)) /\
  Cardinality(spare) + Cardinality(Made(m)) = Cardinality(PageFrames) - 2

(* A walk goes on with the next index.                                     *)
LEMMA WalkGoesOn ==
  ASSUME NEW m, NEW v, NEW k \in 0 .. 3
  PROVE  Walk(m, v, k + 1) = Entry(m, Walk(m, v, k), Index(v, k))
<1>1. k = 0 \/ k = 1 \/ k = 2 \/ k = 3
  OBVIOUS
<1>2. k + 1 \in {1, 2, 3, 4}
  OBVIOUS
<1> QED
  BY <1>1 DEF Walk, Index

(* Indices of addresses are places in a table.                             *)
LEMMA IndexType ==
  ASSUME NEW v \in Address, NEW k
  PROVE  Index(v, k) \in Indexes
BY DEF Index, Address

(* It comes to a table that belongs to it, through one that does.          *)
LEMMA WalkComesFrom ==
  ASSUME NEW m, NEW spare, TablesSeparate(m, spare), NEW v \in Address, NEW k \in 0 .. 2,
         Walk(m, v, k + 1) \in PageFrames
  PROVE  /\ Walk(m, v, k) \in Inner(m) /\ m[Walk(m, v, k)][Index(v, k)] = Walk(m, v, k + 1)
         /\ Walk(m, v, k + 1) \in Taken(spare)
<1>1. Walk(m, v, k + 1) = Entry(m, Walk(m, v, k), Index(v, k))
  BY WalkGoesOn
<1>2. Walk(m, v, k) \in PageFrames /\ m[Walk(m, v, k)][Index(v, k)] = Walk(m, v, k + 1)
  BY <1>1, PageTableAssumption DEF Entry
<1>3. Walk(m, v, k) \in Inner(m)
  BY <1>2 DEF Inner
<1>4. Walk(m, v, k + 1) \in Taken(spare) \cup {NotPresent}
  BY <1>2, <1>3, IndexType DEF TablesSeparate, EntriesTaken
<1> QED
  BY <1>2, <1>3, <1>4, PageTableAssumption

(* Two walks that come to one table have come to one table before.         *)
LEMMA WalksMeet ==
  ASSUME NEW m, NEW spare, TablesSeparate(m, spare), NEW v \in Address, NEW w \in Address,
         NEW k \in 0 .. 2, NEW l \in 0 .. 2,
         Walk(m, v, k + 1) = Walk(m, w, l + 1), Walk(m, v, k + 1) \in PageFrames
  PROVE  Walk(m, v, k) = Walk(m, w, l) /\ Index(v, k) = Index(w, l) /\ Walk(m, v, k) \in PageFrames
<1>1. /\ Walk(m, v, k) \in Inner(m) /\ m[Walk(m, v, k)][Index(v, k)] = Walk(m, v, k + 1)
      /\ Walk(m, w, l) \in Inner(m) /\ m[Walk(m, w, l)][Index(w, l)] = Walk(m, v, k + 1)
  BY WalkComesFrom
<1>2. Index(v, k) \in Indexes /\ Index(w, l) \in Indexes /\ Walk(m, v, k + 1) # NotPresent
  BY IndexType, PageTableAssumption
<1>3. Walk(m, v, k) = Walk(m, w, l) /\ Index(v, k) = Index(w, l)
  BY <1>1, <1>2 DEF TablesSeparate, EntriesApart
<1> QED
  BY <1>1, <1>3 DEF Inner

(* No walk comes back to the root.                                         *)
LEMMA RootIsFirst ==
  ASSUME NEW m, NEW spare, TablesSeparate(m, spare), NEW v \in Address, NEW k \in 1 .. 3
  PROVE  Walk(m, v, k) # pml4
<1>1. k - 1 \in 0 .. 2 /\ (k - 1) + 1 = k
  OBVIOUS
<1> SUFFICES ASSUME Walk(m, v, k) \in PageFrames PROVE Walk(m, v, k) # pml4
  BY PageTableAssumption
<1>2. Walk(m, v, k) \in Taken(spare)
  BY <1>1, WalkComesFrom
<1> QED
  BY <1>2 DEF Taken

(* Two walks that come to one table have taken one way.                    *)
LEMMA WayIsUnique ==
  ASSUME NEW m, NEW spare, TablesSeparate(m, spare), NEW v \in Address, NEW w \in Address,
         NEW k \in 1 .. 3, NEW l \in 1 .. 3,
         Walk(m, v, k) = Walk(m, w, l), Walk(m, v, k) \in PageFrames
  PROVE  k = l /\ Prefix(v, k) = Prefix(w, l)
<1> DEFINE Meets(a, b) == Walk(m, v, a) = Walk(m, w, b) /\ Walk(m, v, a) \in PageFrames
<1>1. ASSUME NEW a \in 0 .. 2, NEW b \in 0 .. 2, Meets(a + 1, b + 1)
      PROVE  Meets(a, b) /\ Index(v, a) = Index(w, b)
  BY <1>1, WalksMeet
<1>2. Walk(m, v, 0) = pml4 /\ Walk(m, w, 0) = pml4
  BY DEF Walk
<1>3. \A a \in 1 .. 3 : ~Meets(0, a) /\ ~Meets(a, 0)
  BY <1>2, RootIsFirst
<1> HIDE DEF Meets
<1>4. Meets(k, l)
  BY DEF Meets
<1>5. /\ ~Meets(0, 1) /\ ~Meets(0, 2) /\ ~Meets(1, 0) /\ ~Meets(2, 0)
  BY <1>3
<1>6. /\ Meets(1, 1) => Index(v, 0) = Index(w, 0)
      /\ Meets(1, 2) => Meets(0, 1)
      /\ Meets(1, 3) => Meets(0, 2)
  BY <1>1, 0 \in 0 .. 2, 1 \in 0 .. 2, 2 \in 0 .. 2, 0 + 1 = 1, 1 + 1 = 2, 2 + 1 = 3
<1>7. /\ Meets(2, 1) => Meets(1, 0)
      /\ Meets(2, 2) => Meets(1, 1) /\ Index(v, 1) = Index(w, 1)
      /\ Meets(2, 3) => Meets(1, 2)
  BY <1>1, 0 \in 0 .. 2, 1 \in 0 .. 2, 2 \in 0 .. 2, 0 + 1 = 1, 1 + 1 = 2, 2 + 1 = 3
<1>8. /\ Meets(3, 1) => Meets(2, 0)
      /\ Meets(3, 2) => Meets(2, 1)
      /\ Meets(3, 3) => Meets(2, 2) /\ Index(v, 2) = Index(w, 2)
  BY <1>1, 0 \in 0 .. 2, 1 \in 0 .. 2, 2 \in 0 .. 2, 0 + 1 = 1, 1 + 1 = 2, 2 + 1 = 3
<1>9. k \in {1, 2, 3} /\ l \in {1, 2, 3}
  OBVIOUS
<1>10. k = l
  BY <1>4, <1>5, <1>6, <1>7, <1>8, <1>9
<1>11. /\ v.pdp_i = w.pdp_i
       /\ k \in {2, 3} => v.pd_i = w.pd_i
       /\ k = 3 => v.pt_i = w.pt_i
  BY <1>4, <1>6, <1>7, <1>8, <1>9, <1>10 DEF Index
<1> QED
  BY <1>9, <1>10, <1>11 DEF Prefix

-----------------------------------------------------------------------------
(* A table is made: the entry i of t, which the walk for v comes to after  *)
(* k entries, is set to a frame n that was left.                           *)
Grown(m, t, i, n) == [m EXCEPT ![t][i] = n]

(* What is in it then.                                                     *)
LEMMA GrownEntries ==
  ASSUME NEW m \in [PageFrames -> Table], NEW t \in PageFrames, NEW i \in Indexes,
         NEW n \in PageFrames
  PROVE  /\ Grown(m, t, i, n) \in [PageFrames -> Table]
         /\ \A x \in PageFrames, j \in Indexes :
              Grown(m, t, i, n)[x][j] = IF x = t /\ j = i THEN n ELSE m[x][j]
         /\ \A x \in PageFrames \ {t} : Grown(m, t, i, n)[x] = m[x]
BY DEF Grown, Table

(* No walk but to the new table comes anywhere else than before.           *)
Follows(x, y, n) == (y = x /\ x # n) \/ (x = NotPresent /\ y = n)

(* Tables are not among the frames that are left.                          *)
LEMMA InnerIsTaken ==
  ASSUME NEW m, NEW spare, TablesSeparate(m, spare), NEW t \in Inner(m)
  PROVE  t \in PageFrames /\ t \notin spare /\ t # NoFrame
<1>1. t \in PageFrames
  BY DEF Inner
<1>2. PICK v \in Address, k \in 0 .. 2 : t = Walk(m, v, k)
  BY DEF Inner
<1>3. CASE k = 0
  BY <1>2, <1>3, PageTableAssumption DEF Walk, TablesSeparate
<1>4. CASE k # 0
  <2>1. k - 1 \in 0 .. 2 /\ (k - 1) + 1 = k
    BY <1>2, <1>4
  <2>2. t \in Taken(spare)
    BY <1>1, <1>2, <2>1, WalkComesFrom
  <2> QED
    BY <2>2 DEF Taken
<1> QED
  BY <1>1, <1>3, <1>4

(* One more entry keeps that.                                              *)
LEMMA FollowsOn ==
  ASSUME NEW m, NEW spare, TablesSeparate(m, spare), NEW t \in Inner(m), NEW i \in Indexes,
         NEW n \in spare, m[t][i] = NotPresent,
         NEW x, NEW y, Follows(x, y, n), x \in PageFrames => x \in Inner(m), NEW j \in Indexes
  PROVE  Follows(Entry(m, x, j), Entry(Grown(m, t, i, n), y, j), n)
<1> DEFINE new == Grown(m, t, i, n)
<1>t. t \notin spare
  BY InnerIsTaken
<1>1. n \in PageFrames /\ n # t /\ n # NotPresent
  BY <1>t, PageTableAssumption DEF TablesSeparate
<1>2. t \in PageFrames /\ m \in [PageFrames -> Table]
  BY InnerIsTaken DEF TablesSeparate
<1>3. \A z \in PageFrames, l \in Indexes : new[z][l] = IF z = t /\ l = i THEN n ELSE m[z][l]
  BY <1>1, <1>2, GrownEntries
<1> HIDE DEF new
<1>4. CASE y = x /\ x \in PageFrames
  <2>1. m[x][j] \in Taken(spare) \cup {NotPresent}
    BY <1>4 DEF TablesSeparate, EntriesTaken
  <2>2. m[x][j] # n
    BY <1>1, <2>1 DEF Taken
  <2>3. Entry(m, x, j) = m[x][j] /\ Entry(new, y, j) = new[x][j]
    BY <1>4 DEF Entry
  <2> QED
    BY <1>3, <1>4, <2>2, <2>3 DEF Follows, new
<1>5. CASE y = x /\ x \notin PageFrames
  BY <1>1, <1>5 DEF Entry, Follows, new
<1>6. CASE x = NotPresent /\ y = n
  <2>1. Entry(m, x, j) = NotPresent
    BY <1>6, PageTableAssumption DEF Entry
  <2>2. new[n][j] = m[n][j]
    BY <1>1, <1>3
  <2>3. m[n] = Empty
    BY DEF TablesSeparate
  <2>4. Entry(new, y, j) = NotPresent
    BY <1>1, <1>6, <2>2, <2>3 DEF Entry, Empty
  <2> QED
    BY <1>1, <2>1, <2>4 DEF Follows, new
<1> QED
  BY <1>4, <1>5, <1>6 DEF Follows

(* So all walks to tables follow the old ones.                             *)
LEMMA WalksFollow ==
  ASSUME NEW m, NEW spare, TablesSeparate(m, spare), NEW t \in Inner(m), NEW i \in Indexes,
         NEW n \in spare, m[t][i] = NotPresent, NEW w \in Address, NEW l \in 0 .. 3
  PROVE  Follows(Walk(m, w, l), Walk(Grown(m, t, i, n), w, l), n)
<1> DEFINE new == Grown(m, t, i, n)
           F(a) == Follows(Walk(m, w, a), Walk(new, w, a), n)
<1>1. F(0)
  BY DEF Walk, Follows, TablesSeparate
<1>2. ASSUME NEW a \in 0 .. 2, F(a)
      PROVE  F(a + 1)
  <2>1. Walk(m, w, a) \in PageFrames => Walk(m, w, a) \in Inner(m)
    BY DEF Inner
  <2>2. Index(w, a) \in Indexes
    BY IndexType
  <2>3. Follows(Entry(m, Walk(m, w, a), Index(w, a)), Entry(new, Walk(new, w, a), Index(w, a)), n)
    BY <1>2, <2>1, <2>2, FollowsOn
  <2>4. a \in 0 .. 3
    OBVIOUS
  <2>5. Walk(m, w, a + 1) = Entry(m, Walk(m, w, a), Index(w, a))
    BY <2>4, WalkGoesOn
  <2>6. Walk(new, w, a + 1) = Entry(new, Walk(new, w, a), Index(w, a))
    BY <2>4, WalkGoesOn
  <2> QED
    BY <2>3, <2>5, <2>6
<1> HIDE DEF F
<1>3. F(1)
  BY <1>1, <1>2, 0 \in 0 .. 2, 0 + 1 = 1
<1>4. F(2)
  BY <1>2, <1>3, 1 \in 0 .. 2, 1 + 1 = 2
<1>5. F(3)
  BY <1>2, <1>4, 2 \in 0 .. 2, 2 + 1 = 3
<1>6. F(l)
  BY <1>1, <1>3, <1>4, <1>5, l \in {0, 1, 2, 3}
<1> QED
  BY <1>6 DEF F

(* The tables stay separate.                                               *)
LEMMA GrowthSeparates ==
  ASSUME NEW m, NEW spare, TablesSeparate(m, spare), NEW t \in Inner(m), NEW i \in Indexes,
         NEW n \in spare, m[t][i] = NotPresent
  PROVE  TablesSeparate(Grown(m, t, i, n), spare \ {n})
<1> DEFINE new == Grown(m, t, i, n)
<1>t. t \notin spare
  BY InnerIsTaken
<1>1. n \in PageFrames \ {NoFrame, pml4} /\ n # t /\ n # NotPresent /\ t \notin spare
  BY <1>t, PageTableAssumption DEF TablesSeparate
<1>2. t \in PageFrames /\ m \in [PageFrames -> Table]
  BY InnerIsTaken DEF TablesSeparate
<1>3. /\ new \in [PageFrames -> Table]
      /\ \A x \in PageFrames, j \in Indexes : new[x][j] = IF x = t /\ j = i THEN n ELSE m[x][j]
      /\ \A x \in PageFrames \ {t} : new[x] = m[x]
  BY <1>1, <1>2, GrownEntries
<1>4. ASSUME NEW s \in Inner(new)
      PROVE  s \in PageFrames /\ (s \in Inner(m) \/ s = n)
  <2>1. PICK w \in Address, l \in 0 .. 2 : s = Walk(new, w, l)
    BY <1>4 DEF Inner
  <2>2. s \in PageFrames
    BY <1>4 DEF Inner
  <2>3. l \in 0 .. 3
    BY <2>1
  <2>4. Follows(Walk(m, w, l), Walk(new, w, l), n)
    BY <2>1, <2>3, WalksFollow
  <2> QED
    BY <2>1, <2>2, <2>4 DEF Follows, Inner
<1> HIDE DEF new
<1>5. \A j \in Indexes : new[n][j] = NotPresent
  BY <1>1, <1>3 DEF TablesSeparate, Empty
<1>6. spare \ {n} \subseteq PageFrames \ {NoFrame, pml4}
  BY DEF TablesSeparate
<1>7. \A f \in spare \ {n} : new[f] = Empty
  BY <1>1, <1>3 DEF TablesSeparate
<1>8. ASSUME NEW s \in Inner(new), NEW j \in Indexes
      PROVE  new[s][j] \in Taken(spare \ {n}) \cup {NotPresent}
  <2>1. CASE s \in Inner(m)
    <3>1. m[s][j] \in Taken(spare) \cup {NotPresent}
      BY <2>1 DEF TablesSeparate, EntriesTaken
    <3>2. s \in PageFrames
      BY <1>8, <1>4
    <3> QED
      BY <1>1, <1>3, <3>1, <3>2 DEF Taken
  <2> QED
    BY <1>4, <1>5, <1>8, <2>1
<1>9. ASSUME NEW s \in Inner(new), NEW u \in Inner(new), NEW j \in Indexes, NEW l \in Indexes,
             new[s][j] = new[u][l], new[s][j] # NotPresent
      PROVE  s = u /\ j = l
  <2>1. s \in Inner(m) /\ u \in Inner(m) /\ s \in PageFrames /\ u \in PageFrames
    BY <1>4, <1>5, <1>9
  <2>2. m[s][j] # n /\ m[u][l] # n
    BY <1>1, <2>1 DEF TablesSeparate, EntriesTaken, Taken
  <2>3. CASE new[s][j] = n
    BY <1>3, <2>1, <2>2, <2>3, <1>9
  <2>4. CASE new[s][j] # n
    <3>1. new[s][j] = m[s][j] /\ new[u][l] = m[u][l]
      BY <1>3, <1>9, <2>1, <2>4
    <3>2. m[s][j] = m[u][l] /\ m[s][j] # NotPresent
      BY <1>9, <3>1
    <3>3. EntriesApart(m)
      BY DEF TablesSeparate
    <3> QED
      BY <1>9, <2>1, <3>2, <3>3 DEF EntriesApart
  <2> QED
    BY <2>3, <2>4
<1>10. EntriesTaken(new, spare \ {n}) /\ EntriesApart(new)
  BY <1>8, <1>9 DEF EntriesTaken, EntriesApart
<1>11. TablesSeparate(new, spare \ {n})
  BY <1>3, <1>6, <1>7, <1>10, Zenon DEF TablesSeparate
<1> QED
  BY <1>11 DEF new

(* Walks for addresses with the same beginning come to the same table.     *)
LEMMA SamePrefixSameWalk ==
  ASSUME NEW m, NEW v, NEW w, NEW k \in 1 .. 3, Prefix(v, k) = Prefix(w, k)
  PROVE  Walk(m, v, k) = Walk(m, w, k)
<1>1. /\ v.pdp_i = w.pdp_i
      /\ k # 1 => v.pd_i = w.pd_i
      /\ k = 3 => v.pt_i = w.pt_i
  BY DEF Prefix
<1>2. k = 1 \/ k = 2 \/ k = 3
  OBVIOUS
<1>3. CASE k = 1
  BY <1>1, <1>3 DEF Walk
<1>4. CASE k = 2
  BY <1>1, <1>4 DEF Walk
<1>5. CASE k = 3
  BY <1>1, <1>5 DEF Walk
<1> QED
  BY <1>2, <1>3, <1>4, <1>5

(* The walk comes to the new table.                                        *)
LEMMA WalkReachesNew ==
  ASSUME NEW m, NEW spare, TablesSeparate(m, spare), NEW n \in spare, NEW v \in Address,
         NEW k \in 0 .. 2, Walk(m, v, k) \in PageFrames,
         m[Walk(m, v, k)][Index(v, k)] = NotPresent
  PROVE  /\ Walk(m, v, k) \in Inner(m)
         /\ Walk(m, v, k + 1) = NotPresent
         /\ Walk(Grown(m, Walk(m, v, k), Index(v, k), n), v, k + 1) = n
<1> DEFINE t == Walk(m, v, k)
           i == Index(v, k)
           new == Grown(m, t, i, n)
<1>1. t \in Inner(m) /\ i \in Indexes /\ k \in 0 .. 3
  BY IndexType DEF Inner
<1>2. Follows(t, Walk(new, v, k), n)
  BY <1>1, WalksFollow
<1>3. Walk(new, v, k) = t
  BY <1>2, PageTableAssumption DEF Follows
<1>4. Walk(new, v, k + 1) = Entry(new, t, i) /\ Walk(m, v, k + 1) = Entry(m, t, i)
  BY <1>1, <1>3, WalkGoesOn
<1>5. n \in PageFrames /\ m \in [PageFrames -> Table]
  BY DEF TablesSeparate
<1>6. new[t][i] = n
  BY <1>1, <1>5, GrownEntries
<1> QED
  BY <1>1, <1>4, <1>6 DEF Entry

(* What addresses translate to stays the same.                             *)
LEMMA GrowthTranslates ==
  ASSUME NEW m, NEW spare, TablesSeparate(m, spare), NEW n \in spare, NEW v \in Address,
         NEW k \in 0 .. 2, Walk(m, v, k) \in PageFrames,
         m[Walk(m, v, k)][Index(v, k)] = NotPresent, NEW w \in Address
  PROVE  Walk(Grown(m, Walk(m, v, k), Index(v, k), n), w, 4) = Walk(m, w, 4)
<1> DEFINE t == Walk(m, v, k)
           i == Index(v, k)
           new == Grown(m, t, i, n)
           x == Walk(m, w, 3)
           y == Walk(new, w, 3)
           j == Index(w, 3)
<1>1. t \in Inner(m) /\ i \in Indexes /\ j \in Indexes
  BY IndexType DEF Inner
<1>2. Follows(x, y, n)
  BY <1>1, WalksFollow, 3 \in 0 .. 3
<1>3. Walk(m, w, 4) = Entry(m, x, j) /\ Walk(new, w, 4) = Entry(new, y, j)
  BY WalkGoesOn, 3 \in 0 .. 3, 3 + 1 = 4
<1>4. n \in PageFrames /\ m \in [PageFrames -> Table] /\ m[n] = Empty
  BY DEF TablesSeparate
<1>5. x \in PageFrames => x # t
  <2>1. SUFFICES ASSUME x \in PageFrames, x = t PROVE FALSE
    OBVIOUS
  <2>2. CASE k = 0
    <3>1. t = pml4
      BY <2>2 DEF Walk
    <3>2. 3 \in 1 .. 3
      OBVIOUS
    <3> QED
      BY <2>1, <3>1, <3>2, RootIsFirst
  <2>3. CASE k # 0
    <3>1. k \in 1 .. 3 /\ 3 \in 1 .. 3
      BY <2>3
    <3>2. k = 3
      BY <2>1, <3>1, WayIsUnique
    <3> QED
      BY <3>2
  <2> QED
    BY <2>2, <2>3
<1>6. n # t /\ n # NotPresent
  BY <1>1, InnerIsTaken, PageTableAssumption, <1>4
<1>7. \A z \in PageFrames \ {t} : new[z] = m[z]
  BY <1>1, <1>4, GrownEntries
<1> SUFFICES Walk(new, w, 4) = Walk(m, w, 4)
  OBVIOUS
<1> HIDE DEF x, y, j, new, t, i
<1>8. CASE y = x
  BY <1>3, <1>5, <1>7, <1>8 DEF Entry
<1>9. CASE x = NotPresent /\ y = n
  <2>1. Entry(m, x, j) = NotPresent
    BY <1>9, PageTableAssumption DEF Entry
  <2>2. new[n] = Empty
    BY <1>4, <1>6, <1>7
  <2>3. Entry(new, y, j) = NotPresent
    BY <1>1, <1>9, <2>2, <1>4 DEF Entry, Empty
  <2> QED
    BY <1>3, <2>1, <2>3
<1> QED
  BY <1>2, <1>8, <1>9 DEF Follows

(* A table that is missing is one that was needed and has not been made.   *)
LEMMA MissingIsNeeded ==
  ASSUME NEW m, NEW v \in Virtual, NEW k \in 0 .. 2, Walk(m, v, k) \in PageFrames,
         m[Walk(m, v, k)][Index(v, k)] = NotPresent
  PROVE  Prefix(v, k + 1) \in Needed \ Made(m)
<1>1. k + 1 \in 1 .. 3 /\ k \in 0 .. 3
  OBVIOUS
<1>2. Walk(m, v, k + 1) = NotPresent
  BY <1>1, WalkGoesOn DEF Entry
<1>3. Prefix(v, k + 1) \in Needed
  BY <1>1 DEF Needed
<1>4. SUFFICES ASSUME NEW w \in Virtual, NEW l \in 1 .. 3, Prefix(v, k + 1) = Prefix(w, l),
                      Walk(m, w, l) \in PageFrames
               PROVE  FALSE
  BY <1>3 DEF Made
<1>5. l = k + 1
  BY <1>4 DEF Prefix
<1>6. Walk(m, w, l) = Walk(m, v, l)
  BY <1>1, <1>4, <1>5, SamePrefixSameWalk
<1> QED
  BY <1>2, <1>4, <1>5, <1>6, PageTableAssumption

(* When it is made, it is the only one that was not there before.          *)
LEMMA GrowthMakesOne ==
  ASSUME NEW m, NEW spare, TablesSeparate(m, spare), NEW n \in spare, NEW v \in Virtual,
         NEW k \in 0 .. 2, Walk(m, v, k) \in PageFrames,
         m[Walk(m, v, k)][Index(v, k)] = NotPresent
  PROVE  Made(Grown(m, Walk(m, v, k), Index(v, k), n)) = Made(m) \cup {Prefix(v, k + 1)}
<1> DEFINE t == Walk(m, v, k)
           i == Index(v, k)
           new == Grown(m, t, i, n)
<1>1. v \in Address /\ k + 1 \in 1 .. 3
  BY PageTableAssumption
<1>2. t \in Inner(m) /\ i \in Indexes /\ Walk(m, v, k + 1) = NotPresent /\ Walk(new, v, k + 1) = n
  BY <1>1, WalkReachesNew, IndexType
<1>3. n \in PageFrames
  BY DEF TablesSeparate
<1>4. TablesSeparate(new, spare \ {n})
  BY <1>2, GrowthSeparates
<1>5. \A w \in Address, l \in 1 .. 3 : Follows(Walk(m, w, l), Walk(new, w, l), n)
  <2>1. \A l \in 1 .. 3 : l \in 0 .. 3
    OBVIOUS
  <2> QED
    BY <1>2, <2>1, WalksFollow
<1>6. Prefix(v, k + 1) \in Needed
  BY <1>1 DEF Needed
<1> HIDE DEF t, i, new
<1>8. Made(m) \subseteq Made(new)
  <2>1. SUFFICES ASSUME NEW w \in Virtual, NEW l \in 1 .. 3, Walk(m, w, l) \in PageFrames
                 PROVE  Walk(new, w, l) \in PageFrames
    BY DEF Made
  <2> QED
    BY <1>5, <2>1, PageTableAssumption DEF Follows
<1>9. Prefix(v, k + 1) \in Made(new)
  BY <1>1, <1>2, <1>3, <1>6 DEF Made
<1>10. ASSUME NEW w \in Virtual, NEW l \in 1 .. 3, Walk(new, w, l) \in PageFrames
       PROVE  Walk(m, w, l) \in PageFrames \/ Prefix(w, l) = Prefix(v, k + 1)
  <2>1. w \in Address
    BY PageTableAssumption
  <2>2. CASE Walk(new, w, l) = Walk(m, w, l)
    BY <1>10, <2>2
  <2>3. CASE Walk(new, w, l) = n
    BY <1>1, <1>2, <1>4, <1>10, <2>1, <2>3, WayIsUnique
  <2> QED
    BY <1>5, <2>1, <2>2, <2>3 DEF Follows
<1>11. Made(new) \subseteq Made(m) \cup {Prefix(v, k + 1)}
  BY <1>10 DEF Made
<1>12. Made(new) = Made(m) \cup {Prefix(v, k + 1)}
  BY <1>8, <1>9, <1>11
<1> QED
  BY <1>12 DEF new, t, i

-----------------------------------------------------------------------------
(* At last the frame is entered in the table at the end of the walk.       *)

(* That table is none of those whose entries are tables.                   *)
LEMMA LeafIsNotInner ==
  ASSUME NEW m, NEW spare, TablesSeparate(m, spare), NEW v \in Address, Walk(m, v, 3) \in PageFrames
  PROVE  Walk(m, v, 3) \notin Inner(m)
<1>1. SUFFICES ASSUME NEW w \in Address, NEW k \in 0 .. 2, Walk(m, v, 3) = Walk(m, w, k)
               PROVE  FALSE
  BY DEF Inner
<1>2. 3 \in 1 .. 3
  OBVIOUS
<1>3. CASE k = 0
  <2>1. Walk(m, w, k) = pml4
    BY <1>3 DEF Walk
  <2> QED
    BY <1>1, <1>2, <2>1, RootIsFirst
<1>4. CASE k # 0
  <2>1. k \in 1 .. 3
    BY <1>4
  <2>2. k = 3
    BY <1>1, <1>2, <2>1, WayIsUnique
  <2> QED
    BY <2>2
<1> QED
  BY <1>3, <1>4

(* So no walk to a table changes,                                          *)
LEMMA EnteringKeepsWalks ==
  ASSUME NEW m, NEW spare, TablesSeparate(m, spare), NEW t \in PageFrames, t \notin Inner(m),
         NEW i \in Indexes, NEW p \in PageFrames, NEW w \in Address, NEW l \in 0 .. 3
  PROVE  Walk(Grown(m, t, i, p), w, l) = Walk(m, w, l)
<1> DEFINE new == Grown(m, t, i, p)
           Same(a) == Walk(new, w, a) = Walk(m, w, a)
<1>1. Same(0)
  BY DEF Walk
<1>2. ASSUME NEW a \in 0 .. 2, Same(a)
      PROVE  Same(a + 1)
  <2>1. a \in 0 .. 3
    OBVIOUS
  <2>2. /\ Walk(m, w, a + 1) = Entry(m, Walk(m, w, a), Index(w, a))
        /\ Walk(new, w, a + 1) = Entry(new, Walk(new, w, a), Index(w, a))
    BY <2>1, WalkGoesOn
  <2>3. Walk(m, w, a) \in PageFrames => Walk(m, w, a) # t
    BY DEF Inner
  <2>4. \A x \in PageFrames \ {t} : new[x] = m[x]
    BY GrownEntries DEF TablesSeparate
  <2> QED
    BY <1>2, <2>2, <2>3, <2>4 DEF Entry
<1> HIDE DEF Same
<1>3. Same(1)
  BY <1>1, <1>2, 0 \in 0 .. 2, 0 + 1 = 1
<1>4. Same(2)
  BY <1>2, <1>3, 1 \in 0 .. 2, 1 + 1 = 2
<1>5. Same(3)
  BY <1>2, <1>4, 2 \in 0 .. 2, 2 + 1 = 3
<1>6. Same(l)
  BY <1>1, <1>3, <1>4, <1>5, l \in {0, 1, 2, 3}
<1> QED
  BY <1>6 DEF Same

(* the tables stay separate,                                               *)
LEMMA EnteringSeparates ==
  ASSUME NEW m, NEW spare, TablesSeparate(m, spare), NEW t \in PageFrames \ spare, t \notin Inner(m),
         NEW i \in Indexes, NEW p \in PageFrames
  PROVE  TablesSeparate(Grown(m, t, i, p), spare) /\ Made(Grown(m, t, i, p)) = Made(m)
<1> DEFINE new == Grown(m, t, i, p)
<1>1. new \in [PageFrames -> Table] /\ \A x \in PageFrames \ {t} : new[x] = m[x]
  BY GrownEntries DEF TablesSeparate
<1>2. \A w \in Address, l \in 0 .. 3 : Walk(new, w, l) = Walk(m, w, l)
  BY EnteringKeepsWalks
<1> SUFFICES TablesSeparate(new, spare) /\ Made(new) = Made(m)
  OBVIOUS
<1> HIDE DEF new
<1>3. \A l \in 0 .. 2 : l \in 0 .. 3
  OBVIOUS
<1>4. Inner(new) = Inner(m)
  BY <1>2, <1>3 DEF Inner
<1>5. \A l \in 1 .. 3 : l \in 0 .. 3
  OBVIOUS
<1>6. Made(new) = Made(m)
  <2>1. \A w \in Virtual, l \in 1 .. 3 : Walk(new, w, l) = Walk(m, w, l)
    BY <1>2, <1>5, PageTableAssumption
  <2> QED
    BY <2>1 DEF Made
<1>7. \A s \in Inner(m) : new[s] = m[s]
  BY <1>1 DEF Inner
<1>8. EntriesTaken(new, spare)
  BY <1>4, <1>7 DEF EntriesTaken, TablesSeparate
<1>9. EntriesApart(new)
  BY <1>4, <1>7 DEF EntriesApart, TablesSeparate
<1>10. spare \subseteq PageFrames \ {NoFrame, pml4} /\ \A f \in spare : new[f] = Empty
  BY <1>1 DEF TablesSeparate
<1> QED
  BY <1>1, <1>6, <1>8, <1>9, <1>10, Zenon DEF TablesSeparate

(* and the address translates to the frame, every other as before.         *)
LEMMA EnteringTranslates ==
  ASSUME NEW m, NEW spare, TablesSeparate(m, spare), NEW v \in Address, Walk(m, v, 3) \in PageFrames,
         NEW p \in PageFrames, NEW w \in Address
  PROVE  Walk(Grown(m, Walk(m, v, 3), v.p_i, p), w, 4) = IF w = v THEN p ELSE Walk(m, w, 4)
<1> DEFINE t == Walk(m, v, 3)
           i == v.p_i
           new == Grown(m, t, i, p)
           x == Walk(m, w, 3)
<1>1. t \notin Inner(m) /\ i \in Indexes /\ w.p_i \in Indexes
  BY LeafIsNotInner DEF Address
<1>2. Walk(new, w, 3) = x
  BY <1>1, EnteringKeepsWalks, 3 \in 0 .. 3
<1>3. /\ Walk(m, w, 4) = Entry(m, x, w.p_i)
      /\ Walk(new, w, 4) = Entry(new, x, w.p_i)
  <2>1. Index(w, 3) = w.p_i
    BY DEF Index
  <2> QED
    BY <1>2, <2>1, WalkGoesOn, 3 \in 0 .. 3, 3 + 1 = 4
<1>4. m \in [PageFrames -> Table]
  BY DEF TablesSeparate
<1>5. \A z \in PageFrames, j \in Indexes : new[z][j] = IF z = t /\ j = i THEN p ELSE m[z][j]
  BY <1>1, <1>4, GrownEntries
<1>6. CASE w = v
  BY <1>1, <1>3, <1>5, <1>6 DEF Entry
<1>7. CASE w # v
  <2>1. x = t => w.p_i # i
    <3>1. SUFFICES ASSUME x = t, w.p_i = i PROVE FALSE
      OBVIOUS
    <3>2. Prefix(w, 3) = Prefix(v, 3)
      BY <3>1, WayIsUnique, 3 \in 1 .. 3
    <3>3. w.pdp_i = v.pdp_i /\ w.pd_i = v.pd_i /\ w.pt_i = v.pt_i
      BY <3>2 DEF Prefix
    <3> QED
      BY <1>7, <3>1, <3>3 DEF Address
  <2> SUFFICES Walk(new, w, 4) = Walk(m, w, 4)
    BY <1>7
  <2> HIDE DEF x, new, t, i
  <2> QED
    BY <1>1, <1>3, <1>5, <2>1 DEF Entry
<1> QED
  BY <1>6, <1>7

-----------------------------------------------------------------------------
(* There is a frame for each table the addresses need, besides the root    *)
(* and the one whose address is the null pointer.                          *)
EnoughFrames ==
  /\ IsFiniteSet(PageFrames) /\ IsFiniteSet(Needed)
  /\ Cardinality(Needed) + 2 <= Cardinality(PageFrames)

(* What the code has reached when it has gone down k tables for v.         *)
States == [memory : [PageFrames -> Table], left : SUBSET PageFrames, table : PageFrames]
Reached(s, v, k) ==
  /\ s \in States
  /\ TablesSeparate(s.memory, s.left) /\ FramesCounted(s.memory, s.left)
  /\ s.table = Walk(s.memory, v, k)

(* A frame is left when a table is not there.                              *)
LEMMA OneIsLeft ==
  ASSUME EnoughFrames, NEW m, NEW spare, FramesCounted(m, spare), NEW q \in Needed \ Made(m)
  PROVE  spare # {}
<1>1. Made(m) \in SUBSET Needed /\ Made(m) # Needed
  BY DEF Made
<1>2. Cardinality(Made(m)) <= Cardinality(Needed) /\ Cardinality(Made(m)) # Cardinality(Needed)
  BY <1>1, FS_Subset DEF EnoughFrames
<1>3. /\ Cardinality(Made(m)) \in Nat /\ Cardinality(Needed) \in Nat /\ Cardinality(spare) \in Nat
      /\ Cardinality(PageFrames) \in Nat
  BY FS_CardinalityType DEF EnoughFrames, FramesCounted
<1>4. Cardinality(spare) # 0
  BY <1>2, <1>3 DEF EnoughFrames, FramesCounted
<1> QED
  BY <1>4, FS_EmptySet DEF FramesCounted

(* Clearing a frame that holds nothing.                                    *)
LEMMA ClearedStaysEmpty ==
  ASSUME NEW m \in [PageFrames -> Table], NEW n \in PageFrames, m[n] = Empty
  PROVE  [m EXCEPT ![n] = m_memset(@)] = m
<1>1. m_memset(Empty) = Empty
  BY DEF m_memset, Empty
<1> QED
  BY <1>1

(* Going down one table: it is there then, it is the one to which the walk *)
(* comes, and no address translates to anything else than before.          *)
LEMMA DescendReaches ==
  ASSUME EnoughFrames, NEW s, NEW v \in Virtual, NEW k \in 0 .. 2, Reached(s, v, k)
  PROVE  /\ Reached(Descend(s, Index(v, k)), v, k + 1)
         /\ \A w \in Address : Walk(Descend(s, Index(v, k)).memory, w, 4) = Walk(s.memory, w, 4)
<1> DEFINE m == s.memory
           spare == s.left
           t == s.table
           i == Index(v, k)
           r == Descend(s, i)
<1>1. /\ m \in [PageFrames -> Table] /\ spare \in SUBSET PageFrames /\ t \in PageFrames
      /\ t = Walk(m, v, k) /\ TablesSeparate(m, spare) /\ FramesCounted(m, spare) /\ s \in States
  BY DEF Reached, States
<1>2. v \in Address /\ i \in Indexes /\ k \in 0 .. 3
  BY IndexType, PageTableAssumption
<1>3. t \in Inner(m)
  BY <1>1, <1>2 DEF Inner
<1>4. CASE m[t][i] # NotPresent
  <2>1. m[t][i] \in PageFrames
    BY <1>1, <1>2, <1>3, <1>4 DEF TablesSeparate, EntriesTaken, Taken
  <2>2. Walk(m, v, k + 1) = m[t][i]
    BY <1>1, <1>2, WalkGoesOn DEF Entry
  <2>3. r = [s EXCEPT !.table = m[t][i]]
    BY <1>4 DEF Descend
  <2>4. r \in States /\ r.memory = m /\ r.left = spare /\ r.table = m[t][i]
    BY <1>1, <2>1, <2>3 DEF States
  <2> QED
    BY <1>1, <2>2, <2>4 DEF Reached
<1>5. CASE m[t][i] = NotPresent
  <2> DEFINE n == Requested(spare)
             new == Grown(m, t, i, n)
  <2>1. Prefix(v, k + 1) \in Needed \ Made(m)
    BY <1>1, <1>5, MissingIsNeeded
  <2>2. n \in spare
    BY <1>1, <2>1, OneIsLeft DEF Requested
  <2>3. n \in PageFrames /\ m[n] = Empty
    BY <1>1, <2>2 DEF TablesSeparate
  <2>4. r = [memory |-> new, left |-> spare \ {n}, table |-> n]
    <3>1. [m EXCEPT ![n] = m_memset(@)] = m
      BY <1>1, <2>3, ClearedStaysEmpty
    <3> HIDE DEF n
    <3> QED
      BY <1>5, <3>1 DEF Descend, Grown, n
  <2>5. new \in [PageFrames -> Table]
    BY <1>1, <1>2, <2>3, GrownEntries
  <2>6. r \in States /\ r.memory = new /\ r.left = spare \ {n} /\ r.table = n
    BY <1>1, <2>3, <2>4, <2>5 DEF States
  <2>7. TablesSeparate(new, spare \ {n})
    BY <1>1, <1>2, <1>3, <1>5, <2>2, GrowthSeparates
  <2>8. Walk(new, v, k + 1) = n
    BY <1>1, <1>2, <1>5, <2>2, WalkReachesNew
  <2>9. FramesCounted(new, spare \ {n})
    <3>1. Made(new) = Made(m) \cup {Prefix(v, k + 1)}
      BY <1>1, <1>5, <2>2, GrowthMakesOne
    <3>2. IsFiniteSet(Made(new)) /\ Cardinality(Made(new)) = Cardinality(Made(m)) + 1
      BY <1>1, <2>1, <3>1, FS_AddElement DEF FramesCounted
    <3>3. IsFiniteSet(spare \ {n}) /\ Cardinality(spare \ {n}) = Cardinality(spare) - 1
      BY <1>1, <2>2, FS_RemoveElement DEF FramesCounted
    <3>4. Cardinality(Made(m)) \in Nat /\ Cardinality(spare) \in Nat
      BY <1>1, FS_CardinalityType DEF FramesCounted
    <3>5. Cardinality(spare) + Cardinality(Made(m)) = Cardinality(PageFrames) - 2
      BY <1>1 DEF FramesCounted
    <3>6. Cardinality(spare \ {n}) + Cardinality(Made(new)) = Cardinality(PageFrames) - 2
      BY <3>2, <3>3, <3>4, <3>5
    <3> QED
      BY <3>2, <3>3, <3>6 DEF FramesCounted
  <2>10. \A w \in Address : Walk(new, w, 4) = Walk(m, w, 4)
    BY <1>1, <1>2, <1>5, <2>2, GrowthTranslates
  <2>11. Reached(r, v, k + 1)
    BY <2>6, <2>7, <2>8, <2>9 DEF Reached
  <2> QED
    BY <2>6, <2>10, <2>11
<1> QED
  BY <1>4, <1>5

-----------------------------------------------------------------------------
(* What the processor makes of the tables m.                               *)
Translation(m, v) == IF Walk(m, v, 4) = NotPresent THEN Unmapped ELSE Walk(m, v, 4)

(* Before anything is mapped, nothing is translated and no table is made.  *)
LEMMA NothingIsMade ==
  ASSUME NEW m, \A f \in PageFrames : m[f] = Empty
  PROVE  \A v \in Address, k \in 1 .. 4 : Walk(m, v, k) = NotPresent
<1>1. \A t, i : i \in Indexes => Entry(m, t, i) = NotPresent
  BY DEF Entry, Empty
<1> SUFFICES ASSUME NEW v \in Address, NEW k \in 1 .. 4
             PROVE  Walk(m, v, k) = NotPresent
  OBVIOUS
<1>2. k - 1 \in 0 .. 3 /\ (k - 1) + 1 = k
  OBVIOUS
<1>3. Walk(m, v, k) = Entry(m, Walk(m, v, k - 1), Index(v, k - 1))
  BY <1>2, WalkGoesOn
<1> QED
  BY <1>1, <1>3, IndexType

(* At first only the root is a table, and empty.                           *)
LEMMA TablesInit ==
  ASSUME EnoughFrames, Leftovers \subseteq {Empty}, PagingInit
  PROVE  /\ TablesSeparate(memory, left) /\ FramesCounted(memory, left)
         /\ \A v \in Virtual : Translation(memory, v) = Unmapped
<1>1. memory \in [PageFrames -> Table] /\ \A f \in PageFrames : memory[f] = Empty
  BY PageTableAssumption DEF PagingInit
<1>2. \A v \in Address, k \in 1 .. 4 : Walk(memory, v, k) = NotPresent
  BY <1>1, NothingIsMade
<1>3. Inner(memory) \subseteq {pml4}
  <2>1. SUFFICES ASSUME NEW v \in Address, NEW k \in 0 .. 2, Walk(memory, v, k) \in PageFrames
                 PROVE  Walk(memory, v, k) = pml4
    BY DEF Inner
  <2>2. CASE k = 0
    BY <2>2 DEF Walk
  <2>3. CASE k # 0
    BY <1>2, <2>1, <2>3, k \in 1 .. 4, PageTableAssumption
  <2> QED
    BY <2>2, <2>3
<1>4. \A i \in Indexes : memory[pml4][i] = NotPresent
  BY <1>1, PageTableAssumption DEF Empty
<1>5. EntriesTaken(memory, left) /\ EntriesApart(memory)
  BY <1>3, <1>4 DEF EntriesTaken, EntriesApart
<1>6. left \subseteq PageFrames \ {NoFrame, pml4} /\ \A f \in left : memory[f] = Empty
  BY <1>1 DEF PagingInit
<1>7. TablesSeparate(memory, left)
  BY <1>1, <1>5, <1>6 DEF TablesSeparate
<1>8. Made(memory) = {}
  BY <1>2, PageTableAssumption, \A k \in 1 .. 3 : k \in 1 .. 4 DEF Made
<1>9. IsFiniteSet(left) /\ Cardinality(left) = Cardinality(PageFrames) - 2
  <2> DEFINE others == PageFrames \ {NoFrame}
  <2>1. IsFiniteSet(others) /\ Cardinality(others) = Cardinality(PageFrames) - 1
    BY FS_RemoveElement, PageTableAssumption DEF EnoughFrames
  <2>2. left = others \ {pml4} /\ pml4 \in others
    BY PageTableAssumption DEF PagingInit
  <2> HIDE DEF others
  <2>3. IsFiniteSet(left) /\ Cardinality(left) = Cardinality(others) - 1
    BY <2>1, <2>2, FS_RemoveElement
  <2>4. Cardinality(PageFrames) \in Nat
    BY FS_CardinalityType DEF EnoughFrames
  <2> QED
    BY <2>1, <2>3, <2>4
<1>10. IsFiniteSet(Made(memory)) /\ Cardinality(Made(memory)) = 0
  BY <1>8, FS_EmptySet
<1>11. Cardinality(PageFrames) \in Nat
  BY FS_CardinalityType DEF EnoughFrames
<1>12. FramesCounted(memory, left)
  BY <1>9, <1>10, <1>11 DEF FramesCounted
<1>13. \A v \in Virtual : Translation(memory, v) = Unmapped
  BY <1>2, PageTableAssumption, 4 \in 1 .. 4 DEF Translation
<1> QED
  BY <1>7, <1>12, <1>13

(* Mapping an address keeps the tables separate, and changes what this     *)
(* address translates to and nothing else.                                 *)
LEMMA MappingKeeps ==
  ASSUME EnoughFrames, TablesSeparate(memory, left), FramesCounted(memory, left),
         NEW v \in Virtual, NEW p \in Physical, MapMemory(v, p)
  PROVE  /\ TablesSeparate(memory', left') /\ FramesCounted(memory', left')
         /\ \A w \in Virtual :
              Translation(memory', w) = IF w = v THEN p ELSE Translation(memory, w)
<1> DEFINE pdp == Descend(Root, v.pdp_i)
           pd  == Descend(pdp, v.pd_i)
           pt  == Descend(pd, v.pt_i)
<1>1. Reached(Root, v, 0) /\ Root.memory = memory
  <2>1. Root \in States
    BY PageTableAssumption DEF Root, States, TablesSeparate
  <2>2. Root.memory = memory /\ Root.left = left /\ Root.table = pml4
    BY DEF Root
  <2>3. Walk(memory, v, 0) = pml4
    BY DEF Walk
  <2> QED
    BY <2>1, <2>2, <2>3 DEF Reached
<1>2. v.pdp_i = Index(v, 0) /\ v.pd_i = Index(v, 1) /\ v.pt_i = Index(v, 2)
  BY DEF Index
<1>3. Reached(pdp, v, 1) /\ \A w \in Address : Walk(pdp.memory, w, 4) = Walk(memory, w, 4)
  BY <1>1, <1>2, DescendReaches, 0 \in 0 .. 2, 0 + 1 = 1
<1> HIDE DEF pdp
<1>4. Reached(pd, v, 2) /\ \A w \in Address : Walk(pd.memory, w, 4) = Walk(memory, w, 4)
  BY <1>2, <1>3, DescendReaches, 1 \in 0 .. 2, 1 + 1 = 2
<1> HIDE DEF pd
<1>5. Reached(pt, v, 3) /\ \A w \in Address : Walk(pt.memory, w, 4) = Walk(memory, w, 4)
  BY <1>2, <1>4, DescendReaches, 2 \in 0 .. 2, 2 + 1 = 3
<1>6. memory' = Grown(pt.memory, pt.table, v.p_i, p) /\ left' = pt.left
  BY DEF MapMemory, Grown, pdp, pd
<1> HIDE DEF pt
<1>7. /\ TablesSeparate(pt.memory, left') /\ FramesCounted(pt.memory, left')
      /\ pt.table = Walk(pt.memory, v, 3) /\ pt.table \in PageFrames
  BY <1>5, <1>6 DEF Reached, States
<1>8. v \in Address /\ v.p_i \in Indexes /\ p \in PageFrames
  BY PageTableAssumption DEF Address
<1>9. pt.table \notin Inner(pt.memory) /\ pt.table \notin left'
  <2>1. pt.table \in Taken(left')
    BY <1>7, <1>8, WalkComesFrom, 2 \in 0 .. 2, 2 + 1 = 3
  <2> QED
    BY <1>7, <1>8, <2>1, LeafIsNotInner DEF Taken
<1>10. TablesSeparate(memory', left') /\ Made(memory') = Made(pt.memory)
  BY <1>6, <1>7, <1>8, <1>9, EnteringSeparates
<1>11. FramesCounted(memory', left')
  BY <1>7, <1>10 DEF FramesCounted
<1>12. ASSUME NEW w \in Virtual
       PROVE  Walk(memory', w, 4) = IF w = v THEN p ELSE Walk(memory, w, 4)
  <2>1. w \in Address
    BY PageTableAssumption
  <2>2. Walk(memory', w, 4) = IF w = v THEN p ELSE Walk(pt.memory, w, 4)
    BY <1>6, <1>7, <1>8, <2>1, EnteringTranslates
  <2> QED
    BY <1>5, <2>1, <2>2
<1>13. p # NotPresent
  BY <1>8, PageTableAssumption
<1> QED
  BY <1>10, <1>11, <1>12, <1>13 DEF Translation

(* On frames that hold nothing when they are requested, one for each table *)
(* the addresses need: no table is shared, and no table is the null        *)
(* pointer or a frame the allocator still has.                             *)
THEOREM TablesStaySeparate ==
  ASSUME EnoughFrames, Leftovers \subseteq {Empty}
  PROVE  PagingSpec => [](TablesSeparate(memory, left) /\ FramesCounted(memory, left))
<1> DEFINE IInv == TablesSeparate(memory, left) /\ FramesCounted(memory, left)
<1>1. PagingInit => IInv
  BY TablesInit
<1>2. IInv /\ [PagingNext]_paging_vars => IInv'
  BY MappingKeeps DEF PagingNext, paging_vars
<1> QED
  BY <1>1, <1>2, PTL DEF PagingSpec

(* And whatever is mapped in whatever order, an address translates to what *)
(* it was last mapped to.                                                  *)
THEOREM MappingImplementsSpace ==
  ASSUME EnoughFrames, Leftovers \subseteq {Empty}
  PROVE  PagingSpec => SpaceSpec
<1> DEFINE IInv == TablesSeparate(memory, left) /\ FramesCounted(memory, left)
           space == [v \in Virtual |-> Translated(v)]
<1>1. PagingInit => Space!Init
  <2> SUFFICES ASSUME PagingInit PROVE Space!Init
    OBVIOUS
  <2>1. \A v \in Virtual : Translation(memory, v) = Unmapped
    BY TablesInit
  <2>2. \A v \in Virtual : Translated(v) = Translation(memory, v)
    BY DEF Translated, Below, Translation, Walk, Entry
  <2> QED
    BY <2>1, <2>2 DEF Space!Init
<1>2. IInv /\ [PagingNext]_paging_vars => [Space!Map]_space
  <2> SUFFICES ASSUME IInv, [PagingNext]_paging_vars PROVE [Space!Map]_space
    OBVIOUS
  <2>1. \A v \in Virtual : Translated(v) = Translation(memory, v)
    BY DEF Translated, Below, Translation, Walk, Entry
  <2>2. \A v \in Virtual : Translated(v)' = Translation(memory', v)
    BY DEF Translated, Below, Translation, Walk, Entry
  <2>3. ASSUME NEW v \in Virtual, NEW p \in Physical, MapMemory(v, p)
        PROVE  space' = [space EXCEPT ![v] = p]
    <3>1. \A w \in Virtual :
            Translation(memory', w) = IF w = v THEN p ELSE Translation(memory, w)
      BY <2>3, MappingKeeps
    <3>3. space' = [w \in Virtual |-> Translation(memory', w)]
      BY <2>2
    <3>4. space = [w \in Virtual |-> Translation(memory, w)]
      BY <2>1
    <3> HIDE DEF space
    <3> QED
      BY <3>1, <3>3, <3>4
  <2>4. CASE PagingNext
    <3>1. PICK v \in Virtual, p \in Physical : MapMemory(v, p)
      BY <2>4 DEF PagingNext
    <3>2. space' = [space EXCEPT ![v] = p]
      BY <2>3, <3>1
    <3> QED
      BY <3>2 DEF Space!Map
  <2>5. CASE UNCHANGED paging_vars
    BY <2>5 DEF paging_vars, Translated, Below
  <2> QED
    BY <2>4, <2>5
<1> QED
  BY <1>1, <1>2, TablesStaySeparate, PTL DEF PagingSpec, SpaceSpec, Space!Spec
==============================================================================
