--------------------------- MODULE GpuMemoryProofs ---------------------------
(***************************************************************************)
(* The chunked pool of a GPU context is safe for every range of chunk      *)
(* sizes that the environment variables may choose, every set of views and *)
(* every sequence of allocations, failed allocations and frees             *)
(* (ViewsSound).                                                           *)
(***************************************************************************)
EXTENDS GpuMemory, WellFoundedInduction, FiniteSetTheorems, SequenceTheorems, TLAPS

(***************************************************************************)
(* Powers of two                                                           *)
(***************************************************************************)

\* A set of natural numbers has a least one.
LEMMA LeastExists ==
    ASSUME NEW S \in SUBSET Nat, S # {}
    PROVE  \E k \in S : \A j \in S : k <= j
  <1> DEFINE R == OpToRel(<, Nat)
  <1>1. \A x, y \in Nat : x < y => <<x, y>> \in R
    BY DEF OpToRel
  <1>2. IsWellFoundedOn(R, Nat)
    BY NatLessThanWellFounded, Zenon
  <1> HIDE DEF R
  <1>3. PICK k \in S : \A y \in S : ~(<<y, k>> \in R)
    BY <1>2, WFMin
  <1>4. \A j \in S : ~(j < k)
    BY <1>1, <1>3
  <1> QED BY <1>4

\* The powers of two that are chunk sizes, as a function.
Power == [k \in 0 .. 30 |-> 2 ^ k]

\* Each power is twice the one before.
LEMMA PowerFacts ==
    /\ Power \in [0 .. 30 -> Nat \ {0}]
    /\ Power[0] = 1
    /\ \A k \in 1 .. 30 : Power[k] = 2 * Power[k - 1]
    /\ \A k \in 0 .. 30 : 2 ^ k = Power[k]
  BY PowersOfTwo DEF Power

\* A larger power of two is at least twice as large.
LEMMA PowersGrow ==
    ASSUME NEW i \in 0 .. 30, NEW j \in 0 .. 30, i < j
    PROVE  2 * Power[i] <= Power[j]
  <1> DEFINE S == {k \in 0 .. 30 : k > i /\ ~(2 * Power[i] <= Power[k])}
  <1>1. CASE S = {}
    BY <1>1
  <1>2. CASE S # {}
    <2>1. PICK k \in S : \A m \in S : k <= m
      BY <1>2, LeastExists, S \in SUBSET Nat
    <2>2. CASE k = i + 1
      BY <2>1, <2>2, PowerFacts
    <2>3. CASE k > i + 1
      <3>1. k - 1 \notin S /\ k - 1 \in 0 .. 30 /\ k - 1 > i
        BY <2>1, <2>3
      <3>2. 2 * Power[i] <= Power[k - 1]
        BY <3>1
      <3>3. k \in 1 .. 30
        BY <2>1, <2>3
      <3>4. Power[k] = 2 * Power[k - 1]
        BY PowerFacts, <3>3
      <3>5. Power[k - 1] \in Nat /\ Power[k] \in Nat /\ Power[i] \in Nat
        BY PowerFacts, <3>1, <3>3
      <3> QED BY <3>2, <3>4, <3>5, <2>1
    <2> QED BY <2>1, <2>2, <2>3
  <1> QED BY <1>1, <1>2

\* The chunk sizes are powers between the smallest and the largest.
LEMMA ChunkSizeFacts ==
    /\ minChunkSize = Power[MinPow2] /\ minChunkSize \in ChunkSizes
    /\ maxChunkSize = Power[MaxPow2] /\ maxChunkSize \in Nat
    /\ \A s \in ChunkSizes :
         /\ s \in Nat \ {0} /\ s <= maxChunkSize
         /\ NumChunks(s) \in Nat /\ 0 < NumChunks(s)
    /\ \A i \in MinPow2 .. MaxPow2 : Power[i] \in ChunkSizes
    /\ 2 <= minChunkSize
  <1>1. MinPow2 \in 1 .. 30 /\ MaxPow2 \in 1 .. 30 /\ MinPow2 <= MaxPow2
    BY GpuMemoryAssumption
  <1>a. MinPow2 \in 0 .. 30 /\ MaxPow2 \in 0 .. 30 /\ \A i \in MinPow2 .. MaxPow2 : i \in 0 .. 30
    BY <1>1
  <1>b. \A k \in 0 .. 30 : 2 ^ k = Power[k]
    BY PowerFacts, Zenon
  <1>2. minChunkSize = Power[MinPow2] /\ maxChunkSize = Power[MaxPow2]
    BY <1>a, <1>b, Zenon DEF minChunkSize, maxChunkSize
  <1>3. \A i \in MinPow2 .. MaxPow2 : 2 ^ i = Power[i]
    BY <1>a, <1>b, Zenon
  <1>4. ChunkSizes = {Power[i] : i \in MinPow2 .. MaxPow2}
    BY <1>3 DEF ChunkSizes
  <1>5. \A i \in MinPow2 .. MaxPow2 : Power[i] \in Nat \ {0} /\ Power[i] <= maxChunkSize
    <2> SUFFICES ASSUME NEW i \in MinPow2 .. MaxPow2
                 PROVE  Power[i] \in Nat \ {0} /\ Power[i] <= maxChunkSize
      OBVIOUS
    <2>1. Power[i] \in Nat \ {0} /\ Power[MaxPow2] \in Nat
      BY <1>1, PowerFacts
    <2>2. CASE i = MaxPow2
      BY <2>1, <2>2, <1>2
    <2>3. CASE i # MaxPow2
      <3>1. 2 * Power[i] <= Power[MaxPow2]
        BY <1>1, <2>3, PowersGrow
      <3> QED BY <3>1, <2>1, <1>2
    <2> QED BY <2>2, <2>3
  <1>6. \A s \in ChunkSizes : s \in Nat \ {0} /\ s <= maxChunkSize
    BY <1>4, <1>5
  <1>7. maxChunkSize \in Nat
    BY <1>1, <1>2, PowerFacts
  <1>8. \A s \in ChunkSizes : NumChunks(s) \in Nat /\ 0 < NumChunks(s)
    <2> SUFFICES ASSUME NEW s \in ChunkSizes
                 PROVE  maxChunkSize \div s \in Nat /\ 0 < maxChunkSize \div s
      BY DEF NumChunks
    <2> QED BY <1>6, <1>7
  <1>9. 2 <= minChunkSize
    BY <1>1, <1>2, PowerFacts
  <1> QED BY <1>1, <1>2, <1>4, <1>6, <1>7, <1>8, <1>9

\* The size that allocate rounds a request up to.
ChunkSizeOf(x) == IF RoundUpPow2(x) < minChunkSize THEN minChunkSize ELSE RoundUpPow2(x)

\* round_up_pow2 gives a power of two that is not below its argument and less
\* than twice as large.
LEMMA RoundUpFacts ==
    ASSUME NEW x \in Nat, x <= maxChunkSize, 2 <= x
    PROVE  \E i \in 1 .. MaxPow2 : RoundUpPow2(x) = Power[i] /\ x <= Power[i]
  <1>0. MaxPow2 \in 1 .. 30 /\ maxChunkSize = Power[MaxPow2]
    BY GpuMemoryAssumption, ChunkSizeFacts
  <1> DEFINE S == {k \in 0 .. MaxPow2 : x <= Power[k]}
             P == {2 ^ i : i \in 1 .. 30}
  <1>1. P = {Power[i] : i \in 1 .. 30}
    BY PowerFacts
  <1>2. MaxPow2 \in S /\ S \in SUBSET Nat
    BY <1>0
  <1>3. PICK k \in S : \A j \in S : k <= j
    BY <1>2, LeastExists
  <1>4. k # 0
    BY PowerFacts, <1>3
  <1>5. k - 1 \notin S /\ k \in 1 .. 30 /\ k - 1 \in 0 .. MaxPow2
    BY <1>0, <1>3, <1>4
  <1>6. Power[k - 1] < x /\ Power[k] = 2 * Power[k - 1] /\ x <= Power[k]
    BY <1>0, <1>3, <1>5, PowerFacts, SMTT(30)
  <1>7. Power[k] \in P /\ Power[k] >= x /\ Power[k] < 2 * x
    BY <1>0, <1>1, <1>5, <1>6, PowerFacts
  <1> DEFINE p == CHOOSE q \in P : q >= x /\ q < 2 * x
  <1>8. p \in P /\ p >= x /\ p < 2 * x
    BY <1>7
  <1>9. RoundUpPow2(x) = p
    BY DEF RoundUpPow2
  <1> HIDE DEF p, P
  <1>10. PICK i \in 1 .. 30 : p = Power[i]
    BY <1>1, <1>8
  <1>11. i <= MaxPow2
    <2> SUFFICES ASSUME i > MaxPow2 PROVE FALSE
      BY <1>0
    <2>1. 2 * Power[MaxPow2] <= Power[i]
      BY <1>0, PowersGrow
    <2> QED BY <2>1, <1>0, <1>8, <1>10, PowerFacts
  <1> QED BY <1>0, <1>8, <1>9, <1>10, <1>11, PowerFacts

\* A request that fits a chunk gets a chunk size that is large enough.
LEMMA ChunkSizeOfFacts ==
    ASSUME NEW x \in Nat, x <= maxChunkSize
    PROVE  ChunkSizeOf(x) \in ChunkSizes /\ x <= ChunkSizeOf(x)
  <1>0. MinPow2 \in 1 .. 30 /\ MaxPow2 \in MinPow2 .. 30
    BY GpuMemoryAssumption
  <1>1. minChunkSize \in ChunkSizes /\ minChunkSize \in Nat /\ 2 <= minChunkSize
    BY ChunkSizeFacts
  <1>2. CASE x < 2
    BY <1>1, <1>2 DEF ChunkSizeOf, RoundUpPow2
  <1>3. CASE 2 <= x
    <2>1. PICK i \in 1 .. MaxPow2 : RoundUpPow2(x) = Power[i] /\ x <= Power[i]
      BY <1>3, RoundUpFacts
    <2>2. Power[i] \in Nat /\ Power[MinPow2] \in Nat
      BY <1>0, PowerFacts
    <2>3. CASE Power[i] < minChunkSize
      BY <1>1, <2>1, <2>2, <2>3 DEF ChunkSizeOf
    <2>4. CASE Power[i] >= minChunkSize
      <3>1. i >= MinPow2
        <4> SUFFICES ASSUME i < MinPow2 PROVE FALSE
          BY <1>0
        <4>1. i \in 0 .. 30 /\ MinPow2 \in 0 .. 30
          BY <1>0
        <4>2. 2 * Power[i] <= Power[MinPow2]
          BY <4>1, PowersGrow
        <4>3. Power[i] \in Nat \ {0}
          BY <4>1, PowerFacts
        <4> QED BY <4>2, <4>3, <2>2, <2>4, ChunkSizeFacts
      <3>2. Power[i] \in ChunkSizes
        BY <3>1, <1>0, ChunkSizeFacts
      <3> QED BY <2>1, <2>2, <2>4, <1>1, <3>2 DEF ChunkSizeOf
    <2> QED BY <1>1, <2>2, <2>3, <2>4
  <1> QED BY <1>2, <1>3

-----------------------------------------------------------------------------
(***************************************************************************)
(* One bulk                                                                *)
(***************************************************************************)
BulkType == [mapped : BOOLEAN, initFreeChunks : Nat, freeChunks : Seq(Nat), usedChunks : SUBSET Nat]

\* The chunks below initFreeChunks are in use or listed once as free; the
\* memory is there when a chunk is in use.
BulkSound(s, k) ==
    /\ k \in BulkType
    /\ k.initFreeChunks <= NumChunks(s)
    /\ IsInjective(k.freeChunks)
    /\ \A i \in Nat : i \in ToSet(k.freeChunks) <=> (i < k.initFreeChunks /\ i \notin k.usedChunks)
    /\ \A i \in k.usedChunks : i < k.initFreeChunks
    /\ k.usedChunks # {} => k.mapped

\* A new bulk is sound and has room.
LEMMA NewBulkSound ==
    ASSUME NEW s \in ChunkSizes
    PROVE  BulkSound(s, NewBulk) /\ ~Full(s, NewBulk)
  <1>1. NumChunks(s) \in Nat /\ 0 < NumChunks(s)
    BY ChunkSizeFacts
  <1>2. NewBulk \in BulkType
    BY DEF NewBulk, BulkType
  <1>3. ToSet(<<>>) = {} /\ IsInjective(<<>>)
    BY DEF ToSet, IsInjective
  <1>4. /\ NewBulk.initFreeChunks = 0 /\ NewBulk.freeChunks = <<>> /\ NewBulk.usedChunks = {}
    BY DEF NewBulk
  <1> QED BY <1>1, <1>2, <1>3, <1>4 DEF BulkSound, Full

\* Assignments to the fields of a bulk keep its type.
LEMMA BulkFields ==
    ASSUME NEW k \in BulkType, NEW n \in Nat, NEW f \in Seq(Nat), NEW u \in SUBSET Nat
    PROVE  /\ [k EXCEPT !.mapped = TRUE] \in BulkType
           /\ [k EXCEPT !.initFreeChunks = n, !.usedChunks = u] \in BulkType
           /\ [k EXCEPT !.freeChunks = f, !.usedChunks = u] \in BulkType
  BY DEF BulkType

\* allocChunk of a bulk that is not full takes a chunk that is not in use and
\* lies in the bulk.
LEMMA AllocChunkSound ==
    ASSUME NEW s \in ChunkSizes, NEW k, BulkSound(s, k), ~Full(s, k)
    PROVE  LET a == AllocChunk(s, k)
               after == [a[2] EXCEPT !.mapped = TRUE]
           IN /\ a[1] \in Nat /\ a[1] < NumChunks(s) /\ a[1] \notin k.usedChunks
              /\ BulkSound(s, after) /\ after.usedChunks = k.usedChunks \cup {a[1]}
  <1> DEFINE a == AllocChunk(s, k)
             after == [a[2] EXCEPT !.mapped = TRUE]
  <1>0. k \in BulkType /\ NumChunks(s) \in Nat
    BY ChunkSizeFacts DEF BulkSound
  <1>a. /\ k.mapped \in BOOLEAN /\ k.initFreeChunks \in Nat /\ k.freeChunks \in Seq(Nat)
        /\ k.usedChunks \in SUBSET Nat
    BY <1>0 DEF BulkType
  <1>1. CASE k.freeChunks = <<>> /\ k.initFreeChunks < NumChunks(s)
    <2> DEFINE n == k.initFreeChunks + 1
               u == k.usedChunks \cup {k.initFreeChunks}
               b == [k EXCEPT !.initFreeChunks = n, !.usedChunks = u]
    <2>a. n \in Nat /\ u \in SUBSET Nat
      BY <1>a
    <2>1. a[1] = k.initFreeChunks /\ a[2] = b
      BY <1>1 DEF AllocChunk
    <2> HIDE DEF n, u
    <2>b. b \in BulkType
      BY <1>0, <1>a, <2>a, BulkFields
    <2>c. b.initFreeChunks = n /\ b.freeChunks = k.freeChunks /\ b.usedChunks = u
      BY <1>0 DEF BulkType
    <2> HIDE DEF b
    <2>2. after \in BulkType
      BY <2>1, <2>b, <1>a, BulkFields
    <2>d. /\ after.mapped = TRUE /\ after.initFreeChunks = b.initFreeChunks
          /\ after.freeChunks = b.freeChunks /\ after.usedChunks = b.usedChunks
      BY <2>1, <2>b DEF BulkType
    <2> HIDE DEF a, after
    <2>3. /\ after.mapped = TRUE /\ after.initFreeChunks = k.initFreeChunks + 1
          /\ after.freeChunks = k.freeChunks /\ after.usedChunks = k.usedChunks \cup {k.initFreeChunks}
      BY <2>c, <2>d DEF n, u
    <2>4. k.initFreeChunks \notin k.usedChunks
      BY <1>a DEF BulkSound
    <2>5. \A i \in Nat : i \in ToSet(after.freeChunks) <=> (i < after.initFreeChunks /\ i \notin after.usedChunks)
      <3> SUFFICES ASSUME NEW i \in Nat
                   PROVE  i \in ToSet(after.freeChunks) <=> (i < after.initFreeChunks /\ i \notin after.usedChunks)
        OBVIOUS
      <3>1. i \in ToSet(k.freeChunks) <=> (i < k.initFreeChunks /\ i \notin k.usedChunks)
        BY DEF BulkSound
      <3> QED BY <3>1, <2>3, <1>a, <2>4
    <2>6. \A i \in after.usedChunks : i < after.initFreeChunks
      BY <2>3, <1>a DEF BulkSound
    <2>7. BulkSound(s, after)
      BY <2>2, <2>3, <2>5, <2>6, <1>1, <1>0, <1>a DEF BulkSound
    <2> QED BY <2>1, <2>3, <2>4, <2>7, <1>1, <1>a DEF a, after
  <1>2. CASE k.freeChunks # <<>>
    <2> DEFINE free == k.freeChunks
    <2> DEFINE f == Tail(free)
               u == k.usedChunks \cup {Head(free)}
               b == [k EXCEPT !.freeChunks = f, !.usedChunks = u]
    <2>1. a[1] = Head(free) /\ a[2] = b
      BY <1>2 DEF AllocChunk
    <2>2. Head(free) \in Nat /\ Tail(free) \in Seq(Nat)
      BY <1>2, <1>a
    <2>a. f \in Seq(Nat) /\ u \in SUBSET Nat
      BY <1>a, <2>2
    <2> HIDE DEF f, u
    <2>b. b \in BulkType
      BY <1>0, <1>a, <2>a, BulkFields
    <2>c. b.initFreeChunks = k.initFreeChunks /\ b.freeChunks = f /\ b.usedChunks = u
      BY <1>0 DEF BulkType
    <2> HIDE DEF b
    <2>3. after \in BulkType
      BY <2>1, <2>b, <1>a, BulkFields
    <2>d. /\ after.mapped = TRUE /\ after.initFreeChunks = b.initFreeChunks
          /\ after.freeChunks = b.freeChunks /\ after.usedChunks = b.usedChunks
      BY <2>1, <2>b DEF BulkType
    <2> HIDE DEF a, after
    <2>4. /\ after.mapped = TRUE /\ after.initFreeChunks = k.initFreeChunks
          /\ after.freeChunks = Tail(free) /\ after.usedChunks = k.usedChunks \cup {Head(free)}
      BY <2>c, <2>d DEF f, u
    <2>5. free # <<>> /\ free \in Seq(Nat) /\ IsInjective(free)
      BY <1>2, <1>a DEF BulkSound
    <2>6. /\ IsInjective(Tail(free)) /\ Head(free) \in ToSet(free)
          /\ \A i \in Nat : i \in ToSet(Tail(free)) <=> (i \in ToSet(free) /\ i # Head(free))
      <3> HIDE DEF free
      <3>1. Len(free) \in Nat /\ Len(free) > 0 /\ Head(free) = free[1] /\ DOMAIN free = 1 .. Len(free)
        BY <2>5
      <3>2. /\ Len(Tail(free)) = Len(free) - 1 /\ DOMAIN Tail(free) = 1 .. Len(free) - 1
            /\ \A i \in 1 .. Len(free) - 1 : Tail(free)[i] = free[i + 1]
        BY <2>5
      <3>3. IsInjective(Tail(free))
        BY <3>1, <3>2, <2>5, SMTT(30) DEF IsInjective
      <3>4. Head(free) \in ToSet(free)
        BY <3>1 DEF ToSet
      <3>5. ASSUME NEW i \in Nat, i \in ToSet(Tail(free)) PROVE i \in ToSet(free) /\ i # Head(free)
        <4>1. PICK j \in 1 .. Len(free) - 1 : i = free[j + 1]
          BY <3>5, <3>2 DEF ToSet
        <4> QED BY <4>1, <3>1, <2>5 DEF ToSet, IsInjective
      <3>6. ASSUME NEW i \in Nat, i \in ToSet(free), i # Head(free) PROVE i \in ToSet(Tail(free))
        <4>1. PICK j \in 1 .. Len(free) : i = free[j]
          BY <3>6, <3>1 DEF ToSet
        <4>2. j - 1 \in 1 .. Len(free) - 1 /\ Tail(free)[j - 1] = free[(j - 1) + 1]
          BY <4>1, <3>1, <3>2, <3>6
        <4>3. (j - 1) + 1 = j
          OBVIOUS
        <4> QED BY <4>1, <4>2, <4>3, <3>2 DEF ToSet
      <3> QED BY <3>3, <3>4, <3>5, <3>6
    <2>7. Head(free) < k.initFreeChunks /\ Head(free) \notin k.usedChunks
      BY <2>2, <2>6 DEF BulkSound
    <2>8. \A i \in Nat : i \in ToSet(after.freeChunks) <=> (i < after.initFreeChunks /\ i \notin after.usedChunks)
      <3> SUFFICES ASSUME NEW i \in Nat
                   PROVE  i \in ToSet(after.freeChunks) <=> (i < after.initFreeChunks /\ i \notin after.usedChunks)
        OBVIOUS
      <3>1. i \in ToSet(free) <=> (i < k.initFreeChunks /\ i \notin k.usedChunks)
        BY DEF BulkSound
      <3> HIDE DEF free
      <3> QED BY <3>1, <2>4, <2>6
    <2>9. \A i \in after.usedChunks : i < after.initFreeChunks
      BY <2>4, <2>7 DEF BulkSound
    <2>10. k.initFreeChunks <= NumChunks(s)
      BY DEF BulkSound
    <2>11. BulkSound(s, after)
      BY <2>3, <2>4, <2>6, <2>8, <2>9, <2>10 DEF BulkSound
    <2> QED BY <2>1, <2>2, <2>4, <2>7, <2>10, <2>11, <1>0, <1>a DEF a, after
  <1> QED BY <1>1, <1>2 DEF Full

\* freeChunk of a chunk in use.
LEMMA FreeChunkSound ==
    ASSUME NEW s \in ChunkSizes, NEW k, BulkSound(s, k), NEW c \in k.usedChunks
    PROVE  /\ BulkSound(s, FreeChunk(k, c))
           /\ FreeChunk(k, c).usedChunks = k.usedChunks \ {c}
           /\ FreeChunk(k, c).mapped = k.mapped
  <1> DEFINE after == FreeChunk(k, c)
             free == k.freeChunks
  <1>0. k \in BulkType
    BY DEF BulkSound
  <1>1. /\ k.mapped \in BOOLEAN /\ k.initFreeChunks \in Nat /\ free \in Seq(Nat)
        /\ k.usedChunks \in SUBSET Nat
    BY <1>0 DEF BulkType
  <1>3. c \in Nat /\ c < k.initFreeChunks /\ IsInjective(free) /\ c \notin ToSet(free)
        /\ k.initFreeChunks <= NumChunks(s) /\ k.mapped
    BY <1>1 DEF BulkSound
  <1>4. /\ after.mapped = k.mapped /\ after.initFreeChunks = k.initFreeChunks
        /\ after.freeChunks = Append(free, c) /\ after.usedChunks = k.usedChunks \ {c}
    BY <1>0 DEF FreeChunk, BulkType
  <1>5. after \in BulkType
    <2> DEFINE f == Append(free, c)
               u == k.usedChunks \ {c}
    <2>1. f \in Seq(Nat) /\ u \in SUBSET Nat
      BY <1>1, <1>3
    <2>2. after = [k EXCEPT !.freeChunks = f, !.usedChunks = u]
      BY DEF FreeChunk
    <2> HIDE DEF f, u, after
    <2> QED BY <1>0, <1>1, <2>1, <2>2, BulkFields
  <1> HIDE DEF after
  <1>6. IsInjective(Append(free, c)) /\ ToSet(Append(free, c)) = ToSet(free) \cup {c}
    <2> HIDE DEF free
    <2>1. /\ DOMAIN free = 1 .. Len(free) /\ Len(free) \in Nat
          /\ DOMAIN Append(free, c) = 1 .. Len(free) + 1
          /\ \A i \in 1 .. Len(free) : Append(free, c)[i] = free[i]
          /\ Append(free, c)[Len(free) + 1] = c
      BY <1>1, <1>3
    <2> DEFINE f == Append(free, c)
    <2> HIDE DEF f
    <2>2. IsInjective(f)
      BY <2>1, <1>3 DEF IsInjective, ToSet, f
    <2>3. ToSet(f) = ToSet(free) \cup {c}
      BY <2>1 DEF ToSet, f
    <2> QED BY <2>2, <2>3 DEF f
  <1>7. \A i \in Nat : i \in ToSet(after.freeChunks) <=> (i < after.initFreeChunks /\ i \notin after.usedChunks)
    <2> SUFFICES ASSUME NEW i \in Nat
                 PROVE  i \in ToSet(after.freeChunks) <=> (i < after.initFreeChunks /\ i \notin after.usedChunks)
      OBVIOUS
    <2>1. i \in ToSet(free) <=> (i < k.initFreeChunks /\ i \notin k.usedChunks)
      BY DEF BulkSound
    <2> HIDE DEF free
    <2> QED BY <2>1, <1>3, <1>4, <1>6
  <1>8. \A i \in after.usedChunks : i < after.initFreeChunks
    BY <1>4 DEF BulkSound
  <1>9. BulkSound(s, after)
    BY <1>3, <1>4, <1>5, <1>6, <1>7, <1>8 DEF BulkSound
  <1> QED BY <1>4, <1>9 DEF after

-----------------------------------------------------------------------------
(***************************************************************************)
(* The inductive invariant                                                 *)
(***************************************************************************)
ViewType == [state : {"none", "live"}, requested : Nat, size : Nat,
             ptr : ChunkAddresses \cup {NullPtr, LargePtr}]

Chunk(s, b, i) == [size |-> s, bulk |-> b, index |-> i]

TypeInv ==
    /\ bulks \in [ChunkSizes -> Seq(Nat)]
    /\ bulk \in [ChunkSizes -> Seq(BulkType)]
    /\ view \in [Views -> ViewType]
    /\ allocated \subseteq ChunkAddresses /\ large \subseteq Views
    /\ appHasContext \in BOOLEAN

\* The list of a chunk size has every bulk of that size, once.
ListInv ==
    \A s \in ChunkSizes :
        /\ Len(bulks[s]) = Len(bulk[s]) /\ Len(bulk[s]) <= MaxBulks
        /\ ToSet(bulks[s]) = 1 .. Len(bulk[s])

BulksInv == \A s \in ChunkSizes : \A b \in 1 .. Len(bulk[s]) : BulkSound(s, bulk[s][b])

\* A bulk has the chunks in use that m_allocated knows.
UsedInv ==
    /\ \A s \in ChunkSizes : \A b \in 1 .. Len(bulk[s]) : \A i \in Nat :
          i \in bulk[s][b].usedChunks <=> Chunk(s, b, i) \in allocated
    /\ \A c \in allocated : c.bulk <= Len(bulk[c.size])

\* m_allocated has the chunks of the views, which differ.
OwnerInv ==
    /\ \A c \in allocated : \E v \in Views : view[v].ptr = c
    /\ \A v \in Views : view[v].ptr \in {NullPtr, LargePtr} \cup allocated
    /\ \A v, w \in Views : view[v].ptr \in allocated /\ view[v].ptr = view[w].ptr => v = w
    /\ large = {v \in Views : view[v].ptr = LargePtr}

\* The size of a view tells the destructor where the memory is from.
SizeInv ==
    \A v \in Views :
        /\ view[v].requested <= view[v].size
        /\ view[v].state = "none" => view[v].ptr = NullPtr
        /\ view[v].ptr = LargePtr => view[v].size > maxChunkSize
        /\ view[v].ptr \in allocated => view[v].size = view[v].ptr.size

LiveViews == {v \in Views : view[v].state = "live"}

RefInv == ctxRefs = Cardinality(LiveViews) + (IF appHasContext THEN 1 ELSE 0)

MemInv == TypeInv /\ ListInv /\ BulksInv /\ UsedInv /\ OwnerInv /\ SizeInv /\ RefInv

\* The fields of a chunk.
LEMMA ChunkFacts ==
    ASSUME NEW s \in ChunkSizes, NEW b \in 1 .. MaxBulks, NEW i \in Nat
    PROVE  /\ Chunk(s, b, i) \in ChunkAddresses
           /\ Chunk(s, b, i).size = s /\ Chunk(s, b, i).bulk = b /\ Chunk(s, b, i).index = i
  BY DEF Chunk, ChunkAddresses

\* A chunk is made of its fields, and is not one of the two pointers that are
\* not chunks.
LEMMA AddressFacts ==
    ASSUME NEW c \in ChunkAddresses
    PROVE  /\ c.size \in ChunkSizes /\ c.bulk \in 1 .. MaxBulks /\ c.index \in Nat
           /\ c = Chunk(c.size, c.bulk, c.index)
           /\ c # NullPtr /\ c # LargePtr
  <1>1. c.size \in ChunkSizes /\ c.bulk \in 1 .. MaxBulks /\ c.index \in Nat
    BY DEF ChunkAddresses
  <1>2. c = Chunk(c.size, c.bulk, c.index)
    BY DEF ChunkAddresses, Chunk
  <1>3. c.size # 0
    BY <1>1, ChunkSizeFacts
  <1> QED BY <1>1, <1>2, <1>3 DEF NullPtr, LargePtr

\* The invariant holds in a new context.
LEMMA MemInitInv == MemInit => MemInv
  <1> SUFFICES ASSUME MemInit PROVE MemInv
    OBVIOUS
  <1> USE DEF MemInit
  <1>1. NewBulk \in BulkType /\ \A s \in ChunkSizes : BulkSound(s, NewBulk)
    BY NewBulkSound DEF NewBulk, BulkType
  <1>2. NoView \in ViewType /\ NoView.state = "none" /\ NoView.ptr = NullPtr /\ NoView.requested = 0 /\ NoView.size = 0
    BY DEF NoView, ViewType
  <1>3. NewBulk.usedChunks = {}
    BY DEF NewBulk
  <1>4. TypeInv
    BY <1>1, <1>2 DEF TypeInv
  <1>5. ListInv
    <2>1. MaxBulks \in Nat \ {0}
      BY GpuMemoryAssumption
    <2>2. ToSet(<<1>>) = 1 .. 1 /\ Len(<<1>>) = 1 /\ Len(<<NewBulk>>) = 1
      BY DEF ToSet
    <2> QED BY <2>1, <2>2 DEF ListInv
  <1>6. BulksInv
    BY <1>1 DEF BulksInv
  <1>7. UsedInv
    BY <1>3 DEF UsedInv
  <1>8. NullPtr # LargePtr
    BY DEF NullPtr, LargePtr
  <1>9. OwnerInv
    BY <1>2, <1>8 DEF OwnerInv
  <1>10. SizeInv
    BY <1>2, <1>8 DEF SizeInv
  <1>11. RefInv
    <2>1. LiveViews = {}
      BY <1>2 DEF LiveViews
    <2>2. Cardinality({}) = 0
      BY FS_EmptySet
    <2> QED BY <2>1, <2>2 DEF RefInv
  <1> QED BY <1>4, <1>5, <1>6, <1>7, <1>9, <1>10, <1>11 DEF MemInv

-----------------------------------------------------------------------------
(***************************************************************************)
(* Allocation of a chunk                                                   *)
(***************************************************************************)

\* The elements of a sequence.
LEMMA Elements ==
    ASSUME NEW q, NEW n, DOMAIN q = 1 .. n
    PROVE  \A x : x \in ToSet(q) <=> \E k \in 1 .. n : x = q[k]
  BY DEF ToSet

\* The loop over full bulks loses none, and ends at one that is not full or
\* says that there is none.
LEMMA RotatedFacts ==
    ASSUME TypeInv, ListInv, NEW s \in ChunkSizes
    PROVE  LET r == Rotated(s) IN
           /\ r[1] \in Seq(Nat) /\ Len(r[1]) = Len(bulk[s]) /\ ToSet(r[1]) = 1 .. Len(bulk[s])
           /\ r[2] \in BOOLEAN
           /\ ~r[2] => Head(r[1]) \in 1 .. Len(bulk[s]) /\ ~Full(s, bulk[s][Head(r[1])])
  <1> DEFINE seq == bulks[s]
             n == Len(seq)
             notFull == {i \in 1 .. n : ~Full(s, bulk[s][seq[i]])}
  <1>0. seq \in Seq(Nat) /\ n \in Nat /\ n = Len(bulk[s]) /\ ToSet(seq) = 1 .. n /\ DOMAIN seq = 1 .. n
    BY DEF TypeInv, ListInv
  <1>1. CASE notFull = {}
    <2>1. Rotated(s) = <<seq, TRUE>>
      BY <1>1 DEF Rotated
    <2> QED BY <1>0, <2>1
  <1>2. CASE notFull # {}
    <2> DEFINE i == CHOOSE k \in notFull : \A j \in notFull : k <= j
               front == SubSeq(seq, i, n)
               back == SubSeq(seq, 1, i - 1)
    <2>1. Rotated(s) = <<front \o back, FALSE>>
      BY <1>2, Zenon DEF Rotated
    <2>2. notFull \in SUBSET Nat
      BY <1>0
    <2>3. i \in notFull
      <3>1. \E k \in notFull : \A j \in notFull : k <= j
        BY <1>2, <2>2, LeastExists
      <3> HIDE DEF notFull
      <3> QED BY <3>1
    <2> HIDE DEF i
    <2>4. i \in 1 .. n /\ ~Full(s, bulk[s][seq[i]])
      BY <2>3
    <2> HIDE DEF notFull, n
    <2>5. /\ front \in Seq(Nat) /\ Len(front) = n - i + 1
          /\ \A k \in 1 .. n - i + 1 : front[k] = seq[i + k - 1]
      BY <1>0, <2>4, SMTT(30) DEF n
    <2>6. /\ back \in Seq(Nat) /\ Len(back) = i - 1
          /\ \A k \in 1 .. i - 1 : back[k] = seq[k]
      BY <1>0, <2>4 DEF n
    <2> HIDE DEF front, back, seq
    <2> DEFINE rot == front \o back
    <2>7. /\ rot \in Seq(Nat) /\ Len(rot) = n
          /\ \A k \in 1 .. n - i + 1 : rot[k] = front[k]
          /\ \A k \in n - i + 2 .. n : rot[k] = back[k - (n - i + 1)]
      <3>1. /\ rot \in Seq(Nat) /\ Len(rot) = Len(front) + Len(back)
            /\ \A k \in 1 .. Len(front) + Len(back) :
                  rot[k] = IF k <= Len(front) THEN front[k] ELSE back[k - Len(front)]
        BY <2>5, <2>6, ConcatProperties
      <3>2. (n - i + 1) + (i - 1) = n
        BY <1>0, <2>4
      <3> HIDE DEF rot
      <3>3. Len(rot) = n
        BY <2>5, <2>6, <3>1, <3>2
      <3>4. \A k \in 1 .. n : rot[k] = IF k <= n - i + 1 THEN front[k] ELSE back[k - (n - i + 1)]
        BY <2>5, <2>6, <3>1, <3>2
      <3>5. \A k \in 1 .. n - i + 1 : k \in 1 .. n /\ k <= n - i + 1
        BY <1>0, <2>4
      <3>6. \A k \in n - i + 2 .. n : k \in 1 .. n /\ ~(k <= n - i + 1)
        BY <1>0, <2>4
      <3> QED BY <3>1, <3>3, <3>4, <3>5, <3>6
    <2> HIDE DEF rot
    <2>8. /\ \A k \in 1 .. n - i + 1 : rot[k] = seq[i + k - 1]
          /\ \A k \in n - i + 2 .. n : rot[k] = seq[k - (n - i + 1)]
      <3>1. \A k \in n - i + 2 .. n : k - (n - i + 1) \in 1 .. i - 1
        BY <1>0, <2>4
      <3> QED BY <3>1, <2>5, <2>6, <2>7
    <2>a. DOMAIN rot = 1 .. n
      BY <2>7
    <2>b. \A x : x \in ToSet(rot) <=> \E k \in 1 .. n : x = rot[k]
      BY <2>a, Elements
    <2>c. \A x : x \in ToSet(seq) <=> \E k \in 1 .. n : x = seq[k]
      <3>1. DOMAIN seq = 1 .. n
        BY <1>0
      <3> QED BY <3>1, Elements, Zenon
    <2>9. ToSet(rot) \subseteq ToSet(seq)
      <3> SUFFICES ASSUME NEW k \in 1 .. n PROVE \E m \in 1 .. n : rot[k] = seq[m]
        BY <2>b, <2>c
      <3>1. CASE k <= n - i + 1
        <4>1. k \in 1 .. n - i + 1 /\ i + k - 1 \in 1 .. n
          BY <1>0, <2>4, <3>1
        <4> QED BY <4>1, <2>8
      <3>2. CASE k > n - i + 1
        <4>1. k \in n - i + 2 .. n /\ k - (n - i + 1) \in 1 .. n
          BY <1>0, <2>4, <3>2
        <4> QED BY <4>1, <2>8
      <3> QED BY <1>0, <2>4, <3>1, <3>2
    <2>10. ToSet(seq) \subseteq ToSet(rot)
      <3> SUFFICES ASSUME NEW k \in 1 .. n PROVE \E m \in 1 .. n : rot[m] = seq[k]
        BY <2>b, <2>c
      <3>1. CASE k >= i
        <4>1. k - i + 1 \in 1 .. n - i + 1 /\ i + (k - i + 1) - 1 = k /\ k - i + 1 \in 1 .. n
          BY <1>0, <2>4, <3>1
        <4> QED BY <4>1, <2>8
      <3>2. CASE k < i
        <4>1. k + (n - i + 1) \in n - i + 2 .. n /\ (k + (n - i + 1)) - (n - i + 1) = k
              /\ k + (n - i + 1) \in 1 .. n
          BY <1>0, <2>4, <3>2
        <4> QED BY <4>1, <2>8
      <3> QED BY <1>0, <2>4, <3>1, <3>2
    <2>11. 1 \in 1 .. n - i + 1 /\ i + 1 - 1 = i /\ n \in Nat \ {0}
      BY <1>0, <2>4
    <2>12. rot[1] = seq[i]
      BY <2>8, <2>11
    <2>13. Head(rot) = rot[1]
      BY <2>7, <2>11
    <2>14. seq[i] \in 1 .. n
      BY <1>0, <2>4 DEF ToSet
    <2>15. Rotated(s)[1] = rot /\ Rotated(s)[2] = FALSE
      BY <2>1 DEF rot
    <2> QED BY <1>0, <2>15, <2>4, <2>7, <2>9, <2>10, <2>12, <2>13, <2>14 DEF seq
  <1> QED BY <1>1, <1>2

\* What allocate does to the bulks: bulk b of the size, which was there or is
\* new, is replaced by after.
BulkReplaced(s, b, old, after) ==
    /\ b \in 1 .. Len(bulk[s]) + 1 /\ b <= MaxBulks
    /\ old = IF b = Len(bulk[s]) + 1 THEN NewBulk ELSE bulk[s][b]
    /\ BulkSound(s, after)
    /\ bulk' \in [ChunkSizes -> Seq(BulkType)] /\ bulks' \in [ChunkSizes -> Seq(Nat)]
    /\ \A t \in ChunkSizes \ {s} : bulk'[t] = bulk[t] /\ bulks'[t] = bulks[t]
    /\ Len(bulk'[s]) = IF b = Len(bulk[s]) + 1 THEN b ELSE Len(bulk[s])
    /\ bulk'[s][b] = after
    /\ \A x \in 1 .. Len(bulk[s]) : x # b => bulk'[s][x] = bulk[s][x]
    /\ Len(bulks'[s]) = Len(bulk'[s]) /\ ToSet(bulks'[s]) = 1 .. Len(bulk'[s])

\* What allocate does for view v: chunk i of bulk b is taken, if the memory of
\* the bulk is there.
AllocateEffect(v, s, fails, b, i, old, after) ==
    /\ BulkReplaced(s, b, old, after)
    /\ fails => /\ after = old /\ allocated' = allocated
                /\ view' = [view EXCEPT ![v].size = s, ![v].ptr = NullPtr]
    /\ ~fails => /\ i < NumChunks(s) /\ i \notin old.usedChunks
                 /\ after.usedChunks = old.usedChunks \cup {i}
                 /\ allocated' = allocated \cup {Chunk(s, b, i)}
                 /\ view' = [view EXCEPT ![v].size = s, ![v].ptr = Chunk(s, b, i)]

\* A list of the first n bulks with one more.
LEMMA AppendBulk ==
    ASSUME NEW q \in Seq(Nat), NEW n \in Nat, Len(q) = n, ToSet(q) = 1 .. n
    PROVE  /\ Append(q, n + 1) \in Seq(Nat) /\ Len(Append(q, n + 1)) = n + 1
           /\ ToSet(Append(q, n + 1)) = 1 .. n + 1
  <1> DEFINE l == Append(q, n + 1)
  <1>1. /\ l \in Seq(Nat) /\ Len(l) = n + 1 /\ DOMAIN l = 1 .. n + 1 /\ DOMAIN q = 1 .. n
        /\ \A k \in 1 .. n : l[k] = q[k]
        /\ l[n + 1] = n + 1
    OBVIOUS
  <1> HIDE DEF l
  <1>a. DOMAIN l = 1 .. n + 1 /\ DOMAIN q = 1 .. n
    BY <1>1
  <1>2. \A x : x \in ToSet(l) <=> \E k \in 1 .. n + 1 : x = l[k]
    BY <1>a, Elements, Zenon
  <1>3. \A x : x \in ToSet(q) => \E k \in 1 .. n : x = q[k]
    BY <1>a, Zenon DEF ToSet
  <1>4. ASSUME NEW x \in ToSet(l) PROVE x \in 1 .. n + 1
    <2>1. PICK k \in 1 .. n + 1 : x = l[k]
      BY <1>2, <1>4
    <2>2. CASE k = n + 1
      BY <2>1, <2>2, <1>1
    <2>3. CASE k \in 1 .. n
      <3>1. q[k] \in ToSet(q)
        BY <2>3, <1>a DEF ToSet
      <3> QED BY <3>1, <2>1, <2>3, <1>1
    <2> QED BY <2>1, <2>2, <2>3
  <1>5. ASSUME NEW x \in 1 .. n + 1 PROVE x \in ToSet(l)
    <2>1. CASE x = n + 1
      BY <2>1, <1>1, <1>2
    <2>2. CASE x # n + 1
      <3>1. x \in ToSet(q)
        BY <2>2
      <3>2. PICK k \in 1 .. n : x = q[k]
        BY <3>1, <1>3
      <3>3. k \in 1 .. n + 1 /\ x = l[k]
        BY <3>2, <1>1
      <3> QED BY <3>3, <1>2
    <2> QED BY <2>1, <2>2
  <1> QED BY <1>1, <1>4, <1>5 DEF l

\* allocate has the effect above.
LEMMA PoolAllocateBulks ==
    ASSUME TypeInv, ListInv, BulksInv, NEW s \in ChunkSizes, NEW v \in Views, NEW fails \in BOOLEAN,
           PoolAllocate(v, s, fails)
    PROVE  \E b \in Nat, i \in Nat, old \in BulkType, after \in BulkType :
              AllocateEffect(v, s, fails, b, i, old, after)
  <1> DEFINE r == Rotated(s)
             n == Len(bulk[s])
             b == IF r[2] THEN Len(bulks[s]) + 1 ELSE Head(r[1])
             old == IF r[2] THEN NewBulk ELSE bulk[s][b]
             a == AllocChunk(s, old)
             next == [a[2] EXCEPT !.mapped = TRUE]
             after == IF fails THEN old ELSE next
  <1>1. /\ r[2] => b <= MaxBulks
        /\ bulks' = [bulks EXCEPT ![s] = IF r[2] THEN Append(r[1], b) ELSE r[1]]
        /\ bulk' = [bulk EXCEPT ![s] = IF r[2] THEN Append(@, after) ELSE [@ EXCEPT ![b] = after]]
        /\ IF fails THEN allocated' = allocated
           ELSE allocated' = allocated \cup {[size |-> s, bulk |-> b, index |-> a[1]]}
        /\ view' = [view EXCEPT ![v].size = s,
                                ![v].ptr = IF fails THEN NullPtr ELSE [size |-> s, bulk |-> b, index |-> a[1]]]
    BY Zenon DEF PoolAllocate
  <1>2. /\ r[1] \in Seq(Nat) /\ Len(r[1]) = n /\ ToSet(r[1]) = 1 .. n
        /\ r[2] \in BOOLEAN
        /\ ~r[2] => Head(r[1]) \in 1 .. n /\ ~Full(s, bulk[s][Head(r[1])])
    BY RotatedFacts
  <1>3. /\ bulk \in [ChunkSizes -> Seq(BulkType)] /\ bulks \in [ChunkSizes -> Seq(Nat)]
        /\ bulk[s] \in Seq(BulkType) /\ n \in Nat /\ Len(bulks[s]) = n /\ n <= MaxBulks
        /\ \A x \in 1 .. n : bulk[s][x] \in BulkType /\ BulkSound(s, bulk[s][x])
    BY DEF TypeInv, ListInv, BulksInv
  <1>m. MaxBulks \in Nat
    BY GpuMemoryAssumption
  <1> HIDE DEF r, n
  <1>4. b \in Nat /\ b \in 1 .. n + 1 /\ b <= MaxBulks /\ (r[2] <=> b = n + 1)
    <2>1. CASE r[2]
      BY <2>1, <1>1, <1>3
    <2>2. CASE ~r[2]
      BY <2>2, <1>2, <1>3, <1>m
    <2> QED BY <2>1, <2>2
  <1>5. old \in BulkType /\ BulkSound(s, old) /\ ~Full(s, old)
    <2>1. CASE r[2]
      BY <2>1, NewBulkSound DEF BulkSound
    <2>2. CASE ~r[2]
      BY <2>2, <1>2, <1>3
    <2> QED BY <2>1, <2>2
  <1>6. old = IF b = n + 1 THEN NewBulk ELSE bulk[s][b]
    BY <1>4, Zenon
  <1> HIDE DEF b, old
  <1>7. /\ a[1] \in Nat /\ a[1] < NumChunks(s) /\ a[1] \notin old.usedChunks
        /\ BulkSound(s, next) /\ next.usedChunks = old.usedChunks \cup {a[1]}
    BY <1>5, AllocChunkSound
  <1> HIDE DEF a, next
  <1>8. BulkSound(s, after) /\ after \in BulkType
    <2>1. CASE fails
      BY <2>1, <1>5
    <2>2. CASE ~fails
      BY <2>2, <1>7 DEF BulkSound
    <2> QED BY <2>1, <2>2
  <1>9. (fails => after = old) /\ (~fails => after = next)
    BY Zenon
  <1> HIDE DEF after
  <1>10. BulkReplaced(s, b, old, after)
    <2>1. CASE r[2]
      <3>1. /\ bulks' = [bulks EXCEPT ![s] = Append(r[1], b)]
            /\ bulk' = [bulk EXCEPT ![s] = Append(bulk[s], after)]
        BY <1>1, <2>1, Zenon
      <3>2. b = n + 1
        BY <1>4, <2>1
      <3>3. /\ Append(bulk[s], after) \in Seq(BulkType) /\ Len(Append(bulk[s], after)) = n + 1
            /\ \A x \in 1 .. n : Append(bulk[s], after)[x] = bulk[s][x]
            /\ Append(bulk[s], after)[n + 1] = after
        BY <1>3, <1>8, AppendProperties DEF n
      <3>4. /\ Append(r[1], b) \in Seq(Nat) /\ Len(Append(r[1], b)) = n + 1
            /\ ToSet(Append(r[1], b)) = 1 .. n + 1
        BY <1>2, <1>3, <3>2, AppendBulk
      <3>5. /\ bulk'[s] = Append(bulk[s], after) /\ bulks'[s] = Append(r[1], b)
            /\ \A t \in ChunkSizes \ {s} : bulk'[t] = bulk[t] /\ bulks'[t] = bulks[t]
            /\ bulk' \in [ChunkSizes -> Seq(BulkType)] /\ bulks' \in [ChunkSizes -> Seq(Nat)]
        BY <3>1, <3>3, <3>4, <1>3
      <3> QED BY <3>2, <3>3, <3>4, <3>5, <1>3, <1>4, <1>6, <1>8 DEF BulkReplaced, n
    <2>2. CASE ~r[2]
      <3>1. /\ bulks' = [bulks EXCEPT ![s] = r[1]]
            /\ bulk' = [bulk EXCEPT ![s] = [bulk[s] EXCEPT ![b] = after]]
        BY <1>1, <2>2, Zenon
      <3>2. b \in 1 .. n /\ b # n + 1
        BY <1>3, <1>4, <2>2
      <3>3. /\ [bulk[s] EXCEPT ![b] = after] \in Seq(BulkType)
            /\ Len([bulk[s] EXCEPT ![b] = after]) = n
            /\ \A x \in 1 .. n : [bulk[s] EXCEPT ![b] = after][x] = IF x = b THEN after ELSE bulk[s][x]
        BY <1>3, <1>8, <3>2, ExceptSeq DEF n
      <3>4. /\ bulk'[s] = [bulk[s] EXCEPT ![b] = after] /\ bulks'[s] = r[1]
            /\ \A t \in ChunkSizes \ {s} : bulk'[t] = bulk[t] /\ bulks'[t] = bulks[t]
            /\ bulk' \in [ChunkSizes -> Seq(BulkType)] /\ bulks' \in [ChunkSizes -> Seq(Nat)]
        BY <3>1, <3>3, <1>2, <1>3
      <3> QED BY <3>2, <3>3, <3>4, <1>2, <1>3, <1>4, <1>6, <1>8 DEF BulkReplaced, n
    <2> QED BY <2>1, <2>2
  <1>11. CASE fails
    <2>1. allocated' = allocated /\ view' = [view EXCEPT ![v].size = s, ![v].ptr = NullPtr]
      BY <1>1, <1>11, Zenon
    <2>2. 0 \in Nat
      OBVIOUS
    <2> QED BY <1>4, <1>5, <1>8, <1>9, <1>10, <1>11, <2>1, <2>2, Zenon DEF AllocateEffect
  <1>12. CASE ~fails
    <2>1. /\ allocated' = allocated \cup {Chunk(s, b, a[1])}
          /\ view' = [view EXCEPT ![v].size = s, ![v].ptr = Chunk(s, b, a[1])]
      BY <1>1, <1>12, Zenon DEF Chunk
    <2>2. after = next
      BY <1>9, <1>12
    <2> QED BY <1>4, <1>5, <1>7, <1>8, <1>10, <1>12, <2>1, <2>2, Zenon DEF AllocateEffect
  <1> QED BY <1>11, <1>12

\* The list and the bulks after allocate.
LEMMA ReplacedInv ==
    ASSUME TypeInv, ListInv, BulksInv, NEW s \in ChunkSizes,
           NEW b \in Nat, NEW old \in BulkType, NEW after \in BulkType, BulkReplaced(s, b, old, after)
    PROVE  ListInv' /\ BulksInv'
  <1> DEFINE n == Len(bulk[s])
  <1>1. /\ n \in Nat /\ n <= MaxBulks /\ MaxBulks \in Nat
        /\ \A t \in ChunkSizes \ {s} : bulk'[t] = bulk[t] /\ bulks'[t] = bulks[t]
        /\ b \in 1 .. n + 1 /\ b <= MaxBulks /\ BulkSound(s, after)
        /\ Len(bulk'[s]) = IF b = n + 1 THEN b ELSE n
        /\ bulk'[s][b] = after
        /\ \A x \in 1 .. n : x # b => bulk'[s][x] = bulk[s][x]
        /\ Len(bulks'[s]) = Len(bulk'[s]) /\ ToSet(bulks'[s]) = 1 .. Len(bulk'[s])
    BY GpuMemoryAssumption DEF BulkReplaced, TypeInv, ListInv
  <1> HIDE DEF n
  <1>2. ASSUME NEW t \in ChunkSizes
        PROVE  /\ Len(bulks'[t]) = Len(bulk'[t]) /\ Len(bulk'[t]) <= MaxBulks
               /\ ToSet(bulks'[t]) = 1 .. Len(bulk'[t])
    <2>1. CASE t = s
      BY <1>1, <2>1
    <2>2. CASE t # s
      BY <1>1, <2>2 DEF ListInv
    <2> QED BY <2>1, <2>2
  <1>3. ASSUME NEW t \in ChunkSizes, NEW x \in 1 .. Len(bulk'[t])
        PROVE  BulkSound(t, bulk'[t][x])
    <2>1. CASE t = s
      <3>1. CASE x = b
        BY <1>1, <2>1, <3>1
      <3>2. CASE x # b
        <4>1. x \in 1 .. n /\ bulk'[s][x] = bulk[s][x]
          BY <1>1, <1>3, <2>1, <3>2
        <4> QED BY <4>1, <2>1 DEF BulksInv, n
      <3> QED BY <3>1, <3>2
    <2>2. CASE t # s
      BY <1>1, <1>3, <2>2 DEF BulksInv
    <2> QED BY <2>1, <2>2
  <1> QED BY <1>2, <1>3 DEF ListInv, BulksInv

\* m_allocated after a chunk was taken, or after the allocation of a bulk's
\* memory failed.
LEMMA ReplacedUsed ==
    ASSUME MemInv, NEW s \in ChunkSizes, NEW b \in Nat, NEW i \in Nat, NEW taken \in BOOLEAN,
           NEW old \in BulkType, NEW after \in BulkType, BulkReplaced(s, b, old, after),
           after.usedChunks = IF taken THEN old.usedChunks \cup {i} ELSE old.usedChunks,
           allocated' = IF taken THEN allocated \cup {Chunk(s, b, i)} ELSE allocated
    PROVE  UsedInv'
  <1> DEFINE n == Len(bulk[s])
  <1>1. /\ n \in Nat /\ b \in 1 .. n + 1 /\ b <= MaxBulks /\ MaxBulks \in Nat
        /\ \A t \in ChunkSizes \ {s} : bulk'[t] = bulk[t]
        /\ old = IF b = n + 1 THEN NewBulk ELSE bulk[s][b]
        /\ Len(bulk'[s]) = IF b = n + 1 THEN b ELSE n
        /\ bulk'[s][b] = after
        /\ \A x \in 1 .. n : x # b => bulk'[s][x] = bulk[s][x]
    BY GpuMemoryAssumption DEF BulkReplaced, MemInv, TypeInv
  <1>2. /\ \A t \in ChunkSizes : \A x \in 1 .. Len(bulk[t]) : \A j \in Nat :
              j \in bulk[t][x].usedChunks <=> Chunk(t, x, j) \in allocated
        /\ \A c \in allocated : c.bulk <= Len(bulk[c.size])
        /\ allocated \subseteq ChunkAddresses
        /\ \A t \in ChunkSizes : Len(bulk[t]) \in Nat /\ Len(bulk[t]) <= MaxBulks
    BY DEF MemInv, TypeInv, UsedInv, ListInv
  <1>c. /\ Chunk(s, b, i) \in ChunkAddresses
        /\ Chunk(s, b, i).size = s /\ Chunk(s, b, i).bulk = b /\ Chunk(s, b, i).index = i
    BY <1>1, ChunkFacts
  <1>3. \A j \in Nat : j \in old.usedChunks <=> Chunk(s, b, j) \in allocated
    <2> SUFFICES ASSUME NEW j \in Nat PROVE j \in old.usedChunks <=> Chunk(s, b, j) \in allocated
      OBVIOUS
    <2>1. CASE b = n + 1
      <3>1. old.usedChunks = {}
        BY <2>1, <1>1 DEF NewBulk
      <3>2. Chunk(s, b, j).size = s /\ Chunk(s, b, j).bulk = b
        BY <1>1, ChunkFacts
      <3>3. Chunk(s, b, j) \notin allocated
        BY <2>1, <3>2, <1>1, <1>2
      <3> QED BY <3>1, <3>3
    <2>2. CASE b # n + 1
      BY <2>2, <1>1, <1>2
    <2> QED BY <2>1, <2>2
  <1>d. /\ taken => after.usedChunks = old.usedChunks \cup {i} /\ allocated' = allocated \cup {Chunk(s, b, i)}
        /\ ~taken => after.usedChunks = old.usedChunks /\ allocated' = allocated
    BY Zenon
  <1> HIDE DEF n
  <1>4. ASSUME NEW t \in ChunkSizes, NEW x \in 1 .. Len(bulk'[t]), NEW j \in Nat
        PROVE  j \in bulk'[t][x].usedChunks <=> Chunk(t, x, j) \in allocated'
    <2>0. x \in 1 .. MaxBulks
      BY <1>1, <1>2, <1>4 DEF n
    <2>1. Chunk(t, x, j).size = t /\ Chunk(t, x, j).bulk = x /\ Chunk(t, x, j).index = j
      BY <2>0, ChunkFacts
    <2>2. CASE t = s /\ x = b
      <3>1. Chunk(t, x, j) = Chunk(s, b, i) <=> j = i
        BY <2>1, <2>2, <1>c
      <3>2. CASE taken
        BY <2>2, <3>1, <3>2, <1>1, <1>3, <1>d
      <3>3. CASE ~taken
        BY <2>2, <3>3, <1>1, <1>3, <1>d
      <3> QED BY <3>2, <3>3
    <2>3. CASE ~(t = s /\ x = b)
      <3>1. Chunk(t, x, j) # Chunk(s, b, i)
        BY <2>1, <2>3, <1>c
      <3>2. Chunk(t, x, j) \in allocated' <=> Chunk(t, x, j) \in allocated
        BY <3>1, <1>d
      <3>3. x \in 1 .. Len(bulk[t]) /\ bulk'[t][x] = bulk[t][x]
        <4>1. CASE t = s
          BY <4>1, <2>3, <1>1, <1>4 DEF n
        <4>2. CASE t # s
          BY <4>2, <1>1, <1>4
        <4> QED BY <4>1, <4>2
      <3> QED BY <3>2, <3>3, <1>2
    <2> QED BY <2>2, <2>3
  <1>5. ASSUME NEW c \in allocated' PROVE c.bulk <= Len(bulk'[c.size])
    <2>1. CASE c = Chunk(s, b, i)
      BY <2>1, <1>c, <1>1
    <2>2. CASE c # Chunk(s, b, i)
      <3>1. c \in allocated
        BY <2>2, <1>5, <1>d
      <3>2. c.bulk <= Len(bulk[c.size]) /\ c.bulk \in Nat /\ c.size \in ChunkSizes
        BY <3>1, <1>2, AddressFacts
      <3>3. CASE c.size = s
        BY <3>2, <3>3, <1>1 DEF n
      <3>4. CASE c.size # s
        BY <3>2, <3>4, <1>1
      <3> QED BY <3>3, <3>4
    <2> QED BY <2>1, <2>2
  <1> QED BY <1>4, <1>5 DEF UsedInv

-----------------------------------------------------------------------------
(***************************************************************************)
(* The steps                                                               *)
(***************************************************************************)

\* The fields of a view.
LEMMA ViewFacts ==
    ASSUME TypeInv, NEW v \in Views
    PROVE  /\ view[v] \in ViewType
           /\ view[v].state \in {"none", "live"} /\ view[v].requested \in Nat /\ view[v].size \in Nat
           /\ view[v].ptr \in ChunkAddresses \cup {NullPtr, LargePtr}
  BY DEF TypeInv, ViewType

\* devicePtr sets the size and the pointer of a view.
PtrSet(v, size, ptr) ==
    /\ view' \in [Views -> ViewType]
    /\ view'[v].state = view[v].state /\ view'[v].requested = view[v].requested
    /\ view'[v].size = size /\ view'[v].ptr = ptr
    /\ \A w \in Views \ {v} : view'[w] = view[w]
    /\ LiveViews' = LiveViews

\* An update of these two fields changes nothing else of the views.
LEMMA SetPtr ==
    ASSUME TypeInv, NEW v \in Views, NEW size \in Nat, NEW ptr \in ChunkAddresses \cup {NullPtr, LargePtr},
           view' = [view EXCEPT ![v].size = size, ![v].ptr = ptr]
    PROVE  PtrSet(v, size, ptr)
  <1>1. view \in [Views -> ViewType] /\ view[v] \in ViewType
    BY DEF TypeInv
  <1>2. [view[v] EXCEPT !.size = size, !.ptr = ptr] \in ViewType
    BY <1>1 DEF ViewType
  <1>3. view'[v] = [view[v] EXCEPT !.size = size, !.ptr = ptr]
    BY <1>1
  <1>4. view' \in [Views -> ViewType] /\ \A w \in Views \ {v} : view'[w] = view[w]
    BY <1>1, <1>2
  <1>5. /\ view'[v].state = view[v].state /\ view'[v].requested = view[v].requested
        /\ view'[v].size = size /\ view'[v].ptr = ptr
    BY <1>1, <1>3 DEF ViewType
  <1>6. LiveViews' = LiveViews
    BY <1>4, <1>5 DEF LiveViews
  <1> QED BY <1>4, <1>5, <1>6 DEF PtrSet

\* The pointers are kept apart when a view that had none gets one that no view
\* has.
LEMMA OwnerStep ==
    ASSUME MemInv, NEW v \in Views, view[v].ptr = NullPtr, view[v].state = "live",
           NEW size \in Nat, NEW ptr \in ChunkAddresses \cup {NullPtr, LargePtr},
           PtrSet(v, size, ptr), view[v].requested <= size,
           ptr \notin allocated,
           allocated' = IF ptr \in ChunkAddresses THEN allocated \cup {ptr} ELSE allocated,
           large' = IF ptr = LargePtr THEN large \cup {v} ELSE large,
           ptr = LargePtr => size > maxChunkSize,
           ptr \in ChunkAddresses => size = ptr.size
    PROVE  OwnerInv' /\ SizeInv'
  <1>1. /\ view' \in [Views -> ViewType]
        /\ view'[v].state = view[v].state /\ view'[v].requested = view[v].requested
        /\ view'[v].size = size /\ view'[v].ptr = ptr
        /\ \A w \in Views \ {v} : view'[w] = view[w]
    BY DEF PtrSet
  <1>2. /\ \A c \in allocated : \E w \in Views : view[w].ptr = c
        /\ \A w \in Views : view[w].ptr \in {NullPtr, LargePtr} \cup allocated
        /\ \A u, w \in Views : view[u].ptr \in allocated /\ view[u].ptr = view[w].ptr => u = w
        /\ large = {w \in Views : view[w].ptr = LargePtr}
        /\ allocated \subseteq ChunkAddresses
    BY DEF MemInv, OwnerInv, TypeInv
  <1>3. NullPtr # LargePtr /\ NullPtr \notin ChunkAddresses /\ LargePtr \notin ChunkAddresses
    BY AddressFacts DEF NullPtr, LargePtr
  <1>4. \A c \in allocated : c # NullPtr /\ c # LargePtr
    BY <1>2, <1>3
  <1>5. allocated \subseteq allocated' /\ \A c \in allocated' : c \in allocated \/ (c = ptr /\ ptr \in ChunkAddresses)
    OBVIOUS
  <1>6. OwnerInv'
    <2>1. ASSUME NEW c \in allocated' PROVE \E w \in Views : view'[w].ptr = c
      <3>1. CASE c \in allocated
        <4>1. PICK w \in Views : view[w].ptr = c
          BY <3>1, <1>2
        <4>2. w # v
          BY <4>1, <3>1, <1>4
        <4> QED BY <4>1, <4>2, <1>1
      <3>2. CASE c = ptr
        BY <3>2, <1>1
      <3> QED BY <2>1, <3>1, <3>2, <1>5
    <2>2. ASSUME NEW w \in Views PROVE view'[w].ptr \in {NullPtr, LargePtr} \cup allocated'
      <3>1. CASE w = v
        BY <3>1, <1>1
      <3>2. CASE w # v
        BY <3>2, <1>1, <1>2, <1>5
      <3> QED BY <3>1, <3>2
    <2>3. ASSUME NEW u \in Views, NEW w \in Views, view'[u].ptr \in allocated', view'[u].ptr = view'[w].ptr
          PROVE  u = w
      <3>0. ptr \in ChunkAddresses => \A x \in Views : view[x].ptr # ptr
        BY <1>2, <1>3
      <3>1. CASE u = v /\ w # v
        <4>1. view'[w].ptr = view[w].ptr /\ ptr = view[w].ptr
          BY <3>1, <2>3, <1>1
        <4>2. ptr \in ChunkAddresses
          BY <3>1, <2>3, <1>1, <1>5
        <4> QED BY <4>1, <4>2, <3>0
      <3>2. CASE u # v /\ w = v
        <4>1. view'[u].ptr = view[u].ptr /\ ptr = view[u].ptr
          BY <3>2, <2>3, <1>1
        <4>2. ptr \in ChunkAddresses
          BY <4>1, <3>2, <2>3, <1>1, <1>5
        <4> QED BY <4>1, <4>2, <3>0
      <3>3. CASE u # v /\ w # v
        <4>1. view'[w].ptr = view[w].ptr /\ view'[u].ptr = view[u].ptr
          BY <3>3, <1>1
        <4>2. view[u].ptr \in allocated
          BY <4>1, <2>3, <1>5, <3>0
        <4>3. view[u].ptr = view[w].ptr
          BY <4>1, <2>3
        <4> QED BY <4>2, <4>3, <1>2
      <3> QED BY <3>1, <3>2, <3>3
    <2>4. large' = {w \in Views : view'[w].ptr = LargePtr}
      <3>1. CASE ptr = LargePtr
        BY <3>1, <1>1, <1>2
      <3>2. CASE ptr # LargePtr
        BY <3>2, <1>1, <1>2, <1>3
      <3> QED BY <3>1, <3>2
    <2> QED BY <2>1, <2>2, <2>3, <2>4 DEF OwnerInv
  <1>7. SizeInv'
    <2> SUFFICES ASSUME NEW w \in Views
                 PROVE  /\ view'[w].requested <= view'[w].size
                        /\ view'[w].state = "none" => view'[w].ptr = NullPtr
                        /\ view'[w].ptr = LargePtr => view'[w].size > maxChunkSize
                        /\ view'[w].ptr \in allocated' => view'[w].size = view'[w].ptr.size
      BY DEF SizeInv
    <2>1. CASE w = v
      BY <2>1, <1>1, <1>5
    <2>2. CASE w # v
      <3>1. view'[w] = view[w]
        BY <2>2, <1>1
      <3>2. /\ view[w].requested <= view[w].size
            /\ view[w].state = "none" => view[w].ptr = NullPtr
            /\ view[w].ptr = LargePtr => view[w].size > maxChunkSize
            /\ view[w].ptr \in allocated => view[w].size = view[w].ptr.size
        BY DEF MemInv, SizeInv
      <3>3. view[w].ptr \in allocated' => view[w].ptr \in allocated
        BY <1>2, <1>3, <1>5
      <3> QED BY <3>1, <3>2, <3>3
    <2> QED BY <2>1, <2>2
  <1> QED BY <1>6, <1>7

\* devicePtr of a view that gets a chunk.
LEMMA PoolAllocateStep ==
    ASSUME MemInv, NEW v \in Views, NEW fails \in BOOLEAN,
           view[v].state = "live", view[v].ptr = NullPtr, view[v].size <= maxChunkSize,
           PoolAllocate(v, ChunkSizeOf(view[v].requested), fails),
           UNCHANGED <<large, ctxRefs, appHasContext>>
    PROVE  MemInv'
  <1> DEFINE s == ChunkSizeOf(view[v].requested)
  <1>0. TypeInv /\ ListInv /\ BulksInv /\ UsedInv /\ OwnerInv /\ SizeInv /\ RefInv
    BY DEF MemInv
  <1>1. view[v].requested \in Nat /\ view[v].requested <= maxChunkSize
    <2>1. view[v].requested \in Nat /\ view[v].size \in Nat /\ view[v].requested <= view[v].size
      BY <1>0, ViewFacts DEF SizeInv
    <2> QED BY <2>1, ChunkSizeFacts
  <1>2. s \in ChunkSizes /\ view[v].requested <= s /\ s \in Nat
    BY <1>1, ChunkSizeOfFacts, ChunkSizeFacts
  <1>a. PoolAllocate(v, s, fails)
    OBVIOUS
  <1> HIDE DEF s
  <1>3. PICK b \in Nat, i \in Nat, old \in BulkType, after \in BulkType :
              AllocateEffect(v, s, fails, b, i, old, after)
    BY <1>0, <1>2, <1>a, PoolAllocateBulks, Zenon
  <1>b. /\ BulkReplaced(s, b, old, after)
        /\ fails => /\ after = old /\ allocated' = allocated
                    /\ view' = [view EXCEPT ![v].size = s, ![v].ptr = NullPtr]
        /\ ~fails => /\ i < NumChunks(s) /\ i \notin old.usedChunks
                     /\ after.usedChunks = old.usedChunks \cup {i}
                     /\ allocated' = allocated \cup {Chunk(s, b, i)}
                     /\ view' = [view EXCEPT ![v].size = s, ![v].ptr = Chunk(s, b, i)]
    BY <1>3 DEF AllocateEffect
  <1>4. ListInv' /\ BulksInv'
    BY <1>0, <1>2, <1>b, ReplacedInv
  <1>5. bulk' \in [ChunkSizes -> Seq(BulkType)] /\ bulks' \in [ChunkSizes -> Seq(Nat)]
    BY <1>b DEF BulkReplaced
  <1>6. /\ large' = large /\ appHasContext' = appHasContext /\ ctxRefs' = ctxRefs
        /\ large \subseteq Views /\ appHasContext \in BOOLEAN /\ allocated \subseteq ChunkAddresses
    BY <1>0 DEF TypeInv
  <1>7. NullPtr # LargePtr /\ NullPtr \notin ChunkAddresses /\ LargePtr \notin ChunkAddresses
    BY AddressFacts DEF NullPtr, LargePtr
  <1>8. CASE fails
    <2>1. UsedInv'
      <3>1. /\ after.usedChunks = IF ~fails THEN old.usedChunks \cup {i} ELSE old.usedChunks
            /\ allocated' = IF ~fails THEN allocated \cup {Chunk(s, b, i)} ELSE allocated
        BY <1>b, <1>8
      <3>2. (~fails) \in BOOLEAN
        OBVIOUS
      <3> QED BY <3>1, <3>2, <1>2, <1>b, ReplacedUsed
    <2>2. view' = [view EXCEPT ![v].size = s, ![v].ptr = NullPtr] /\ allocated' = allocated
      BY <1>b, <1>8
    <2>a. PtrSet(v, s, NullPtr)
      BY <1>0, <1>2, <2>2, SetPtr
    <2>3. OwnerInv' /\ SizeInv'
      <3>1. NullPtr \notin allocated
        BY <1>6, <1>7
      <3> QED BY <3>1, <2>a, <2>2, <1>2, <1>6, <1>7, OwnerStep
    <2>4. view' \in [Views -> ViewType] /\ LiveViews' = LiveViews
      BY <2>a DEF PtrSet
    <2>5. TypeInv'
      BY <1>5, <1>6, <2>2, <2>4 DEF TypeInv
    <2>6. RefInv'
      BY <1>0, <1>6, <2>4 DEF RefInv
    <2> QED BY <1>4, <2>1, <2>3, <2>5, <2>6 DEF MemInv
  <1>9. CASE ~fails
    <2> DEFINE c == Chunk(s, b, i)
    <2>0. b \in 1 .. MaxBulks
      <3>1. b \in 1 .. Len(bulk[s]) + 1 /\ b <= MaxBulks /\ Len(bulk[s]) \in Nat /\ MaxBulks \in Nat
        BY <1>0, <1>2, <1>b, GpuMemoryAssumption DEF BulkReplaced, TypeInv
      <3> QED BY <3>1
    <2>a. c \in ChunkAddresses /\ c.size = s /\ c.bulk = b /\ c.index = i
      BY <2>0, <1>2, ChunkFacts
    <2> HIDE DEF c
    <2>1. UsedInv'
      <3>1. /\ after.usedChunks = IF ~fails THEN old.usedChunks \cup {i} ELSE old.usedChunks
            /\ allocated' = IF ~fails THEN allocated \cup {Chunk(s, b, i)} ELSE allocated
        BY <1>b, <1>9
      <3>2. (~fails) \in BOOLEAN
        OBVIOUS
      <3> QED BY <3>1, <3>2, <1>2, <1>b, ReplacedUsed
    <2>2. view' = [view EXCEPT ![v].size = s, ![v].ptr = c] /\ allocated' = allocated \cup {c}
      BY <1>b, <1>9 DEF c
    <2>3. c \notin allocated
      <3>1. CASE b = Len(bulk[s]) + 1
        <4>1. c \in allocated => c.bulk <= Len(bulk[c.size])
          BY <1>0 DEF UsedInv
        <4>2. Len(bulk[s]) \in Nat
          BY <1>0, <1>2 DEF TypeInv
        <4> QED BY <4>1, <4>2, <3>1, <2>a
      <3>2. CASE b # Len(bulk[s]) + 1
        <4>1. b \in 1 .. Len(bulk[s]) /\ old = bulk[s][b] /\ i \notin old.usedChunks
          <5>1. b \in 1 .. Len(bulk[s]) + 1 /\ Len(bulk[s]) \in Nat
            BY <1>0, <1>2, <1>b DEF BulkReplaced, TypeInv
          <5>2. old = bulk[s][b]
            BY <1>b, <3>2 DEF BulkReplaced
          <5> QED BY <5>1, <5>2, <3>2, <1>b, <1>9
        <4> QED BY <4>1, <1>0, <1>2 DEF UsedInv, c
      <3> QED BY <3>1, <3>2
    <2>b. PtrSet(v, s, c)
      BY <1>0, <1>2, <2>2, <2>a, SetPtr
    <2>4. OwnerInv' /\ SizeInv'
      <3>1. c # LargePtr /\ c # NullPtr
        BY <2>a, <1>7
      <3> QED BY <3>1, <2>a, <2>b, <2>2, <2>3, <1>2, <1>6, <1>7, OwnerStep
    <2>5. view' \in [Views -> ViewType] /\ LiveViews' = LiveViews
      BY <2>b DEF PtrSet
    <2>6. TypeInv'
      BY <1>5, <1>6, <2>2, <2>a, <2>5 DEF TypeInv
    <2>7. RefInv'
      BY <1>0, <1>6, <2>5 DEF RefInv
    <2> QED BY <1>4, <2>1, <2>4, <2>6, <2>7 DEF MemInv
  <1> QED BY <1>8, <1>9

\* devicePtr.
LEMMA DevicePtrStep ==
    ASSUME MemInv, NEW v \in Views, NEW fails \in BOOLEAN, DevicePtr(v, fails)
    PROVE  MemInv'
  <1>0. /\ view[v].state = "live" /\ view[v].ptr = NullPtr
        /\ ctxRefs' = ctxRefs /\ appHasContext' = appHasContext
    BY DEF DevicePtr
  <1>1. CASE view[v].size <= maxChunkSize
    <2>1. PoolAllocate(v, ChunkSizeOf(view[v].requested), fails) /\ large' = large
      BY <1>1, Zenon DEF DevicePtr, ChunkSizeOf
    <2> QED BY <1>0, <1>1, <2>1, PoolAllocateStep
  <1>2. CASE ~(view[v].size <= maxChunkSize)
    <2>0. TypeInv /\ ListInv /\ BulksInv /\ UsedInv /\ OwnerInv /\ SizeInv /\ RefInv
      BY DEF MemInv
    <2>1. bulks' = bulks /\ bulk' = bulk /\ allocated' = allocated
      BY <1>2, Zenon DEF DevicePtr
    <2>2. (large' = large /\ view' = view) \/ (large' = large \cup {v} /\ view' = [view EXCEPT ![v].ptr = LargePtr])
      BY <1>2, Zenon DEF DevicePtr
    <2>3. CASE large' = large /\ view' = view
      BY <2>0, <2>1, <2>3, <1>0
         DEF MemInv, TypeInv, ListInv, BulksInv, UsedInv, OwnerInv, SizeInv, RefInv, LiveViews
    <2>4. CASE large' = large \cup {v} /\ view' = [view EXCEPT ![v].ptr = LargePtr]
      <3>1. /\ view[v] \in ViewType /\ view[v].requested \in Nat /\ view[v].size \in Nat
            /\ view \in [Views -> ViewType]
        BY <2>0, ViewFacts DEF TypeInv
      <3>2. PtrSet(v, view[v].size, LargePtr)
        <4>1. [view[v] EXCEPT !.ptr = LargePtr] \in ViewType
          BY <3>1 DEF ViewType
        <4>2. view'[v] = [view[v] EXCEPT !.ptr = LargePtr]
          BY <2>4, <3>1
        <4>3. view' \in [Views -> ViewType] /\ \A w \in Views \ {v} : view'[w] = view[w]
          BY <2>4, <3>1, <4>1
        <4>4. /\ view'[v].state = view[v].state /\ view'[v].requested = view[v].requested
              /\ view'[v].size = view[v].size /\ view'[v].ptr = LargePtr
          BY <3>1, <4>2 DEF ViewType
        <4>5. LiveViews' = LiveViews
          BY <4>3, <4>4 DEF LiveViews
        <4> QED BY <4>3, <4>4, <4>5 DEF PtrSet
      <3>3. LargePtr \notin ChunkAddresses /\ LargePtr \notin allocated
        BY <2>0, AddressFacts DEF TypeInv
      <3>4. OwnerInv' /\ SizeInv'
        <4>1. view[v].requested <= view[v].size /\ view[v].size > maxChunkSize
          BY <2>0, <1>2, <3>1, ChunkSizeFacts DEF SizeInv
        <4> QED BY <4>1, <1>0, <2>1, <2>4, <3>1, <3>2, <3>3, OwnerStep
      <3>5. ListInv' /\ BulksInv' /\ UsedInv'
        BY <2>0, <2>1 DEF ListInv, BulksInv, UsedInv
      <3>6. TypeInv'
        BY <2>0, <2>1, <2>4, <3>2, <1>0 DEF TypeInv, PtrSet
      <3>7. RefInv'
        BY <2>0, <1>0, <3>2 DEF RefInv, PtrSet
      <3> QED BY <3>4, <3>5, <3>6, <3>7 DEF MemInv
    <2> QED BY <2>2, <2>3, <2>4
  <1> QED BY <1>1, <1>2

\* The live views are finite in number.
LEMMA LiveFinite ==
    IsFiniteSet(LiveViews) /\ Cardinality(LiveViews) \in Nat /\ Cardinality(LiveViews) <= Cardinality(Views)
        /\ Cardinality(Views) \in Nat
  <1>1. IsFiniteSet(Views) /\ LiveViews \subseteq Views
    BY GpuMemoryAssumption DEF LiveViews
  <1> QED BY <1>1, FS_Subset, FS_CardinalityType

\* A new view.
LEMMA NewMemoryViewStep ==
    ASSUME MemInv, NEW v \in Views, NEW requested \in Requests, NewMemoryView(v, requested)
    PROVE  MemInv'
  <1> DEFINE fresh == [state |-> "live", requested |-> requested, size |-> requested, ptr |-> NullPtr]
  <1>0. TypeInv /\ ListInv /\ BulksInv /\ UsedInv /\ OwnerInv /\ SizeInv /\ RefInv
    BY DEF MemInv
  <1>1. /\ view[v].state = "none" /\ view' = [view EXCEPT ![v] = fresh] /\ ctxRefs' = ctxRefs + 1
        /\ bulks' = bulks /\ bulk' = bulk /\ allocated' = allocated /\ large' = large
        /\ appHasContext' = appHasContext
    BY DEF NewMemoryView
  <1>2. requested \in Nat
    BY GpuMemoryAssumption
  <1>3. /\ fresh \in ViewType /\ fresh.state = "live" /\ fresh.requested = requested
        /\ fresh.size = requested /\ fresh.ptr = NullPtr
    BY <1>2 DEF ViewType
  <1> HIDE DEF fresh
  <1>4. /\ view' \in [Views -> ViewType] /\ view'[v] = fresh
        /\ \A w \in Views \ {v} : view'[w] = view[w]
    BY <1>0, <1>1, <1>3 DEF TypeInv
  <1>5. view[v].ptr = NullPtr
    BY <1>0, <1>1 DEF SizeInv
  <1>6. \A w \in Views : view'[w].ptr = view[w].ptr
    BY <1>3, <1>4, <1>5
  <1>7. TypeInv'
    BY <1>0, <1>1, <1>4 DEF TypeInv
  <1>8. ListInv' /\ BulksInv' /\ UsedInv'
    BY <1>0, <1>1 DEF ListInv, BulksInv, UsedInv
  <1>9. OwnerInv'
    BY <1>0, <1>1, <1>6 DEF OwnerInv
  <1>10. SizeInv'
    <2>1. NullPtr # LargePtr /\ NullPtr \notin allocated
      BY <1>0, AddressFacts DEF NullPtr, LargePtr, TypeInv
    <2> SUFFICES ASSUME NEW w \in Views
                 PROVE  /\ view'[w].requested <= view'[w].size
                        /\ view'[w].state = "none" => view'[w].ptr = NullPtr
                        /\ view'[w].ptr = LargePtr => view'[w].size > maxChunkSize
                        /\ view'[w].ptr \in allocated => view'[w].size = view'[w].ptr.size
      BY <1>1 DEF SizeInv
    <2>2. CASE w = v
      BY <2>1, <2>2, <1>2, <1>3, <1>4
    <2>3. CASE w # v
      BY <2>3, <1>0, <1>4 DEF SizeInv
    <2> QED BY <2>2, <2>3
  <1>11. RefInv'
    <2>1. LiveViews' = LiveViews \cup {v} /\ v \notin LiveViews
      BY <1>1, <1>3, <1>4 DEF LiveViews
    <2>2. IsFiniteSet(LiveViews) /\ Cardinality(LiveViews) \in Nat
      BY LiveFinite
    <2>3. Cardinality(LiveViews \cup {v}) = Cardinality(LiveViews) + 1
      BY <2>1, <2>2, FS_AddElement
    <2> QED BY <1>0, <1>1, <2>1, <2>2, <2>3 DEF RefInv
  <1> QED BY <1>7, <1>8, <1>9, <1>10, <1>11 DEF MemInv

\* A view is deleted and its memory given back, to where it came from.
LEMMA DeleteMemoryViewStep ==
    ASSUME MemInv, NEW v \in Views, DeleteMemoryView(v)
    PROVE  MemInv'
  <1> DEFINE ptr == view[v].ptr
  <1>0. TypeInv /\ ListInv /\ BulksInv /\ UsedInv /\ OwnerInv /\ SizeInv /\ RefInv
    BY DEF MemInv
  <1>1. /\ view[v].state = "live" /\ view' = [view EXCEPT ![v] = NoView] /\ ctxRefs' = ctxRefs - 1
        /\ bulks' = bulks /\ appHasContext' = appHasContext
    BY DEF DeleteMemoryView
  <1>2. NoView \in ViewType /\ NoView.state = "none" /\ NoView.ptr = NullPtr /\ NoView.requested = 0 /\ NoView.size = 0
    BY DEF NoView, ViewType
  <1>3. /\ view' \in [Views -> ViewType] /\ view'[v] = NoView
        /\ \A w \in Views \ {v} : view'[w] = view[w]
    BY <1>0, <1>1, <1>2 DEF TypeInv
  <1>4. /\ NullPtr # LargePtr /\ NullPtr \notin ChunkAddresses /\ LargePtr \notin ChunkAddresses
        /\ allocated \subseteq ChunkAddresses
    BY <1>0, AddressFacts DEF NullPtr, LargePtr, TypeInv
  <1>5. ptr \in {NullPtr, LargePtr} \cup allocated
    BY <1>0 DEF OwnerInv
  <1>6. RefInv'
    <2>1. LiveViews' = LiveViews \ {v} /\ v \in LiveViews
      BY <1>1, <1>2, <1>3 DEF LiveViews
    <2>2. IsFiniteSet(LiveViews) /\ Cardinality(LiveViews) \in Nat
      BY LiveFinite
    <2>3. Cardinality(LiveViews \ {v}) = Cardinality(LiveViews) - 1
      BY <2>1, <2>2, FS_RemoveElement
    <2> QED BY <1>0, <1>1, <2>1, <2>2, <2>3 DEF RefInv
  \* What follows when the view's pointer is no longer known.
  <1>7. ASSUME bulk' \in [ChunkSizes -> Seq(BulkType)], allocated' = allocated \ {ptr}, large' = large \ {v}
        PROVE  TypeInv' /\ OwnerInv' /\ SizeInv'
    <2>1. TypeInv'
      BY <1>0, <1>1, <1>3, <1>7 DEF TypeInv
    <2>2. ASSUME NEW c \in allocated' PROVE \E w \in Views : view'[w].ptr = c
      <3>1. PICK w \in Views : view[w].ptr = c
        BY <2>2, <1>0, <1>7 DEF OwnerInv
      <3>2. w # v
        BY <3>1, <2>2, <1>7
      <3> QED BY <3>1, <3>2, <1>3
    <2>3. ASSUME NEW w \in Views PROVE view'[w].ptr \in {NullPtr, LargePtr} \cup allocated'
      <3>1. CASE w = v
        BY <3>1, <1>2, <1>3
      <3>2. CASE w # v
        <4>1. view'[w].ptr = view[w].ptr /\ view[w].ptr \in {NullPtr, LargePtr} \cup allocated
          BY <3>2, <1>0, <1>3 DEF OwnerInv
        <4>2. view[w].ptr \in allocated => view[w].ptr # ptr
          BY <3>2, <1>0 DEF OwnerInv
        <4> QED BY <4>1, <4>2, <1>7
      <3> QED BY <3>1, <3>2
    <2>4. ASSUME NEW u \in Views, NEW w \in Views, view'[u].ptr \in allocated', view'[u].ptr = view'[w].ptr
          PROVE  u = w
      <3>1. u # v /\ w # v
        BY <2>4, <1>2, <1>3, <1>4, <1>7
      <3>2. view'[u].ptr = view[u].ptr /\ view'[w].ptr = view[w].ptr
        BY <3>1, <1>3
      <3>3. view[u].ptr \in allocated /\ view[u].ptr = view[w].ptr
        BY <3>2, <2>4, <1>7
      <3> QED BY <3>3, <1>0 DEF OwnerInv
    <2>5. large' = {w \in Views : view'[w].ptr = LargePtr}
      <3>1. large = {w \in Views : view[w].ptr = LargePtr}
        BY <1>0 DEF OwnerInv
      <3> QED BY <3>1, <1>2, <1>3, <1>4, <1>7
    <2>6. OwnerInv'
      BY <2>2, <2>3, <2>4, <2>5 DEF OwnerInv
    <2>7. SizeInv'
      <3> SUFFICES ASSUME NEW w \in Views
                   PROVE  /\ view'[w].requested <= view'[w].size
                          /\ view'[w].state = "none" => view'[w].ptr = NullPtr
                          /\ view'[w].ptr = LargePtr => view'[w].size > maxChunkSize
                          /\ view'[w].ptr \in allocated' => view'[w].size = view'[w].ptr.size
        BY DEF SizeInv
      <3>1. CASE w = v
        BY <3>1, <1>2, <1>3, <1>4, <1>7
      <3>2. CASE w # v
        BY <3>2, <1>0, <1>3, <1>7 DEF SizeInv
      <3> QED BY <3>1, <3>2
    <2> QED BY <2>1, <2>6, <2>7
  <1>8. CASE ptr \notin allocated
    <2>1. bulk' = bulk /\ allocated' = allocated /\ large' = large \ {v}
      <3>1. CASE ptr = NullPtr
        <4>1. bulk' = bulk /\ allocated' = allocated /\ large' = large
          BY <3>1, Zenon DEF DeleteMemoryView
        <4>2. v \notin large
          BY <3>1, <1>0, <1>4 DEF OwnerInv
        <4> QED BY <4>1, <4>2
      <3>2. CASE ptr = LargePtr
        <4>1. ptr # NullPtr
          BY <3>2, <1>4
        <4>2. view[v].size \in Nat /\ view[v].size > maxChunkSize /\ maxChunkSize \in Nat
          BY <3>2, <1>0, ViewFacts, ChunkSizeFacts DEF SizeInv
        <4>3. ~FromPool(v)
          BY <4>2 DEF FromPool
        <4> QED BY <4>1, <4>3, Zenon DEF DeleteMemoryView
      <3> QED BY <3>1, <3>2, <1>5, <1>8
    <2>2. bulk' \in [ChunkSizes -> Seq(BulkType)] /\ allocated' = allocated \ {ptr}
      BY <2>1, <1>8, <1>0 DEF TypeInv
    <2>3. ListInv' /\ BulksInv' /\ UsedInv'
      BY <2>1, <1>0, <1>1 DEF ListInv, BulksInv, UsedInv
    <2> QED BY <2>1, <2>2, <2>3, <1>6, <1>7 DEF MemInv
  <1>9. CASE ptr \in allocated
    <2> DEFINE s == ptr.size
               b == ptr.bulk
               i == ptr.index
               old == bulk[s][b]
               after == FreeChunk(old, i)
               n == Len(bulk[s])
    <2>1. /\ ptr # NullPtr /\ s \in ChunkSizes /\ b \in 1 .. MaxBulks /\ i \in Nat
          /\ ptr = Chunk(s, b, i)
      BY <1>4, <1>9, AddressFacts
    <2>2. FromPool(v)
      <3>1. view[v].size = s
        BY <1>0, <1>9 DEF SizeInv
      <3> QED BY <3>1, <2>1, ChunkSizeFacts DEF FromPool
    <2>3. PoolDeallocate(ptr) /\ large' = large
      BY <2>1, <2>2, Zenon DEF DeleteMemoryView
    <2>4. /\ allocated' = allocated \ {ptr}
          /\ bulk' = [bulk EXCEPT ![s] = [bulk[s] EXCEPT ![b] = after]]
      BY <2>3, Zenon DEF PoolDeallocate
    <2> HIDE DEF ptr
    <2> HIDE DEF s, b, i
    <2>5. /\ bulk \in [ChunkSizes -> Seq(BulkType)] /\ bulk[s] \in Seq(BulkType) /\ n \in Nat /\ n <= MaxBulks
          /\ MaxBulks \in Nat
      BY <2>1, <1>0, GpuMemoryAssumption DEF TypeInv, ListInv
    <2>6. b \in 1 .. n
      <3>1. b <= n
        BY <1>0, <1>9 DEF UsedInv, s, b
      <3> QED BY <3>1, <2>1, <2>5
    <2>7. BulkSound(s, old) /\ old \in BulkType /\ i \in old.usedChunks
      BY <1>0, <1>9, <2>1, <2>5, <2>6 DEF BulksInv, UsedInv, BulkSound
    <2> HIDE DEF old
    <2>8. /\ BulkSound(s, after) /\ after.usedChunks = old.usedChunks \ {i} /\ after \in BulkType
      BY <2>1, <2>7, FreeChunkSound DEF BulkSound
    <2> HIDE DEF after
    <2>9. /\ [bulk[s] EXCEPT ![b] = after] \in Seq(BulkType)
          /\ Len([bulk[s] EXCEPT ![b] = after]) = n
          /\ \A x \in 1 .. n : [bulk[s] EXCEPT ![b] = after][x] = IF x = b THEN after ELSE bulk[s][x]
      BY <2>5, <2>6, <2>8, ExceptSeq
    <2>10. /\ bulk' \in [ChunkSizes -> Seq(BulkType)]
           /\ bulk'[s] = [bulk[s] EXCEPT ![b] = after]
           /\ \A t \in ChunkSizes \ {s} : bulk'[t] = bulk[t]
      BY <2>1, <2>4, <2>5, <2>9
    <2>a. b # n + 1 /\ b \in 1 .. n + 1 /\ b \in Nat /\ b <= MaxBulks
      BY <2>1, <2>5, <2>6
    <2>11. BulkReplaced(s, b, old, after)
      <3>1. Len(bulks[s]) = n /\ ToSet(bulks[s]) = 1 .. n /\ bulks \in [ChunkSizes -> Seq(Nat)]
        BY <1>0, <2>1 DEF ListInv, TypeInv
      <3>2. old = bulk[s][b]
        BY DEF old
      <3>3. /\ Len(bulk'[s]) = n /\ bulk'[s][b] = after
            /\ \A x \in 1 .. n : x # b => bulk'[s][x] = bulk[s][x]
        BY <2>6, <2>9, <2>10
      <3> QED BY <3>1, <3>2, <3>3, <1>1, <2>a, <2>8, <2>10 DEF BulkReplaced
    <2>12. ListInv' /\ BulksInv'
      BY <1>0, <2>1, <2>a, <2>7, <2>8, <2>11, ReplacedInv
    <2>13. UsedInv'
      <3>1. ASSUME NEW t \in ChunkSizes, NEW x \in 1 .. Len(bulk'[t]), NEW j \in Nat
            PROVE  j \in bulk'[t][x].usedChunks <=> Chunk(t, x, j) \in allocated'
        <4>0. Len(bulk'[t]) = Len(bulk[t]) /\ Len(bulk[t]) \in Nat /\ Len(bulk[t]) <= MaxBulks
          <5>1. Len(bulk[t]) \in Nat /\ Len(bulk[t]) <= MaxBulks
            BY <1>0 DEF TypeInv, ListInv
          <5>2. CASE t = s
            BY <5>1, <5>2, <2>9, <2>10
          <5>3. CASE t # s
            BY <5>1, <5>3, <2>10
          <5> QED BY <5>2, <5>3
        <4>1. x \in 1 .. MaxBulks /\ x \in 1 .. Len(bulk[t])
          BY <3>1, <4>0, <2>5
        <4>2. Chunk(t, x, j).size = t /\ Chunk(t, x, j).bulk = x /\ Chunk(t, x, j).index = j
          BY <4>1, ChunkFacts
        <4>3. Chunk(s, b, i).size = s /\ Chunk(s, b, i).bulk = b /\ Chunk(s, b, i).index = i
          BY <2>1, ChunkFacts
        <4>4. j \in bulk[t][x].usedChunks <=> Chunk(t, x, j) \in allocated
          BY <4>1, <1>0 DEF UsedInv
        <4>5. Chunk(t, x, j) \in allocated' <=> Chunk(t, x, j) \in allocated /\ Chunk(t, x, j) # Chunk(s, b, i)
          BY <2>1, <2>4
        <4>6. CASE t = s /\ x = b
          <5>1. bulk'[t][x] = after /\ bulk[t][x] = old
            BY <4>6, <2>6, <2>9, <2>10 DEF old
          <5>2. Chunk(t, x, j) = Chunk(s, b, i) <=> j = i
            BY <4>2, <4>3, <4>6
          <5> QED BY <5>1, <5>2, <4>4, <4>5, <2>8
        <4>7. CASE ~(t = s /\ x = b)
          <5>1. Chunk(t, x, j) # Chunk(s, b, i)
            BY <4>2, <4>3, <4>7
          <5>2. bulk'[t][x] = bulk[t][x]
            <6>1. CASE t = s
              BY <6>1, <4>1, <4>7, <2>9, <2>10
            <6>2. CASE t # s
              BY <6>2, <2>10
            <6> QED BY <6>1, <6>2
          <5> QED BY <5>1, <5>2, <4>4, <4>5
        <4> QED BY <4>6, <4>7
      <3>2. ASSUME NEW c \in allocated' PROVE c.bulk <= Len(bulk'[c.size])
        <4>1. c \in allocated /\ c.size \in ChunkSizes /\ c.bulk <= Len(bulk[c.size])
          BY <3>2, <2>4, <1>0, <1>4, AddressFacts DEF UsedInv
        <4>2. CASE c.size = s
          BY <4>1, <4>2, <2>9, <2>10
        <4>3. CASE c.size # s
          BY <4>1, <4>3, <2>10
        <4> QED BY <4>2, <4>3
      <3> QED BY <3>1, <3>2 DEF UsedInv
    <2>14. large' = large \ {v}
      <3>1. v \notin large
        BY <1>0, <1>4, <1>9 DEF OwnerInv, ptr
      <3> QED BY <3>1, <2>3
    <2> QED BY <2>4, <2>10, <2>12, <2>13, <2>14, <1>6, <1>7 DEF MemInv
  <1> QED BY <1>8, <1>9

\* Every step preserves the invariant.
LEMMA MemNextInv == MemInv /\ [MemNext]_memVars => MemInv'
  <1> SUFFICES ASSUME MemInv, [MemNext]_memVars PROVE MemInv'
    OBVIOUS
  <1>1. ASSUME NEW v \in Views, NEW requested \in Requests, NewMemoryView(v, requested) PROVE MemInv'
    BY <1>1, NewMemoryViewStep
  <1>2. ASSUME NEW v \in Views, NEW fails \in BOOLEAN, DevicePtr(v, fails) PROVE MemInv'
    BY <1>2, DevicePtrStep
  <1>3. ASSUME NEW v \in Views, DeleteMemoryView(v) PROVE MemInv'
    BY <1>3, DeleteMemoryViewStep
  <1>4. CASE ReleaseContext
    <2>1. /\ appHasContext = TRUE /\ appHasContext' = FALSE /\ ctxRefs' = ctxRefs - 1
          /\ bulks' = bulks /\ bulk' = bulk /\ allocated' = allocated /\ large' = large /\ view' = view
      <3>1. appHasContext \in BOOLEAN
        BY DEF MemInv, TypeInv
      <3> QED BY <1>4, <3>1, Zenon DEF ReleaseContext
    <2>2. TypeInv' /\ ListInv' /\ BulksInv' /\ UsedInv' /\ OwnerInv' /\ SizeInv'
      BY <2>1 DEF MemInv, TypeInv, ListInv, BulksInv, UsedInv, OwnerInv, SizeInv
    <2>3. RefInv'
      <3>1. LiveViews' = LiveViews /\ ctxRefs = Cardinality(LiveViews) + 1
        BY <2>1 DEF LiveViews, MemInv, RefInv
      <3> QED BY <3>1, <2>1, LiveFinite DEF RefInv
    <2> QED BY <2>2, <2>3 DEF MemInv
  <1>5. CASE UNCHANGED memVars
    BY <1>5 DEF memVars, MemInv, TypeInv, ListInv, BulksInv, UsedInv, OwnerInv, SizeInv, RefInv, LiveViews
  <1> QED BY <1>1, <1>2, <1>3, <1>4, <1>5 DEF MemNext

-----------------------------------------------------------------------------
(***************************************************************************)
(* What the invariant says of the views                                    *)
(***************************************************************************)

\* The views with a chunk are those whose pointer the pool knows.
LEMMA PoolViewFacts ==
    ASSUME MemInv
    PROVE  PoolViews = {v \in Views : view[v].ptr \in allocated}
  <1>1. allocated \subseteq ChunkAddresses /\ \A v \in Views : view[v].ptr \in {NullPtr, LargePtr} \cup allocated
    BY DEF MemInv, TypeInv, OwnerInv
  <1>2. NullPtr \notin ChunkAddresses /\ LargePtr \notin ChunkAddresses
    BY AddressFacts
  <1> QED BY <1>1, <1>2 DEF PoolViews

\* The chunk of a view is one of its bulk's.
LEMMA AllocatedFacts ==
    ASSUME MemInv, NEW c \in allocated
    PROVE  /\ c.size \in ChunkSizes /\ c.bulk \in 1 .. Len(bulk[c.size]) /\ c.index \in Nat
           /\ c = Chunk(c.size, c.bulk, c.index)
           /\ BulkSound(c.size, bulk[c.size][c.bulk])
           /\ c.index \in bulk[c.size][c.bulk].usedChunks
  <1>1. /\ c.size \in ChunkSizes /\ c.bulk \in 1 .. MaxBulks /\ c.index \in Nat
        /\ c = Chunk(c.size, c.bulk, c.index)
    BY AddressFacts DEF MemInv, TypeInv
  <1>2. c.bulk <= Len(bulk[c.size]) /\ Len(bulk[c.size]) \in Nat
    BY <1>1 DEF MemInv, UsedInv, TypeInv
  <1>3. c.bulk \in 1 .. Len(bulk[c.size])
    BY <1>1, <1>2, GpuMemoryAssumption
  <1>4. BulkSound(c.size, bulk[c.size][c.bulk])
    BY <1>1, <1>3 DEF MemInv, BulksInv
  <1>5. c.index \in bulk[c.size][c.bulk].usedChunks
    BY <1>1, <1>3 DEF MemInv, UsedInv
  <1> QED BY <1>1, <1>3, <1>4, <1>5

\* No two views share memory.
LEMMA InvViewsDisjoint == MemInv => ViewsDisjoint
  <1> SUFFICES ASSUME MemInv, NEW v \in PoolViews
               PROVE  LET p == view[v].ptr IN
                      /\ p.size >= view[v].requested
                      /\ p.index < NumChunks(p.size)
                      /\ bulk[p.size][p.bulk].mapped
                      /\ \A w \in PoolViews \ {v} : view[w].ptr # p
    BY Zenon DEF ViewsDisjoint
  <1> DEFINE p == view[v].ptr
             k == bulk[p.size][p.bulk]
  <1>1. v \in Views /\ p \in allocated
    BY PoolViewFacts
  <1>2. p.size \in ChunkSizes /\ BulkSound(p.size, k) /\ p.index \in k.usedChunks /\ p.index \in Nat
    BY <1>1, AllocatedFacts
  <1>3. p.size \in Nat /\ NumChunks(p.size) \in Nat
    BY <1>2, ChunkSizeFacts
  <1>4. view[v].requested <= view[v].size /\ view[v].size = p.size /\ view[v].requested \in Nat
    BY <1>1, ViewFacts DEF MemInv, SizeInv
  <1>5. \A w \in PoolViews \ {v} : view[w].ptr # p
    BY <1>1, PoolViewFacts DEF MemInv, OwnerInv
  <1> HIDE DEF p
  <1>6. k.mapped
    BY <1>2 DEF BulkSound
  <1>7. p.index < NumChunks(p.size)
    <2>1. p.index < k.initFreeChunks /\ k.initFreeChunks <= NumChunks(p.size) /\ k.initFreeChunks \in Nat
      BY <1>2 DEF BulkSound, BulkType
    <2> QED BY <2>1, <1>2, <1>3
  <1>8. p.size >= view[v].requested
    BY <1>3, <1>4
  <1> QED BY <1>5, <1>6, <1>7, <1>8 DEF p

\* The books of the pool are exact.
LEMMA InvChunksAccounted == MemInv => ChunksAccounted
  <1> SUFFICES ASSUME MemInv PROVE ChunksAccounted
    OBVIOUS
  <1>1. allocated = {view[v].ptr : v \in PoolViews}
    <2>1. ASSUME NEW c \in allocated PROVE c \in {view[v].ptr : v \in PoolViews}
      <3>1. PICK v \in Views : view[v].ptr = c
        BY DEF MemInv, OwnerInv
      <3> QED BY <3>1, PoolViewFacts
    <2>2. \A v \in PoolViews : view[v].ptr \in allocated
      BY PoolViewFacts
    <2> QED BY <2>1, <2>2
  <1>2. large = {v \in Views : view[v].ptr = LargePtr}
    BY DEF MemInv, OwnerInv
  <1>3. ASSUME NEW s \in ChunkSizes, NEW b \in DOMAIN bulk[s]
        PROVE  LET k == bulk[s][b] IN
               /\ k.usedChunks = {c.index : c \in {d \in allocated : d.size = s /\ d.bulk = b}}
               /\ IsInjective(k.freeChunks)
               /\ ToSet(k.freeChunks) = (0 .. k.initFreeChunks - 1) \ k.usedChunks
    <2> DEFINE k == bulk[s][b]
               mine == {d \in allocated : d.size = s /\ d.bulk = b}
    <2>1. b \in 1 .. Len(bulk[s]) /\ Len(bulk[s]) \in Nat /\ Len(bulk[s]) <= MaxBulks /\ MaxBulks \in Nat
      BY <1>3, GpuMemoryAssumption DEF MemInv, TypeInv, ListInv
    <2>2. BulkSound(s, k) /\ k \in BulkType
      BY <2>1 DEF MemInv, BulksInv, BulkSound
    <2>3. \A i \in Nat : i \in k.usedChunks <=> Chunk(s, b, i) \in allocated
      BY <2>1 DEF MemInv, UsedInv
    <2> HIDE DEF k
    <2>4. ASSUME NEW i \in k.usedChunks PROVE i \in {c.index : c \in mine}
      <3>1. i \in Nat /\ Chunk(s, b, i) \in allocated
        BY <2>2, <2>3, <2>4 DEF BulkType
      <3>2. Chunk(s, b, i).size = s /\ Chunk(s, b, i).bulk = b /\ Chunk(s, b, i).index = i
        BY <3>1, <2>1, ChunkFacts
      <3> QED BY <3>1, <3>2
    <2>5. ASSUME NEW c \in mine PROVE c.index \in k.usedChunks
      BY <2>5, AllocatedFacts DEF k
    <2>6. k.usedChunks = {c.index : c \in mine}
      BY <2>4, <2>5
    <2>7. ToSet(k.freeChunks) = (0 .. k.initFreeChunks - 1) \ k.usedChunks
      <3>1. k.freeChunks \in Seq(Nat) /\ k.initFreeChunks \in Nat
        BY <2>2 DEF BulkType
      <3>2. ToSet(k.freeChunks) \subseteq Nat
        BY <3>1 DEF ToSet
      <3>3. \A i \in Nat : i \in ToSet(k.freeChunks) <=> (i < k.initFreeChunks /\ i \notin k.usedChunks)
        BY <2>2 DEF BulkSound
      <3>4. \A i \in Nat : i < k.initFreeChunks <=> i \in 0 .. k.initFreeChunks - 1
        BY <3>1
      <3>5. \A i \in 0 .. k.initFreeChunks - 1 : i \in Nat
        BY <3>1
      <3> QED BY <3>2, <3>3, <3>4, <3>5
    <2> QED BY <2>2, <2>6, <2>7 DEF BulkSound, k
  <1> QED BY <1>1, <1>2, <1>3, Zenon DEF ChunksAccounted

\* The context lives as long as it is needed.
LEMMA InvContextOutlivesViews == MemInv => ContextOutlivesViews
  <1> SUFFICES ASSUME MemInv PROVE ContextOutlivesViews
    OBVIOUS
  <1>1. /\ ctxRefs = Cardinality(LiveViews) + (IF appHasContext THEN 1 ELSE 0)
        /\ appHasContext \in BOOLEAN /\ Cardinality(LiveViews) \in Nat /\ IsFiniteSet(LiveViews)
    BY LiveFinite DEF MemInv, RefInv, TypeInv
  <1>2. Cardinality(LiveViews) = 0 <=> LiveViews = {}
    BY <1>1, FS_EmptySet
  <1>3. (\E v \in Views : view[v].state = "live") <=> LiveViews # {}
    BY DEF LiveViews
  <1>4. CASE appHasContext
    BY <1>1, <1>4 DEF ContextOutlivesViews
  <1>5. CASE ~appHasContext
    BY <1>1, <1>2, <1>3, <1>5 DEF ContextOutlivesViews
  <1> QED BY <1>4, <1>5

\* The type invariant of the pool.
LEMMA InvMemTypeOK == MemInv => MemTypeOK
  <1> SUFFICES ASSUME MemInv PROVE MemTypeOK
    OBVIOUS
  <1>1. DOMAIN bulks = ChunkSizes /\ DOMAIN bulk = ChunkSizes
    BY DEF MemInv, TypeInv
  <1>2. ASSUME NEW s \in ChunkSizes PROVE ToSet(bulks[s]) = DOMAIN bulk[s]
    BY <1>2 DEF MemInv, TypeInv, ListInv
  <1>3. ASSUME NEW s \in ChunkSizes, NEW b \in DOMAIN bulk[s]
        PROVE  /\ bulk[s][b].initFreeChunks \in 0 .. NumChunks(s)
               /\ ToSet(bulk[s][b].freeChunks) \cup bulk[s][b].usedChunks \subseteq 0 .. NumChunks(s) - 1
    <2> DEFINE k == bulk[s][b]
    <2>0. b \in 1 .. Len(bulk[s])
      BY <1>3 DEF MemInv, TypeInv
    <2>1. BulkSound(s, k)
      BY <2>0 DEF MemInv, BulksInv
    <2> HIDE DEF k
    <2>2. /\ k.initFreeChunks \in Nat /\ k.freeChunks \in Seq(Nat) /\ k.usedChunks \subseteq Nat
          /\ k.initFreeChunks <= NumChunks(s)
      BY <2>1 DEF BulkSound, BulkType
    <2>3. NumChunks(s) \in Nat
      BY ChunkSizeFacts
    <2>4. ToSet(k.freeChunks) \subseteq Nat
      BY <2>2 DEF ToSet
    <2>5. \A i \in ToSet(k.freeChunks) \cup k.usedChunks : i \in Nat /\ i < k.initFreeChunks
      BY <2>1, <2>2, <2>4 DEF BulkSound
    <2> QED BY <2>2, <2>3, <2>5 DEF k
  <1>4. allocated \subseteq ChunkAddresses /\ large \subseteq Views
    BY DEF MemInv, TypeInv
  <1>5. \A v \in Views : view[v].state \in {"none", "live"} /\ view[v].ptr \in ChunkAddresses \cup {NullPtr, LargePtr}
    BY ViewFacts DEF MemInv
  <1>6. ctxRefs \in 0 .. Cardinality(Views) + 1
    BY LiveFinite DEF MemInv, RefInv
  <1>7. appHasContext \in BOOLEAN
    BY Zenon DEF MemInv, TypeInv
  <1> QED BY <1>1, <1>2, <1>3, <1>4, <1>5, <1>6, <1>7 DEF MemTypeOK

\* The pool of a GPU context keeps its types.
THEOREM MemoryTypeCorrect == MemSpec => []MemTypeOK
  <1>1. MemSpec => []MemInv
    BY MemInitInv, MemNextInv, PTL DEF MemSpec
  <1> QED BY <1>1, InvMemTypeOK, PTL

\* Whatever views an application creates, uses and deletes, and whichever
\* allocations of Level Zero fail: no two views share memory, each has as much
\* as it asked for, the books of ChunkedPool and Bulk, which their assertions
\* rely on, are exact, and the context outlives the views.
THEOREM ViewsAreSound == MemSpec => []ViewsSound
  <1>1. MemSpec => []MemInv
    BY MemInitInv, MemNextInv, PTL DEF MemSpec
  <1>2. MemInv => ViewsSound
    BY InvViewsDisjoint, InvChunksAccounted, InvContextOutlivesViews DEF ViewsSound
  <1> QED BY <1>1, <1>2, PTL
=============================================================================
