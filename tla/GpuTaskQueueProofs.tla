------------------------- MODULE GpuTaskQueueProofs -------------------------
(***************************************************************************)
(* The task queue of a GPU device is safe for every size of its event      *)
(* pools, every width of the device's timestamps, every number of commands *)
(* and every failed call.  Its events are neither lost nor shared, and     *)
(* futures tell the right times, on every device (EventsSound, from        *)
(* QueueInv); the order of commands is kept on devices without a copy      *)
(* engine, and on the others by programs that copy in, launch and copy out *)
(* (CommandsOrdered, from QueueInv and OrderInv).                          *)
(***************************************************************************)
EXTENDS GpuTaskQueue, WellFoundedInduction, FiniteSetTheorems, SequenceTheorems, TLAPS

\* A set of natural numbers has a least one.
LEMMA LeastExists ==
    ASSUME NEW S \in SUBSET Nat, S # {}
    PROVE  \E k \in S : \A j \in S : k <= j
  <1> DEFINE R == OpToRel(<, Nat)
  <1>1. \A x, y \in Nat : x < y => <<x, y>> \in R
    BY DEF OpToRel
  <1>2. IsWellFoundedOn(R, Nat)
    BY NatLessThanWellFounded, Zenon
  <1> HIDE DEF R
  <1>3. PICK k \in S : \A y \in S : ~(<<y, k>> \in R)
    BY <1>2, WFMin
  <1>4. \A j \in S : ~(j < k)
    BY <1>1, <1>3
  <1> QED BY <1>4

\* The elements of a sequence.
LEMMA Elements ==
    ASSUME NEW q, NEW n, DOMAIN q = 1 .. n
    PROVE  \A x : x \in ToSet(q) <=> \E k \in 1 .. n : x = q[k]
  BY DEF ToSet

-----------------------------------------------------------------------------
(***************************************************************************)
(* An event pool                                                           *)
(***************************************************************************)

\* The indices of a pool of n events are shared out: each is free or used, and
\* only once.
Shared(free, used, n) ==
    /\ free \in Seq(1 .. n) /\ used \in Seq(1 .. n)
    /\ \A i, j \in 1 .. Len(free) : free[i] = free[j] => i = j
    /\ \A i, j \in 1 .. Len(used) : used[i] = used[j] => i = j
    /\ \A i \in 1 .. Len(free), j \in 1 .. Len(used) : free[i] # used[j]
    /\ \A x \in 1 .. n : (\E i \in 1 .. Len(free) : x = free[i]) \/ (\E i \in 1 .. Len(used) : x = used[i])
    /\ Len(free) + Len(used) = n

\* A sequence that has an element: its first one and the others.
LEMMA TailFacts ==
    ASSUME NEW M, NEW f \in Seq(M), f # <<>>
    PROVE  /\ Len(f) \in Nat /\ Len(f) >= 1 /\ Head(f) = f[1] /\ f[1] \in M
           /\ Tail(f) \in Seq(M) /\ Len(Tail(f)) = Len(f) - 1
           /\ \A i \in 1 .. Len(f) - 1 : Tail(f)[i] = f[i + 1]
  <1>1. Len(f) \in Nat /\ Len(f) >= 1
    BY EmptySeq
  <1>2. Head(f) = f[1] /\ f[1] \in M
    BY <1>1
  <1>3. Tail(f) \in Seq(M) /\ Len(Tail(f)) = Len(f) - 1
    BY HeadTailProperties
  <1>4. \A i \in 1 .. Len(f) - 1 : Tail(f)[i] = f[i + 1]
    BY HeadTailProperties, <1>3
  <1> QED BY <1>1, <1>2, <1>3, <1>4

\* A sequence with one more element.
LEMMA AppendFacts ==
    ASSUME NEW M, NEW u \in Seq(M), NEW x \in M
    PROVE  /\ Append(u, x) \in Seq(M) /\ Len(Append(u, x)) = Len(u) + 1 /\ Len(u) \in Nat
           /\ \A i \in 1 .. Len(u) : Append(u, x)[i] = u[i]
           /\ Append(u, x)[Len(u) + 1] = x
  BY AppendProperties

\* A sequence followed by another.
LEMMA ConcatFacts ==
    ASSUME NEW M, NEW s \in Seq(M), NEW t \in Seq(M)
    PROVE  /\ s \o t \in Seq(M) /\ Len(s \o t) = Len(s) + Len(t) /\ Len(s) \in Nat /\ Len(t) \in Nat
           /\ \A i \in 1 .. Len(s) : (s \o t)[i] = s[i]
           /\ \A i \in 1 .. Len(t) : (s \o t)[Len(s) + i] = t[i]
  <1>1. s \o t \in Seq(M) /\ Len(s \o t) = Len(s) + Len(t) /\ Len(s) \in Nat /\ Len(t) \in Nat
    BY ConcatProperties
  <1>2. \A i \in 1 .. Len(s) + Len(t) : (s \o t)[i] = IF i <= Len(s) THEN s[i] ELSE t[i - Len(s)]
    BY ConcatProperties
  <1>3. \A i \in 1 .. Len(t) : Len(s) + i \in 1 .. Len(s) + Len(t) /\ ~(Len(s) + i <= Len(s)) /\ (Len(s) + i) - Len(s) = i
    BY <1>1
  <1> QED BY <1>1, <1>2, <1>3

\* The first free index is used.
LEMMA IndexTaken ==
    ASSUME NEW n \in Nat, NEW f, NEW u, Shared(f, u, n), f # <<>>
    PROVE  Shared(Tail(f), Append(u, Head(f)), n)
  <1> DEFINE a == Len(f)
             b == Len(u)
             g == Tail(f)
             v == Append(u, Head(f))
  <1>1. f \in Seq(1 .. n) /\ u \in Seq(1 .. n)
    BY DEF Shared
  <1>2. /\ a \in Nat /\ a >= 1 /\ Head(f) = f[1] /\ f[1] \in 1 .. n
        /\ g \in Seq(1 .. n) /\ Len(g) = a - 1 /\ \A i \in 1 .. a - 1 : g[i] = f[i + 1]
    BY <1>1, TailFacts, Zenon
  <1>3. /\ v \in Seq(1 .. n) /\ Len(v) = b + 1 /\ b \in Nat
        /\ \A i \in 1 .. b : v[i] = u[i]
        /\ v[b + 1] = f[1]
    BY <1>1, <1>2, AppendFacts
  <1>4. /\ \A i, j \in 1 .. a : f[i] = f[j] => i = j
        /\ \A i, j \in 1 .. b : u[i] = u[j] => i = j
        /\ \A i \in 1 .. a, j \in 1 .. b : f[i] # u[j]
        /\ \A x \in 1 .. n : (\E i \in 1 .. a : x = f[i]) \/ (\E i \in 1 .. b : x = u[i])
        /\ a + b = n
    BY DEF Shared
  <1> HIDE DEF a, b, g, v
  <1>5. \A i \in 1 .. a - 1 : i + 1 \in 1 .. a /\ i + 1 # 1
    BY <1>2
  <1>6. \A i, j \in 1 .. a - 1 : g[i] = g[j] => i = j
    <2> SUFFICES ASSUME NEW i \in 1 .. a - 1, NEW j \in 1 .. a - 1, g[i] = g[j] PROVE i = j
      OBVIOUS
    <2>1. f[i + 1] = f[j + 1]
      BY <1>2
    <2>2. i + 1 = j + 1
      BY <2>1, <1>4, <1>5
    <2> QED BY <2>2, <1>2
  <1>7. \A i \in 1 .. b + 1 : i \in 1 .. b \/ i = b + 1
    BY <1>3
  <1>8. 1 \in 1 .. a
    BY <1>2
  <1>9. \A i, j \in 1 .. b + 1 : v[i] = v[j] => i = j
    BY <1>3, <1>4, <1>7, <1>8
  <1>10. \A i \in 1 .. a - 1, j \in 1 .. b + 1 : g[i] # v[j]
    <2> SUFFICES ASSUME NEW i \in 1 .. a - 1, NEW j \in 1 .. b + 1 PROVE g[i] # v[j]
      OBVIOUS
    <2>1. g[i] = f[i + 1] /\ i + 1 \in 1 .. a /\ i + 1 # 1
      BY <1>2, <1>5
    <2>2. CASE j \in 1 .. b
      BY <2>1, <2>2, <1>3, <1>4
    <2>3. CASE j = b + 1
      <3>1. v[j] = f[1] /\ f[i + 1] # f[1]
        BY <2>1, <2>3, <1>3, <1>4, <1>8
      <3> QED BY <2>1, <3>1
    <2> QED BY <2>2, <2>3, <1>7
  <1>11. ASSUME NEW x \in 1 .. n
         PROVE  (\E i \in 1 .. a - 1 : x = g[i]) \/ (\E i \in 1 .. b + 1 : x = v[i])
    <2>1. CASE \E i \in 1 .. a : x = f[i]
      <3>1. PICK i \in 1 .. a : x = f[i]
        BY <2>1
      <3>2. CASE i = 1
        <4>1. b + 1 \in 1 .. b + 1
          BY <1>3
        <4> QED BY <3>1, <3>2, <1>3, <4>1
      <3>3. CASE i # 1
        <4>1. i - 1 \in 1 .. a - 1 /\ (i - 1) + 1 = i
          BY <3>3, <1>2
        <4> QED BY <4>1, <3>1, <1>2
      <3> QED BY <3>2, <3>3
    <2>2. CASE \E i \in 1 .. b : x = u[i]
      <3>1. \A i \in 1 .. b : i \in 1 .. b + 1
        BY <1>3
      <3> QED BY <2>2, <1>3, <3>1
    <2> QED BY <2>1, <2>2, <1>4
  <1>12. (a - 1) + (b + 1) = n
    BY <1>2, <1>3, <1>4
  <1>13. Shared(g, v, n)
    BY <1>2, <1>3, <1>6, <1>9, <1>10, <1>11, <1>12 DEF Shared
  <1> QED BY <1>13 DEF g, v

\* All indices are free again.
LEMMA AllFreed ==
    ASSUME NEW n \in Nat, NEW f, NEW u, Shared(f, u, n)
    PROVE  Shared(f \o u, <<>>, n)
  <1> DEFINE a == Len(f)
             b == Len(u)
             h == f \o u
  <1>1. f \in Seq(1 .. n) /\ u \in Seq(1 .. n)
    BY DEF Shared
  <1>2. /\ h \in Seq(1 .. n) /\ Len(h) = a + b /\ a \in Nat /\ b \in Nat
        /\ \A i \in 1 .. a : h[i] = f[i]
        /\ \A i \in 1 .. b : h[a + i] = u[i]
    BY <1>1, ConcatFacts
  <1>3. /\ \A i, j \in 1 .. a : f[i] = f[j] => i = j
        /\ \A i, j \in 1 .. b : u[i] = u[j] => i = j
        /\ \A i \in 1 .. a, j \in 1 .. b : f[i] # u[j]
        /\ \A x \in 1 .. n : (\E i \in 1 .. a : x = f[i]) \/ (\E i \in 1 .. b : x = u[i])
        /\ a + b = n
    BY DEF Shared
  <1> HIDE DEF a, b, h
  <1>4. \A i \in 1 .. a + b : i \in 1 .. a \/ \E k \in 1 .. b : i = a + k
    <2> SUFFICES ASSUME NEW i \in 1 .. a + b, ~(i \in 1 .. a) PROVE \E k \in 1 .. b : i = a + k
      OBVIOUS
    <2>1. i - a \in 1 .. b /\ i = a + (i - a)
      BY <1>2
    <2> QED BY <2>1
  <1>5. \A i, j \in 1 .. a + b : h[i] = h[j] => i = j
    <2> SUFFICES ASSUME NEW i \in 1 .. a + b, NEW j \in 1 .. a + b, h[i] = h[j] PROVE i = j
      OBVIOUS
    <2>1. CASE i \in 1 .. a /\ j \in 1 .. a
      BY <2>1, <1>2, <1>3
    <2>2. ASSUME NEW k \in 1 .. b, i = a + k, j \in 1 .. a PROVE FALSE
      <3>1. h[i] = u[k] /\ h[j] = f[j]
        BY <2>2, <1>2, Zenon
      <3>2. f[j] # u[k]
        BY <2>2, <1>3, Zenon
      <3> QED BY <3>1, <3>2
    <2>3. ASSUME NEW k \in 1 .. b, j = a + k, i \in 1 .. a PROVE FALSE
      <3>1. h[j] = u[k] /\ h[i] = f[i]
        BY <2>3, <1>2, Zenon
      <3>2. f[i] # u[k]
        BY <2>3, <1>3, Zenon
      <3> QED BY <3>1, <3>2
    <2>4. ASSUME NEW k \in 1 .. b, NEW m \in 1 .. b, i = a + k, j = a + m PROVE i = j
      <3>1. h[i] = u[k] /\ h[j] = u[m]
        BY <2>4, <1>2, Zenon
      <3>2. k = m
        BY <3>1, <1>3, Zenon
      <3> QED BY <3>2, <2>4
    <2> QED BY <2>1, <2>2, <2>3, <2>4, <1>4, Zenon
  <1>6. ASSUME NEW x \in 1 .. n PROVE \E i \in 1 .. a + b : x = h[i]
    <2>1. \A i \in 1 .. a : i \in 1 .. a + b
      BY <1>2
    <2>2. \A i \in 1 .. b : a + i \in 1 .. a + b
      BY <1>2
    <2>3. ASSUME NEW i \in 1 .. a, x = f[i] PROVE \E k \in 1 .. a + b : x = h[k]
      BY <2>1, <2>3, <1>2
    <2>4. ASSUME NEW i \in 1 .. b, x = u[i] PROVE \E k \in 1 .. a + b : x = h[k]
      BY <2>2, <2>4, <1>2
    <2> QED BY <2>3, <2>4, <1>3, Zenon
  <1>7. <<>> \in Seq(1 .. n) /\ Len(<<>>) = 0 /\ (a + b) + 0 = n
    BY <1>2, <1>3
  <1>8. \A i \in 1 .. 0 : FALSE
    OBVIOUS
  <1> QED BY <1>2, <1>5, <1>6, <1>7, <1>8 DEF Shared, h

\* An index that was just taken is put back behind the others.
LEMMA IndexRotated ==
    ASSUME NEW n \in Nat, NEW f, NEW u, Shared(f, u, n), f # <<>>
    PROVE  Shared(Tail(f) \o <<Head(f)>>, u, n)
  <1> DEFINE a == Len(f)
             b == Len(u)
             g == Tail(f) \o <<Head(f)>>
  <1>1. f \in Seq(1 .. n) /\ u \in Seq(1 .. n)
    BY DEF Shared
  <1>2. /\ a \in Nat /\ a >= 1 /\ Head(f) = f[1] /\ f[1] \in 1 .. n
        /\ Tail(f) \in Seq(1 .. n) /\ Len(Tail(f)) = a - 1 /\ \A i \in 1 .. a - 1 : Tail(f)[i] = f[i + 1]
    BY <1>1, TailFacts, Zenon
  <1>3. /\ <<Head(f)>> \in Seq(1 .. n) /\ Len(<<Head(f)>>) = 1 /\ <<Head(f)>>[1] = f[1] /\ 1 \in 1 .. 1
    BY <1>2
  <1>4. /\ g \in Seq(1 .. n) /\ Len(g) = (a - 1) + 1
        /\ \A i \in 1 .. a - 1 : g[i] = Tail(f)[i]
        /\ g[(a - 1) + 1] = f[1]
    BY <1>2, <1>3, ConcatFacts
  <1>5. /\ \A i, j \in 1 .. a : f[i] = f[j] => i = j
        /\ \A i, j \in 1 .. b : u[i] = u[j] => i = j
        /\ \A i \in 1 .. a, j \in 1 .. b : f[i] # u[j]
        /\ \A x \in 1 .. n : (\E i \in 1 .. a : x = f[i]) \/ (\E i \in 1 .. b : x = u[i])
        /\ a + b = n
    BY DEF Shared
  <1> HIDE DEF a, b, g
  <1>6. (a - 1) + 1 = a
    BY <1>2
  <1>7. Len(g) = a /\ g[a] = f[1] /\ \A i \in 1 .. a - 1 : g[i] = f[i + 1]
    BY <1>2, <1>4, <1>6
  <1>8. \A i \in 1 .. a - 1 : i + 1 \in 1 .. a /\ i + 1 # 1
    BY <1>2
  <1>9. \A i \in 1 .. a : i \in 1 .. a - 1 \/ i = a
    BY <1>2
  <1>10. 1 \in 1 .. a
    BY <1>2
  <1>11. \A i, j \in 1 .. a - 1 : i + 1 = j + 1 => i = j
    BY <1>2
  <1>12. \A i, j \in 1 .. a : g[i] = g[j] => i = j
    <2> SUFFICES ASSUME NEW i \in 1 .. a, NEW j \in 1 .. a, g[i] = g[j] PROVE i = j
      OBVIOUS
    <2>1. CASE i \in 1 .. a - 1 /\ j \in 1 .. a - 1
      <3>1. f[i + 1] = f[j + 1] /\ i + 1 \in 1 .. a /\ j + 1 \in 1 .. a
        BY <2>1, <1>7, <1>8
      <3>2. i + 1 = j + 1
        BY <3>1, <1>5
      <3> QED BY <3>2, <2>1, <1>11
    <2>2. CASE i = a /\ j \in 1 .. a - 1
      <3>1. f[1] = f[j + 1] /\ j + 1 \in 1 .. a /\ j + 1 # 1
        BY <2>2, <1>7, <1>8
      <3> QED BY <3>1, <1>5, <1>10
    <2>3. CASE j = a /\ i \in 1 .. a - 1
      <3>1. f[1] = f[i + 1] /\ i + 1 \in 1 .. a /\ i + 1 # 1
        BY <2>3, <1>7, <1>8
      <3> QED BY <3>1, <1>5, <1>10
    <2> QED BY <2>1, <2>2, <2>3, <1>9
  <1>13. \A i \in 1 .. a, j \in 1 .. b : g[i] # u[j]
    BY <1>5, <1>7, <1>8, <1>9, <1>10
  <1>14. ASSUME NEW x \in 1 .. n
         PROVE  (\E i \in 1 .. a : x = g[i]) \/ (\E i \in 1 .. b : x = u[i])
    <2>1. ASSUME NEW i \in 1 .. a, x = f[i] PROVE \E k \in 1 .. a : x = g[k]
      <3>1. CASE i = 1
        <4>1. a \in 1 .. a
          BY <1>2
        <4> QED BY <4>1, <3>1, <2>1, <1>7
      <3>2. CASE i # 1
        <4>1. i - 1 \in 1 .. a - 1 /\ i - 1 \in 1 .. a /\ (i - 1) + 1 = i
          BY <3>2, <1>2
        <4> QED BY <4>1, <2>1, <1>7
      <3> QED BY <3>1, <3>2
    <2> QED BY <2>1, <1>5
  <1> QED BY <1>1, <1>4, <1>5, <1>7, <1>12, <1>13, <1>14 DEF Shared, g, b

\* The books balance: free and used indices together are all indices.
LEMMA AllAccounted ==
    ASSUME NEW n \in Nat, NEW f, NEW u, Shared(f, u, n)
    PROVE  Len(f \o u) = n /\ ToSet(f \o u) = 1 .. n
  <1> DEFINE h == f \o u
  <1>1. Shared(h, <<>>, n)
    BY AllFreed, Zenon
  <1> HIDE DEF h
  <1>2. h \in Seq(1 .. n) /\ Len(<<>>) = 0
    BY <1>1 DEF Shared
  <1>3. Len(h) \in Nat /\ DOMAIN h = 1 .. Len(h) /\ \A i \in 1 .. Len(h) : h[i] \in 1 .. n
    BY <1>2
  <1>4. Len(h) = n
    BY <1>1, <1>2, <1>3 DEF Shared
  <1>5. \A x \in 1 .. n : \E i \in 1 .. Len(h) : x = h[i]
    BY <1>1, <1>2 DEF Shared
  <1>6. \A x : x \in ToSet(h) <=> \E i \in 1 .. Len(h) : x = h[i]
    BY <1>3, Elements, Zenon
  <1>7. \A x : x \in ToSet(h) <=> x \in 1 .. n
    BY <1>3, <1>5, <1>6, Zenon
  <1> QED BY <1>4, <1>7 DEF h

\* At first all indices are free.
LEMMA AllFree ==
    ASSUME NEW n \in Nat
    PROVE  Shared([i \in 1 .. n |-> i], <<>>, n)
  <1> DEFINE h == [i \in 1 .. n |-> i]
  <1>1. h \in Seq(1 .. n) /\ Len(h) = n /\ \A i \in 1 .. n : h[i] = i
    OBVIOUS
  <1>2. <<>> \in Seq(1 .. n) /\ Len(<<>>) = 0 /\ n + 0 = n /\ \A i \in 1 .. 0 : FALSE
    OBVIOUS
  <1> HIDE DEF h
  <1> QED BY <1>1, <1>2 DEF Shared, h

-----------------------------------------------------------------------------
(***************************************************************************)
(* Times and positions                                                     *)
(***************************************************************************)

\* The counter wraps at most once while a kernel runs.
LEMMA WrapFacts ==
    ASSUME NEW m \in Nat, NEW a \in 0 .. m, NEW d \in 0 .. m
    PROVE  /\ a + d <= m => (a + d) % (m + 1) = a + d
           /\ a + d > m => (a + d) % (m + 1) = (a + d) - (m + 1)
  OBVIOUS

\* The time computed from the two timestamps is how long the kernel ran.
LEMMA TimeFacts ==
    ASSUME NEW a \in Ticks, NEW d \in Ticks
    PROVE  LET e == (a + d) % (TimestampMax + 1) IN
           e \in Ticks /\ FutureTime([start |-> a, end |-> e]) = d
  <1> DEFINE e == (a + d) % (TimestampMax + 1)
  <1>1. TimestampMax \in Nat /\ a \in 0 .. TimestampMax /\ d \in 0 .. TimestampMax
    BY GpuQueueAssumption DEF Ticks
  <1>2. /\ a + d <= TimestampMax => e = a + d
        /\ a + d > TimestampMax => e = (a + d) - (TimestampMax + 1)
    BY <1>1, WrapFacts
  <1> HIDE DEF e
  <1>3. e \in 0 .. TimestampMax
    BY <1>1, <1>2
  <1>4. FutureTime([start |-> a, end |-> e]) = d
    BY <1>1, <1>2, <1>3 DEF FutureTime
  <1> QED BY <1>3, <1>4 DEF e, Ticks

\* Min is the least element.
LEMMA MinFacts ==
    ASSUME NEW S \in SUBSET Nat, S # {}
    PROVE  Min(S) \in S
  BY LeastExists DEF Min

\* Max is the greatest element.
LEMMA MaxFacts ==
    ASSUME NEW n \in Nat, NEW S \in SUBSET (0 .. n), S # {}
    PROVE  Max(S) \in S /\ \A y \in S : Max(S) >= y
  <1> DEFINE T == {n - k : k \in S}
  <1>0. \A k \in S : n - k \in Nat
    OBVIOUS
  <1>1. T \in SUBSET Nat /\ T # {}
    BY <1>0, Zenon
  <1>2. PICK t \in T : \A j \in T : t <= j
    BY <1>1, LeastExists
  <1>3. PICK x \in S : t = n - x
    BY <1>2
  <1>4. ASSUME NEW y \in S PROVE x >= y
    <2>1. t <= n - y
      BY <1>2
    <2> QED BY <2>1, <1>3
  <1>5. \E k \in S : \A y \in S : k >= y
    BY <1>4
  <1> QED BY <1>5 DEF Max

\* The first n elements of a sequence.
LEMMA PrefixFacts ==
    ASSUME NEW M, NEW s \in Seq(M), NEW n \in 0 .. Len(s)
    PROVE  /\ SubSeq(s, 1, n) \in Seq(M) /\ Len(SubSeq(s, 1, n)) = n
           /\ \A i \in 1 .. n : SubSeq(s, 1, n)[i] = s[i]
  <1> DEFINE t == SubSeq(s, 1, n)
  <1>1. Len(s) \in Nat /\ n \in Int /\ 1 \in Int /\ n <= Len(s)
    OBVIOUS
  <1>2. \A i \in 1 .. n : s[i] \in M
    BY <1>1
  <1>3. /\ t \in Seq(M) /\ Len(t) = IF 1 <= n THEN n - 1 + 1 ELSE 0
        /\ \A i \in 1 .. n - 1 + 1 : t[i] = s[1 + i - 1]
    BY <1>1, <1>2, SubSeqProperties
  <1> HIDE DEF t
  <1>4. Len(t) = n /\ n - 1 + 1 = n
    BY <1>1, <1>3
  <1>5. ASSUME NEW i \in 1 .. n PROVE t[i] = s[i]
    <2>1. 1 + i - 1 = i
      BY <1>1
    <2> QED BY <1>3, <1>4, <2>1
  <1> QED BY <1>3, <1>4, <1>5 DEF t

\* The events whose timestamps are read are the first ones, up to some n, and
\* signalled.
LEMMA CompletedFacts ==
    ASSUME events_compute_list \in Seq(Events \X Ids)
    PROVE  /\ Completed \in Seq(Events \X Ids) /\ Len(Completed) \in 0 .. Len(events_compute_list)
           /\ \A i \in 1 .. Len(Completed) :
                Completed[i] = events_compute_list[i] /\ events_compute_list[i][1] \in signalled
  <1> DEFINE s == events_compute_list
             n == Len(s)
             S == {k \in 0 .. n : \A i \in 1 .. k : s[i][1] \in signalled}
             m == Max(S)
  <1>1. n \in Nat
    OBVIOUS
  <1>2. 0 \in S
    BY <1>1
  <1>3. m \in S
    BY <1>1, <1>2, MaxFacts, Zenon
  <1>4. Completed = SubSeq(s, 1, m)
    BY DEF Completed
  <1> HIDE DEF m
  <1>5. m \in 0 .. n /\ \A i \in 1 .. m : s[i][1] \in signalled
    BY <1>3
  <1>6. /\ SubSeq(s, 1, m) \in Seq(Events \X Ids) /\ Len(SubSeq(s, 1, m)) = m
        /\ \A i \in 1 .. m : SubSeq(s, 1, m)[i] = s[i]
    BY <1>5, PrefixFacts
  <1> QED BY <1>4, <1>5, <1>6

-----------------------------------------------------------------------------
(***************************************************************************)
(* The inductive invariant                                                 *)
(***************************************************************************)
Kernels == {"kernel", "copy"}
Kinds == {"h2d", "d2h"} \cup Kernels
ListRecord == [cmds : SUBSET Command, floor : SUBSET Ids, events : Seq(Events), submitted : BOOLEAN]

\* The list that a command of this kind is recorded in.
ListOf(kind) == IF kind \in Kernels THEN "compute" ELSE kind

Queued == queue["compute"] \cup queue["copy"]
InLists == UNION {list[l].cmds : l \in Lists}

\* The commands that are recorded and not submitted.
Unsubmitted == IF host \in {"record", "destroyed"} THEN InLists ELSE {}

QueueTypes ==
    /\ config \in Configs
    /\ list \in [Lists -> ListRecord]
    /\ freeList \in [Pools -> Seq(Nat)]
    /\ \A p \in Pools : freeList[p] \in Seq(1 .. PoolSize[p])
    /\ events_pool \in Seq(Events) /\ events_compute_list \in Seq(Events \X Ids)
    /\ \A k \in DOMAIN future : k \in Ids /\ future[k] \in Future
    /\ host \in PCs
    /\ queue \in [Pools -> SUBSET Command]
    /\ signalled \subseteq Events /\ ran \subseteq Command
    /\ clock \in Ticks
    /\ next \in 1 .. MaxCommands + 1
    /\ failures \in 0 .. MaxFailures

\* The pools: indices are shared out, and lists hold events of their own pool.
ComputeIndices == [i \in 1 .. Len(events_compute_list) |-> events_compute_list[i][1][2]]
CopyIndices == [i \in 1 .. Len(events_pool) |-> events_pool[i][2]]
PoolsShared ==
    /\ \A i \in 1 .. Len(events_pool) : events_pool[i][1] = "copy"
    /\ \A i \in 1 .. Len(events_compute_list) : events_compute_list[i][1][1] = "compute"
    /\ host # "failed" =>
         /\ Shared(freeList["compute"], ComputeIndices, PoolSize["compute"])
         /\ Shared(freeList["copy"], CopyIndices, PoolSize["copy"])

\* Until sync has read the times no future is valid, and the futures are those
\* of the events in the list, in the order of the commands.
FuturesPending ==
    host \in {"record", "sync"} =>
        /\ \A i \in 1 .. Len(events_compute_list) :
             events_compute_list[i][2] < next /\ events_compute_list[i][2] \in DOMAIN future
        /\ \A i, j \in 1 .. Len(events_compute_list) :
             events_compute_list[i][2] = events_compute_list[j][2] => i = j
        /\ \A k \in DOMAIN future :
             ~future[k].valid /\ \E i \in 1 .. Len(events_compute_list) : k = events_compute_list[i][2]

\* An event of the list that is signalled has the timestamps of its kernel.
Stamped ==
    host \in {"record", "sync"} =>
    \A i \in 1 .. Len(events_compute_list) :
        events_compute_list[i][1] \in signalled =>
            /\ host = "sync" /\ events_compute_list[i][2] \in DOMAIN taken
            /\ taken[events_compute_list[i][2]] \in Ticks
            /\ events_compute_list[i][1] \in DOMAIN stamp
            /\ FutureTime(stamp[events_compute_list[i][1]]) = taken[events_compute_list[i][2]]

FuturesSound ==
    /\ FuturesPending /\ Stamped /\ FuturesExact
    /\ host = "read" => events_compute_list = <<>> /\ next = 1
    /\ host = "failed" => \A c \in Queued : c.kind \in Kernels /\ c.id \in DOMAIN future => ~future[c.id].valid

\* Where commands are.
Placed ==
    /\ host = "record" => \A l \in Lists : ~list[l].submitted
    /\ host = "sync" => InLists \subseteq Queued \cup ran
    /\ host \in {"read", "failed"} => InLists = {} /\ \A l \in Lists : ~list[l].submitted
    /\ host \in {"record", "read", "destroyed"} => \A c \in Queued : c.kind \notin Kernels
    /\ \A l \in Lists : \A c \in list[l].cmds : l = CL(ListOf(c.kind))
    /\ \A q \in Pools : \A c \in queue[q] : q = Q(ListOf(c.kind))

\* The event that a command will signal is its own and not signalled.
Owns(c) ==
    /\ c.kind = "h2d" => \E i \in 1 .. Len(events_pool) : events_pool[i] = c.signal
    /\ c.kind = "d2h" => c.signal = NoEvent
    /\ c.kind \in Kernels => \E i \in 1 .. Len(events_compute_list) : events_compute_list[i] = <<c.signal, c.id>>
SignalsSound ==
    /\ \A c \in Unsubmitted \cup Queued : c.signal \notin signalled
    /\ host \in {"record", "sync", "read"} => \A c \in Unsubmitted \cup Queued : Owns(c)
    /\ \A c, d \in Unsubmitted : c.signal = d.signal => c.signal = NoEvent \/ c = d
    /\ \A c, d \in Queued : c.signal = d.signal => c.signal = NoEvent \/ c = d
    /\ \A c \in Unsubmitted, d \in Queued : c.signal = d.signal => c.signal = NoEvent

QueueInv == QueueTypes /\ PoolsShared /\ FuturesSound /\ Placed /\ SignalsSound

-----------------------------------------------------------------------------
(***************************************************************************)
(* Facts about the state                                                   *)
(***************************************************************************)

\* What is assumed of the constants.
LEMMA ConstantFacts ==
    /\ PoolSize["compute"] \in Nat /\ PoolSize["copy"] \in Nat
    /\ MaxCommands \in Nat /\ MaxFailures \in Nat /\ TimestampMax \in Nat
    /\ \A c \in Configs : c.engine \in BOOLEAN /\ c.multi \in BOOLEAN /\ (c.engine => c.multi)
    /\ "compute" \in Pools /\ "copy" \in Pools /\ \A p \in Pools : p = "compute" \/ p = "copy"
    /\ "compute" \in Lists /\ "h2d" \in Lists /\ "d2h" \in Lists
  BY GpuQueueAssumption DEF Pools, Lists, Config

\* Events are pairs of a pool and an index.
LEMMA EventFacts ==
    /\ \A e \in Events : e[1] \in Pools /\ e[2] \in 1 .. PoolSize[e[1]] /\ e = <<e[1], e[2]>>
    /\ \A p \in Pools : \A i \in 1 .. PoolSize[p] : <<p, i>> \in Events
    /\ NoEvent \notin Events
  <1>1. \A e \in Events : e[1] \in Pools /\ e[2] \in 1 .. PoolSize[e[1]] /\ e = <<e[1], e[2]>>
    BY DEF Events
  <1>2. ASSUME NEW p \in Pools, NEW i \in 1 .. PoolSize[p] PROVE <<p, i>> \in Events
    BY DEF Events
  <1>3. NoEvent \notin Events
    BY <1>1 DEF NoEvent, Pools
  <1> QED BY <1>1, <1>2, <1>3

\* The invariant holds at first.
LEMMA QueueStart == GpuInit => QueueInv
  <1> SUFFICES ASSUME GpuInit PROVE QueueInv
    OBVIOUS
  <1>1. QueueTypes
    <2>1. \A l \in Lists : list[l] \in ListRecord /\ list \in [Lists -> ListRecord]
      BY DEF GpuInit, EmptyList, ListRecord
    <2>2. \A p \in Pools : PoolSize[p] \in Nat /\ freeList[p] \in Seq(1 .. PoolSize[p]) /\ freeList[p] \in Seq(Nat)
      BY GpuQueueAssumption DEF GpuInit
    <2>3. freeList \in [Pools -> Seq(Nat)]
      BY <2>2 DEF GpuInit
    <2>4. queue \in [Pools -> SUBSET Command]
      BY DEF GpuInit
    <2>5. next \in 1 .. MaxCommands + 1 /\ failures \in 0 .. MaxFailures
      BY ConstantFacts DEF GpuInit
    <2> QED BY <2>1, <2>2, <2>3, <2>4, <2>5, ConstantFacts DEF QueueTypes, GpuInit, PCs
  <1>2. PoolsShared
    <2>1. Len(events_pool) = 0 /\ Len(events_compute_list) = 0 /\ ComputeIndices = <<>> /\ CopyIndices = <<>>
      BY DEF GpuInit, ComputeIndices, CopyIndices
    <2>2. /\ freeList["compute"] = [i \in 1 .. PoolSize["compute"] |-> i]
          /\ freeList["copy"] = [i \in 1 .. PoolSize["copy"] |-> i]
      BY ConstantFacts DEF GpuInit
    <2>3. /\ Shared(freeList["compute"], ComputeIndices, PoolSize["compute"])
          /\ Shared(freeList["copy"], CopyIndices, PoolSize["copy"])
      <3>1. PoolSize["compute"] \in Nat /\ PoolSize["copy"] \in Nat
        BY ConstantFacts
      <3>2. /\ Shared([i \in 1 .. PoolSize["compute"] |-> i], <<>>, PoolSize["compute"])
            /\ Shared([i \in 1 .. PoolSize["copy"] |-> i], <<>>, PoolSize["copy"])
        BY <3>1, AllFree, Zenon
      <3> QED BY <2>1, <2>2, <3>2
    <2> QED BY <2>1, <2>3 DEF PoolsShared
  <1>3. InLists = {} /\ Queued = {} /\ Unsubmitted = {}
    BY ConstantFacts DEF GpuInit, InLists, Queued, Unsubmitted, EmptyList
  <1>4. \A k : k \notin DOMAIN future
    BY DEF GpuInit
  <1>5. FuturesSound
    BY <1>3, <1>4 DEF FuturesSound, FuturesPending, Stamped, FuturesExact, GpuInit
  <1>6. Placed
    BY <1>3 DEF Placed, GpuInit, EmptyList
  <1>7. SignalsSound
    BY <1>3 DEF SignalsSound
  <1> QED BY <1>1, <1>2, <1>5, <1>6, <1>7 DEF QueueInv

-----------------------------------------------------------------------------
(***************************************************************************)
(* Recording of commands                                                   *)
(***************************************************************************)

\* The command that Record adds.
NewCommand(l, kind, waits, signal) ==
    [id |-> next, kind |-> kind, waits |-> waits, signal |-> signal, after |-> list[CL(l)].floor]

\* What Record does to the lists.
LEMMA RecordFacts ==
    ASSUME QueueTypes, next <= MaxCommands, NEW l \in Lists, NEW kind \in Kinds, NEW waits \in SUBSET Events,
           NEW signal \in Events \cup {NoEvent}, NEW events \in Seq(Events)
    PROVE  /\ CL(l) \in Lists /\ NewCommand(l, kind, waits, signal) \in Command
           /\ Record(l, kind, waits, signal, events) \in [Lists -> ListRecord]
           /\ Record(l, kind, waits, signal, events)[CL(l)].cmds =
                list[CL(l)].cmds \cup {NewCommand(l, kind, waits, signal)}
           /\ \A m \in Lists : m # CL(l) => Record(l, kind, waits, signal, events)[m].cmds = list[m].cmds
           /\ \A m \in Lists : ~list[m].submitted => ~Record(l, kind, waits, signal, events)[m].submitted
  <1> DEFINE c == NewCommand(l, kind, waits, signal)
             k == CL(l)
             r == [cmds |-> list[k].cmds \cup {c}, floor |-> list[k].floor,
                   events |-> list[k].events \o events, submitted |-> FALSE]
  <1>1. k \in Lists
    BY DEF CL, Lists
  <1>2. list[k] \in ListRecord /\ list \in [Lists -> ListRecord]
    BY <1>1 DEF QueueTypes
  <1>3. /\ list[k].cmds \in SUBSET Command /\ list[k].floor \in SUBSET Ids /\ list[k].events \in Seq(Events)
    BY <1>2 DEF ListRecord
  <1>4. next \in Ids
    BY ConstantFacts DEF QueueTypes, Ids
  <1>5. c \in Command
    BY <1>3, <1>4 DEF NewCommand, Command, Kinds, Kernels
  <1>6. list[k].events \o events \in Seq(Events)
    BY <1>3, ConcatFacts
  <1> HIDE DEF k
  <1>7. r \in ListRecord
    BY <1>3, <1>5, <1>6 DEF ListRecord
  <1>8. Record(l, kind, waits, signal, events) = [list EXCEPT ![k] = r]
    BY DEF Record, NewCommand, k
  <1>9. \A m \in Lists : [list EXCEPT ![k] = r][m] = IF m = k THEN r ELSE list[m]
    BY <1>1, <1>2
  <1>10. [list EXCEPT ![k] = r] \in [Lists -> ListRecord]
    BY <1>2, <1>7
  <1> HIDE DEF c
  <1>12. r.cmds = list[k].cmds \cup {c} /\ r.submitted = FALSE
    OBVIOUS
  <1> HIDE DEF r
  <1>13. [list EXCEPT ![k] = r][k].cmds = list[k].cmds \cup {c}
    BY <1>1, <1>9, <1>12
  <1>14. \A m \in Lists : m # k => [list EXCEPT ![k] = r][m].cmds = list[m].cmds
    BY <1>9
  <1>15. ASSUME NEW m \in Lists, ~list[m].submitted PROVE ~[list EXCEPT ![k] = r][m].submitted
    BY <1>9, <1>12, <1>15
  <1> QED BY <1>1, <1>5, <1>8, <1>10, <1>13, <1>14, <1>15 DEF c, k

\* A command is recorded: where commands are, and what they signal.
LEMMA RecordStep ==
    ASSUME QueueTypes, Placed, SignalsSound, host = "record", next <= MaxCommands,
           NEW kind \in Kinds, NEW waits \in SUBSET Events, NEW signal \in Events \cup {NoEvent},
           NEW events \in Seq(Events), NEW c, c = NewCommand(ListOf(kind), kind, waits, signal),
           list' = Record(ListOf(kind), kind, waits, signal, events),
           UNCHANGED <<config, host, queue, ran>>,
           signalled' \subseteq signalled, signal \notin signalled',
           \A d \in Unsubmitted \cup Queued : d.signal = signal => signal = NoEvent,
           \A d \in Unsubmitted \cup Queued : Owns(d) => Owns(d)',
           Owns(c)'
    PROVE  Placed' /\ SignalsSound'
  <1>0. PICK l \in Lists : l = ListOf(kind)
    BY DEF ListOf, Kinds, Kernels, Lists
  <1>1. l \in Lists
    BY <1>0
  <1>2. /\ CL(l) \in Lists
        /\ list'[CL(l)].cmds = list[CL(l)].cmds \cup {c}
        /\ \A m \in Lists : m # CL(l) => list'[m].cmds = list[m].cmds
        /\ \A m \in Lists : ~list[m].submitted => ~list'[m].submitted
    <2> DEFINE r == Record(l, kind, waits, signal, events)
               d == NewCommand(l, kind, waits, signal)
    <2>1. CL(l) \in Lists
      BY <1>1, RecordFacts, Zenon
    <2>2. r[CL(l)].cmds = list[CL(l)].cmds \cup {d}
      BY <1>1, RecordFacts
    <2>3. ASSUME NEW m \in Lists, m # CL(l) PROVE r[m].cmds = list[m].cmds
      <3>1. r[m] = list[m]
        BY <2>1, <2>3 DEF Record, QueueTypes
      <3> QED BY <3>1
    <2>4. \A m \in Lists : ~list[m].submitted => ~r[m].submitted
      BY <1>1, RecordFacts, Zenon
    <2>5. r = list' /\ d = c
      BY <1>0
    <2> HIDE DEF r, d
    <2> QED BY <2>1, <2>2, <2>3, <2>4, <2>5
  <1>3. c.kind = kind /\ c.signal = signal
    BY DEF NewCommand
  <1>4. InLists' = InLists \cup {c}
    <2>1. \A x : x \in InLists' <=> \E m \in Lists : x \in list'[m].cmds
      BY DEF InLists
    <2>2. \A x : x \in InLists <=> \E m \in Lists : x \in list[m].cmds
      BY DEF InLists
    <2>3. \A x : x \in InLists' <=> x \in InLists \cup {c}
      BY <2>1, <2>2, <1>2
    <2> QED BY <2>3
  <1>5. Queued' = Queued /\ Unsubmitted = InLists /\ Unsubmitted' = InLists \cup {c} /\ host' = "record"
    BY <1>4 DEF Queued, Unsubmitted
  <1>6. \A x : CL(x)' = CL(x) /\ Q(x)' = Q(x)
    BY DEF CL, Q
  <1>7. Placed'
    <2>1. \A m \in Lists : ~list'[m].submitted
      BY <1>2 DEF Placed
    <2>2. \A d \in Queued' : d.kind \notin Kernels
      BY <1>5 DEF Placed
    <2>3. ASSUME NEW m \in Lists, NEW d \in list'[m].cmds PROVE m = CL(ListOf(d.kind))'
      <3>1. CASE d \in list[m].cmds
        BY <3>1, <1>6 DEF Placed, ListOf
      <3>2. CASE d \notin list[m].cmds
        <4>1. m = CL(l) /\ d = c
          BY <1>2, <3>2
        <4>2. ListOf(d.kind) = l
          BY <4>1, <1>3, <1>0
        <4> QED BY <4>1, <4>2, <1>6
      <3> QED BY <3>1, <3>2
    <2>4. \A q \in Pools : \A d \in queue'[q] : q = Q(ListOf(d.kind))'
      BY <1>6 DEF Placed, ListOf
    <2> QED BY <2>1, <2>2, <2>3, <2>4, <1>5 DEF Placed
  <1>8. SignalsSound'
    <2>1. \A d \in Unsubmitted \cup Queued : d.signal \notin signalled
      BY DEF SignalsSound
    <2>2. \A d \in Unsubmitted' \cup Queued' : d.signal \notin signalled'
      BY <2>1, <1>3, <1>5
    <2>3. \A d \in Unsubmitted \cup Queued : Owns(d)
      BY DEF SignalsSound
    <2>4. \A d \in Unsubmitted' \cup Queued' : Owns(d)'
      BY <2>3, <1>5
    <2>5. \A d, e \in Unsubmitted' : d.signal = e.signal => d.signal = NoEvent \/ d = e
      <3>1. \A d, e \in Unsubmitted : d.signal = e.signal => d.signal = NoEvent \/ d = e
        BY DEF SignalsSound
      <3> QED BY <3>1, <1>3, <1>5
    <2>6. \A d, e \in Queued' : d.signal = e.signal => d.signal = NoEvent \/ d = e
      BY <1>5 DEF SignalsSound
    <2>7. \A d \in Unsubmitted', e \in Queued' : d.signal = e.signal => d.signal = NoEvent
      <3>1. \A d \in Unsubmitted, e \in Queued : d.signal = e.signal => d.signal = NoEvent
        BY DEF SignalsSound
      <3> QED BY <3>1, <1>3, <1>5
    <2> QED BY <2>2, <2>4, <2>5, <2>6, <2>7 DEF SignalsSound
  <1> QED BY <1>7, <1>8

\* Nothing is recorded: commands stay, and no event is signalled.
LEMMA CommandsStay ==
    ASSUME Placed, SignalsSound, host = "record", UNCHANGED <<config, host, queue, ran>>,
           \A l \in Lists : list'[l].cmds = list[l].cmds /\ (~list[l].submitted => ~list'[l].submitted),
           signalled' \subseteq signalled,
           \A d \in Unsubmitted \cup Queued : Owns(d) => Owns(d)'
    PROVE  Placed' /\ SignalsSound'
  <1>0. InLists' = InLists
    BY DEF InLists
  <1>1. Queued' = Queued /\ InLists' = InLists /\ Unsubmitted' = Unsubmitted
    BY <1>0 DEF Queued, Unsubmitted
  <1>2. \A x : CL(x)' = CL(x) /\ Q(x)' = Q(x)
    BY DEF CL, Q
  <1>3. Placed'
    <2>1. \A l \in Lists : ~list'[l].submitted
      BY DEF Placed
    <2>2. \A l \in Lists : \A c \in list'[l].cmds : l = CL(ListOf(c.kind))'
      BY <1>2 DEF Placed, ListOf
    <2>3. \A q \in Pools : \A c \in queue'[q] : q = Q(ListOf(c.kind))'
      BY <1>2 DEF Placed, ListOf
    <2>4. \A c \in Queued' : c.kind \notin Kernels
      BY <1>1 DEF Placed
    <2> QED BY <2>1, <2>2, <2>3, <2>4 DEF Placed
  <1>4. \A d \in Unsubmitted' \cup Queued' : d.signal \notin signalled' /\ Owns(d)'
    BY <1>1 DEF SignalsSound
  <1>5. SignalsSound'
    BY <1>1, <1>4 DEF SignalsSound
  <1> QED BY <1>3, <1>5

\* Steps that leave the pools alone.
LEMMA PoolsStay ==
    ASSUME PoolsShared, UNCHANGED <<freeList, events_pool, events_compute_list>>, host' = "failed" \/ host # "failed"
    PROVE  PoolsShared'
  <1>1. ComputeIndices' = ComputeIndices /\ CopyIndices' = CopyIndices
    BY DEF ComputeIndices, CopyIndices
  <1>2. \A i \in 1 .. Len(events_pool)' : events_pool'[i][1] = "copy"
    BY DEF PoolsShared
  <1>3. \A i \in 1 .. Len(events_compute_list)' : events_compute_list'[i][1][1] = "compute"
    BY DEF PoolsShared
  <1>4. ASSUME host' # "failed"
        PROVE  /\ Shared(freeList'["compute"], ComputeIndices', PoolSize["compute"])
               /\ Shared(freeList'["copy"], CopyIndices', PoolSize["copy"])
    <2>1. CASE host = "failed"
      BY <1>4, <2>1
    <2>2. CASE host # "failed"
      <3>1. freeList' = freeList
        OBVIOUS
      <3> QED BY <1>1, <2>2, <3>1 DEF PoolsShared
    <2> QED BY <2>1, <2>2
  <1> QED BY <1>2, <1>3, <1>4 DEF PoolsShared

\* Steps of the recording host that leave the kernels' events alone.
LEMMA FuturesStay ==
    ASSUME QueueTypes, FuturesSound, host = "record", next' \in {next, next + 1},
           UNCHANGED <<host, events_compute_list, future, stamp, taken>>,
           \A i \in 1 .. Len(events_compute_list) :
             events_compute_list[i][1] \in signalled' => events_compute_list[i][1] \in signalled
    PROVE  FuturesSound'
  <1>1. FuturesPending'
    <2>1. FuturesPending
      BY DEF FuturesSound
    <2>2. \A i \in 1 .. Len(events_compute_list) : events_compute_list[i][2] \in Int
      BY DEF QueueTypes, Ids
    <2>3. next \in Int
      BY DEF QueueTypes
    <2>4. \A i \in 1 .. Len(events_compute_list) : events_compute_list[i][2] < next => events_compute_list[i][2] < next'
      BY <2>2, <2>3
    <2> QED BY <2>1, <2>4 DEF FuturesPending
  <1>2. Stamped'
    BY DEF FuturesSound, Stamped
  <1>3. FuturesExact'
    BY DEF FuturesSound, FuturesExact
  <1> QED BY <1>1, <1>2, <1>3 DEF FuturesSound

\* What commands wait for are events.
LEMMA WaitsFacts ==
    ASSUME QueueTypes
    PROVE  /\ {p[1] : p \in ToSet(events_compute_list)} \in SUBSET Events
           /\ \A l \in Lists : ToSet(list[l].events) \in SUBSET Events
  <1>1. ASSUME NEW p \in ToSet(events_compute_list) PROVE p[1] \in Events
    <2>1. p \in Events \X Ids
      BY DEF QueueTypes, ToSet
    <2> QED BY <2>1
  <1>2. ASSUME NEW l \in Lists PROVE ToSet(list[l].events) \in SUBSET Events
    <2>1. list[l].events \in Seq(Events)
      BY DEF QueueTypes, ListRecord
    <2> QED BY <2>1 DEF ToSet
  <1> QED BY <1>1, <1>2

\* A copy to the host is recorded.
LEMMA CopyToHostStep ==
    ASSUME QueueInv, CopyToHost
    PROVE  QueueInv'
  <1>1. QueueTypes /\ PoolsShared /\ FuturesSound /\ Placed /\ SignalsSound
    BY DEF QueueInv
  <1>2. PICK waits : waits = {p[1] : p \in ToSet(events_compute_list)}
    OBVIOUS
  <1>3. waits \in SUBSET Events
    BY <1>1, <1>2, WaitsFacts
  <1>4. /\ host = "record" /\ next <= MaxCommands /\ next' = next + 1
        /\ list' = Record("d2h", "d2h", waits, NoEvent, <<>>)
        /\ UNCHANGED <<config, freeList, events_pool, events_compute_list, future, host, failures>>
        /\ UNCHANGED <<queue, signalled, stamp, taken, clock, ran>>
    BY <1>2 DEF CopyToHost, Recording, deviceVars
  <1>5. "d2h" \in Kinds /\ ListOf("d2h") = "d2h" /\ "d2h" \in Lists /\ NoEvent \in Events \cup {NoEvent} /\ <<>> \in Seq(Events)
    BY DEF Kinds, Kernels, ListOf, Lists
  <1>6. list' \in [Lists -> ListRecord]
    BY <1>1, <1>3, <1>4, <1>5, RecordFacts
  <1>7. QueueTypes'
    BY <1>1, <1>4, <1>6, ConstantFacts DEF QueueTypes
  <1>8. PICK c : c = NewCommand("d2h", "d2h", waits, NoEvent)
    OBVIOUS
  <1>9. c.kind = "d2h" /\ c.signal = NoEvent
    BY <1>8 DEF NewCommand
  <1>10. Owns(c)'
    BY <1>9 DEF Owns, Kernels
  <1>11. \A d : Owns(d) => Owns(d)'
    BY <1>4 DEF Owns
  <1>12. NoEvent \notin signalled' /\ signalled' \subseteq signalled
    BY <1>1, <1>4, EventFacts DEF QueueTypes
  <1>13. Placed' /\ SignalsSound'
    BY <1>1, <1>3, <1>4, <1>5, <1>8, <1>10, <1>11, <1>12, RecordStep
  <1>14. PoolsShared'
    BY <1>1, <1>4, PoolsStay
  <1>15. FuturesSound'
    BY <1>1, <1>4, FuturesStay
  <1> QED BY <1>7, <1>13, <1>14, <1>15 DEF QueueInv

\* A sequence over a set is one over a larger set.
LEMMA SeqWiden ==
    ASSUME NEW M, NEW N, M \subseteq N, NEW s \in Seq(M)
    PROVE  s \in Seq(N)
  <1>1. Len(s) \in Nat /\ s = [i \in 1 .. Len(s) |-> s[i]] /\ \A i \in 1 .. Len(s) : s[i] \in N
    OBVIOUS
  <1>2. [i \in 1 .. Len(s) |-> s[i]] \in Seq(N)
    BY <1>1
  <1> QED BY <1>1, <1>2

\* The kinds of commands.
LEMMA KindFacts ==
    ASSUME QueueTypes, NEW d \in Unsubmitted \cup Queued
    PROVE  d \in Command /\ (d.kind = "h2d" \/ d.kind = "d2h" \/ d.kind \in Kernels)
  <1>1. d \in Command
    <2>1. CASE d \in Queued
      BY <2>1, ConstantFacts DEF Queued, QueueTypes
    <2>2. CASE d \in InLists
      <3>1. PICK l \in Lists : d \in list[l].cmds
        BY <2>2 DEF InLists
      <3> QED BY <3>1 DEF QueueTypes, ListRecord
    <2> QED BY <2>1, <2>2 DEF Unsubmitted
  <1>2. d.kind \in {"h2d", "d2h", "kernel", "copy"}
    BY <1>1 DEF Command
  <1> QED BY <1>1, <1>2 DEF Kernels

\* The next free event of a pool: no command signals it.
LEMMA FreeEventFresh ==
    ASSUME QueueInv, host = "record", NEW p \in Pools, freeList[p] # <<>>, NEW e, e = <<p, Head(freeList[p])>>,
           NEW d \in Unsubmitted \cup Queued
    PROVE  e \in Events /\ d.signal # e
  <1>1. QueueTypes /\ PoolsShared /\ SignalsSound
    BY DEF QueueInv
  <1>2. Owns(d)
    BY <1>1 DEF SignalsSound
  <1>3. freeList[p] \in Seq(1 .. PoolSize[p])
    BY <1>1 DEF QueueTypes
  <1>4. Len(freeList[p]) >= 1 /\ Len(freeList[p]) \in Nat /\ Head(freeList[p]) = freeList[p][1] /\ freeList[p][1] \in 1 .. PoolSize[p]
    BY <1>3, TailFacts, Zenon
  <1>5. e \in Events
    BY <1>4, EventFacts
  <1>6. 1 \in 1 .. Len(freeList[p])
    BY <1>4
  <1>7. SUFFICES ASSUME d.signal = e PROVE FALSE
    BY <1>5
  <1>8. CASE d.kind = "h2d"
    <2>1. PICK i \in 1 .. Len(events_pool) : events_pool[i] = e
      BY <1>2, <1>7, <1>8 DEF Owns
    <2>2. p = "copy" /\ events_pool[i][2] = Head(freeList[p])
      BY <2>1, <1>1 DEF PoolsShared
    <2>3. Shared(freeList["copy"], CopyIndices, PoolSize["copy"])
      BY <1>1 DEF PoolsShared
    <2>4. Len(CopyIndices) = Len(events_pool) /\ CopyIndices[i] = events_pool[i][2]
      BY <1>1 DEF CopyIndices, QueueTypes
    <2>5. freeList["copy"][1] # CopyIndices[i]
      BY <2>1, <2>2, <2>3, <2>4, <1>6 DEF Shared
    <2> QED BY <2>2, <2>4, <2>5, <1>4
  <1>9. CASE d.kind = "d2h"
    BY <1>2, <1>5, <1>7, <1>9, EventFacts DEF Owns
  <1>10. CASE d.kind \in Kernels
    <2>1. PICK i \in 1 .. Len(events_compute_list) : events_compute_list[i] = <<e, d.id>>
      BY <1>2, <1>7, <1>10 DEF Owns
    <2>2. events_compute_list[i][1] = e
      BY <2>1
    <2>3. p = "compute" /\ events_compute_list[i][1][2] = Head(freeList[p])
      BY <2>1, <2>2, <1>1 DEF PoolsShared
    <2>4. Shared(freeList["compute"], ComputeIndices, PoolSize["compute"])
      BY <1>1 DEF PoolsShared
    <2>5. Len(ComputeIndices) = Len(events_compute_list) /\ ComputeIndices[i] = events_compute_list[i][1][2]
      BY <1>1 DEF ComputeIndices, QueueTypes
    <2>6. freeList["compute"][1] # ComputeIndices[i]
      BY <2>1, <2>3, <2>4, <2>5, <1>6 DEF Shared
    <2> QED BY <2>3, <2>5, <2>6, <1>4
  <1> QED BY <1>1, <1>8, <1>9, <1>10, KindFacts

\* getEvent: the event of a copy is in the pool's list and no other command
\* signals it.
LEMMA GetEventFacts ==
    ASSUME QueueInv, host = "record", GetEventAvailable, NEW e, e = GetEvent,
           IF ReadyEvents # {} THEN UNCHANGED <<freeList, events_pool>>
           ELSE PopEvent("copy") /\ events_pool' = Append(events_pool, e),
           UNCHANGED <<host, events_compute_list>>
    PROVE  /\ e \in Events /\ \A d \in Unsubmitted \cup Queued : d.signal # e
           /\ PoolsShared' /\ events_pool' \in Seq(Events)
           /\ freeList' \in [Pools -> Seq(Nat)] /\ \A p \in Pools : freeList'[p] \in Seq(1 .. PoolSize[p])
           /\ \A i \in 1 .. Len(events_pool) : i \in 1 .. Len(events_pool') /\ events_pool'[i] = events_pool[i]
           /\ \E i \in 1 .. Len(events_pool') : events_pool'[i] = e
  <1>1. QueueTypes /\ PoolsShared /\ SignalsSound
    BY DEF QueueInv
  <1>2. events_pool \in Seq(Events) /\ Len(events_pool) \in Nat
    BY <1>1 DEF QueueTypes
  <1>3. CASE ReadyEvents # {}
    <2>1. ReadyEvents \in SUBSET Nat
      BY <1>2 DEF ReadyEvents
    <2>2. Min(ReadyEvents) \in ReadyEvents
      BY <2>1, <1>3, MinFacts
    <2>3. Min(ReadyEvents) \in 1 .. Len(events_pool) /\ e = events_pool[Min(ReadyEvents)] /\ e \in signalled
      BY <1>2, <1>3, <2>2 DEF ReadyEvents, GetEvent
    <2>4. e \in Events
      BY <2>3, <1>2
    <2>5. \A d \in Unsubmitted \cup Queued : d.signal # e
      BY <2>3, <1>1 DEF SignalsSound
    <2>6. UNCHANGED <<freeList, events_pool>>
      BY <1>3
    <2>7. PoolsShared'
      BY <2>6, <1>1, PoolsStay
    <2> QED BY <2>3, <2>4, <2>5, <2>6, <2>7, <1>1 DEF QueueTypes
  <1>4. CASE ReadyEvents = {}
    <2>1. freeList["copy"] # <<>> /\ e = <<"copy", Head(freeList["copy"])>>
      BY <1>4 DEF GetEventAvailable, GetEvent
    <2> DEFINE f == freeList["copy"]
               n == PoolSize["copy"]
               m == Len(events_pool)
    <2>2. f \in Seq(1 .. n) /\ n \in Nat
      BY <1>1, ConstantFacts DEF QueueTypes
    <2>3. /\ Head(f) = f[1] /\ f[1] \in 1 .. n /\ Tail(f) \in Seq(1 .. n)
      BY <2>1, <2>2, TailFacts, Zenon
    <2>4. e \in Events /\ e[1] = "copy" /\ e[2] = Head(f)
      BY <2>1, <2>3, ConstantFacts, EventFacts
    <2>5. \A d \in Unsubmitted \cup Queued : d.signal # e
      BY <2>1, FreeEventFresh, ConstantFacts
    <2>6. events_pool' = Append(events_pool, e) /\ freeList' = [freeList EXCEPT !["copy"] = Tail(f)]
      BY <1>4 DEF PopEvent
    <2>7. /\ events_pool' \in Seq(Events) /\ Len(events_pool') = m + 1 /\ m \in Nat
          /\ \A i \in 1 .. m : events_pool'[i] = events_pool[i]
          /\ events_pool'[m + 1] = e
      BY <1>2, <2>4, <2>6, AppendFacts
    <2>8. \A i \in 1 .. m : i \in 1 .. m + 1
      BY <2>7
    <2>9. m + 1 \in 1 .. m + 1 /\ \A i \in 1 .. m + 1 : i \in 1 .. m \/ i = m + 1
      BY <2>7
    <2>10. freeList \in [Pools -> Seq(Nat)] /\ Tail(f) \in Seq(Nat) /\ \A p \in Pools : freeList[p] \in Seq(1 .. PoolSize[p])
      <3>1. 1 .. n \subseteq Nat
        BY <2>2
      <3>2. Tail(f) \in Seq(Nat)
        BY <2>3, <3>1, SeqWiden
      <3> QED BY <1>1, <3>2 DEF QueueTypes
    <2>11. freeList' \in [Pools -> Seq(Nat)]
      BY <2>6, <2>10
    <2>12. freeList'["copy"] = Tail(f) /\ freeList'["compute"] = freeList["compute"]
      BY <2>6, <2>10, ConstantFacts
    <2>13. \A p \in Pools : freeList'[p] \in Seq(1 .. PoolSize[p])
      BY <2>3, <2>10, <2>12, ConstantFacts
    <2>14. Shared(f, CopyIndices, n) /\ Shared(freeList["compute"], ComputeIndices, PoolSize["compute"])
      BY <1>1 DEF PoolsShared
    <2>15. Shared(Tail(f), Append(CopyIndices, Head(f)), n)
      BY <2>1, <2>2, <2>14, IndexTaken, Zenon
    <2>16. CopyIndices' = Append(CopyIndices, Head(f))
      <3>1. \A i \in 1 .. m : events_pool[i] \in Events /\ events_pool[i][2] \in Nat
        BY <1>2, EventFacts, GpuQueueAssumption
      <3>2. CopyIndices \in Seq(Nat) /\ Len(CopyIndices) = m /\ \A i \in 1 .. m : CopyIndices[i] = events_pool[i][2]
        BY <3>1, <1>2 DEF CopyIndices
      <3>3. /\ Len(Append(CopyIndices, Head(f))) = m + 1 /\ Append(CopyIndices, Head(f)) \in Seq(Nat)
            /\ \A i \in 1 .. m : Append(CopyIndices, Head(f))[i] = events_pool[i][2]
            /\ Append(CopyIndices, Head(f))[m + 1] = Head(f)
        BY <3>2, <2>3, AppendFacts
      <3>4. CopyIndices' = [i \in 1 .. m + 1 |-> events_pool'[i][2]]
        BY <2>7 DEF CopyIndices
      <3>5. \A i \in 1 .. m + 1 : events_pool'[i][2] = Append(CopyIndices, Head(f))[i]
        BY <2>4, <2>7, <2>9, <3>3
      <3>6. Append(CopyIndices, Head(f)) = [i \in 1 .. m + 1 |-> Append(CopyIndices, Head(f))[i]]
        BY <3>3
      <3> QED BY <3>4, <3>5, <3>6
    <2>17. ComputeIndices' = ComputeIndices
      BY DEF ComputeIndices
    <2>18. \A i \in 1 .. m + 1 : events_pool'[i][1] = "copy"
      BY <1>1, <2>4, <2>7, <2>9 DEF PoolsShared
    <2>19. \A i \in 1 .. Len(events_compute_list)' : events_compute_list'[i][1][1] = "compute"
      BY <1>1 DEF PoolsShared
    <2> HIDE DEF f, n, m
    <2>20. Shared(freeList'["copy"], CopyIndices', PoolSize["copy"])
      BY <2>12, <2>15, <2>16 DEF n
    <2>21. Shared(freeList'["compute"], ComputeIndices', PoolSize["compute"])
      BY <2>12, <2>14, <2>17
    <2>22. PoolsShared'
      BY <2>7, <2>18, <2>19, <2>20, <2>21 DEF PoolsShared
    <2>23. \A i \in 1 .. Len(events_pool) : i \in 1 .. Len(events_pool') /\ events_pool'[i] = events_pool[i]
      BY <2>7, <2>8 DEF m
    <2>24. \E i \in 1 .. Len(events_pool') : events_pool'[i] = e
      BY <2>7, <2>9
    <2> QED BY <2>4, <2>5, <2>7, <2>11, <2>13, <2>22, <2>23, <2>24
  <1> QED BY <1>3, <1>4

\* A copy to the device is recorded, or fails after it has taken its event.
LEMMA CopyToDeviceStep ==
    ASSUME QueueInv, NEW fails \in BOOLEAN, CopyToDevice(fails)
    PROVE  QueueInv'
  <1>1. QueueTypes /\ PoolsShared /\ FuturesSound /\ Placed /\ SignalsSound
    BY DEF QueueInv
  <1>2. PICK e : e = GetEvent
    OBVIOUS
  <1>3. /\ host = "record" /\ next <= MaxCommands /\ GetEventAvailable
        /\ signalled' = signalled \ {e}
        /\ IF ReadyEvents # {} THEN UNCHANGED <<freeList, events_pool>>
           ELSE PopEvent("copy") /\ events_pool' = Append(events_pool, e)
        /\ UNCHANGED <<config, events_compute_list, future, host, queue, stamp, taken, clock, ran>>
    BY <1>2 DEF CopyToDevice, Recording, GetEventReset
  <1>4. \/ fails /\ failures < MaxFailures /\ failures' = failures + 1 /\ UNCHANGED <<list, next>>
        \/ ~fails /\ list' = Record("h2d", "h2d", {}, e, <<e>>) /\ next' = next + 1 /\ UNCHANGED failures
    BY <1>2 DEF CopyToDevice
  <1>5. /\ e \in Events /\ \A d \in Unsubmitted \cup Queued : d.signal # e
        /\ PoolsShared' /\ events_pool' \in Seq(Events)
        /\ freeList' \in [Pools -> Seq(Nat)] /\ \A p \in Pools : freeList'[p] \in Seq(1 .. PoolSize[p])
        /\ \A i \in 1 .. Len(events_pool) : i \in 1 .. Len(events_pool') /\ events_pool'[i] = events_pool[i]
        /\ \E i \in 1 .. Len(events_pool') : events_pool'[i] = e
    BY <1>2, <1>3, GetEventFacts
  <1>6. \A d : Owns(d) => Owns(d)'
    BY <1>3, <1>5 DEF Owns
  <1>7. signalled' \subseteq signalled /\ e \notin signalled' /\ signalled' \subseteq Events
    BY <1>1, <1>3 DEF QueueTypes
  <1>8. "h2d" \in Kinds /\ ListOf("h2d") = "h2d" /\ "h2d" \in Lists /\ e \in Events \cup {NoEvent} /\ <<e>> \in Seq(Events) /\ {} \in SUBSET Events
    BY <1>5 DEF Kinds, Kernels, ListOf, Lists
  <1>9. next' \in {next, next + 1}
    BY <1>4
  <1>10. FuturesSound'
    BY <1>1, <1>3, <1>7, <1>9, FuturesStay
  <1>11. CASE fails
    <2>1. failures < MaxFailures /\ failures' = failures + 1 /\ UNCHANGED <<list, next>>
      BY <1>4, <1>11
    <2>2. failures' \in 0 .. MaxFailures
      BY <2>1, <1>1, ConstantFacts DEF QueueTypes
    <2>3. QueueTypes'
      BY <2>1, <2>2, <1>1, <1>3, <1>5, <1>7 DEF QueueTypes
    <2>4. Placed' /\ SignalsSound'
      BY <2>1, <1>1, <1>3, <1>6, <1>7, CommandsStay
    <2> QED BY <2>3, <2>4, <1>5, <1>10 DEF QueueInv
  <1>12. CASE ~fails
    <2>1. list' = Record("h2d", "h2d", {}, e, <<e>>) /\ next' = next + 1 /\ UNCHANGED failures
      BY <1>4, <1>12
    <2>2. list' \in [Lists -> ListRecord]
      BY <2>1, <1>1, <1>3, <1>8, RecordFacts
    <2>3. next' \in 1 .. MaxCommands + 1
      BY <2>1, <1>1, <1>3, ConstantFacts DEF QueueTypes
    <2>4. QueueTypes'
      BY <2>1, <2>2, <2>3, <1>1, <1>3, <1>5, <1>7 DEF QueueTypes
    <2>5. PICK c : c = NewCommand("h2d", "h2d", {}, e)
      OBVIOUS
    <2>6. c.kind = "h2d" /\ c.signal = e
      BY <2>5 DEF NewCommand
    <2>7. Owns(c)'
      BY <2>6, <1>5 DEF Owns, Kernels
    <2>8. Placed' /\ SignalsSound'
      BY <2>1, <2>5, <2>7, <1>1, <1>3, <1>5, <1>6, <1>7, <1>8, RecordStep
    <2> QED BY <2>4, <2>8, <1>5, <1>10 DEF QueueInv
  <1> QED BY <1>11, <1>12

\* The compute list of events with one more event at its end.
LEMMA ComputeAppended ==
    ASSUME QueueTypes, NEW e \in Events, NEW k \in Ids, e[2] \in Nat, NEW n, n = Len(events_compute_list),
           events_compute_list' = Append(events_compute_list, <<e, k>>)
    PROVE  /\ events_compute_list' \in Seq(Events \X Ids) /\ n \in Nat /\ Len(events_compute_list') = n + 1
           /\ \A i \in 1 .. n : events_compute_list'[i] = events_compute_list[i]
           /\ events_compute_list'[n + 1] = <<e, k>>
           /\ n + 1 \in 1 .. n + 1 /\ \A i \in 1 .. n + 1 : i \in 1 .. n \/ i = n + 1
           /\ \A i \in 1 .. n : i \in 1 .. n + 1
           /\ ComputeIndices' = Append(ComputeIndices, e[2])
  <1>1. events_compute_list \in Seq(Events \X Ids) /\ n \in Nat /\ <<e, k>> \in Events \X Ids
    BY DEF QueueTypes
  <1>2. /\ events_compute_list' \in Seq(Events \X Ids) /\ n \in Nat /\ Len(events_compute_list') = n + 1
        /\ \A i \in 1 .. n : events_compute_list'[i] = events_compute_list[i]
        /\ events_compute_list'[n + 1] = <<e, k>>
    BY <1>1, AppendFacts
  <1>3. n + 1 \in 1 .. n + 1 /\ \A i \in 1 .. n + 1 : i \in 1 .. n \/ i = n + 1
    BY <1>1
  <1>4. \A i \in 1 .. n : i \in 1 .. n + 1
    BY <1>1
  <1>5. \A i \in 1 .. n : events_compute_list[i][1] \in Events
    BY <1>1
  <1>6. \A x \in Events : x[2] \in Nat
    BY EventFacts, GpuQueueAssumption
  <1>7. ComputeIndices \in Seq(Nat) /\ Len(ComputeIndices) = n /\ \A i \in 1 .. n : ComputeIndices[i] = events_compute_list[i][1][2]
    BY <1>1, <1>5, <1>6 DEF ComputeIndices
  <1>8. /\ Len(Append(ComputeIndices, e[2])) = n + 1 /\ Append(ComputeIndices, e[2]) \in Seq(Nat)
        /\ \A i \in 1 .. n : Append(ComputeIndices, e[2])[i] = events_compute_list[i][1][2]
        /\ Append(ComputeIndices, e[2])[n + 1] = e[2]
    BY <1>7, AppendFacts
  <1>9. ComputeIndices' = [i \in 1 .. n + 1 |-> events_compute_list'[i][1][2]]
    BY <1>2 DEF ComputeIndices
  <1>10. \A i \in 1 .. n + 1 : events_compute_list'[i][1][2] = Append(ComputeIndices, e[2])[i]
    BY <1>2, <1>3, <1>8
  <1>11. Append(ComputeIndices, e[2]) = [i \in 1 .. n + 1 |-> Append(ComputeIndices, e[2])[i]]
    BY <1>8
  <1>12. ComputeIndices' = Append(ComputeIndices, e[2])
    BY <1>9, <1>10, <1>11
  <1> QED BY <1>2, <1>3, <1>4, <1>12

\* A kernel or a copy between views is recorded, or fails and returns its event.
LEMMA RecordComputeStep ==
    ASSUME QueueInv, NEW fails \in BOOLEAN, NEW kind \in Kernels, NEW waits \in SUBSET Events,
           RecordCompute(kind, waits, fails)
    PROVE  QueueInv'
  <1> DEFINE f == freeList["compute"]
             n == PoolSize["compute"]
             m == Len(events_compute_list)
  <1>1. QueueTypes /\ PoolsShared /\ FuturesSound /\ Placed /\ SignalsSound
    BY DEF QueueInv
  <1>2. PICK e : e = <<"compute", Head(f)>>
    OBVIOUS
  <1>3. /\ host = "record" /\ next <= MaxCommands /\ f # <<>>
        /\ UNCHANGED <<config, events_pool, host, queue, stamp, taken, clock, ran>>
    BY DEF RecordCompute, Recording
  <1>4. \/ /\ fails /\ failures < MaxFailures /\ failures' = failures + 1
           /\ freeList' = [freeList EXCEPT !["compute"] = DeleteEvents(Tail(f), <<e>>)]
           /\ UNCHANGED <<list, events_compute_list, future, next, signalled>>
        \/ /\ ~fails /\ freeList' = [freeList EXCEPT !["compute"] = Tail(f)]
           /\ signalled' = signalled \ {e}
           /\ list' = Record("compute", kind, waits, e, <<>>)
           /\ events_compute_list' = Append(events_compute_list, <<e, next>>)
           /\ future' = Extended(future, next, [valid |-> FALSE, time |-> 0])
           /\ next' = next + 1
           /\ UNCHANGED failures
    BY <1>2 DEF RecordCompute, CreateEvent
  <1>5. f \in Seq(1 .. n) /\ n \in Nat /\ 1 .. n \subseteq Nat
    BY <1>1, ConstantFacts DEF QueueTypes
  <1>6. Head(f) = f[1] /\ f[1] \in 1 .. n /\ Tail(f) \in Seq(1 .. n)
    BY <1>3, <1>5, TailFacts, Zenon
  <1>7. e \in Events /\ e[1] = "compute" /\ e[2] = Head(f) /\ e[2] \in Nat
    BY <1>2, <1>5, <1>6, ConstantFacts, EventFacts
  <1>8. \A d \in Unsubmitted \cup Queued : d.signal # e
    BY <1>2, <1>3, FreeEventFresh, ConstantFacts
  <1>9. freeList \in [Pools -> Seq(Nat)] /\ \A p \in Pools : freeList[p] \in Seq(1 .. PoolSize[p])
    BY <1>1 DEF QueueTypes
  <1>10. Shared(f, ComputeIndices, n) /\ Shared(freeList["copy"], CopyIndices, PoolSize["copy"])
    BY <1>1, <1>3 DEF PoolsShared
  <1>11. CopyIndices' = CopyIndices
    BY <1>3 DEF CopyIndices
  <1>12. \A i \in 1 .. Len(events_pool)' : events_pool'[i][1] = "copy"
    BY <1>1, <1>3 DEF PoolsShared
  <1>13. ASSUME NEW g, g \in Seq(1 .. n), freeList' = [freeList EXCEPT !["compute"] = g]
         PROVE  /\ freeList' \in [Pools -> Seq(Nat)] /\ \A p \in Pools : freeList'[p] \in Seq(1 .. PoolSize[p])
                /\ freeList'["compute"] = g /\ freeList'["copy"] = freeList["copy"]
    <2>1. g \in Seq(Nat)
      BY <1>5, <1>13, SeqWiden
    <2>2. freeList' \in [Pools -> Seq(Nat)]
      BY <2>1, <1>9, <1>13
    <2>3. freeList'["compute"] = g /\ freeList'["copy"] = freeList["copy"]
      BY <1>9, <1>13, ConstantFacts
    <2> QED BY <2>2, <2>3, <1>9, <1>13, ConstantFacts
  <1>14. CASE fails
    <2> DEFINE g == Tail(f) \o <<Head(f)>>
    <2>1. /\ failures < MaxFailures /\ failures' = failures + 1
          /\ freeList' = [freeList EXCEPT !["compute"] = DeleteEvents(Tail(f), <<e>>)]
          /\ UNCHANGED <<list, events_compute_list, future, next, signalled>>
      BY <1>4, <1>14
    <2>2. DeleteEvents(Tail(f), <<e>>) = g
      <3>1. [i \in DOMAIN <<e>> |-> <<e>>[i][2]] = <<e[2]>>
        OBVIOUS
      <3> QED BY <3>1, <1>7 DEF DeleteEvents
    <2>3. Shared(g, ComputeIndices, n)
      BY <1>3, <1>5, <1>10, IndexRotated, Zenon
    <2> HIDE DEF g
    <2>4. g \in Seq(1 .. n)
      BY <2>3 DEF Shared
    <2>5. /\ freeList' \in [Pools -> Seq(Nat)] /\ \A p \in Pools : freeList'[p] \in Seq(1 .. PoolSize[p])
          /\ freeList'["compute"] = g /\ freeList'["copy"] = freeList["copy"]
      BY <2>1, <2>2, <2>4, <1>13
    <2>6. failures' \in 0 .. MaxFailures
      BY <2>1, <1>1, ConstantFacts DEF QueueTypes
    <2>7. QueueTypes'
      BY <2>1, <2>5, <2>6, <1>1, <1>3 DEF QueueTypes
    <2>8. \A d : Owns(d) => Owns(d)'
      BY <2>1, <1>3 DEF Owns
    <2>9. Placed' /\ SignalsSound'
      BY <2>1, <2>8, <1>1, <1>3, CommandsStay
    <2>10. FuturesSound'
      BY <2>1, <1>1, <1>3, FuturesStay
    <2>11. ComputeIndices' = ComputeIndices
      BY <2>1 DEF ComputeIndices
    <2>12. \A i \in 1 .. Len(events_compute_list)' : events_compute_list'[i][1][1] = "compute"
      BY <2>1, <1>1 DEF PoolsShared
    <2>13. Shared(freeList'["compute"], ComputeIndices', PoolSize["compute"])
      BY <2>3, <2>5, <2>11
    <2>14. Shared(freeList'["copy"], CopyIndices', PoolSize["copy"])
      BY <2>5, <1>10, <1>11
    <2>15. PoolsShared'
      BY <2>12, <2>13, <2>14, <1>12 DEF PoolsShared
    <2> QED BY <2>7, <2>9, <2>10, <2>15 DEF QueueInv
  <1>15. CASE ~fails
    <2>1. /\ freeList' = [freeList EXCEPT !["compute"] = Tail(f)]
          /\ signalled' = signalled \ {e}
          /\ list' = Record("compute", kind, waits, e, <<>>)
          /\ events_compute_list' = Append(events_compute_list, <<e, next>>)
          /\ future' = Extended(future, next, [valid |-> FALSE, time |-> 0])
          /\ next' = next + 1
          /\ UNCHANGED failures
      BY <1>4, <1>15
    <2>2. kind \in Kinds /\ ListOf(kind) = "compute" /\ "compute" \in Lists /\ e \in Events \cup {NoEvent} /\ <<>> \in Seq(Events)
      BY <1>7 DEF Kinds, Kernels, ListOf, Lists
    <2>3. list' \in [Lists -> ListRecord]
      BY <2>1, <2>2, <1>1, <1>3, RecordFacts
    <2>4. next \in Ids /\ next' \in 1 .. MaxCommands + 1 /\ next \in Int
      BY <2>1, <1>1, <1>3, ConstantFacts DEF QueueTypes, Ids
    <2>5. /\ events_compute_list' \in Seq(Events \X Ids) /\ m \in Nat /\ Len(events_compute_list') = m + 1
          /\ \A i \in 1 .. m : events_compute_list'[i] = events_compute_list[i]
          /\ events_compute_list'[m + 1] = <<e, next>>
          /\ m + 1 \in 1 .. m + 1 /\ \A i \in 1 .. m + 1 : i \in 1 .. m \/ i = m + 1
          /\ \A i \in 1 .. m : i \in 1 .. m + 1
          /\ ComputeIndices' = Append(ComputeIndices, e[2])
      <3>1. PICK k : k = next
        OBVIOUS
      <3>2. PICK x : x = m
        OBVIOUS
      <3>3. /\ events_compute_list' \in Seq(Events \X Ids) /\ x \in Nat /\ Len(events_compute_list') = x + 1
            /\ \A i \in 1 .. x : events_compute_list'[i] = events_compute_list[i]
            /\ events_compute_list'[x + 1] = <<e, k>>
            /\ x + 1 \in 1 .. x + 1 /\ \A i \in 1 .. x + 1 : i \in 1 .. x \/ i = x + 1
            /\ \A i \in 1 .. x : i \in 1 .. x + 1
            /\ ComputeIndices' = Append(ComputeIndices, e[2])
        BY <3>1, <3>2, <2>1, <2>4, <1>1, <1>7, ComputeAppended
      <3> QED BY <3>1, <3>2, <3>3
    <2>6. /\ DOMAIN future' = DOMAIN future \cup {next}
          /\ future'[next] = [valid |-> FALSE, time |-> 0]
          /\ \A k \in DOMAIN future : k # next => future'[k] = future[k]
      BY <2>1 DEF Extended
    <2>7. \A k \in DOMAIN future' : k \in Ids /\ future'[k] \in Future
      <3>1. \A k \in DOMAIN future : k \in Ids /\ future[k] \in Future
        BY <1>1 DEF QueueTypes
      <3>2. [valid |-> FALSE, time |-> 0] \in Future
        BY DEF Future
      <3> QED BY <2>4, <2>6, <3>1, <3>2
    <2>8. /\ freeList' \in [Pools -> Seq(Nat)] /\ \A p \in Pools : freeList'[p] \in Seq(1 .. PoolSize[p])
          /\ freeList'["compute"] = Tail(f) /\ freeList'["copy"] = freeList["copy"]
      BY <2>1, <1>6, <1>13
    <2>9. signalled' \subseteq signalled /\ e \notin signalled' /\ signalled' \subseteq Events
      BY <2>1, <1>1 DEF QueueTypes
    <2>10. QueueTypes'
      BY <2>1, <2>3, <2>4, <2>5, <2>7, <2>8, <2>9, <1>1, <1>3 DEF QueueTypes
    <2>11. PICK c : c = NewCommand("compute", kind, waits, e)
      OBVIOUS
    <2>12. c.kind = kind /\ c.signal = e /\ c.id = next
      BY <2>11 DEF NewCommand
    <2>13. Owns(c)'
      <3>1. kind # "h2d" /\ kind # "d2h"
        BY DEF Kernels
      <3> QED BY <2>5, <2>12, <3>1 DEF Owns
    <2>14. \A d : Owns(d) => Owns(d)'
      BY <2>5, <1>3 DEF Owns
    <2>15. Placed' /\ SignalsSound'
      BY <2>1, <2>2, <2>9, <2>11, <2>13, <2>14, <1>1, <1>3, <1>8, RecordStep
    <2>16. Shared(Tail(f), Append(ComputeIndices, Head(f)), n)
      BY <1>3, <1>5, <1>10, IndexTaken, Zenon
    <2>17. Shared(freeList'["compute"], ComputeIndices', PoolSize["compute"])
      BY <2>5, <2>8, <2>16, <1>7
    <2>18. Shared(freeList'["copy"], CopyIndices', PoolSize["copy"])
      BY <2>8, <1>10, <1>11
    <2>19. \A i \in 1 .. m + 1 : events_compute_list'[i][1][1] = "compute"
      <3>1. \A i \in 1 .. m : events_compute_list[i][1][1] = "compute"
        BY <1>1 DEF PoolsShared
      <3>2. events_compute_list'[m + 1][1] = e
        BY <2>5
      <3> HIDE DEF m
      <3> QED BY <2>5, <3>1, <3>2, <1>7
    <2>20. PoolsShared'
      BY <2>5, <2>17, <2>18, <2>19, <1>12 DEF PoolsShared
    <2>21. /\ \A i \in 1 .. m : events_compute_list[i][2] < next /\ events_compute_list[i][2] \in DOMAIN future
           /\ \A i, j \in 1 .. m : events_compute_list[i][2] = events_compute_list[j][2] => i = j
           /\ \A k \in DOMAIN future : ~future[k].valid /\ \E i \in 1 .. m : k = events_compute_list[i][2]
           /\ \A i \in 1 .. m : events_compute_list[i][1] \notin signalled
           /\ \A i \in 1 .. m : events_compute_list[i][2] \in Int
      <3>1. /\ \A i \in 1 .. m : events_compute_list[i][2] < next /\ events_compute_list[i][2] \in DOMAIN future
            /\ \A i, j \in 1 .. m : events_compute_list[i][2] = events_compute_list[j][2] => i = j
            /\ \A k \in DOMAIN future : ~future[k].valid /\ \E i \in 1 .. m : k = events_compute_list[i][2]
        BY <1>1, <1>3 DEF FuturesSound, FuturesPending
      <3>2. \A i \in 1 .. m : events_compute_list[i][1] \notin signalled
        BY <1>1, <1>3 DEF FuturesSound, Stamped
      <3>3. \A i \in 1 .. m : events_compute_list[i] \in Events \X Ids
        BY <1>1 DEF QueueTypes
      <3>4. \A i \in 1 .. m : events_compute_list[i][2] \in Int
        BY <3>3 DEF Ids
      <3> QED BY <3>1, <3>2, <3>4
    <2>22. \A i \in 1 .. m : events_compute_list[i][2] < next' /\ events_compute_list[i][2] # next
      BY <2>1, <2>4, <2>21
    <2>23. next < next'
      BY <2>1, <2>4
    <2>24. events_compute_list'[m + 1][1] = e /\ events_compute_list'[m + 1][2] = next
      BY <2>5
    <2> HIDE DEF m
    <2>33. \A i \in 1 .. m : events_compute_list'[i][2] = events_compute_list[i][2]
      BY <2>5
    <2>34. \A i \in 1 .. m + 1 : i \in 1 .. m \/ i = m + 1
      BY <2>5
    <2>25. \A i \in 1 .. m + 1 : events_compute_list'[i][2] < next' /\ events_compute_list'[i][2] \in DOMAIN future'
      BY <2>5, <2>6, <2>21, <2>22, <2>23, <2>24
    <2>26. \A i, j \in 1 .. m + 1 : events_compute_list'[i][2] = events_compute_list'[j][2] => i = j
      BY <2>33, <2>34, <2>21, <2>22, <2>24
    <2>27. \A k \in DOMAIN future' : ~future'[k].valid /\ \E i \in 1 .. m + 1 : k = events_compute_list'[i][2]
      <3> SUFFICES ASSUME NEW k \in DOMAIN future'
                   PROVE  ~future'[k].valid /\ \E i \in 1 .. m + 1 : k = events_compute_list'[i][2]
        OBVIOUS
      <3>1. CASE k = next
        BY <3>1, <2>5, <2>6, <2>24
      <3>2. CASE k # next
        <4>1. k \in DOMAIN future /\ future'[k] = future[k]
          BY <3>2, <2>6
        <4>2. PICK i \in 1 .. m : k = events_compute_list[i][2]
          BY <4>1, <2>21
        <4>3. i \in 1 .. m + 1 /\ k = events_compute_list'[i][2]
          BY <4>2, <2>5, <2>33
        <4> QED BY <4>1, <4>3, <2>21
      <3> QED BY <3>1, <3>2
    <2>28. \A i \in 1 .. m + 1 : events_compute_list'[i][1] \notin signalled'
      BY <2>5, <2>9, <2>21, <2>24
    <2>29. FuturesPending'
      BY <2>5, <2>25, <2>26, <2>27 DEF FuturesPending
    <2>30. Stamped'
      BY <2>5, <2>28 DEF Stamped
    <2>31. FuturesExact'
      BY <2>27, <1>3 DEF FuturesExact
    <2>32. FuturesSound'
      BY <2>29, <2>30, <2>31, <1>3 DEF FuturesSound
    <2> QED BY <2>10, <2>15, <2>20, <2>32 DEF QueueInv
  <1> QED BY <1>14, <1>15

\* A barrier is recorded.
LEMMA BarrierStep ==
    ASSUME QueueInv, Barrier
    PROVE  QueueInv'
  <1>1. QueueTypes /\ PoolsShared /\ FuturesSound /\ Placed /\ SignalsSound
    BY DEF QueueInv
  <1>2. /\ host = "record"
        /\ list' = [list EXCEPT !["compute"].floor = {c.id : c \in list["compute"].cmds}]
        /\ UNCHANGED <<config, freeList, events_pool, events_compute_list, future, host, next, failures>>
        /\ UNCHANGED <<queue, signalled, stamp, taken, clock, ran>>
    BY DEF Barrier, Recording, deviceVars
  <1>3. list \in [Lists -> ListRecord] /\ "compute" \in Lists /\ list["compute"] \in ListRecord
    BY <1>1, ConstantFacts DEF QueueTypes
  <1>4. \A c \in list["compute"].cmds : c.id \in Ids
    BY <1>3 DEF ListRecord, Command
  <1>5. PICK r : r = [list["compute"] EXCEPT !.floor = {c.id : c \in list["compute"].cmds}]
    OBVIOUS
  <1>6. r \in ListRecord /\ r.cmds = list["compute"].cmds /\ r.submitted = list["compute"].submitted
    BY <1>3, <1>4, <1>5 DEF ListRecord
  <1>7. list' = [list EXCEPT !["compute"] = r]
    BY <1>2, <1>5
  <1>8. list' \in [Lists -> ListRecord] /\ \A l \in Lists : list'[l] = IF l = "compute" THEN r ELSE list[l]
    BY <1>3, <1>6, <1>7
  <1>9. \A l \in Lists : list'[l].cmds = list[l].cmds /\ (~list[l].submitted => ~list'[l].submitted)
    BY <1>6, <1>8
  <1>10. QueueTypes'
    BY <1>1, <1>2, <1>8 DEF QueueTypes
  <1>11. \A d : Owns(d) => Owns(d)'
    BY <1>2 DEF Owns
  <1>12. Placed' /\ SignalsSound'
    BY <1>1, <1>2, <1>9, <1>11, CommandsStay
  <1>13. PoolsShared'
    BY <1>1, <1>2, PoolsStay
  <1>14. FuturesSound'
    BY <1>1, <1>2, FuturesStay
  <1> QED BY <1>10, <1>12, <1>13, <1>14 DEF QueueInv

-----------------------------------------------------------------------------
(***************************************************************************)
(* The device                                                              *)
(***************************************************************************)

\* The events of the compute list differ.
LEMMA ComputeDistinct ==
    ASSUME QueueTypes, PoolsShared, host # "failed",
           NEW i \in 1 .. Len(events_compute_list), NEW j \in 1 .. Len(events_compute_list),
           events_compute_list[i][1] = events_compute_list[j][1]
    PROVE  i = j
  <1>1. Len(events_compute_list) \in Nat
    BY DEF QueueTypes
  <1>2. /\ Len(ComputeIndices) = Len(events_compute_list)
        /\ \A k \in 1 .. Len(events_compute_list) : ComputeIndices[k] = events_compute_list[k][1][2]
    BY <1>1 DEF ComputeIndices
  <1>3. Shared(freeList["compute"], ComputeIndices, PoolSize["compute"])
    BY DEF PoolsShared
  <1>4. ComputeIndices[i] = ComputeIndices[j]
    BY <1>2
  <1> QED BY <1>2, <1>3, <1>4 DEF Shared

\* The device runs a command.
LEMMA ExecuteStep ==
    ASSUME QueueInv, NEW q \in Pools, NEW c \in queue[q], NEW duration \in Ticks, Execute(q, c, duration)
    PROVE  QueueInv'
  <1>1. QueueTypes /\ PoolsShared /\ FuturesSound /\ Placed /\ SignalsSound
    BY DEF QueueInv
  <1>2. /\ queue' = [queue EXCEPT ![q] = queue[q] \ {c}]
        /\ ran' = ran \cup {c}
        /\ signalled' = signalled \cup ({c.signal} \ {NoEvent})
        /\ UNCHANGED <<config, list, freeList, events_pool, events_compute_list, future, host, next, failures>>
    BY DEF Execute, hostVars
  <1>3. PICK end : end = (clock + duration) % (TimestampMax + 1)
    OBVIOUS
  <1>4. clock \in Ticks
    BY <1>1 DEF QueueTypes
  <1>5. end \in Ticks /\ FutureTime([start |-> clock, end |-> end]) = duration
    BY <1>3, <1>4, TimeFacts
  <1>6. /\ c.kind \in Kernels => /\ stamp' = Extended(stamp, c.signal, [start |-> clock, end |-> end])
                                 /\ taken' = Extended(taken, c.id, duration)
                                 /\ clock' = end
        /\ c.kind \notin Kernels => UNCHANGED <<stamp, taken, clock>>
    BY <1>3 DEF Execute, Kernels
  <1>7. queue \in [Pools -> SUBSET Command] /\ c \in Command
    BY <1>1 DEF QueueTypes
  <1>8. /\ queue' \in [Pools -> SUBSET Command]
        /\ queue'[q] = queue[q] \ {c} /\ \A p \in Pools : p # q => queue'[p] = queue[p]
    BY <1>2, <1>7
  <1>9. \A p \in Pools : p # q => c \notin queue[p]
    BY <1>1 DEF Placed
  <1>10. c \in Queued /\ Queued' = Queued \ {c}
    <2>1. q = "compute" \/ q = "copy"
      BY ConstantFacts
    <2>2. \A x : x \in Queued' <=> x \in Queued \ {c}
      BY <2>1, <1>8, <1>9, ConstantFacts DEF Queued
    <2> QED BY <2>1, <2>2 DEF Queued
  <1>11. InLists' = InLists /\ Unsubmitted' = Unsubmitted
    BY <1>2 DEF InLists, Unsubmitted
  <1>12. c.signal \in Events \cup {NoEvent} /\ c.id \in Ids
    BY <1>7 DEF Command
  <1>13. signalled' \subseteq Events /\ NoEvent \notin signalled'
    BY <1>1, <1>2, <1>12, EventFacts DEF QueueTypes
  <1>14. QueueTypes'
    <2>1. clock' \in Ticks
      BY <1>4, <1>5, <1>6
    <2>2. ran' \subseteq Command
      BY <1>1, <1>2, <1>7 DEF QueueTypes
    <2> QED BY <2>1, <2>2, <1>1, <1>2, <1>8, <1>13 DEF QueueTypes
  <1>15. PoolsShared'
    BY <1>1, <1>2, PoolsStay
  <1>16. \A x : CL(x)' = CL(x) /\ Q(x)' = Q(x) /\ ListOf(x)' = ListOf(x)
    BY <1>2 DEF CL, Q, ListOf
  <1>17. Placed'
    <2>1. host' = "sync" => InLists' \subseteq Queued' \cup ran'
      BY <1>1, <1>2, <1>10, <1>11 DEF Placed
    <2>2. \A p \in Pools : \A d \in queue'[p] : p = Q(ListOf(d.kind))'
      <3>1. \A p \in Pools : queue'[p] \subseteq queue[p]
        BY <1>8
      <3>2. \A p \in Pools : \A d \in queue[p] : p = Q(ListOf(d.kind))
        BY <1>1 DEF Placed
      <3> QED BY <3>1, <3>2, <1>16
    <2>3. \A l \in Lists : \A d \in list'[l].cmds : l = CL(ListOf(d.kind))'
      BY <1>1, <1>2, <1>16 DEF Placed
    <2>4. host' \in {"record", "read", "destroyed"} => \A d \in Queued' : d.kind \notin Kernels
      BY <1>1, <1>2, <1>10 DEF Placed
    <2>5. /\ host' = "record" => \A l \in Lists : ~list'[l].submitted
          /\ host' \in {"read", "failed"} => InLists' = {} /\ \A l \in Lists : ~list'[l].submitted
      BY <1>1, <1>2, <1>11 DEF Placed
    <2> QED BY <2>1, <2>2, <2>3, <2>4, <2>5 DEF Placed
  <1>18. SignalsSound'
    <2>1. /\ \A d \in Unsubmitted \cup Queued : d.signal \notin signalled
          /\ \A d, e \in Unsubmitted : d.signal = e.signal => d.signal = NoEvent \/ d = e
          /\ \A d, e \in Queued : d.signal = e.signal => d.signal = NoEvent \/ d = e
          /\ \A d \in Unsubmitted, e \in Queued : d.signal = e.signal => d.signal = NoEvent
      BY <1>1 DEF SignalsSound
    <2>2. \A d \in Unsubmitted \cup Queued' : d.signal = c.signal => d.signal = NoEvent
      BY <2>1, <1>10
    <2>3. \A d \in Unsubmitted' \cup Queued' : d.signal \notin signalled'
      BY <2>1, <2>2, <1>2, <1>10, <1>11, <1>13
    <2>4. \A d : Owns(d) => Owns(d)'
      BY <1>2 DEF Owns
    <2>5. host' \in {"record", "sync", "read"} => \A d \in Unsubmitted' \cup Queued' : Owns(d)'
      BY <2>4, <1>1, <1>2, <1>10, <1>11 DEF SignalsSound
    <2> QED BY <2>1, <2>3, <2>5, <1>10, <1>11 DEF SignalsSound
  <1>19. FuturesPending'
    BY <1>1, <1>2 DEF FuturesSound, FuturesPending
  <1>20. host = "failed" => \A d \in Queued' : d.kind \in Kernels /\ d.id \in DOMAIN future => ~future[d.id].valid
    BY <1>1, <1>10 DEF FuturesSound
  <1>21. FuturesExact'
    <2>1. CASE c.kind \notin Kernels
      BY <2>1, <1>1, <1>2, <1>6 DEF FuturesSound, FuturesExact
    <2>2. CASE c.kind \in Kernels
      <3>1. host \in {"sync", "failed"}
        BY <2>2, <1>1, <1>10 DEF Placed, QueueTypes, PCs
      <3>2. \A k \in DOMAIN future : future[k].valid => k # c.id
        BY <2>2, <3>1, <1>1, <1>10 DEF FuturesSound, FuturesPending
      <3>3. \A k \in DOMAIN taken : k # c.id => k \in DOMAIN taken' /\ taken'[k] = taken[k]
        BY <2>2, <1>6 DEF Extended
      <3>4. \A k \in DOMAIN future : future[k].valid => k \in DOMAIN taken /\ future[k].time = taken[k]
        BY <1>1 DEF FuturesSound, FuturesExact
      <3> QED BY <3>1, <3>2, <3>3, <3>4, <1>2 DEF FuturesExact
    <2> QED BY <2>1, <2>2
  <1>22. Stamped'
    <2> SUFFICES ASSUME host \in {"record", "sync"}, NEW i \in 1 .. Len(events_compute_list),
                        events_compute_list[i][1] \in signalled'
                 PROVE  /\ host = "sync" /\ events_compute_list[i][2] \in DOMAIN taken'
                        /\ taken'[events_compute_list[i][2]] \in Ticks
                        /\ events_compute_list[i][1] \in DOMAIN stamp'
                        /\ FutureTime(stamp'[events_compute_list[i][1]]) = taken'[events_compute_list[i][2]]
      BY <1>2 DEF Stamped, FutureTime
    <2>1. events_compute_list[i][1] \in signalled =>
            /\ host = "sync" /\ events_compute_list[i][2] \in DOMAIN taken
            /\ taken[events_compute_list[i][2]] \in Ticks
            /\ events_compute_list[i][1] \in DOMAIN stamp
            /\ FutureTime(stamp[events_compute_list[i][1]]) = taken[events_compute_list[i][2]]
      BY <1>1 DEF FuturesSound, Stamped
    <2>2. Owns(c)
      BY <1>1, <1>10 DEF SignalsSound
    <2>3. CASE c.kind \notin Kernels
      <3>1. c.kind = "h2d" \/ c.kind = "d2h"
        BY <2>3, <1>1, <1>10, KindFacts
      <3>2. c.signal = NoEvent \/ c.signal[1] = "copy"
        BY <3>1, <2>2, <1>1 DEF Owns, PoolsShared
      <3>3. events_compute_list[i][1][1] = "compute"
        BY <1>1 DEF PoolsShared
      <3>4. events_compute_list[i][1] \in signalled
        BY <3>2, <3>3, <1>2
      <3> QED BY <3>4, <2>1, <2>3, <1>6
    <2>4. CASE c.kind \in Kernels
      <3>1. host = "sync"
        BY <2>4, <1>1, <1>10 DEF Placed
      <3>2. PICK j \in 1 .. Len(events_compute_list) : events_compute_list[j] = <<c.signal, c.id>>
        BY <2>2, <2>4 DEF Owns
      <3>3. events_compute_list[j][1] = c.signal /\ events_compute_list[j][2] = c.id
        BY <3>2
      <3>4. /\ c.signal \in DOMAIN stamp' /\ stamp'[c.signal] = [start |-> clock, end |-> end]
            /\ \A e \in DOMAIN stamp : e # c.signal => e \in DOMAIN stamp' /\ stamp'[e] = stamp[e]
            /\ c.id \in DOMAIN taken' /\ taken'[c.id] = duration
            /\ \A k \in DOMAIN taken : k # c.id => k \in DOMAIN taken' /\ taken'[k] = taken[k]
        BY <2>4, <1>6 DEF Extended
      <3>5. CASE i = j
        BY <3>1, <3>3, <3>4, <3>5, <1>5
      <3>6. CASE i # j
        <4>1. events_compute_list[i][1] # c.signal
          BY <3>3, <3>6, <3>1, <1>1, ComputeDistinct
        <4>2. events_compute_list[i][2] # c.id
          BY <3>3, <3>6, <3>1, <1>1 DEF FuturesSound, FuturesPending
        <4>3. events_compute_list[i][1] \in signalled
          BY <4>1, <1>2
        <4> QED BY <4>1, <4>2, <4>3, <2>1, <3>1, <3>4
      <3> QED BY <3>5, <3>6
    <2> QED BY <2>3, <2>4
  <1>23. FuturesSound'
    <2>1. host' = "read" => events_compute_list' = <<>> /\ next' = 1
      BY <1>1, <1>2 DEF FuturesSound
    <2>2. host' = "failed" => \A d \in Queued' : d.kind \in Kernels /\ d.id \in DOMAIN future' => ~future'[d.id].valid
      BY <1>2, <1>20
    <2> QED BY <2>1, <2>2, <1>19, <1>21, <1>22 DEF FuturesSound
  <1> QED BY <1>14, <1>15, <1>17, <1>18, <1>23 DEF QueueInv

-----------------------------------------------------------------------------
(***************************************************************************)
(* sync and the end                                                        *)
(***************************************************************************)

\* sync submits the lists.
LEMMA SyncSubmitStep ==
    ASSUME QueueInv, SyncSubmit
    PROVE  QueueInv'
  <1>1. QueueTypes /\ PoolsShared /\ FuturesSound /\ Placed /\ SignalsSound
    BY DEF QueueInv
  <1>2. /\ host = "record" /\ host' = "sync" /\ queue' = SubmitQueues /\ list' = SubmitLists
        /\ UNCHANGED <<config, freeList, events_pool, events_compute_list, future, next, failures>>
        /\ UNCHANGED <<signalled, stamp, taken, clock, ran>>
    BY DEF SyncSubmit
  <1>3. list \in [Lists -> ListRecord] /\ queue \in [Pools -> SUBSET Command]
    BY <1>1 DEF QueueTypes
  <1>4. /\ list' \in [Lists -> ListRecord] /\ \A l \in Lists : list'[l].cmds = list[l].cmds
    <2>1. \A l \in Lists : list'[l] = [list[l] EXCEPT !.submitted = list[l].cmds # {}]
      BY <1>2 DEF SubmitLists
    <2>2. \A l \in Lists : list[l] \in ListRecord
      BY <1>3
    <2>3. ASSUME NEW r \in ListRecord, NEW b \in BOOLEAN
          PROVE  [r EXCEPT !.submitted = b] \in ListRecord /\ [r EXCEPT !.submitted = b].cmds = r.cmds
      BY DEF ListRecord
    <2>4. \A l \in Lists : list'[l] \in ListRecord /\ list'[l].cmds = list[l].cmds
      <3> SUFFICES ASSUME NEW l \in Lists PROVE list'[l] \in ListRecord /\ list'[l].cmds = list[l].cmds
        OBVIOUS
      <3>1. list'[l] = [list[l] EXCEPT !.submitted = list[l].cmds # {}] /\ list[l] \in ListRecord
        BY <2>1, <2>2
      <3>2. (list[l].cmds # {}) \in BOOLEAN
        OBVIOUS
      <3> QED BY <3>1, <3>2, <2>3, Zenon
    <2> QED BY <2>4, <1>2 DEF SubmitLists
  <1>5. InLists' = InLists /\ Unsubmitted = InLists /\ Unsubmitted' = {}
    BY <1>2, <1>4 DEF InLists, Unsubmitted
  <1>6. \A p \in Pools : \A x : x \in queue'[p] <=>
            x \in queue[p] \/ \E m \in Lists : Q(m) = p /\ Submitted(m) /\ x \in list[CL(m)].cmds
    BY <1>2 DEF SubmitQueues
  <1>7. \A m \in Lists : CL(m) \in Lists /\ Q(m) \in Pools
    BY DEF CL, Q, Lists, Pools
  <1>8. \A l \in Lists : \A x \in list[l].cmds : x \in Command /\ ListOf(x.kind) \in Lists /\ l = CL(ListOf(x.kind))
    <2>1. \A l \in Lists : \A x \in list[l].cmds : x \in Command
      BY <1>3 DEF ListRecord
    <2>2. \A x \in Command : ListOf(x.kind) \in Lists
      BY DEF Command, ListOf, Kernels, Lists
    <2> QED BY <2>1, <2>2, <1>1 DEF Placed
  <1>9. Queued' = Queued \cup InLists
    <2>1. ASSUME NEW x \in InLists PROVE x \in Queued'
      <3>1. PICK l \in Lists : x \in list[l].cmds
        BY DEF InLists
      <3>2. PICK m \in Lists : m = ListOf(x.kind) /\ l = CL(m)
        BY <3>1, <1>8
      <3>3. Submitted(m)
        BY <3>1, <3>2, <1>1, <1>2 DEF Submitted, Placed
      <3>4. x \in queue'[Q(m)]
        BY <3>1, <3>2, <3>3, <1>6, <1>7
      <3> QED BY <3>4, <1>7, ConstantFacts DEF Queued
    <2>2. ASSUME NEW x \in Queued PROVE x \in Queued'
      BY <2>2, <1>6, ConstantFacts DEF Queued
    <2>3. ASSUME NEW x \in Queued' PROVE x \in Queued \cup InLists
      <3>1. PICK p \in Pools : x \in queue'[p]
        BY <2>3, ConstantFacts DEF Queued
      <3>2. CASE x \in queue[p]
        BY <3>2, ConstantFacts DEF Queued
      <3>3. CASE x \notin queue[p]
        BY <3>1, <3>3, <1>6, <1>7 DEF InLists
      <3> QED BY <3>2, <3>3
    <2> QED BY <2>1, <2>2, <2>3
  <1>10. queue' \in [Pools -> SUBSET Command]
    <2>1. \A p \in Pools : queue'[p] \subseteq Command
      BY <1>3, <1>6, <1>7, <1>8
    <2>2. queue' = [p \in Pools |-> queue'[p]]
      BY <1>2 DEF SubmitQueues
    <2> QED BY <2>1, <2>2
  <1>11. QueueTypes'
    <2>1. host' \in PCs
      BY <1>2 DEF PCs
    <2> QED BY <2>1, <1>1, <1>2, <1>4, <1>10 DEF QueueTypes
  <1>12. PoolsShared'
    BY <1>1, <1>2, PoolsStay
  <1>13. FuturesSound'
    <2>1. FuturesPending'
      BY <1>1, <1>2 DEF FuturesSound, FuturesPending
    <2>2. \A i \in 1 .. Len(events_compute_list) : events_compute_list[i][1] \notin signalled
      BY <1>1, <1>2 DEF FuturesSound, Stamped
    <2>3. Stamped'
      BY <2>2, <1>2 DEF Stamped
    <2>4. FuturesExact'
      BY <1>1, <1>2 DEF FuturesSound, FuturesExact
    <2> QED BY <2>1, <2>3, <2>4, <1>2 DEF FuturesSound
  <1>14. Placed'
    <2>1. config \in Configs
      BY <1>1 DEF QueueTypes
    <2>2. \A x : CL(x)' = CL(x) /\ Q(x)' = Q(x) /\ ListOf(x)' = ListOf(x)
      BY <1>2 DEF CL, Q, ListOf
    <2>3. \A x, y : CL(x) = CL(y) => Q(x) = Q(y)
      BY <2>1, ConstantFacts DEF CL, Q
    <2>4. \A l \in Lists : \A x \in list'[l].cmds : l = CL(ListOf(x.kind))'
      BY <2>2, <1>4, <1>8
    <2>5. ASSUME NEW p \in Pools, NEW x \in queue'[p] PROVE p = Q(ListOf(x.kind))'
      <3>1. CASE x \in queue[p]
        BY <3>1, <2>2, <1>1 DEF Placed
      <3>2. CASE x \notin queue[p]
        <4>1. PICK m \in Lists : Q(m) = p /\ x \in list[CL(m)].cmds
          BY <3>2, <2>5, <1>6
        <4>2. CL(m) = CL(ListOf(x.kind))
          BY <4>1, <1>7, <1>8
        <4> QED BY <4>1, <4>2, <2>2, <2>3
      <3> QED BY <3>1, <3>2
    <2> QED BY <2>4, <2>5, <1>2, <1>5, <1>9 DEF Placed
  <1>15. SignalsSound'
    <2>1. /\ \A d \in Unsubmitted \cup Queued : d.signal \notin signalled
          /\ \A d \in Unsubmitted \cup Queued : Owns(d)
          /\ \A d, e \in Unsubmitted : d.signal = e.signal => d.signal = NoEvent \/ d = e
          /\ \A d, e \in Queued : d.signal = e.signal => d.signal = NoEvent \/ d = e
          /\ \A d \in Unsubmitted, e \in Queued : d.signal = e.signal => d.signal = NoEvent
      BY <1>1, <1>2 DEF SignalsSound
    <2>2. Queued' = Unsubmitted \cup Queued /\ Unsubmitted' = {}
      BY <1>5, <1>9
    <2>3. \A d : Owns(d) => Owns(d)'
      BY <1>2 DEF Owns
    <2>4. \A d, e \in Queued' : d.signal = e.signal => d.signal = NoEvent \/ d = e
      BY <2>1, <2>2
    <2>5. \A d \in Queued' : d.signal \notin signalled' /\ Owns(d)'
      BY <2>1, <2>2, <2>3, <1>2
    <2> QED BY <2>2, <2>4, <2>5 DEF SignalsSound
  <1> QED BY <1>11, <1>12, <1>13, <1>14, <1>15 DEF QueueInv

\* The indices of the events of a list.
LEMMA IndicesFacts ==
    ASSUME NEW M, NEW s \in Seq(M), NEW g, g = [i \in DOMAIN s |-> s[i][1]]
    PROVE  [i \in DOMAIN g |-> g[i][2]] = [i \in 1 .. Len(s) |-> s[i][1][2]]
  <1>1. DOMAIN s = 1 .. Len(s)
    OBVIOUS
  <1>2. DOMAIN g = 1 .. Len(s) /\ \A i \in 1 .. Len(s) : g[i] = s[i][1]
    BY <1>1
  <1> QED BY <1>2

\* sync's wait is over: lists are reset and times are read.
LEMMA SyncFinishStep ==
    ASSUME QueueInv, SyncFinish
    PROVE  QueueInv'
  <1> DEFINE f == freeList["compute"]
             n == PoolSize["compute"]
             ecl == events_compute_list
             m == Len(events_compute_list)
  <1>1. QueueTypes /\ PoolsShared /\ FuturesSound /\ Placed /\ SignalsSound
    BY DEF QueueInv
  <1>2. PICK C : C = Completed
    OBVIOUS
  <1>3. /\ host = "sync" /\ list' = ResetLists
        /\ freeList' = [freeList EXCEPT !["compute"] = DeleteEvents(f, [i \in DOMAIN C |-> C[i][1]])]
        /\ future' = [k \in DOMAIN future |->
                     IF \E p \in ToSet(C) : p[2] = k
                     THEN [valid |-> TRUE, time |-> FutureTime(stamp[(CHOOSE p \in ToSet(C) : p[2] = k)[1]])]
                     ELSE future[k]]
        /\ signalled' = signalled \ {p[1] : p \in ToSet(C)}
        /\ next' = 1 /\ ran' = {} /\ stamp' = <<>>
        /\ UNCHANGED <<config, events_pool, failures, queue, taken, clock>>
    BY <1>2 DEF SyncFinish
  <1>4. \/ C = ecl /\ host' = "read" /\ events_compute_list' = <<>>
        \/ C # ecl /\ host' = "failed" /\ events_compute_list' = ecl
    BY <1>2 DEF SyncFinish
  <1>5. ecl \in Seq(Events \X Ids) /\ m \in Nat /\ f \in Seq(1 .. n) /\ n \in Nat /\ 1 .. n \subseteq Nat
    BY <1>1, ConstantFacts DEF QueueTypes
  <1>6. /\ C \in Seq(Events \X Ids) /\ Len(C) \in 0 .. m
        /\ \A i \in 1 .. Len(C) : C[i] = ecl[i] /\ ecl[i][1] \in signalled
    BY <1>2, <1>5, CompletedFacts
  <1>7. \A i \in 1 .. Len(C) : i \in 1 .. m
    BY <1>5, <1>6
  <1>8. \A p : p \in ToSet(C) <=> \E i \in 1 .. Len(C) : p = C[i]
    <2>1. DOMAIN C = 1 .. Len(C)
      BY <1>6
    <2> QED BY <2>1, Elements
  <1>9. /\ \A i \in 1 .. m : ecl[i][2] < next /\ ecl[i][2] \in DOMAIN future
        /\ \A i, j \in 1 .. m : ecl[i][2] = ecl[j][2] => i = j
        /\ \A k \in DOMAIN future : ~future[k].valid /\ \E i \in 1 .. m : k = ecl[i][2]
    BY <1>1, <1>3 DEF FuturesSound, FuturesPending
  <1>10. \A i \in 1 .. m : ecl[i][1] \in signalled =>
            /\ ecl[i][2] \in DOMAIN taken /\ taken[ecl[i][2]] \in Ticks
            /\ FutureTime(stamp[ecl[i][1]]) = taken[ecl[i][2]]
    BY <1>1, <1>3 DEF FuturesSound, Stamped
  <1>11. \A i \in 1 .. m : ecl[i][1] \in Events /\ ecl[i][1][1] = "compute" /\ ecl[i][1][2] \in 1 .. n
    <2>1. \A i \in 1 .. m : ecl[i][1] \in Events
      BY <1>5
    <2>2. \A i \in 1 .. m : ecl[i][1][1] = "compute"
      BY <1>1 DEF PoolsShared
    <2> QED BY <2>1, <2>2, EventFacts
  \* The futures.
  <1>12. ASSUME NEW k \in DOMAIN future, NEW p \in ToSet(C), p[2] = k
         PROVE  future'[k] = [valid |-> TRUE, time |-> taken[k]] /\ k \in DOMAIN taken /\ taken[k] \in Ticks
    <2>1. PICK r : r = CHOOSE x \in ToSet(C) : x[2] = k
      OBVIOUS
    <2>2. r \in ToSet(C) /\ r[2] = k
      BY <1>12, <2>1
    <2>3. PICK i \in 1 .. Len(C) : r = C[i]
      BY <2>2, <1>8
    <2>4. r = ecl[i] /\ ecl[i][1] \in signalled /\ i \in 1 .. m
      BY <2>3, <1>6, <1>7
    <2>5. k \in DOMAIN taken /\ taken[k] \in Ticks /\ FutureTime(stamp[r[1]]) = taken[k]
      BY <2>2, <2>4, <1>10
    <2>6. future'[k] = [valid |-> TRUE, time |-> FutureTime(stamp[r[1]])]
      BY <1>3, <1>12, <2>1
    <2> QED BY <2>5, <2>6
  <1>13. ASSUME NEW k \in DOMAIN future, ~\E p \in ToSet(C) : p[2] = k
         PROVE  future'[k] = future[k] /\ ~future'[k].valid
    BY <1>3, <1>9, <1>13
  <1>14. DOMAIN future' = DOMAIN future
    BY <1>3
  <1>15. \A k \in DOMAIN future' : k \in Ids /\ future'[k] \in Future
    <2>1. ASSUME NEW k \in DOMAIN future PROVE k \in Ids /\ future[k] \in Future
      BY <1>1 DEF QueueTypes
    <2>2. ASSUME NEW k \in DOMAIN future, NEW p \in ToSet(C), p[2] = k PROVE future'[k] \in Future
      <3>1. future'[k] = [valid |-> TRUE, time |-> taken[k]] /\ taken[k] \in Ticks
        BY <2>2, <1>12, Zenon
      <3>2. taken[k] \in Int
        BY <3>1, ConstantFacts DEF Ticks
      <3>3. [valid |-> TRUE, time |-> taken[k]] \in Future
        BY <3>2 DEF Future
      <3> QED BY <3>1, <3>3
    <2> QED BY <2>1, <2>2, <1>13, <1>14
  <1>16. \A k \in DOMAIN future' : future'[k].valid => k \in DOMAIN taken' /\ future'[k].time = taken'[k]
    <2> SUFFICES ASSUME NEW k \in DOMAIN future, future'[k].valid PROVE k \in DOMAIN taken /\ future'[k].time = taken[k]
      BY <1>3, <1>14
    <2>1. PICK p \in ToSet(C) : p[2] = k
      BY <1>13
    <2>2. future'[k] = [valid |-> TRUE, time |-> taken[k]] /\ k \in DOMAIN taken
      BY <2>1, <1>12
    <2> QED BY <2>2
  <1>17. C = ecl => \A k \in DOMAIN future' : future'[k].valid
    <2> SUFFICES ASSUME C = ecl, NEW k \in DOMAIN future PROVE future'[k].valid
      BY <1>14
    <2>1. PICK i \in 1 .. m : k = ecl[i][2]
      BY <1>9
    <2>2. ecl[i] \in ToSet(C)
      BY <1>8
    <2>3. future'[k] = [valid |-> TRUE, time |-> taken[k]]
      BY <2>1, <2>2, <1>12
    <2> QED BY <2>3
  <1>18. FuturesExact'
    BY <1>4, <1>16, <1>17 DEF FuturesExact
  \* The commands that are left.
  <1>19. Queued' = Queued
    BY <1>3 DEF Queued
  <1>20. /\ list' \in [Lists -> ListRecord] /\ \A l \in Lists : list'[l].cmds = {} /\ ~list'[l].submitted
    <2>1. \A l \in Lists : list[l] \in ListRecord
      BY <1>1 DEF QueueTypes
    <2>2. \A l \in Lists : list[l].floor \in SUBSET Ids
      BY <2>1 DEF ListRecord
    <2>3. \A l \in Lists : list'[l] = EmptyList \/ list'[l] = [EmptyList EXCEPT !.floor = list[l].floor]
      BY <1>3 DEF ResetLists
    <2>4. EmptyList \in ListRecord /\ EmptyList.cmds = {} /\ EmptyList.submitted = FALSE
      BY DEF EmptyList, ListRecord
    <2>5. \A x \in SUBSET Ids : /\ [EmptyList EXCEPT !.floor = x] \in ListRecord
                                /\ [EmptyList EXCEPT !.floor = x].cmds = {}
                                /\ [EmptyList EXCEPT !.floor = x].submitted = FALSE
      BY <2>4 DEF ListRecord, EmptyList
    <2>6. \A l \in Lists : list'[l] \in ListRecord /\ list'[l].cmds = {} /\ ~list'[l].submitted
      BY <2>2, <2>3, <2>4, <2>5
    <2>7. list' = [l \in Lists |-> list'[l]]
      BY <1>3 DEF ResetLists
    <2> QED BY <2>6, <2>7
  <1>21. InLists' = {} /\ Unsubmitted' = {}
    BY <1>20 DEF InLists, Unsubmitted
  <1>22. \A c \in Queued : Owns(c) /\ c.signal \notin signalled
    BY <1>1, <1>3 DEF SignalsSound
  <1>23. ASSUME NEW c \in Queued, c.kind \in Kernels, NEW p \in ToSet(C), p[2] = c.id
         PROVE  FALSE
    <2>1. PICK j \in 1 .. m : ecl[j] = <<c.signal, c.id>>
      BY <1>22, <1>23 DEF Owns
    <2>2. PICK i \in 1 .. Len(C) : p = ecl[i] /\ ecl[i][1] \in signalled /\ i \in 1 .. m
      BY <1>6, <1>7, <1>8
    <2>3. ecl[j][2] = ecl[i][2] /\ ecl[j][1] = c.signal
      BY <1>23, <2>1, <2>2
    <2>4. i = j
      BY <2>1, <2>2, <2>3, <1>9
    <2> QED BY <2>2, <2>3, <2>4, <1>22
  <1>24. \A c \in Queued : c.kind \in Kernels /\ c.id \in DOMAIN future' => ~future'[c.id].valid
    BY <1>13, <1>14, <1>23
  <1>25. C = ecl => \A c \in Queued : c.kind \notin Kernels
    <2> SUFFICES ASSUME C = ecl, NEW c \in Queued, c.kind \in Kernels PROVE FALSE
      OBVIOUS
    <2>1. PICK j \in 1 .. m : ecl[j] = <<c.signal, c.id>>
      BY <1>22 DEF Owns
    <2>2. ecl[j] \in ToSet(C) /\ ecl[j][2] = c.id
      BY <2>1, <1>8
    <2> QED BY <2>2, <1>23
  <1>26. FuturesSound'
    <2>1. host' \in {"read", "failed"} /\ (host' = "read" => events_compute_list' = <<>> /\ next' = 1)
      BY <1>3, <1>4
    <2>2. FuturesPending' /\ Stamped'
      BY <2>1 DEF FuturesPending, Stamped
    <2> QED BY <2>1, <2>2, <1>18, <1>19, <1>24 DEF FuturesSound
  <1>27. Placed'
    <2>1. \A x : Q(x)' = Q(x) /\ ListOf(x)' = ListOf(x)
      BY <1>3 DEF Q, ListOf
    <2>2. \A q \in Pools : \A c \in queue'[q] : q = Q(ListOf(c.kind))'
      BY <2>1, <1>1, <1>3 DEF Placed
    <2> QED BY <2>2, <1>4, <1>19, <1>20, <1>21, <1>25 DEF Placed
  <1>28. SignalsSound'
    <2>1. \A c \in Queued : c.signal \notin signalled'
      BY <1>3, <1>22
    <2>2. host' = "read" => \A c \in Queued : Owns(c)'
      BY <1>3, <1>4, <1>22, <1>25 DEF Owns
    <2>3. host' \in {"read", "failed"}
      BY <1>4
    <2>4. \A c, d \in Queued : c.signal = d.signal => c.signal = NoEvent \/ c = d
      BY <1>1 DEF SignalsSound
    <2> QED BY <2>1, <2>2, <2>3, <2>4, <1>19, <1>21 DEF SignalsSound
  \* The pools.
  <1>29. PICK h : h = [i \in 1 .. Len(C) |-> C[i][1][2]]
    OBVIOUS
  <1>30. h \in Seq(1 .. n)
    <2>1. \A i \in 1 .. Len(C) : C[i][1][2] \in 1 .. n
      BY <1>6, <1>7, <1>11
    <2>2. Len(C) \in Nat
      BY <1>6
    <2> QED BY <2>1, <2>2, <1>29
  <1>31. DeleteEvents(f, [i \in DOMAIN C |-> C[i][1]]) = f \o h
    <2>1. PICK g : g = [i \in DOMAIN C |-> C[i][1]]
      OBVIOUS
    <2>2. [i \in DOMAIN g |-> g[i][2]] = [i \in 1 .. Len(C) |-> C[i][1][2]]
      BY <2>1, <1>6, IndicesFacts
    <2>3. DeleteEvents(f, g) = f \o h
      BY <2>2, <1>29 DEF DeleteEvents
    <2> QED BY <2>1, <2>3
  <1>32. f \o h \in Seq(1 .. n) /\ f \o h \in Seq(Nat)
    <2>1. f \o h \in Seq(1 .. n)
      BY <1>5, <1>30, ConcatFacts
    <2> QED BY <2>1, <1>5, SeqWiden
  <1>33. freeList \in [Pools -> Seq(Nat)] /\ \A p \in Pools : freeList[p] \in Seq(1 .. PoolSize[p])
    BY <1>1 DEF QueueTypes
  <1>34. /\ freeList' \in [Pools -> Seq(Nat)]
         /\ freeList'["compute"] = f \o h /\ freeList'["copy"] = freeList["copy"]
    <2> HIDE DEF f
    <2> QED BY <1>3, <1>31, <1>32, <1>33, ConstantFacts
  <1>35. \A p \in Pools : freeList'[p] \in Seq(1 .. PoolSize[p])
    BY <1>32, <1>33, <1>34, ConstantFacts
  <1>36. PoolsShared'
    <2>1. \A i \in 1 .. Len(events_pool') : events_pool'[i][1] = "copy"
      BY <1>1, <1>3 DEF PoolsShared
    <2>2. CopyIndices' = CopyIndices
      BY <1>3 DEF CopyIndices
    <2>3. Shared(f, ComputeIndices, n) /\ Shared(freeList["copy"], CopyIndices, PoolSize["copy"])
      BY <1>1, <1>3 DEF PoolsShared
    <2>4. CASE C # ecl
      <3>1. host' = "failed" /\ events_compute_list' = ecl
        BY <1>4, <2>4
      <3> QED BY <3>1, <2>1, <1>11 DEF PoolsShared
    <2>5. CASE C = ecl
      <3>1. host' = "read" /\ events_compute_list' = <<>> /\ Len(<<>>) = 0
        BY <1>4, <2>5
      <3>2. ComputeIndices' = <<>>
        BY <3>1 DEF ComputeIndices
      <3>3. h = ComputeIndices
        BY <2>5, <1>29 DEF ComputeIndices
      <3>4. Shared(f \o h, <<>>, n)
        BY <2>3, <3>3, <1>5, AllFreed
      <3>5. Shared(freeList'["compute"], ComputeIndices', PoolSize["compute"])
        BY <3>2, <3>4, <1>34
      <3>6. Shared(freeList'["copy"], CopyIndices', PoolSize["copy"])
        BY <2>2, <2>3, <1>34
      <3>7. \A i \in 1 .. Len(events_compute_list') : events_compute_list'[i][1][1] = "compute"
        BY <3>1
      <3> QED BY <3>5, <3>6, <3>7, <2>1 DEF PoolsShared
    <2> QED BY <2>4, <2>5
  <1>37. QueueTypes'
    <2>1. host' \in PCs /\ events_compute_list' \in Seq(Events \X Ids)
      <3>1. <<>> \in Seq(Events \X Ids)
        OBVIOUS
      <3>2. "read" \in PCs /\ "failed" \in PCs
        BY DEF PCs
      <3> QED BY <1>4, <1>5, <3>1, <3>2
    <2>2. signalled' \subseteq Events /\ ran' \subseteq Command
      BY <1>1, <1>3 DEF QueueTypes
    <2>3. next' \in 1 .. MaxCommands + 1
      BY <1>3, ConstantFacts
    <2> QED BY <2>1, <2>2, <2>3, <1>1, <1>3, <1>15, <1>20, <1>34, <1>35 DEF QueueTypes
  <1> QED BY <1>26, <1>27, <1>28, <1>36, <1>37 DEF QueueInv

\* The host reads the times.
LEMMA ReadFuturesStep ==
    ASSUME QueueInv, ReadFutures
    PROVE  QueueInv'
  <1>1. QueueTypes /\ PoolsShared /\ FuturesSound /\ Placed /\ SignalsSound
    BY DEF QueueInv
  <1>2. /\ host = "read" /\ host' = "record" /\ future' = <<>> /\ taken' = <<>>
        /\ UNCHANGED <<config, list, freeList, events_pool, events_compute_list, next, failures>>
        /\ UNCHANGED <<queue, signalled, stamp, clock, ran>>
    BY DEF ReadFutures
  <1>3. \A k : k \notin DOMAIN future'
    BY <1>2
  <1>4. QueueTypes'
    <2>1. host' \in PCs
      BY <1>2 DEF PCs
    <2> QED BY <2>1, <1>1, <1>2, <1>3 DEF QueueTypes
  <1>5. PoolsShared'
    BY <1>1, <1>2, PoolsStay
  <1>6. Queued' = Queued /\ InLists' = InLists /\ InLists = {} /\ Unsubmitted' = {} /\ Unsubmitted = {}
    BY <1>1, <1>2 DEF Queued, InLists, Unsubmitted, Placed
  <1>7. FuturesSound'
    <2>1. Len(events_compute_list') = 0
      BY <1>1, <1>2 DEF FuturesSound
    <2>2. FuturesPending' /\ Stamped' /\ FuturesExact'
      BY <2>1, <1>2, <1>3 DEF FuturesPending, Stamped, FuturesExact
    <2> QED BY <2>2, <1>2 DEF FuturesSound
  <1>8. Placed'
    <2>1. \A x : CL(x)' = CL(x) /\ Q(x)' = Q(x) /\ ListOf(x)' = ListOf(x)
      BY <1>2 DEF CL, Q, ListOf
    <2>2. \A q \in Pools : \A c \in queue'[q] : q = Q(ListOf(c.kind))'
      BY <2>1, <1>1, <1>2 DEF Placed
    <2>3. \A l \in Lists : \A d \in list'[l].cmds : l = CL(ListOf(d.kind))'
      BY <2>1, <1>1, <1>2 DEF Placed
    <2>4. /\ \A l \in Lists : ~list'[l].submitted
          /\ \A c \in Queued' : c.kind \notin Kernels
      BY <1>1, <1>2, <1>6 DEF Placed
    <2> QED BY <2>2, <2>3, <2>4, <1>2 DEF Placed
  <1>9. SignalsSound'
    <2>1. \A d : Owns(d) => Owns(d)'
      BY <1>2 DEF Owns
    <2> QED BY <2>1, <1>1, <1>2, <1>6 DEF SignalsSound
  <1> QED BY <1>4, <1>5, <1>7, <1>8, <1>9 DEF QueueInv

\* The queue and its pools are destroyed.
LEMMA DestroyStep ==
    ASSUME QueueInv, Destroy
    PROVE  QueueInv'
  <1>1. QueueTypes /\ PoolsShared /\ FuturesSound /\ Placed /\ SignalsSound
    BY DEF QueueInv
  <1>2. /\ host = "record" /\ host' = "destroyed"
        /\ events_compute_list' = <<>> /\ events_pool' = <<>>
        /\ UNCHANGED <<config, list, next, failures, queue, signalled, stamp, taken, clock, ran>>
    BY DEF Destroy, deviceVars
  <1>3. /\ DOMAIN future' = DOMAIN future
        /\ \A k \in DOMAIN future : future'[k] = [future[k] EXCEPT !.valid = FALSE] \/ future'[k] = future[k]
    BY DEF Destroy
  <1>4. \A k \in DOMAIN future : k \in Ids /\ future[k] \in Future /\ ~future[k].valid
    BY <1>1, <1>2 DEF QueueTypes, FuturesSound, FuturesPending
  <1>5. \A k \in DOMAIN future' : k \in Ids /\ future'[k] \in Future /\ ~future'[k].valid
    BY <1>3, <1>4 DEF Future
  <1>6. /\ events_compute_list \in Seq(Events \X Ids) /\ events_pool \in Seq(Events)
        /\ freeList["compute"] \in Seq(1 .. PoolSize["compute"]) /\ freeList["copy"] \in Seq(1 .. PoolSize["copy"])
    BY <1>1, ConstantFacts DEF QueueTypes
  <1>7. /\ freeList'["compute"] = freeList["compute"] \o ComputeIndices
        /\ freeList'["copy"] = freeList["copy"] \o CopyIndices
        /\ freeList' = [p \in Pools |-> freeList'[p]]
    <2>1. PICK g : g = [i \in DOMAIN events_compute_list |-> events_compute_list[i][1]]
      OBVIOUS
    <2>2. freeList' = [p \in Pools |-> IF p = "compute" THEN DeleteEvents(freeList[p], g)
                                       ELSE DeleteEvents(freeList[p], events_pool)]
      BY <2>1 DEF Destroy
    <2>3. /\ freeList'["compute"] = DeleteEvents(freeList["compute"], g)
          /\ freeList'["copy"] = DeleteEvents(freeList["copy"], events_pool)
          /\ freeList' = [p \in Pools |-> freeList'[p]]
      BY <2>2, ConstantFacts
    <2>4. [i \in DOMAIN g |-> g[i][2]] = [i \in 1 .. Len(events_compute_list) |-> events_compute_list[i][1][2]]
      BY <2>1, <1>6, IndicesFacts
    <2>5. DOMAIN events_pool = 1 .. Len(events_pool)
      BY <1>6
    <2> QED BY <2>3, <2>4, <2>5 DEF DeleteEvents, ComputeIndices, CopyIndices
  <1>8. /\ Shared(freeList["compute"], ComputeIndices, PoolSize["compute"])
        /\ Shared(freeList["copy"], CopyIndices, PoolSize["copy"])
    BY <1>1, <1>2 DEF PoolsShared
  <1>9. /\ Shared(freeList'["compute"], <<>>, PoolSize["compute"])
        /\ Shared(freeList'["copy"], <<>>, PoolSize["copy"])
    BY <1>7, <1>8, AllFreed, ConstantFacts
  <1>10. Len(events_pool') = 0 /\ Len(events_compute_list') = 0
    BY <1>2
  <1>11. ComputeIndices' = <<>> /\ CopyIndices' = <<>>
    BY <1>10 DEF ComputeIndices, CopyIndices
  <1>12. PoolsShared'
    BY <1>9, <1>10, <1>11 DEF PoolsShared
  <1>13. QueueTypes'
    <2>1. /\ freeList'["compute"] \in Seq(1 .. PoolSize["compute"]) /\ freeList'["copy"] \in Seq(1 .. PoolSize["copy"])
      BY <1>9 DEF Shared
    <2>2. 1 .. PoolSize["compute"] \subseteq Nat /\ 1 .. PoolSize["copy"] \subseteq Nat
      BY ConstantFacts
    <2>3. freeList'["compute"] \in Seq(Nat) /\ freeList'["copy"] \in Seq(Nat)
      BY <2>1, <2>2, SeqWiden
    <2>4. freeList' \in [Pools -> Seq(Nat)] /\ \A p \in Pools : freeList'[p] \in Seq(1 .. PoolSize[p])
      BY <2>1, <2>3, <1>7, ConstantFacts
    <2>5. events_pool' \in Seq(Events) /\ events_compute_list' \in Seq(Events \X Ids) /\ host' \in PCs
      BY <1>2 DEF PCs
    <2> QED BY <2>4, <2>5, <1>1, <1>2, <1>5 DEF QueueTypes
  <1>14. Queued' = Queued /\ InLists' = InLists /\ Unsubmitted' = Unsubmitted
    BY <1>2 DEF Queued, InLists, Unsubmitted
  <1>15. FuturesSound'
    BY <1>2, <1>5 DEF FuturesSound, FuturesPending, Stamped, FuturesExact
  <1>16. Placed'
    <2>1. \A x : CL(x)' = CL(x) /\ Q(x)' = Q(x) /\ ListOf(x)' = ListOf(x)
      BY <1>2 DEF CL, Q, ListOf
    <2>2. \A q \in Pools : \A c \in queue'[q] : q = Q(ListOf(c.kind))'
      BY <2>1, <1>1, <1>2 DEF Placed
    <2>3. \A l \in Lists : \A d \in list'[l].cmds : l = CL(ListOf(d.kind))'
      BY <2>1, <1>1, <1>2 DEF Placed
    <2>4. \A c \in Queued' : c.kind \notin Kernels
      BY <1>1, <1>2, <1>14 DEF Placed
    <2> QED BY <2>2, <2>3, <2>4, <1>2 DEF Placed
  <1>17. SignalsSound'
    BY <1>1, <1>2, <1>14 DEF SignalsSound
  <1> QED BY <1>12, <1>13, <1>15, <1>16, <1>17 DEF QueueInv

-----------------------------------------------------------------------------
(***************************************************************************)
(* The task queue                                                          *)
(***************************************************************************)

\* Every step keeps the invariant.
LEMMA QueueStep ==
    ASSUME QueueInv, [GpuNext]_gpuVars
    PROVE  QueueInv'
  <1>1. CASE CopyToHost
    BY <1>1, CopyToHostStep
  <1>2. CASE Barrier
    BY <1>2, BarrierStep
  <1>3. ASSUME NEW fails \in BOOLEAN, CopyToDevice(fails) PROVE QueueInv'
    BY <1>3, CopyToDeviceStep
  <1>4. ASSUME NEW fails \in BOOLEAN, Launch(fails) PROVE QueueInv'
    <2>1. PICK waits : waits = ToSet(list[CL("h2d")].events)
      OBVIOUS
    <2>2. CL("h2d") \in Lists /\ "kernel" \in Kernels
      BY DEF CL, Lists, Kernels
    <2>3. waits \in SUBSET Events
      BY <2>1, <2>2, WaitsFacts DEF QueueInv
    <2>4. RecordCompute("kernel", waits, fails)
      BY <1>4, <2>1 DEF Launch
    <2> QED BY <2>2, <2>3, <2>4, RecordComputeStep
  <1>5. ASSUME NEW fails \in BOOLEAN, CopyMemoryView(fails) PROVE QueueInv'
    <2>1. "copy" \in Kernels /\ {} \in SUBSET Events
      BY DEF Kernels
    <2>2. RecordCompute("copy", {}, fails)
      BY <1>5 DEF CopyMemoryView
    <2> QED BY <2>1, <2>2, RecordComputeStep
  <1>6. CASE SyncSubmit
    BY <1>6, SyncSubmitStep
  <1>7. CASE SyncFinish
    BY <1>7, SyncFinishStep
  <1>8. CASE ReadFutures
    BY <1>8, ReadFuturesStep
  <1>9. CASE Destroy
    BY <1>9, DestroyStep
  <1>10. CASE Device
    BY <1>10, ExecuteStep DEF Device
  <1>11. CASE UNCHANGED gpuVars
    <2>1. /\ UNCHANGED <<config, list, freeList, events_pool, events_compute_list, future, host, next, failures>>
          /\ UNCHANGED <<queue, signalled, stamp, taken, clock, ran>>
      BY <1>11 DEF gpuVars, hostVars, deviceVars
    <2>2. QueueTypes' /\ PoolsShared'
      BY <2>1, PoolsStay DEF QueueInv, QueueTypes, PoolsShared, ComputeIndices, CopyIndices
    <2>3. FuturesSound'
      <3>1. FuturesPending' /\ FuturesExact'
        BY <2>1 DEF QueueInv, FuturesSound, FuturesPending, FuturesExact
      <3>2. Stamped'
        BY <2>1 DEF QueueInv, FuturesSound, Stamped, FutureTime
      <3>3. Queued' = Queued
        BY <2>1 DEF Queued
      <3> QED BY <2>1, <3>1, <3>2, <3>3 DEF QueueInv, FuturesSound
    <2>4. Placed' /\ SignalsSound'
      BY <2>1 DEF QueueInv, Placed, SignalsSound, Owns, Queued, Unsubmitted, InLists, CL, Q, ListOf
    <2> QED BY <2>2, <2>3, <2>4 DEF QueueInv
  <1> QED BY <1>1, <1>2, <1>3, <1>4, <1>5, <1>6, <1>7, <1>8, <1>9, <1>10, <1>11 DEF GpuNext

\* The invariant holds in every state.
LEMMA QueueAlways == GpuSpec => []QueueInv
  BY QueueStart, QueueStep, PTL DEF GpuSpec

\* The invariant implies the types.
LEMMA QueueTyped == QueueInv => GpuTypeOK
  <1> SUFFICES ASSUME QueueInv PROVE GpuTypeOK
    OBVIOUS
  <1>1. QueueTypes
    BY DEF QueueInv
  <1>2. ASSUME NEW l \in Lists
        PROVE  /\ list[l].cmds \subseteq Command /\ list[l].floor \subseteq Ids
               /\ ToSet(list[l].events) \subseteq Events /\ list[l].submitted \in BOOLEAN
    <2>1. list[l] \in ListRecord
      BY <1>1 DEF QueueTypes
    <2> QED BY <2>1, <1>1, WaitsFacts DEF ListRecord
  <1>3. ASSUME NEW p \in Pools PROVE ToSet(freeList[p]) \subseteq 1 .. PoolSize[p]
    <2>1. PICK s, M : s = freeList[p] /\ M = 1 .. PoolSize[p]
      OBVIOUS
    <2>2. s \in Seq(M)
      BY <2>1, <1>1 DEF QueueTypes
    <2>3. ToSet(s) \subseteq M
      BY <2>2 DEF ToSet
    <2> QED BY <2>1, <2>3
  <1>4. ToSet(events_pool) \subseteq Events
    <2>1. events_pool \in Seq(Events)
      BY <1>1 DEF QueueTypes
    <2> QED BY <2>1 DEF ToSet
  <1>5. \A k \in DOMAIN events_compute_list : events_compute_list[k] \in Events \X Ids
    BY <1>1 DEF QueueTypes
  <1> QED BY <1>1, <1>2, <1>3, <1>4, <1>5 DEF QueueTypes, GpuTypeOK

\* Every state of the task queue of a GPU device has its type: in particular no
\* pool hands out an index that it does not have.
THEOREM QueueTypeCorrect == GpuSpec => []GpuTypeOK
  BY QueueAlways, QueueTyped, PTL

\* The invariant implies the property.
LEMMA QueueSound == QueueInv => EventsSound
  <1> SUFFICES ASSUME QueueInv PROVE EventsSound
    OBVIOUS
  <1>1. QueueTypes /\ PoolsShared /\ FuturesSound /\ Placed /\ SignalsSound
    BY DEF QueueInv
  <1>2. EventsAccounted
    <2> SUFFICES ASSUME host # "failed", NEW p \in Pools
                 PROVE  LET used == IF p = "compute" THEN [i \in DOMAIN events_compute_list |-> events_compute_list[i][1]]
                                    ELSE events_pool
                            all == freeList[p] \o [i \in DOMAIN used |-> used[i][2]]
                        IN Len(all) = PoolSize[p] /\ ToSet(all) = 1 .. PoolSize[p]
      BY DEF EventsAccounted
    <2>1. PICK used : used = IF p = "compute" THEN [i \in DOMAIN events_compute_list |-> events_compute_list[i][1]]
                             ELSE events_pool
      OBVIOUS
    <2>2. PICK u : u = [i \in DOMAIN used |-> used[i][2]]
      OBVIOUS
    <2>3. events_compute_list \in Seq(Events \X Ids) /\ events_pool \in Seq(Events) /\ PoolSize[p] \in Nat
      BY <1>1, GpuQueueAssumption DEF QueueTypes
    <2>4. Shared(freeList[p], u, PoolSize[p])
      <3>1. CASE p = "compute"
        <4>1. used = [i \in DOMAIN events_compute_list |-> events_compute_list[i][1]]
          BY <3>1, <2>1
        <4>2. u = ComputeIndices
          BY <4>1, <2>2, <2>3, IndicesFacts DEF ComputeIndices
        <4> QED BY <3>1, <4>2, <1>1 DEF PoolsShared
      <3>2. CASE p = "copy"
        <4>1. u = CopyIndices
          BY <3>2, <2>1, <2>2, <2>3 DEF CopyIndices
        <4> QED BY <3>2, <4>1, <1>1 DEF PoolsShared
      <3> QED BY <3>1, <3>2, ConstantFacts
    <2>5. PICK f : f = freeList[p]
      OBVIOUS
    <2>6. Len(f \o u) = PoolSize[p] /\ ToSet(f \o u) = 1 .. PoolSize[p]
      BY <2>3, <2>4, <2>5, AllAccounted
    <2> QED BY <2>1, <2>2, <2>5, <2>6
  <1>3. EventsFresh
    <2>1. \A c \in AllCommands \ ran : c \in Unsubmitted \cup Queued
      <3>1. AllCommands = InLists \cup Queued
        <4>1. AllCommands = InLists \cup queue["compute"] \cup queue["copy"]
          BY DEF AllCommands, InLists
        <4> QED BY <4>1 DEF Queued
      <3>2. host \in {"record", "sync", "read", "failed", "destroyed"}
        BY <1>1 DEF QueueTypes, PCs
      <3> QED BY <3>1, <3>2, <1>1 DEF Unsubmitted, Placed
    <2>2. /\ \A c \in Unsubmitted \cup Queued : c.signal \notin signalled
          /\ \A c, d \in Unsubmitted \cup Queued : c.signal = d.signal => c.signal = NoEvent \/ c = d
      BY <1>1 DEF SignalsSound
    <2> QED BY <2>1, <2>2 DEF EventsFresh
  <1>4. FuturesExact
    BY <1>1 DEF FuturesSound
  <1> QED BY <1>2, <1>3, <1>4 DEF EventsSound

\* On every GPU device, with or without a copy engine and for every program,
\* pool size and width of the timestamps: no event is lost or handed out twice,
\* no command signals an event that another one signals or that is signalled
\* already, and a valid future tells how long its kernel ran (EventPool, getEvent
\* and sync of GPUDevice.cpp).
THEOREM EventsAreSound == GpuSpec => []EventsSound
  BY QueueAlways, QueueSound, PTL

-----------------------------------------------------------------------------
(***************************************************************************)
(* The order of commands                                                   *)
(***************************************************************************)

\* What the order rests on: where copies have a queue of their own, programs
\* copy in, launch and copy out.
Orderly == \A c \in Configs : c.engine => c.phased

\* Between two syncs the device is idle; in sync it has run, or will run, what
\* the lists hold, and what it has run has waited and has signalled.
Idle == host \in {"record", "read", "destroyed"} => Queued = {} /\ ran = {}
Submission ==
    host = "sync" =>
        /\ Queued \cup ran \subseteq InLists
        /\ \A c \in ran : c.waits \subseteq signalled /\ (c.signal # NoEvent => c.signal \in signalled)

\* Commands are numbered in the order in which they are recorded.
Numbered ==
    /\ \A l \in Lists : IsFiniteSet(list[l].cmds)
    /\ \A c \in InLists : c.id < next
    /\ \A c, d \in InLists : c.id = d.id => c = d

\* Kernels wait for the copies before them, copies to the host for the kernels.
WaitsRecorded ==
    /\ \A c \in InLists : c.kind = "h2d" => c.signal \in ToSet(list[CL("h2d")].events)
    /\ \A c, k \in InLists : c.kind = "h2d" /\ k.kind = "kernel" /\ c.id < k.id => c.signal \in k.waits
    /\ \A c, d \in InLists : c.kind \in Kernels /\ d.kind = "d2h" /\ c.id < d.id => c.signal \in d.waits

\* The phases of a program that copies in, launches and copies out.
Phases ==
    config.phased =>
        /\ \A c \in InLists : c.kind # "copy"
        /\ \A c, k \in InLists : c.kind = "h2d" /\ k.kind \in Kernels => c.id < k.id
        /\ \A k, d \in InLists : k.kind \in Kernels /\ d.kind = "d2h" => k.id < d.id

\* Every event of the compute list is that of a recorded command.
EventsRecorded ==
    host \in {"record", "sync"} =>
        \A i \in 1 .. Len(events_compute_list) :
            \E c \in InLists : c.kind \in Kernels /\ c.signal = events_compute_list[i][1]

OrderInv == host # "failed" /\ Idle /\ Submission /\ Numbered /\ WaitsRecorded /\ Phases /\ EventsRecorded

\* The order is kept at first.
LEMMA OrderStart == GpuInit => OrderInv
  <1> SUFFICES ASSUME GpuInit PROVE OrderInv
    OBVIOUS
  <1>1. InLists = {} /\ Queued = {}
    BY ConstantFacts DEF GpuInit, InLists, Queued, EmptyList
  <1>2. \A l \in Lists : IsFiniteSet(list[l].cmds)
    BY FS_EmptySet DEF GpuInit, EmptyList
  <1>3. host = "record" /\ ran = {} /\ Len(events_compute_list) = 0
    BY DEF GpuInit
  <1> QED BY <1>1, <1>2, <1>3 DEF OrderInv, Idle, Submission, Numbered, WaitsRecorded, Phases, EventsRecorded

\* A list counts no command if it has none.
LEMMA CountFacts ==
    ASSUME Numbered, NEW l \in Lists
    PROVE  /\ Count(l) \in Nat /\ (Count(l) = 0 <=> list[CL(l)].cmds = {})
  <1>1. CL(l) \in Lists
    BY DEF CL, Lists
  <1>2. IsFiniteSet(list[CL(l)].cmds)
    BY <1>1 DEF Numbered
  <1> QED BY <1>2, FS_CardinalityType, FS_EmptySet DEF Count

\* The list in which a command is.
LEMMA PlaceFacts ==
    ASSUME QueueTypes, Placed, NEW c \in InLists
    PROVE  /\ c \in Command /\ (c.kind = "h2d" \/ c.kind = "d2h" \/ c.kind \in Kernels)
           /\ ListOf(c.kind) \in Lists /\ c \in list[CL(ListOf(c.kind))].cmds
  <1>1. PICK l \in Lists : c \in list[l].cmds
    BY DEF InLists
  <1>2. c \in Command
    BY <1>1 DEF QueueTypes, ListRecord
  <1>3. c.kind \in {"h2d", "d2h", "kernel", "copy"}
    BY <1>2 DEF Command
  <1>4. l = CL(ListOf(c.kind))
    BY <1>1 DEF Placed
  <1>5. ListOf(c.kind) \in Lists /\ (c.kind = "h2d" \/ c.kind = "d2h" \/ c.kind \in Kernels)
    BY <1>3 DEF ListOf, Lists, Kernels
  <1> QED BY <1>1, <1>2, <1>4, <1>5

\* What a program with phases has not yet recorded.
LEMMA PhaseFacts ==
    ASSUME QueueInv, OrderInv, config.phased, NEW kind \in Kinds, InPhase(kind)
    PROVE  /\ kind = "h2d" => \A d \in InLists : d.kind \notin Kernels
           /\ kind \in Kernels => kind # "copy" /\ \A d \in InLists : d.kind # "d2h"
  <1>1. QueueTypes /\ Placed /\ Numbered
    BY DEF QueueInv, OrderInv
  <1>2. \A d \in InLists : d \in list[CL(ListOf(d.kind))].cmds
    BY <1>1, PlaceFacts
  <1>3. ASSUME kind = "h2d" PROVE \A d \in InLists : d.kind \notin Kernels
    <2>1. Count("compute") = 0
      BY <1>3 DEF InPhase
    <2>2. list[CL("compute")].cmds = {}
      BY <2>1, <1>1, CountFacts, ConstantFacts
    <2> QED BY <2>2, <1>2 DEF ListOf
  <1>4. ASSUME kind \in Kernels PROVE kind # "copy" /\ \A d \in InLists : d.kind # "d2h"
    <2>1. kind = "kernel"
      BY <1>4 DEF InPhase, Kernels
    <2>2. Count("d2h") = 0
      BY <2>1 DEF InPhase
    <2>3. list[CL("d2h")].cmds = {}
      BY <2>2, <1>1, CountFacts, ConstantFacts
    <2>4. ListOf("d2h") = "d2h"
      BY DEF ListOf, Kernels
    <2> QED BY <2>1, <2>3, <2>4, <1>2
  <1> QED BY <1>3, <1>4

\* A command and events are added to a list.
Added(l, events, c) ==
    /\ InLists' = InLists \cup {c}
    /\ \A m \in Lists : list'[m].cmds = list[m].cmds \/ list'[m].cmds = list[m].cmds \cup {c}
    /\ \A m \in Lists : \A x \in ToSet(list[m].events) : x \in ToSet(list'[m].events)
    /\ \A x \in ToSet(events) : x \in ToSet(list'[CL(l)].events)

\* The command that is recorded, and the events of the lists.
LEMMA RecordedFacts ==
    ASSUME QueueTypes, next <= MaxCommands, NEW l \in Lists, NEW kind \in Kinds, NEW waits \in SUBSET Events,
           NEW signal \in Events \cup {NoEvent}, NEW events \in Seq(Events),
           NEW c, c = NewCommand(l, kind, waits, signal),
           list' = Record(l, kind, waits, signal, events)
    PROVE  Added(l, events, c)
  <1>1. CL(l) \in Lists /\ list \in [Lists -> ListRecord]
    BY DEF CL, Lists, QueueTypes
  <1>2. PICK r : r = [cmds |-> list[CL(l)].cmds \cup {c}, floor |-> list[CL(l)].floor,
                      events |-> list[CL(l)].events \o events, submitted |-> FALSE]
    OBVIOUS
  <1>3. list' = [list EXCEPT ![CL(l)] = r]
    BY <1>2 DEF Record, NewCommand
  <1>4. list'[CL(l)] = r /\ \A m \in Lists : m # CL(l) => list'[m] = list[m]
    BY <1>1, <1>3
  <1>6. r.cmds = list[CL(l)].cmds \cup {c} /\ r.events = list[CL(l)].events \o events
    BY <1>2
  <1>7. \A m \in Lists : list'[m].cmds = list[m].cmds \/ list'[m].cmds = list[m].cmds \cup {c}
    BY <1>4, <1>6
  <1>8. InLists' = InLists \cup {c}
    <2>1. \A x : x \in InLists' <=> \E m \in Lists : x \in list'[m].cmds
      BY DEF InLists
    <2>2. \A x : x \in InLists <=> \E m \in Lists : x \in list[m].cmds
      BY DEF InLists
    <2>3. \A x : x \in InLists' <=> x \in InLists \cup {c}
      BY <2>1, <2>2, <1>1, <1>4, <1>6
    <2> QED BY <2>3
  <1>9. list[CL(l)].events \in Seq(Events)
    BY <1>1 DEF ListRecord
  <1>10. PICK s : s = list[CL(l)].events
    OBVIOUS
  <1>11. \A x : (x \in ToSet(s) \/ x \in ToSet(events)) => x \in ToSet(s \o events)
    <2>1. s \in Seq(Events)
      BY <1>9, <1>10
    <2>2. /\ s \o events \in Seq(Events) /\ Len(s \o events) = Len(s) + Len(events) /\ Len(s) \in Nat /\ Len(events) \in Nat
          /\ \A i \in 1 .. Len(s) : (s \o events)[i] = s[i]
          /\ \A i \in 1 .. Len(events) : (s \o events)[Len(s) + i] = events[i]
      BY <2>1, ConcatFacts
    <2>3. DOMAIN s = 1 .. Len(s) /\ DOMAIN events = 1 .. Len(events) /\ DOMAIN (s \o events) = 1 .. Len(s) + Len(events)
      BY <2>1, <2>2
    <2>4. /\ \A x : x \in ToSet(s) <=> \E i \in 1 .. Len(s) : x = s[i]
          /\ \A x : x \in ToSet(events) <=> \E i \in 1 .. Len(events) : x = events[i]
          /\ \A x : x \in ToSet(s \o events) <=> \E i \in 1 .. Len(s) + Len(events) : x = (s \o events)[i]
      BY <2>3, Elements
    <2>5. \A i \in 1 .. Len(s) : i \in 1 .. Len(s) + Len(events)
      BY <2>2
    <2>6. \A i \in 1 .. Len(events) : Len(s) + i \in 1 .. Len(s) + Len(events)
      BY <2>2
    <2>7. ASSUME NEW x \in ToSet(s) PROVE x \in ToSet(s \o events)
      <3>1. PICK i \in 1 .. Len(s) : x = s[i]
        BY <2>4
      <3> QED BY <3>1, <2>2, <2>4, <2>5
    <2>8. ASSUME NEW x \in ToSet(events) PROVE x \in ToSet(s \o events)
      <3>1. PICK i \in 1 .. Len(events) : x = events[i]
        BY <2>4
      <3> QED BY <3>1, <2>2, <2>4, <2>6
    <2> QED BY <2>7, <2>8
  <1>12. \A x : (x \in ToSet(list[CL(l)].events) \/ x \in ToSet(events)) => x \in ToSet(list'[CL(l)].events)
    BY <1>4, <1>6, <1>10, <1>11
  <1>13. \A m \in Lists : \A x \in ToSet(list[m].events) : x \in ToSet(list'[m].events)
    BY <1>4, <1>12
  <1> QED BY <1>7, <1>8, <1>12, <1>13 DEF Added

\* A command is recorded.
LEMMA OrderRecorded ==
    ASSUME QueueTypes, OrderInv, host = "record", UNCHANGED <<config, host, queue, ran>>, next' = next + 1, NEW c,
           InLists' = InLists \cup {c}, c.id = next,
           \A m \in Lists : list'[m].cmds = list[m].cmds \/ list'[m].cmds = list[m].cmds \cup {c},
           \A x \in ToSet(list[CL("h2d")].events) : x \in ToSet(list'[CL("h2d")].events),
           c.kind = "h2d" => c.signal \in ToSet(list'[CL("h2d")].events),
           c.kind = "kernel" => \A d \in InLists : d.kind = "h2d" => d.signal \in c.waits,
           c.kind = "d2h" => \A d \in InLists : d.kind \in Kernels => d.signal \in c.waits,
           config.phased => /\ c.kind # "copy"
                            /\ c.kind = "h2d" => \A d \in InLists : d.kind \notin Kernels
                            /\ c.kind \in Kernels => \A d \in InLists : d.kind # "d2h",
           \A i \in 1 .. Len(events_compute_list') :
              \/ i \in 1 .. Len(events_compute_list) /\ events_compute_list'[i] = events_compute_list[i]
              \/ c.kind \in Kernels /\ c.signal = events_compute_list'[i][1]
    PROVE  OrderInv'
  <1>1. Idle /\ Submission /\ Numbered /\ WaitsRecorded /\ Phases /\ EventsRecorded
    BY DEF OrderInv
  <1>2. Idle' /\ Submission' /\ host' # "failed"
    BY <1>1 DEF Idle, Submission, Queued
  <1>3. CL("h2d")' = CL("h2d")
    BY DEF CL
  <1>4. next \in Int
    BY DEF QueueTypes
  <1>5. ASSUME NEW d \in InLists PROVE d.id \in Int /\ d.id < next
    <2>1. d \in Command
      BY DEF InLists, QueueTypes, ListRecord
    <2> QED BY <2>1, <1>1 DEF Numbered, Command, Ids
  <1>6. \A d \in InLists : d.id < next' /\ d.id < c.id /\ ~(c.id < d.id) /\ d.id # c.id
    BY <1>4, <1>5
  <1>7. c.id < next' /\ ~(c.id < c.id)
    BY <1>4
  <1>8. Numbered'
    <2>1. \A l \in Lists : IsFiniteSet(list'[l].cmds)
      <3>1. \A l \in Lists : IsFiniteSet(list[l].cmds)
        BY <1>1 DEF Numbered
      <3>2. \A S : IsFiniteSet(S) => IsFiniteSet(S \cup {c})
        BY FS_AddElement
      <3> QED BY <3>1, <3>2
    <2>2. \A d \in InLists' : d.id < next'
      BY <1>6, <1>7
    <2>3. \A d, e \in InLists' : d.id = e.id => d = e
      BY <1>1, <1>6 DEF Numbered
    <2> QED BY <2>1, <2>2, <2>3 DEF Numbered
  <1>9. WaitsRecorded'
    <2>1. \A d \in InLists' : d.kind = "h2d" => d.signal \in ToSet(list'[CL("h2d")].events)
      BY <1>1 DEF WaitsRecorded
    <2>2. \A d, k \in InLists' : d.kind = "h2d" /\ k.kind = "kernel" /\ d.id < k.id => d.signal \in k.waits
      BY <1>1, <1>6, <1>7 DEF WaitsRecorded
    <2>3. \A d, e \in InLists' : d.kind \in Kernels /\ e.kind = "d2h" /\ d.id < e.id => d.signal \in e.waits
      BY <1>1, <1>6, <1>7 DEF WaitsRecorded
    <2> QED BY <2>1, <2>2, <2>3, <1>3 DEF WaitsRecorded
  <1>10. Phases'
    <2> SUFFICES ASSUME config.phased
                 PROVE  /\ \A d \in InLists' : d.kind # "copy"
                        /\ \A d, k \in InLists' : d.kind = "h2d" /\ k.kind \in Kernels => d.id < k.id
                        /\ \A k, d \in InLists' : k.kind \in Kernels /\ d.kind = "d2h" => k.id < d.id
      BY DEF Phases
    <2>1. "h2d" \notin Kernels /\ "d2h" \notin Kernels
      BY DEF Kernels
    <2>2. \A d \in InLists' : d.kind # "copy"
      BY <1>1 DEF Phases
    <2>3. \A d, k \in InLists' : d.kind = "h2d" /\ k.kind \in Kernels => d.id < k.id
      BY <2>1, <1>1, <1>6 DEF Phases
    <2>4. \A k, d \in InLists' : k.kind \in Kernels /\ d.kind = "d2h" => k.id < d.id
      BY <2>1, <1>1, <1>6 DEF Phases
    <2> QED BY <2>2, <2>3, <2>4
  <1>11. EventsRecorded'
    BY <1>1 DEF EventsRecorded
  <1> QED BY <1>2, <1>8, <1>9, <1>10, <1>11 DEF OrderInv

\* Nothing is recorded.
LEMMA OrderStays ==
    ASSUME OrderInv, host = "record", UNCHANGED <<config, host, queue, ran, next, events_compute_list>>,
           \A m \in Lists : list'[m].cmds = list[m].cmds /\ list'[m].events = list[m].events
    PROVE  OrderInv'
  <1>1. InLists' = InLists
    BY DEF InLists
  <1>2. CL("h2d")' = CL("h2d") /\ CL("h2d") \in Lists
    BY DEF CL, Lists
  <1>3. Idle' /\ Submission' /\ Phases' /\ EventsRecorded' /\ host' # "failed"
    BY <1>1 DEF OrderInv, Idle, Submission, Phases, EventsRecorded, Queued
  <1>4. Numbered'
    BY <1>1 DEF OrderInv, Numbered
  <1>5. WaitsRecorded'
    BY <1>1, <1>2 DEF OrderInv, WaitsRecorded
  <1> QED BY <1>3, <1>4, <1>5 DEF OrderInv

\* A copy to the host waits for the kernels before it.
LEMMA OrderCopyToHost ==
    ASSUME QueueInv, OrderInv, CopyToHost
    PROVE  OrderInv'
  <1>1. QueueTypes /\ Placed /\ SignalsSound
    BY DEF QueueInv
  <1>2. PICK waits : waits = {p[1] : p \in ToSet(events_compute_list)}
    OBVIOUS
  <1>3. waits \in SUBSET Events
    BY <1>1, <1>2, WaitsFacts
  <1>4. /\ host = "record" /\ next <= MaxCommands /\ next' = next + 1
        /\ list' = Record("d2h", "d2h", waits, NoEvent, <<>>)
        /\ UNCHANGED <<config, host, queue, ran, events_compute_list>>
    BY <1>2 DEF CopyToHost, Recording, deviceVars
  <1>5. "d2h" \in Kinds /\ "d2h" \in Lists /\ NoEvent \in Events \cup {NoEvent} /\ <<>> \in Seq(Events) /\ "d2h" \notin Kernels
    BY DEF Kinds, Kernels, Lists
  <1>6. PICK c : c = NewCommand("d2h", "d2h", waits, NoEvent)
    OBVIOUS
  <1>7. /\ InLists' = InLists \cup {c}
        /\ c.id = next /\ c.kind = "d2h" /\ c.waits = waits /\ c.signal = NoEvent
        /\ \A m \in Lists : list'[m].cmds = list[m].cmds \/ list'[m].cmds = list[m].cmds \cup {c}
        /\ \A m \in Lists : \A x \in ToSet(list[m].events) : x \in ToSet(list'[m].events)
    <2>1. Added("d2h", <<>>, c)
      BY <1>1, <1>3, <1>4, <1>5, <1>6, RecordedFacts
    <2> QED BY <2>1, <1>6 DEF Added, NewCommand
  <1>8. ASSUME NEW d \in InLists, d.kind \in Kernels PROVE d.signal \in waits
    <2>1. d \in Unsubmitted
      BY <1>4 DEF Unsubmitted
    <2>2. Owns(d)
      BY <2>1, <1>1, <1>4 DEF SignalsSound
    <2>3. PICK i \in 1 .. Len(events_compute_list) : events_compute_list[i] = <<d.signal, d.id>>
      BY <1>8, <2>2 DEF Owns
    <2>4. events_compute_list[i] \in ToSet(events_compute_list) /\ events_compute_list[i][1] = d.signal
      BY <2>3, <1>1 DEF ToSet, QueueTypes
    <2> QED BY <2>4, <1>2
  <1>9. CL("h2d") \in Lists
    BY DEF CL, Lists
  <1>10. "d2h" # "copy" /\ "d2h" # "h2d" /\ "d2h" # "kernel"
    OBVIOUS
  <1> QED BY <1>1, <1>4, <1>5, <1>7, <1>8, <1>9, <1>10, OrderRecorded

\* A copy to the device leaves its event in the list of copies.
LEMMA OrderCopyToDevice ==
    ASSUME QueueInv, OrderInv, NEW fails \in BOOLEAN, CopyToDevice(fails)
    PROVE  OrderInv'
  <1>1. QueueTypes
    BY DEF QueueInv
  <1>2. PICK e : e = GetEvent
    OBVIOUS
  <1>3. /\ host = "record" /\ next <= MaxCommands /\ GetEventAvailable /\ InPhase("h2d")
        /\ IF ReadyEvents # {} THEN UNCHANGED <<freeList, events_pool>>
           ELSE PopEvent("copy") /\ events_pool' = Append(events_pool, e)
        /\ UNCHANGED <<config, host, queue, ran, events_compute_list>>
    BY <1>2 DEF CopyToDevice, Recording
  <1>4. \/ fails /\ UNCHANGED <<list, next>>
        \/ ~fails /\ list' = Record("h2d", "h2d", {}, e, <<e>>) /\ next' = next + 1
    BY <1>2 DEF CopyToDevice
  <1>5. e \in Events
    BY <1>2, <1>3, GetEventFacts
  <1>6. CASE fails
    BY <1>3, <1>4, <1>6, OrderStays
  <1>7. CASE ~fails
    <2>1. list' = Record("h2d", "h2d", {}, e, <<e>>) /\ next' = next + 1
      BY <1>4, <1>7
    <2>2. "h2d" \in Kinds /\ "h2d" \in Lists /\ e \in Events \cup {NoEvent} /\ <<e>> \in Seq(Events) /\ {} \in SUBSET Events
      BY <1>5 DEF Kinds, Kernels, Lists
    <2>3. PICK c : c = NewCommand("h2d", "h2d", {}, e)
      OBVIOUS
    <2>4. /\ InLists' = InLists \cup {c}
          /\ c.id = next /\ c.kind = "h2d" /\ c.signal = e
          /\ \A m \in Lists : list'[m].cmds = list[m].cmds \/ list'[m].cmds = list[m].cmds \cup {c}
          /\ \A m \in Lists : \A x \in ToSet(list[m].events) : x \in ToSet(list'[m].events)
          /\ \A x \in ToSet(<<e>>) : x \in ToSet(list'[CL("h2d")].events)
      <3>1. Added("h2d", <<e>>, c)
        BY <1>1, <1>3, <2>1, <2>2, <2>3, RecordedFacts
      <3> QED BY <3>1, <2>3 DEF Added, NewCommand
    <2>5. e \in ToSet(<<e>>)
      BY DEF ToSet
    <2>6. CL("h2d") \in Lists
      BY DEF CL, Lists
    <2>7. config.phased => \A d \in InLists : d.kind \notin Kernels
      BY <1>3, <2>2, PhaseFacts
    <2>8. "h2d" \notin Kernels /\ "h2d" # "copy" /\ "h2d" # "d2h" /\ "h2d" # "kernel"
      BY DEF Kernels
    <2>9. \A i \in 1 .. Len(events_compute_list') :
              i \in 1 .. Len(events_compute_list) /\ events_compute_list'[i] = events_compute_list[i]
      BY <1>3
    <2>10. c.signal \in ToSet(list'[CL("h2d")].events)
      BY <2>4, <2>5
    <2> QED BY <1>1, <1>3, <2>1, <2>4, <2>6, <2>7, <2>8, <2>9, <2>10, OrderRecorded
  <1> QED BY <1>6, <1>7

\* A kernel waits for the copies before it.
LEMMA OrderRecordCompute ==
    ASSUME QueueInv, OrderInv, NEW fails \in BOOLEAN, NEW kind \in Kernels, NEW waits \in SUBSET Events,
           kind = "kernel" => waits = ToSet(list[CL("h2d")].events),
           RecordCompute(kind, waits, fails)
    PROVE  OrderInv'
  <1>1. QueueTypes
    BY DEF QueueInv
  <1>2. PICK e : e = <<"compute", Head(freeList["compute"])>>
    OBVIOUS
  <1>3. /\ host = "record" /\ next <= MaxCommands /\ freeList["compute"] # <<>> /\ InPhase(kind)
        /\ UNCHANGED <<config, host, queue, ran>>
    BY DEF RecordCompute, Recording
  <1>4. \/ fails /\ UNCHANGED <<list, events_compute_list, next>>
        \/ /\ ~fails /\ list' = Record("compute", kind, waits, e, <<>>)
           /\ events_compute_list' = Append(events_compute_list, <<e, next>>)
           /\ next' = next + 1
    BY <1>2 DEF RecordCompute, CreateEvent
  <1>5. CASE fails
    BY <1>3, <1>4, <1>5, OrderStays
  <1>6. CASE ~fails
    <2>1. /\ list' = Record("compute", kind, waits, e, <<>>) /\ next' = next + 1
          /\ events_compute_list' = Append(events_compute_list, <<e, next>>)
      BY <1>4, <1>6
    <2>2. freeList["compute"] \in Seq(1 .. PoolSize["compute"])
      BY <1>1, ConstantFacts DEF QueueTypes
    <2>3. Head(freeList["compute"]) \in 1 .. PoolSize["compute"]
      <3>1. Head(freeList["compute"]) = freeList["compute"][1] /\ freeList["compute"][1] \in 1 .. PoolSize["compute"]
        BY <1>3, <2>2, TailFacts, Zenon
      <3> QED BY <3>1
    <2>4. e \in Events
      BY <1>2, <2>3, ConstantFacts, EventFacts
    <2>5. kind \in Kinds /\ "compute" \in Lists /\ e \in Events \cup {NoEvent} /\ <<>> \in Seq(Events)
      BY <2>4 DEF Kinds, Lists
    <2>6. PICK c : c = NewCommand("compute", kind, waits, e)
      OBVIOUS
    <2>7. /\ InLists' = InLists \cup {c}
          /\ c.id = next /\ c.kind = kind /\ c.waits = waits /\ c.signal = e
          /\ \A m \in Lists : list'[m].cmds = list[m].cmds \/ list'[m].cmds = list[m].cmds \cup {c}
          /\ \A m \in Lists : \A x \in ToSet(list[m].events) : x \in ToSet(list'[m].events)
      <3>1. Added("compute", <<>>, c)
        BY <1>1, <1>3, <2>1, <2>5, <2>6, RecordedFacts
      <3> QED BY <3>1, <2>6 DEF Added, NewCommand
    <2>8. CL("h2d") \in Lists
      BY DEF CL, Lists
    <2>9. config.phased => kind # "copy" /\ \A d \in InLists : d.kind # "d2h"
      BY <1>3, <2>5, PhaseFacts
    <2>10. kind = "kernel" => \A d \in InLists : d.kind = "h2d" => d.signal \in waits
      BY DEF OrderInv, WaitsRecorded
    <2>11. kind # "h2d" /\ kind # "d2h"
      BY DEF Kernels
    <2>12. \A i \in 1 .. Len(events_compute_list') :
              \/ i \in 1 .. Len(events_compute_list) /\ events_compute_list'[i] = events_compute_list[i]
              \/ c.kind \in Kernels /\ c.signal = events_compute_list'[i][1]
      <3>1. PICK k, n : k = next /\ n = Len(events_compute_list)
        OBVIOUS
      <3>2. events_compute_list \in Seq(Events \X Ids) /\ <<e, k>> \in Events \X Ids /\ n \in Nat
        BY <1>1, <1>3, <2>4, <3>1, ConstantFacts, SMTT(30) DEF QueueTypes, Ids
      <3>3. /\ Len(events_compute_list') = n + 1
            /\ \A i \in 1 .. n : events_compute_list'[i] = events_compute_list[i]
            /\ events_compute_list'[n + 1] = <<e, k>>
        BY <2>1, <3>1, <3>2, AppendFacts
      <3>4. \A i \in 1 .. n + 1 : i \in 1 .. n \/ i = n + 1
        BY <3>2
      <3>5. events_compute_list'[n + 1][1] = e
        BY <3>3
      <3> QED BY <2>7, <3>1, <3>3, <3>4, <3>5
    <2> QED BY <1>1, <1>3, <2>1, <2>7, <2>8, <2>9, <2>10, <2>11, <2>12, OrderRecorded, SMTT(30)
  <1> QED BY <1>5, <1>6

\* A barrier changes no wait.
LEMMA OrderBarrier ==
    ASSUME QueueInv, OrderInv, Barrier
    PROVE  OrderInv'
  <1>1. /\ host = "record"
        /\ list' = [list EXCEPT !["compute"].floor = {c.id : c \in list["compute"].cmds}]
        /\ UNCHANGED <<config, host, queue, ran, next, events_compute_list>>
    BY DEF Barrier, Recording, deviceVars
  <1>2. list \in [Lists -> ListRecord] /\ "compute" \in Lists
    BY ConstantFacts DEF QueueInv, QueueTypes
  <1>3. PICK r : r = [list["compute"] EXCEPT !.floor = {c.id : c \in list["compute"].cmds}]
    OBVIOUS
  <1>4. r.cmds = list["compute"].cmds /\ r.events = list["compute"].events
    BY <1>2, <1>3 DEF ListRecord
  <1>5. list' = [list EXCEPT !["compute"] = r]
    BY <1>1, <1>3
  <1>6. \A l \in Lists : list'[l] = IF l = "compute" THEN r ELSE list[l]
    BY <1>2, <1>5
  <1>7. \A l \in Lists : list'[l].cmds = list[l].cmds /\ list'[l].events = list[l].events
    BY <1>4, <1>6
  <1> QED BY <1>1, <1>7, OrderStays

\* A command that runs has waited, and signals.
LEMMA OrderExecute ==
    ASSUME QueueInv, OrderInv, NEW q \in Pools, NEW c \in queue[q], NEW duration \in Ticks, Execute(q, c, duration)
    PROVE  OrderInv'
  <1>1. Idle /\ Submission /\ Numbered /\ WaitsRecorded /\ Phases /\ EventsRecorded /\ host # "failed"
    BY DEF OrderInv
  <1>2. /\ queue' = [queue EXCEPT ![q] = queue[q] \ {c}] /\ ran' = ran \cup {c}
        /\ c.waits \subseteq signalled
        /\ signalled' = signalled \cup ({c.signal} \ {NoEvent})
        /\ UNCHANGED <<config, list, events_compute_list, host, next>>
    BY DEF Execute, hostVars
  <1>3. q = "compute" \/ q = "copy"
    BY ConstantFacts
  <1>4. c \in Queued
    BY <1>3 DEF Queued
  <1>5. host = "sync"
    BY <1>1, <1>4 DEF QueueInv, QueueTypes, PCs, Idle
  <1>6. queue \in [Pools -> SUBSET Command]
    BY DEF QueueInv, QueueTypes
  <1>7. \A p \in Pools : queue'[p] \subseteq queue[p]
    BY <1>2, <1>6
  <1>8. Queued' \subseteq Queued
    BY <1>7, ConstantFacts DEF Queued
  <1>9. InLists' = InLists /\ CL("h2d")' = CL("h2d")
    BY <1>2 DEF InLists, CL
  <1>10. Submission'
    BY <1>1, <1>2, <1>4, <1>5, <1>8, <1>9 DEF Submission
  <1>11. Idle'
    BY <1>2, <1>5 DEF Idle
  <1>12. Numbered' /\ WaitsRecorded' /\ Phases' /\ EventsRecorded'
    BY <1>1, <1>2, <1>9 DEF Numbered, WaitsRecorded, Phases, EventsRecorded
  <1> QED BY <1>2, <1>5, <1>10, <1>11, <1>12 DEF OrderInv

\* What is submitted is what the lists hold.
LEMMA OrderSyncSubmit ==
    ASSUME QueueInv, OrderInv, SyncSubmit
    PROVE  OrderInv'
  <1>1. Idle /\ Submission /\ Numbered /\ WaitsRecorded /\ Phases /\ EventsRecorded
    BY DEF OrderInv
  <1>2. /\ host = "record" /\ host' = "sync" /\ queue' = SubmitQueues /\ list' = SubmitLists
        /\ UNCHANGED <<config, events_compute_list, next, ran>>
    BY DEF SyncSubmit
  <1>3. \A l \in Lists : list[l] \in ListRecord
    BY DEF QueueInv, QueueTypes
  <1>4. \A l \in Lists : list'[l] = [list[l] EXCEPT !.submitted = list[l].cmds # {}]
    BY <1>2 DEF SubmitLists
  <1>5. \A l \in Lists : list'[l].cmds = list[l].cmds /\ list'[l].events = list[l].events
    BY <1>3, <1>4 DEF ListRecord
  <1>6. InLists' = InLists
    BY <1>5 DEF InLists
  <1>7. CL("h2d")' = CL("h2d") /\ \A m \in Lists : CL(m) \in Lists
    BY <1>2 DEF CL, Lists
  <1>8. Queued = {} /\ ran = {}
    BY <1>1, <1>2 DEF Idle
  <1>9. ASSUME NEW x \in Queued' PROVE x \in InLists
    <2>1. PICK p \in Pools : x \in queue'[p] /\ x \notin queue[p]
      BY <1>8, <1>9, ConstantFacts DEF Queued
    <2>2. PICK m \in Lists : x \in list[CL(m)].cmds
      BY <2>1, <1>2 DEF SubmitQueues
    <2> QED BY <2>2, <1>7 DEF InLists
  <1>10. Submission' /\ Idle'
    BY <1>2, <1>6, <1>8, <1>9 DEF Submission, Idle
  <1>11. Numbered' /\ Phases' /\ EventsRecorded'
    BY <1>1, <1>2, <1>5, <1>6 DEF Numbered, Phases, EventsRecorded
  <1>12. WaitsRecorded'
    <2>1. "h2d" \in Lists /\ list'[CL("h2d")].events = list[CL("h2d")].events
      BY <1>5, <1>7, ConstantFacts
    <2> QED BY <2>1, <1>1, <1>6, <1>7 DEF WaitsRecorded
  <1> QED BY <1>2, <1>10, <1>11, <1>12 DEF OrderInv

\* If all events of the list are signalled, all their times are read.
LEMMA CompletedAll ==
    ASSUME events_compute_list \in Seq(Events \X Ids),
           \A i \in 1 .. Len(events_compute_list) : events_compute_list[i][1] \in signalled
    PROVE  Completed = events_compute_list
  <1> DEFINE s == events_compute_list
             n == Len(s)
             S == {k \in 0 .. n : \A i \in 1 .. k : s[i][1] \in signalled}
             m == Max(S)
  <1>1. n \in Nat
    OBVIOUS
  <1>2. n \in S
    BY <1>1
  <1>3. m \in S /\ \A y \in S : m >= y
    BY <1>1, <1>2, MaxFacts, Zenon
  <1>4. Completed = SubSeq(s, 1, m)
    BY DEF Completed
  <1> HIDE DEF m
  <1>5. m = n
    BY <1>1, <1>2, <1>3
  <1>6. n \in 0 .. Len(s)
    BY <1>1
  <1>7. /\ SubSeq(s, 1, n) \in Seq(Events \X Ids) /\ Len(SubSeq(s, 1, n)) = n
        /\ \A i \in 1 .. n : SubSeq(s, 1, n)[i] = s[i]
    BY <1>6, PrefixFacts
  <1>8. SubSeq(s, 1, n) = s
    <2>1. PICK t : t = SubSeq(s, 1, n)
      OBVIOUS
    <2>2. t = [i \in 1 .. n |-> t[i]] /\ s = [i \in 1 .. n |-> s[i]]
      BY <1>7, <2>1
    <2>3. \A i \in 1 .. n : t[i] = s[i]
      BY <1>7, <2>1
    <2> QED BY <2>1, <2>2, <2>3
  <1> QED BY <1>4, <1>5, <1>8

\* When sync's wait is over, nothing is left to run.
LEMMA SyncIdle ==
    ASSUME QueueInv, OrderInv, Orderly, host = "sync", Synchronized
    PROVE  Queued = {}
  <1>1. QueueTypes /\ PoolsShared /\ Placed /\ SignalsSound
    BY DEF QueueInv
  <1>2. Submission /\ Numbered /\ WaitsRecorded /\ Phases /\ EventsRecorded
    BY DEF OrderInv
  <1>3. SUFFICES ASSUME NEW c \in Queued PROVE FALSE
    OBVIOUS
  <1>4. c \in InLists
    BY <1>2 DEF Submission
  <1>5. /\ c \in Command /\ (c.kind = "h2d" \/ c.kind = "d2h" \/ c.kind \in Kernels)
        /\ ListOf(c.kind) \in Lists /\ c \in list[CL(ListOf(c.kind))].cmds
    BY <1>1, <1>4, PlaceFacts
  <1>6. Owns(c) /\ c.signal \notin signalled
    BY <1>1 DEF SignalsSound
  <1>7. c.kind = "h2d" => Count("h2d") > 0
    <2>1. "h2d" \in Lists /\ ListOf("h2d") = "h2d"
      BY ConstantFacts DEF ListOf, Kernels
    <2> QED BY <2>1, <1>2, <1>5, CountFacts
  <1>8. c.kind = "d2h" => Count("d2h") > 0
    <2>1. "d2h" \in Lists /\ ListOf("d2h") = "d2h"
      BY ConstantFacts DEF ListOf, Kernels
    <2> QED BY <2>1, <1>2, <1>5, CountFacts
  <1>9. c.kind \in Kernels => events_compute_list # <<>>
    BY <1>6 DEF Owns
  <1>10. \A d \in Queued : d \in queue[Q(ListOf(d.kind))]
    BY <1>1, ConstantFacts DEF Queued, Placed
  <1>11. config \in Configs
    BY <1>1 DEF QueueTypes
  <1>12. \A d \in InLists : d \notin Queued => d \in ran
    BY <1>1 DEF Placed
  <1>13. \A d \in ran : d.waits \subseteq signalled
    BY <1>2 DEF Submission
  <1>14. Count("d2h") \in Nat /\ Count("h2d") \in Nat
    BY <1>2, CountFacts, ConstantFacts
  <1>15. CASE ~config.engine
    <2>1. SyncQueue = "compute"
      BY <1>15, <1>5, <1>7, <1>8, <1>9 DEF SyncQueue
    <2>2. queue["compute"] = {}
      BY <2>1 DEF Synchronized
    <2>3. Q(ListOf(c.kind)) = "compute"
      BY <1>15 DEF Q
    <2> QED BY <2>2, <2>3, <1>10
  <1>16. CASE config.engine
    <2>1. config.phased /\ config.multi
      BY <1>16, <1>11, ConstantFacts DEF Orderly
    <2>2. /\ \A d, k \in InLists : d.kind = "h2d" /\ k.kind \in Kernels => d.id < k.id
          /\ \A k, d \in InLists : k.kind \in Kernels /\ d.kind = "d2h" => k.id < d.id
          /\ \A d \in InLists : d.kind # "copy"
      BY <2>1, <1>2 DEF Phases
    <2>3. \A d : d.kind = "h2d" \/ d.kind = "d2h" => Q(ListOf(d.kind)) = "copy"
      BY <1>16 DEF Q, ListOf, Kernels
    <2>4. \A d : d.kind \in Kernels => Q(ListOf(d.kind)) = "compute"
      BY <1>16 DEF Q, ListOf
    <2>5. CASE Count("d2h") > 0
      <3>1. SyncQueue = "copy"
        BY <2>5, <1>14, <1>16 DEF SyncQueue
      <3>2. queue["copy"] = {}
        BY <3>1 DEF Synchronized
      <3>3. c.kind \in Kernels
        BY <3>2, <2>3, <1>5, <1>10
      <3>4. list[CL("d2h")].cmds # {} /\ CL("d2h") \in Lists
        BY <2>5, <1>2, CountFacts, ConstantFacts DEF CL
      <3>5. PICK d : d \in list[CL("d2h")].cmds
        BY <3>4
      <3>6. d \in InLists
        BY <3>4, <3>5 DEF InLists
      <3>7. d.kind = "d2h"
        <4>1. CL("d2h") = "d2h"
          BY <2>1 DEF CL
        <4>2. "d2h" = CL(ListOf(d.kind))
          BY <4>1, <3>4, <3>5, <1>1 DEF Placed
        <4>3. ListOf(d.kind) = "d2h"
          BY <4>2, <2>1 DEF CL
        <4> QED BY <4>3 DEF ListOf
      <3>8. d \in ran
        BY <3>2, <3>6, <3>7, <2>3, <1>10, <1>12
      <3>9. c.signal \in d.waits
        BY <3>3, <3>6, <3>7, <2>2, <1>2, <1>4 DEF WaitsRecorded
      <3> QED BY <3>8, <3>9, <1>6, <1>13
    <2>6. CASE Count("d2h") = 0 /\ events_compute_list # <<>>
      <3>1. SyncQueue = "compute"
        BY <2>6, <1>14, <1>16 DEF SyncQueue
      <3>2. queue["compute"] = {}
        BY <3>1 DEF Synchronized
      <3>3. c.kind # "d2h"
        BY <2>6, <1>8
      <3>4. c.kind = "h2d"
        BY <3>2, <3>3, <2>4, <1>5, <1>10
      <3>5. 1 \in 1 .. Len(events_compute_list)
        BY <2>6, <1>1, EmptySeq DEF QueueTypes
      <3>6. PICK k \in InLists : k.kind \in Kernels
        BY <3>5, <1>2 DEF EventsRecorded
      <3>7. k \in ran
        BY <3>2, <3>6, <2>4, <1>10, <1>12
      <3>8. k.kind = "kernel"
        BY <3>6, <2>2 DEF Kernels
      <3>9. c.signal \in k.waits
        BY <3>4, <3>6, <3>8, <2>2, <1>2, <1>4 DEF WaitsRecorded
      <3> QED BY <3>7, <3>9, <1>6, <1>13
    <2>7. CASE Count("d2h") = 0 /\ events_compute_list = <<>>
      <3>1. c.kind = "h2d"
        BY <2>7, <1>5, <1>8, <1>9
      <3>2. SyncQueue = "copy"
        BY <2>7, <3>1, <1>7, <1>16 DEF SyncQueue
      <3>3. queue["copy"] = {}
        BY <3>2 DEF Synchronized
      <3> QED BY <3>1, <3>3, <2>3, <1>10
    <2> QED BY <2>5, <2>6, <2>7, <1>14
  <1> QED BY <1>15, <1>16

\* sync does not fail, and leaves the device idle.
LEMMA OrderSyncFinish ==
    ASSUME QueueInv, OrderInv, Orderly, SyncFinish
    PROVE  OrderInv'
  <1>1. host = "sync" /\ Synchronized
    BY DEF SyncFinish
  <1>2. Queued = {}
    BY <1>1, SyncIdle
  <1>3. ASSUME NEW i \in 1 .. Len(events_compute_list) PROVE events_compute_list[i][1] \in signalled
    <2>1. PICK c \in InLists : c.kind \in Kernels /\ c.signal = events_compute_list[i][1]
      BY <1>1 DEF OrderInv, EventsRecorded
    <2>2. c \in ran
      BY <1>1, <1>2 DEF QueueInv, Placed
    <2>3. events_compute_list[i] \in Events \X Ids
      BY DEF QueueInv, QueueTypes
    <2>4. c.signal # NoEvent
      BY <2>1, <2>3, EventFacts
    <2>5. c.signal \in signalled
      BY <2>2, <2>4, <1>1 DEF OrderInv, Submission
    <2> QED BY <2>1, <2>5
  <1>4. events_compute_list \in Seq(Events \X Ids)
    BY DEF QueueInv, QueueTypes
  <1>5. Completed = events_compute_list
    BY <1>3, <1>4, CompletedAll
  <1>6. /\ host' = "read" /\ list' = ResetLists /\ ran' = {} /\ queue' = queue
    BY <1>5 DEF SyncFinish
  <1>7. \A l \in Lists : list'[l].cmds = {}
    <2>1. \A l \in Lists : list'[l] = EmptyList \/ list'[l] = [EmptyList EXCEPT !.floor = list[l].floor]
      BY <1>6 DEF ResetLists
    <2>2. EmptyList.cmds = {} /\ \A x : [EmptyList EXCEPT !.floor = x].cmds = {}
      BY DEF EmptyList
    <2> QED BY <2>1, <2>2
  <1>8. InLists' = {} /\ Queued' = {}
    BY <1>2, <1>6, <1>7 DEF InLists, Queued
  <1>9. \A l \in Lists : IsFiniteSet(list'[l].cmds)
    BY <1>7, FS_EmptySet
  <1> QED BY <1>6, <1>8, <1>9 DEF OrderInv, Idle, Submission, Numbered, WaitsRecorded, Phases, EventsRecorded

\* The host reads its futures, or destroys the queue.
LEMMA OrderHost ==
    ASSUME QueueInv, OrderInv, ReadFutures \/ Destroy
    PROVE  OrderInv'
  <1>1. /\ UNCHANGED <<config, list, queue, next, ran>>
        /\ \/ host = "read" /\ host' = "record" /\ UNCHANGED events_compute_list
           \/ host = "record" /\ host' = "destroyed"
    BY DEF ReadFutures, Destroy, deviceVars
  <1>2. InLists' = InLists /\ Queued' = Queued /\ CL("h2d")' = CL("h2d")
    BY <1>1 DEF InLists, Queued, CL
  <1>3. Idle' /\ Submission' /\ host' # "failed"
    BY <1>1, <1>2 DEF OrderInv, Idle, Submission
  <1>4. Numbered' /\ WaitsRecorded' /\ Phases'
    BY <1>1, <1>2 DEF OrderInv, Numbered, WaitsRecorded, Phases
  <1>5. EventsRecorded'
    <2>1. host = "read" => Len(events_compute_list) = 0
      BY DEF QueueInv, FuturesSound
    <2> QED BY <2>1, <1>1 DEF EventsRecorded
  <1> QED BY <1>3, <1>4, <1>5 DEF OrderInv

\* Every step keeps the order.
LEMMA OrderStep ==
    ASSUME Orderly, QueueInv, OrderInv, [GpuNext]_gpuVars
    PROVE  OrderInv'
  <1>1. CASE CopyToHost
    BY <1>1, OrderCopyToHost
  <1>2. CASE Barrier
    BY <1>2, OrderBarrier
  <1>3. ASSUME NEW fails \in BOOLEAN, CopyToDevice(fails) PROVE OrderInv'
    BY <1>3, OrderCopyToDevice
  <1>4. ASSUME NEW fails \in BOOLEAN, Launch(fails) PROVE OrderInv'
    <2>1. PICK waits : waits = ToSet(list[CL("h2d")].events)
      OBVIOUS
    <2>2. CL("h2d") \in Lists /\ "kernel" \in Kernels
      BY DEF CL, Lists, Kernels
    <2>3. waits \in SUBSET Events
      BY <2>1, <2>2, WaitsFacts DEF QueueInv
    <2>4. RecordCompute("kernel", waits, fails)
      BY <1>4, <2>1 DEF Launch
    <2> QED BY <2>1, <2>2, <2>3, <2>4, OrderRecordCompute
  <1>5. ASSUME NEW fails \in BOOLEAN, CopyMemoryView(fails) PROVE OrderInv'
    <2>1. "copy" \in Kernels /\ {} \in SUBSET Events /\ "copy" # "kernel"
      BY DEF Kernels
    <2>2. RecordCompute("copy", {}, fails)
      BY <1>5 DEF CopyMemoryView
    <2> QED BY <2>1, <2>2, OrderRecordCompute
  <1>6. CASE SyncSubmit
    BY <1>6, OrderSyncSubmit
  <1>7. CASE SyncFinish
    BY <1>7, OrderSyncFinish
  <1>8. CASE ReadFutures \/ Destroy
    BY <1>8, OrderHost
  <1>9. CASE Device
    BY <1>9, OrderExecute DEF Device
  <1>10. CASE UNCHANGED gpuVars
    <2>1. UNCHANGED <<config, list, events_compute_list, host, next, queue, signalled, ran>>
      BY <1>10 DEF gpuVars, hostVars, deviceVars
    <2>2. InLists' = InLists /\ Queued' = Queued /\ CL("h2d")' = CL("h2d")
      BY <2>1 DEF InLists, Queued, CL
    <2>3. Idle' /\ Submission' /\ host' # "failed"
      BY <2>1, <2>2 DEF OrderInv, Idle, Submission
    <2>4. Numbered' /\ WaitsRecorded' /\ Phases' /\ EventsRecorded'
      BY <2>1, <2>2 DEF OrderInv, Numbered, WaitsRecorded, Phases, EventsRecorded
    <2> QED BY <2>3, <2>4 DEF OrderInv
  <1> QED BY <1>1, <1>2, <1>3, <1>4, <1>5, <1>6, <1>7, <1>8, <1>9, <1>10 DEF GpuNext

\* The two invariants imply the property.
LEMMA OrderKept == QueueInv /\ OrderInv => CommandsOrdered
  <1> SUFFICES ASSUME QueueInv, OrderInv PROVE CommandsOrdered
    OBVIOUS
  <1>1. host \in {"record", "sync", "read", "destroyed"}
    BY DEF QueueInv, QueueTypes, PCs, OrderInv
  <1>2. AllCommands = InLists \cup Queued
    <2>1. AllCommands = InLists \cup queue["compute"] \cup queue["copy"]
      BY DEF AllCommands, InLists
    <2> QED BY <2>1 DEF Queued
  <1>3. SyncCompletes
    <2>1. host \in {"record", "read"} => queue["compute"] = {} /\ queue["copy"] = {}
      BY DEF OrderInv, Idle, Queued
    <2> QED BY <2>1, ConstantFacts DEF SyncCompletes
  <1>4. ASSUME NEW c \in AllCommands \ ran, NEW d \in ran, c.signal \in d.waits PROVE FALSE
    <2>1. host = "sync"
      BY <1>1 DEF OrderInv, Idle
    <2>2. c \in Queued
      BY <2>1, <1>2 DEF QueueInv, Placed
    <2>3. c.signal \notin signalled
      BY <2>2 DEF QueueInv, SignalsSound
    <2>4. d.waits \subseteq signalled
      BY <2>1 DEF OrderInv, Submission
    <2> QED BY <1>4, <2>3, <2>4
  <1>5. ASSUME NEW c \in AllCommands \ ran, NEW d \in ran
        PROVE  c \in InLists /\ d \in InLists /\ (d.id < c.id \/ c.id < d.id)
    <2>1. host = "sync"
      BY <1>1 DEF OrderInv, Idle
    <2>2. c \in InLists /\ d \in InLists
      BY <2>1, <1>2 DEF OrderInv, Submission
    <2>3. c \in Command /\ d \in Command
      BY <2>2, PlaceFacts DEF QueueInv
    <2>4. c.id \in Int /\ d.id \in Int
      BY <2>3 DEF Command, Ids
    <2>5. c.id # d.id
      BY <2>2 DEF OrderInv, Numbered
    <2> QED BY <2>2, <2>4, <2>5
  <1>6. KernelsSeeCopies
    BY <1>4, <1>5 DEF KernelsSeeCopies, OrderInv, WaitsRecorded
  <1>7. ResultsCopiedLast
    <2>1. Kernels = {"kernel", "copy"}
      BY DEF Kernels
    <2> QED BY <2>1, <1>4, <1>5 DEF ResultsCopiedLast, OrderInv, WaitsRecorded
  <1> QED BY <1>3, <1>6, <1>7 DEF CommandsOrdered

\* On a device that has no copy engine, for every program, and on one that has,
\* for programs that copy in, launch and copy out: a kernel starts after the
\* copies to the device that were recorded before it, a copy to the host after
\* the kernels before it, and sync returns when the device has run everything
\* (launch, copyToHost and sync of GPUDevice.cpp).
THEOREM CommandsAreOrdered == Orderly => (GpuSpec => []CommandsOrdered)
  <1> SUFFICES ASSUME Orderly PROVE GpuSpec => []CommandsOrdered
    OBVIOUS
  <1>1. QueueInv /\ OrderInv /\ [GpuNext]_gpuVars => OrderInv'
    BY OrderStep
  <1> QED BY <1>1, QueueAlways, OrderStart, OrderKept, PTL DEF GpuSpec
=============================================================================
