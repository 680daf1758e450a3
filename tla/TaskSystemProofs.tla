-------------------------- MODULE TaskSystemProofs --------------------------
(***************************************************************************)
(* TaskSystem is safe for every number of worker and application threads,  *)
(* groups and launches.  The theorems assume 0 \notin Counts: no launch    *)
(* statement has a count of zero (with one, a group is on the active list *)
(* with no task).  They follow from one inductive invariant, Inv.  Its     *)
(* parts say more than the properties do: who may hold a handle            *)
(* (HandleInv), what the counter means while a launch is under way         *)
(* (CountInv), and that the functions below the top of a stack all wait in *)
(* Sync (StackInv).                                                        *)
(***************************************************************************)
EXTENDS TaskSystem, FiniteSetTheorems, SequenceTheorems, TLAPS

(***************************************************************************)
(* Stacks and queues                                                       *)
(*                                                                         *)
(* The stacks of functions, seen as a set of activations, and the queues   *)
(* of waiting tasks and active groups, seen as sets without repetitions.   *)
(* The proofs about the actions then reason about sets and functions only. *)
(***************************************************************************)

\* Pop removes the last element of a non-empty sequence and keeps the others.
LEMMA PopFacts ==
    ASSUME NEW S, NEW s \in Seq(S), s # <<>>
    PROVE  /\ Pop(s) \in Seq(S)
           /\ Len(s) \in Nat /\ Len(s) > 0
           /\ Len(Pop(s)) = Len(s) - 1
           /\ \A d \in 1 .. Len(s) - 1 : Pop(s)[d] = s[d]
           /\ s[Len(s)] \in S
  <1> DEFINE n == Len(s)
  <1>1. n \in Nat /\ n > 0
    BY EmptySeq, LenProperties
  <1>2. n \in 1 .. n /\ \A i \in 1 .. n - 1 : i \in 1 .. n
    BY <1>1
  <1>3. \A i \in 1 .. n : s[i] \in S
    BY ElementOfSeq
  <1> HIDE DEF n
  <1>4. /\ SubSeq(s, 1, n - 1) \in Seq(S)
        /\ Len(SubSeq(s, 1, n - 1)) = IF 1 <= n - 1 THEN (n - 1) - 1 + 1 ELSE 0
        /\ \A i \in 1 .. (n - 1) - 1 + 1 : SubSeq(s, 1, n - 1)[i] = s[1 + i - 1]
    <2>1. 1 \in Int /\ n - 1 \in Int /\ \A i \in 1 .. n - 1 : s[i] \in S
      BY <1>1, <1>2, <1>3
    <2> QED BY <2>1, SubSeqProperties
  <1>5. Len(SubSeq(s, 1, n - 1)) = n - 1
    BY <1>1, <1>4
  <1>6. \A i \in 1 .. n - 1 : SubSeq(s, 1, n - 1)[i] = s[i]
    <2> TAKE i \in 1 .. n - 1
    <2>1. i \in 1 .. (n - 1) - 1 + 1 /\ 1 + i - 1 = i
      BY <1>1
    <2> QED BY <2>1, <1>4
  <1> QED BY <1>1, <1>2, <1>3, <1>4, <1>5, <1>6 DEF n, Pop

\* The position of the function on top of the stack of thread t.
Act(t) == <<t, Len(stack[t])>>

\* Activations are pairs of a thread and a position on its stack.
LEMMA ActivationFacts ==
    /\ \A a \in Activations : /\ a[1] \in Threads /\ a[2] \in 1 .. Len(stack[a[1]])
                              /\ a = <<a[1], a[2]>>
    /\ \A t \in Threads : \A d \in 1 .. Len(stack[t]) :
         <<t, d>> \in Activations /\ Fn(<<t, d>>) = stack[t][d]
  <1>1. ASSUME NEW a \in Activations
        PROVE  a[1] \in Threads /\ a[2] \in 1 .. Len(stack[a[1]]) /\ a = <<a[1], a[2]>>
    <2>1. PICK t \in Threads : a \in {t} \X (1 .. Len(stack[t]))
      BY DEF Activations
    <2> QED BY <2>1
  <1>2. ASSUME NEW t \in Threads, NEW d \in 1 .. Len(stack[t])
        PROVE  <<t, d>> \in Activations /\ Fn(<<t, d>>) = stack[t][d]
    <2>1. <<t, d>> \in {t} \X (1 .. Len(stack[t]))
      OBVIOUS
    <2>2. <<t, d>> \in Activations
      BY <2>1 DEF Activations
    <2> QED BY <2>2 DEF Fn
  <1> QED BY <1>1, <1>2

\* Replacing the last element of a sequence keeps its length and the others.
LEMMA ReplaceTop ==
    ASSUME NEW S, NEW s \in Seq(S), s # <<>>, NEW f \in S
    PROVE  LET r == Append(Pop(s), f) IN
           /\ r \in Seq(S)
           /\ Len(r) = Len(s)
           /\ \A d \in 1 .. Len(s) : r[d] = IF d = Len(s) THEN f ELSE s[d]
  BY PopFacts

\* Append adds one element at the end.
LEMMA PushFacts ==
    ASSUME NEW S, NEW s \in Seq(S), NEW f \in S
    PROVE  LET r == Append(s, f) IN
           /\ r \in Seq(S)
           /\ Len(s) \in Nat
           /\ Len(r) = Len(s) + 1
           /\ \A d \in 1 .. Len(s) : r[d] = s[d]
           /\ r[Len(s) + 1] = f
  OBVIOUS

\* ActivationFacts in the next state.
LEMMA ActivationFactsPrimed ==
    /\ \A a \in Activations' : /\ a[1] \in Threads /\ a[2] \in 1 .. Len(stack'[a[1]])
                              /\ a = <<a[1], a[2]>>
    /\ \A t \in Threads : \A d \in 1 .. Len(stack'[t]) :
         <<t, d>> \in Activations' /\ Fn(<<t, d>>)' = stack'[t][d]
  <1>1. (/\ \A a \in Activations : /\ a[1] \in Threads /\ a[2] \in 1 .. Len(stack[a[1]])
                                   /\ a = <<a[1], a[2]>>
         /\ \A t \in Threads : \A d \in 1 .. Len(stack[t]) :
              <<t, d>> \in Activations /\ Fn(<<t, d>>) = stack[t][d])'
    BY ActivationFacts, PTL
  <1> QED BY <1>1

\* The top function of a thread with a non-empty stack is an activation.
LEMMA TopFacts ==
    ASSUME stack \in [Threads -> Seq(Frame)], NEW t \in Threads, stack[t] # <<>>
    PROVE  /\ stack[t] \in Seq(Frame)
           /\ Len(stack[t]) \in Nat /\ Len(stack[t]) > 0
           /\ Act(t) \in Activations
           /\ Fn(Act(t)) = Top(t)
           /\ Top(t) \in Frame
  <1>1. stack[t] \in Seq(Frame)
    OBVIOUS
  <1>2. Len(stack[t]) \in Nat /\ Len(stack[t]) > 0 /\ stack[t][Len(stack[t])] \in Frame
    BY <1>1, PopFacts
  <1>3. Len(stack[t]) \in 1 .. Len(stack[t])
    BY <1>2
  <1> QED BY <1>1, <1>2, <1>3, ActivationFacts DEF Act, Top

\* Every activation is a frame.
LEMMA FrameFacts ==
    ASSUME stack \in [Threads -> Seq(Frame)], NEW a \in Activations
    PROVE  Fn(a) \in Frame
  <1>1. a[1] \in Threads /\ a[2] \in 1 .. Len(stack[a[1]]) /\ stack[a[1]] \in Seq(Frame)
    BY ActivationFacts
  <1> QED BY <1>1, ElementOfSeq DEF Fn

\* What SetTop does to the stacks.
LEMMA SetTopFacts ==
    ASSUME stack \in [Threads -> Seq(Frame)], NEW t \in Threads, stack[t] # <<>>,
           NEW f \in Frame, stack' = SetTop(t, f)
    PROVE  /\ stack' \in [Threads -> Seq(Frame)]
           /\ \A u \in Threads : Len(stack'[u]) = Len(stack[u])
           /\ Activations' = Activations
           /\ \A a \in Activations : Fn(a)' = IF a = Act(t) THEN f ELSE Fn(a)
  <1> DEFINE s == stack[t]
             r == Append(Pop(s), f)
  <1>1. s \in Seq(Frame)
    OBVIOUS
  <1>2. stack' = [stack EXCEPT ![t] = r]
    BY DEF SetTop
  <1>3. /\ r \in Seq(Frame) /\ Len(r) = Len(s)
        /\ \A d \in 1 .. Len(s) : r[d] = IF d = Len(s) THEN f ELSE s[d]
    BY <1>1, ReplaceTop
  <1> HIDE DEF r
  <1>5. /\ stack'[t] = r
        /\ \A u \in Threads \ {t} : stack'[u] = stack[u]
        /\ stack' \in [Threads -> Seq(Frame)]
    BY <1>2, <1>3
  <1>6. \A u \in Threads : Len(stack'[u]) = Len(stack[u])
    BY <1>3, <1>5
  <1>7. Activations' = Activations
    BY <1>6 DEF Activations
  <1>8. ASSUME NEW a \in Activations
        PROVE  Fn(a)' = IF a = Act(t) THEN f ELSE Fn(a)
    <2>1. a[1] \in Threads /\ a[2] \in 1 .. Len(stack[a[1]]) /\ a = <<a[1], a[2]>>
      BY ActivationFacts
    <2>2. Fn(a)' = stack'[a[1]][a[2]]
      BY DEF Fn
    <2>3. CASE a[1] = t
      <3>1. stack'[a[1]][a[2]] = IF a[2] = Len(s) THEN f ELSE s[a[2]]
        BY <2>1, <2>3, <1>3, <1>5
      <3>2. a = Act(t) <=> a[2] = Len(s)
        BY <2>1, <2>3 DEF Act
      <3> QED BY <2>2, <2>3, <3>1, <3>2 DEF Fn
    <2>4. CASE a[1] # t
      <3>1. a # Act(t)
        BY <2>4 DEF Act
      <3> QED BY <2>1, <2>2, <2>4, <3>1, <1>5 DEF Fn
    <2> QED BY <2>3, <2>4
  <1> QED BY <1>5, <1>6, <1>7, <1>8

\* Positions on a stack are at most the position of its top.
LEMMA BelowTop ==
    ASSUME stack \in [Threads -> Seq(Frame)], NEW t \in Threads, NEW a \in Activations, a[1] = t
    PROVE  /\ stack[t] # <<>>
           /\ a[2] \in Nat /\ 1 <= a[2] /\ a[2] <= Act(t)[2] /\ Act(t)[2] = Len(stack[t])
           /\ a # Act(t) => a[2] < Act(t)[2]
  <1>1. a[2] \in 1 .. Len(stack[t]) /\ a = <<a[1], a[2]>> /\ Len(stack[t]) \in Nat
    BY ActivationFacts, LenProperties
  <1>2. stack[t] # <<>>
    BY <1>1, EmptySeq
  <1>3. a # Act(t) => a[2] # Len(stack[t])
    BY <1>1 DEF Act
  <1>4. Act(t)[2] = Len(stack[t])
    BY DEF Act
  <1> QED BY <1>1, <1>2, <1>3, <1>4

\* A thread with an empty stack starts a function.
LEMMA FirstFacts ==
    ASSUME stack \in [Threads -> Seq(Frame)], NEW t \in Threads, stack[t] = <<>>,
           NEW f \in Frame, stack' = [stack EXCEPT ![t] = <<f>>]
    PROVE  /\ stack' \in [Threads -> Seq(Frame)]
           /\ \A a \in Activations : a[1] # t
           /\ <<t, 1>> \notin Activations
           /\ Activations' = Activations \cup {<<t, 1>>}
           /\ Fn(<<t, 1>>)' = f
           /\ \A a \in Activations : Fn(a)' = Fn(a)
  <1>1. /\ stack' \in [Threads -> Seq(Frame)] /\ Len(stack'[t]) = 1 /\ stack'[t][1] = f
        /\ \A u \in Threads \ {t} : stack'[u] = stack[u]
    OBVIOUS
  <1>2. \A a \in Activations : a[1] # t
    BY BelowTop
  <1>3. <<t, 1>> \notin Activations
    BY <1>2
  <1>4. 1 .. Len(stack'[t]) = {1}
    BY <1>1
  <1>5. <<t, 1>> \in Activations' /\ Fn(<<t, 1>>)' = f
    BY <1>1, <1>4, ActivationFactsPrimed
  <1>6. ASSUME NEW a \in Activations PROVE a \in Activations' /\ Fn(a)' = Fn(a)
    <2>1. a[1] \in Threads \ {t} /\ a[2] \in 1 .. Len(stack[a[1]]) /\ a = <<a[1], a[2]>>
      BY <1>2, ActivationFacts
    <2>2. stack'[a[1]] = stack[a[1]]
      BY <1>1, <2>1
    <2>3. <<a[1], a[2]>> \in Activations'
      BY <2>1, <2>2, ActivationFactsPrimed
    <2> QED BY <2>1, <2>2, <2>3 DEF Fn
  <1>7. ASSUME NEW a \in Activations', a # <<t, 1>> PROVE a \in Activations
    <2>1. a[1] \in Threads /\ a[2] \in 1 .. Len(stack'[a[1]]) /\ a = <<a[1], a[2]>>
      BY ActivationFactsPrimed
    <2>2. a[1] # t
      BY <1>4, <1>7, <2>1
    <2>3. a[2] \in 1 .. Len(stack[a[1]])
      BY <1>1, <2>1, <2>2
    <2> QED BY <2>1, <2>3, ActivationFacts
  <1> QED BY <1>1, <1>2, <1>3, <1>5, <1>6, <1>7

\* A function runs on top of the top function of a thread.
LEMMA OnTopFacts ==
    ASSUME stack \in [Threads -> Seq(Frame)], NEW t \in Threads, stack[t] # <<>>,
           NEW f \in Frame, NEW new \in Frame,
           stack' = [stack EXCEPT ![t] = Append(Append(Pop(@), f), new)]
    PROVE  LET b == <<t, Len(stack[t]) + 1>> IN
           /\ stack' \in [Threads -> Seq(Frame)]
           /\ b \notin Activations /\ b # Act(t)
           /\ Activations' = Activations \cup {b}
           /\ \A a \in Activations' :
                Fn(a)' = IF a = b THEN new ELSE IF a = Act(t) THEN f ELSE Fn(a)
  <1> DEFINE s == stack[t]
             m == Len(s)
             b == <<t, m + 1>>
             q == Append(Pop(s), f)
             r == Append(q, new)
  <1>1. s \in Seq(Frame) /\ m \in Nat /\ m > 0
    BY PopFacts
  <1>2. stack' = [stack EXCEPT ![t] = r]
    OBVIOUS
  <1>3. /\ q \in Seq(Frame) /\ Len(q) = m
        /\ \A d \in 1 .. m : q[d] = IF d = m THEN f ELSE s[d]
    BY <1>1, ReplaceTop
  <1> HIDE DEF q
  <1>4. /\ r \in Seq(Frame) /\ Len(r) = m + 1 /\ r[m + 1] = new
        /\ \A d \in 1 .. m : r[d] = q[d]
    BY <1>3, PushFacts
  <1> HIDE DEF r
  <1>5. /\ stack'[t] = r
        /\ \A u \in Threads \ {t} : stack'[u] = stack[u]
        /\ stack' \in [Threads -> Seq(Frame)]
    BY <1>2, <1>4
  <1>6. b \notin Activations /\ b # Act(t)
    <2>1. b \notin Activations
      <3> SUFFICES ASSUME b \in Activations PROVE FALSE
        OBVIOUS
      <3>1. b[1] = t /\ b[2] = m + 1
        OBVIOUS
      <3> HIDE DEF b
      <3>2. b[2] <= m
        BY <3>1, BelowTop
      <3> QED BY <1>1, <3>1, <3>2
    <2> QED BY <2>1, TopFacts
  <1>7. b \in Activations' /\ \A a : a = b => Fn(a)' = new
    <2>1. m + 1 \in 1 .. Len(stack'[t]) /\ stack'[t][m + 1] = new
      BY <1>1, <1>4, <1>5
    <2>2. b \in Activations'
      BY <2>1, ActivationFactsPrimed
    <2> QED BY <2>1, <2>2 DEF Fn
  <1>8. ASSUME NEW a \in Activations
        PROVE  a \in Activations' /\ Fn(a)' = IF a = Act(t) THEN f ELSE Fn(a)
    <2>1. a[1] \in Threads /\ a[2] \in 1 .. Len(stack[a[1]]) /\ a = <<a[1], a[2]>>
      BY ActivationFacts
    <2>2. CASE a[1] = t
      <3>1. a[2] \in 1 .. m /\ a[2] \in 1 .. Len(stack'[a[1]])
        BY <2>1, <2>2, <1>1, <1>4, <1>5
      <3>2. stack'[a[1]][a[2]] = IF a[2] = m THEN f ELSE s[a[2]]
        BY <3>1, <2>2, <1>3, <1>4, <1>5
      <3>3. a = Act(t) <=> a[2] = m
        BY <2>1, <2>2 DEF Act
      <3>4. <<a[1], a[2]>> \in Activations'
        BY <2>1, <3>1, ActivationFactsPrimed
      <3> QED BY <2>1, <2>2, <3>2, <3>3, <3>4 DEF Fn
    <2>3. CASE a[1] # t
      <3>1. stack'[a[1]] = stack[a[1]] /\ a # Act(t)
        BY <2>1, <2>3, <1>5 DEF Act
      <3>2. <<a[1], a[2]>> \in Activations'
        BY <2>1, <3>1, ActivationFactsPrimed
      <3> QED BY <2>1, <3>1, <3>2 DEF Fn
    <2> QED BY <2>2, <2>3
  <1>9. ASSUME NEW a \in Activations', a # b PROVE a \in Activations
    <2>1. a[1] \in Threads /\ a[2] \in 1 .. Len(stack'[a[1]]) /\ a = <<a[1], a[2]>>
      BY ActivationFactsPrimed
    <2>2. CASE a[1] = t
      <3>1. a[2] # m + 1
        BY <1>9, <2>1, <2>2
      <3>2. a[2] \in 1 .. Len(stack[a[1]])
        BY <3>1, <2>1, <2>2, <1>1, <1>4, <1>5
      <3> QED BY <2>1, <3>2, ActivationFacts
    <2>3. CASE a[1] # t
      BY <2>1, <2>3, <1>5, ActivationFacts
    <2> QED BY <2>2, <2>3
  <1> QED BY <1>5, <1>6, <1>7, <1>8, <1>9

\* The top function of a thread is removed; r is the stack below it, with the
\* same length but perhaps another top.
LEMMA PopStackFacts ==
    ASSUME stack \in [Threads -> Seq(Frame)], NEW t \in Threads, stack[t] # <<>>,
           NEW r \in Seq(Frame), Len(r) = Len(stack[t]) - 1,
           stack' = [stack EXCEPT ![t] = r]
    PROVE  /\ stack' \in [Threads -> Seq(Frame)] /\ stack'[t] = r
           /\ Activations' = Activations \ {Act(t)}
           /\ \A a \in Activations : a[1] # t => Fn(a)' = Fn(a)
           /\ \A a \in Activations \ {Act(t)} :
                a[1] = t => a[2] \in 1 .. Len(stack[t]) - 1 /\ Fn(a)' = r[a[2]]
  <1> DEFINE m == Len(stack[t])
  <1>1. m \in Nat /\ m > 0
    BY PopFacts
  <1>2. /\ stack' \in [Threads -> Seq(Frame)] /\ stack'[t] = r
        /\ \A u \in Threads \ {t} : stack'[u] = stack[u]
    OBVIOUS
  <1>3. ASSUME NEW a \in Activations, a # Act(t) PROVE a \in Activations'
    <2>1. a[1] \in Threads /\ a[2] \in 1 .. Len(stack[a[1]]) /\ a = <<a[1], a[2]>>
      BY ActivationFacts
    <2>2. CASE a[1] = t
      <3>1. a[2] \in 1 .. Len(stack'[a[1]])
        BY <1>1, <1>2, <1>3, <2>1, <2>2, BelowTop, SMTT(30)
      <3> QED BY <2>1, <3>1, ActivationFactsPrimed
    <2>3. CASE a[1] # t
      <3>1. a[2] \in 1 .. Len(stack'[a[1]])
        BY <1>2, <2>1, <2>3
      <3> QED BY <2>1, <3>1, ActivationFactsPrimed
    <2> QED BY <2>2, <2>3
  <1>4. ASSUME NEW a \in Activations' PROVE a \in Activations \ {Act(t)}
    <2>1. a[1] \in Threads /\ a[2] \in 1 .. Len(stack'[a[1]]) /\ a = <<a[1], a[2]>>
      BY ActivationFactsPrimed
    <2>2. CASE a[1] = t
      <3>1. a[2] \in 1 .. Len(stack[a[1]]) /\ a[2] # m
        BY <1>1, <1>2, <2>1, <2>2
      <3>2. a # Act(t)
        BY <3>1 DEF Act
      <3> QED BY <2>1, <3>1, <3>2, ActivationFacts
    <2>3. CASE a[1] # t
      <3>1. a[2] \in 1 .. Len(stack[a[1]])
        BY <1>2, <2>1, <2>3
      <3> QED BY <2>1, <2>3, <3>1, ActivationFacts DEF Act
    <2> QED BY <2>2, <2>3
  <1>5. ASSUME NEW a \in Activations, a[1] # t PROVE Fn(a)' = Fn(a)
    <2>1. a[1] \in Threads
      BY ActivationFacts
    <2> QED BY <1>2, <1>5, <2>1 DEF Fn
  <1>6. ASSUME NEW a \in Activations \ {Act(t)}, a[1] = t
        PROVE  a[2] \in 1 .. m - 1 /\ Fn(a)' = r[a[2]]
    <2>1. a[2] \in 1 .. m - 1
      BY <1>1, <1>6, BelowTop, SMTT(30)
    <2> QED BY <1>2, <1>6, <2>1 DEF Fn
  <1> QED BY <1>2, <1>3, <1>4, <1>5, <1>6

-----------------------------------------------------------------------------
(***************************************************************************)
(* Queues of distinct elements: waitingTasks and activeTaskGroups          *)
(***************************************************************************)

\* The elements of a queue, and a queue without repetitions.
Elems(s) == {s[j] : j \in 1 .. Len(s)}
Distinct(s) == \A i, j \in 1 .. Len(s) : s[i] = s[j] => i = j

\* A queue is empty when it has no elements.
LEMMA EmptyQueue ==
    ASSUME NEW S, NEW s \in Seq(S)
    PROVE  s = <<>> <=> Elems(s) = {}
  <1>1. ASSUME s # <<>> PROVE Elems(s) # {}
    <2>1. Len(s) \in Nat /\ Len(s) > 0
      BY <1>1, PopFacts
    <2>2. 1 \in 1 .. Len(s)
      BY <2>1
    <2> QED BY <2>2 DEF Elems
  <1>2. ASSUME s = <<>> PROVE Elems(s) = {}
    <2>1. 1 .. Len(s) = {}
      BY <1>2
    <2> QED BY <2>1 DEF Elems
  <1> QED BY <1>1, <1>2

\* pop_back on a queue without repetitions removes exactly its last element.
LEMMA PopQueue ==
    ASSUME NEW S, NEW s \in Seq(S), s # <<>>, Distinct(s)
    PROVE  /\ Pop(s) \in Seq(S) /\ Distinct(Pop(s))
           /\ s[Len(s)] \in S /\ s[Len(s)] \in Elems(s)
           /\ Elems(Pop(s)) = Elems(s) \ {s[Len(s)]}
  <1> DEFINE n == Len(s)
             p == Pop(s)
  <1>1. /\ p \in Seq(S) /\ n \in Nat /\ n > 0 /\ Len(p) = n - 1
        /\ \A d \in 1 .. n - 1 : p[d] = s[d]
        /\ s[n] \in S
    BY PopFacts
  <1>2. n \in 1 .. n /\ \A i \in 1 .. n - 1 : i \in 1 .. n /\ i # n
    BY <1>1
  <1>3. \A i \in 1 .. n : i # n => i \in 1 .. n - 1
    BY <1>1
  <1>4. \A i, j \in 1 .. n : s[i] = s[j] => i = j
    BY DEF Distinct
  <1> HIDE DEF n, p
  <1>5. Distinct(p)
    BY <1>1, <1>2, <1>4 DEF Distinct
  <1>6. Elems(p) = {s[j] : j \in 1 .. n} \ {s[n]}
    <2>1. ASSUME NEW x \in Elems(p) PROVE x \in {s[j] : j \in 1 .. n} \ {s[n]}
      <3>1. PICK j \in 1 .. n - 1 : x = s[j]
        BY <1>1, <2>1 DEF Elems
      <3> QED BY <3>1, <1>2, <1>4
    <2>2. ASSUME NEW j \in 1 .. n, s[j] # s[n] PROVE s[j] \in Elems(p)
      <3>1. j \in 1 .. n - 1
        BY <1>3, <2>2
      <3> QED BY <3>1, <1>1 DEF Elems
    <2> QED BY <2>1, <2>2
  <1>7. s[n] \in {s[j] : j \in 1 .. n}
    BY <1>2
  <1> QED BY <1>1, <1>5, <1>6, <1>7 DEF Elems, n, p

\* push_back of a new element adds it and keeps the queue without repetitions.
LEMMA AppendQueue ==
    ASSUME NEW S, NEW s \in Seq(S), Distinct(s), NEW x \in S, x \notin Elems(s)
    PROVE  /\ Append(s, x) \in Seq(S) /\ Distinct(Append(s, x))
           /\ Elems(Append(s, x)) = Elems(s) \cup {x}
  <1> DEFINE n == Len(s)
             r == Append(s, x)
  <1>1. /\ r \in Seq(S) /\ n \in Nat /\ Len(r) = n + 1
        /\ \A d \in 1 .. n : r[d] = s[d]
        /\ r[n + 1] = x
    BY PushFacts
  <1>2. 1 .. n + 1 = (1 .. n) \cup {n + 1}
    BY <1>1
  <1>3. \A i, j \in 1 .. n : s[i] = s[j] => i = j
    BY DEF Distinct
  <1>4. Elems(s) = {s[j] : j \in 1 .. n}
    BY DEF Elems
  <1> HIDE DEF n, r
  <1>5. Distinct(r)
    <2> SUFFICES ASSUME NEW i \in 1 .. n + 1, NEW j \in 1 .. n + 1, r[i] = r[j] PROVE i = j
      BY <1>1 DEF Distinct
    <2>1. CASE i \in 1 .. n /\ j \in 1 .. n
      BY <2>1, <1>1, <1>3
    <2>2. CASE i \in 1 .. n /\ j = n + 1
      BY <2>2, <1>1, <1>4
    <2>3. CASE i = n + 1 /\ j \in 1 .. n
      BY <2>3, <1>1, <1>4
    <2> QED BY <2>1, <2>2, <2>3, <1>2
  <1>6. Elems(r) = Elems(s) \cup {x}
    <2>1. Elems(r) = {r[j] : j \in (1 .. n) \cup {n + 1}}
      BY <1>1, <1>2 DEF Elems
    <2> QED BY <2>1, <1>1, <1>4
  <1> QED BY <1>1, <1>5, <1>6 DEF r

\* Launch's push_back loop adds the tasks base .. base + count - 1, which are
\* new when the queued tasks have smaller numbers.
LEMMA EnqueueQueue ==
    ASSUME NEW s \in Seq(Nat), Distinct(s), NEW base \in Nat, NEW count \in Nat,
           \A k \in Elems(s) : k < base
    PROVE  LET r == s \o [j \in 1 .. count |-> base + j - 1] IN
           /\ r \in Seq(Nat) /\ Distinct(r)
           /\ Elems(r) = Elems(s) \cup (base .. base + count - 1)
  <1> DEFINE q == [j \in 1 .. count |-> base + j - 1]
             n == Len(s)
             r == s \o q
  <1>1. q \in [1 .. count -> Nat]
    OBVIOUS
  <1>2. q \in Seq(Nat) /\ Len(q) = count
    BY <1>1, SeqDef, LenProperties
  <1>3. n \in Nat
    BY LenProperties
  <1>4. /\ r \in Seq(Nat)
        /\ Len(r) = n + count
        /\ \A i \in 1 .. n + count : r[i] = IF i <= n THEN s[i] ELSE q[i - n]
    BY <1>2, ConcatProperties
  <1>5. \A i \in 1 .. n : s[i] \in Nat /\ s[i] < base
    BY ElementOfSeq DEF Elems
  <1>6. \A i, j \in 1 .. n : s[i] = s[j] => i = j
    BY DEF Distinct
  <1>7. Elems(s) = {s[j] : j \in 1 .. n}
    BY DEF Elems
  <1>8. \A i \in 1 .. count : q[i] = base + i - 1
    OBVIOUS
  <1> HIDE DEF q, r, n
  <1>9. ASSUME NEW i \in 1 .. n + count
        PROVE  \/ i \in 1 .. n /\ r[i] = s[i]
               \/ i - n \in 1 .. count /\ r[i] = base + (i - n) - 1
    <2>1. CASE i <= n
      BY <2>1, <1>3, <1>4
    <2>2. CASE i > n
      <3>1. i - n \in 1 .. count
        BY <2>2, <1>3
      <3>2. r[i] = q[i - n]
        BY <2>2, <1>3, <1>4
      <3> QED BY <3>1, <3>2, <1>8
    <2> QED BY <2>1, <2>2, <1>3
  <1>10. Distinct(r)
    <2> SUFFICES ASSUME NEW i \in 1 .. n + count, NEW j \in 1 .. n + count, r[i] = r[j] PROVE i = j
      BY <1>4 DEF Distinct
    <2>1. CASE i \in 1 .. n /\ r[i] = s[i]
      <3>1. r[i] < base
        BY <2>1, <1>5
      <3>2. CASE j \in 1 .. n /\ r[j] = s[j]
        BY <2>1, <3>2, <1>6
      <3>3. CASE j - n \in 1 .. count /\ r[j] = base + (j - n) - 1
        BY <3>1, <3>3, <1>3
      <3> QED BY <3>2, <3>3, <1>9
    <2>2. CASE i - n \in 1 .. count /\ r[i] = base + (i - n) - 1
      <3>1. CASE j \in 1 .. n /\ r[j] = s[j]
        <4>1. r[j] < base
          BY <3>1, <1>5
        <4> QED BY <4>1, <2>2, <1>3
      <3>2. CASE j - n \in 1 .. count /\ r[j] = base + (j - n) - 1
        <4>1. base + (i - n) - 1 = base + (j - n) - 1
          BY <2>2, <3>2
        <4>2. i \in Int /\ j \in Int
          BY <1>3
        <4> QED BY <4>1, <4>2, <1>3
      <3> QED BY <3>1, <3>2, <1>9
    <2> QED BY <2>1, <2>2, <1>9
  <1>11. Elems(r) = Elems(s) \cup (base .. base + count - 1)
    <2>1. ASSUME NEW i \in 1 .. n + count PROVE r[i] \in Elems(s) \cup (base .. base + count - 1)
      <3>1. CASE i \in 1 .. n /\ r[i] = s[i]
        <4>1. i \in 1 .. n
          BY <3>1
        <4>2. s[i] \in Elems(s)
          BY <4>1, <1>7
        <4> QED BY <3>1, <4>2
      <3>2. CASE i - n \in 1 .. count /\ r[i] = base + (i - n) - 1
        <4>1. r[i] \in base .. base + count - 1
          BY <3>2, <1>3
        <4> QED BY <4>1
      <3> QED BY <3>1, <3>2, <1>9
    <2>2. ASSUME NEW i \in 1 .. n PROVE s[i] \in Elems(r)
      <3>1. i \in 1 .. Len(r) /\ r[i] = s[i]
        BY <1>3, <1>4
      <3> QED BY <3>1 DEF Elems
    <2>3. ASSUME NEW k \in base .. base + count - 1 PROVE k \in Elems(r)
      <3>1. k - base + 1 + n \in 1 .. n + count /\ ~(k - base + 1 + n \in 1 .. n)
        BY <1>3
      <3>2. r[k - base + 1 + n] = k
        BY <3>1, <1>3, <1>9
      <3> QED BY <3>1, <3>2, <1>4 DEF Elems
    <2>4. Elems(r) = {r[i] : i \in 1 .. n + count}
      BY <1>4 DEF Elems
    <2> QED BY <2>1, <2>2, <2>3, <2>4, <1>7
  <1> QED BY <1>4, <1>10, <1>11 DEF r, q

\* erase(find(..., g)) removes g, and only g, from a list that has it once.
LEMMA EraseQueue ==
    ASSUME activeTaskGroups \in Seq(Groups), Distinct(activeTaskGroups),
           NEW g \in Elems(activeTaskGroups)
    PROVE  /\ Erase(g) \in Seq(Groups) /\ Distinct(Erase(g))
           /\ Elems(Erase(g)) = Elems(activeTaskGroups) \ {g}
  <1> DEFINE a == activeTaskGroups
             n == Len(a)
             P(j) == a[j] = g /\ \A i \in 1 .. j - 1 : a[i] # g
             k == CHOOSE j \in 1 .. n : P(j)
             front == SubSeq(a, 1, k - 1)
             back == SubSeq(a, k + 1, n)
             r == front \o back
  <1>0. n \in Nat /\ \A i \in 1 .. n : a[i] \in Groups
    BY LenProperties, ElementOfSeq
  <1>1. PICK m \in 1 .. n : a[m] = g
    BY DEF Elems
  <1>a. \A i, j \in 1 .. n : a[i] = a[j] => i = j
    BY DEF Distinct
  <1>2. P(m)
    <2> SUFFICES ASSUME NEW i \in 1 .. m - 1 PROVE a[i] # g
      BY <1>1
    <2>1. i \in 1 .. n /\ i # m
      BY <1>0
    <2> QED BY <2>1, <1>1, <1>a
  <1>3. k \in 1 .. n /\ a[k] = g
    BY <1>2
  <1>4. Erase(g) = r
    BY DEF Erase
  <1>e. Elems(a) = {a[i] : i \in 1 .. n}
    BY DEF Elems
  <1> HIDE DEF k, n, a
  <1>5. n \in Nat /\ k \in Nat /\ k >= 1 /\ k <= n
    BY <1>0, <1>3
  <1>6. /\ front \in Seq(Groups) /\ Len(front) = k - 1
        /\ \A i \in 1 .. k - 1 : front[i] = a[i]
    <2>1. 1 \in Int /\ k - 1 \in Int /\ \A i \in 1 .. k - 1 : a[i] \in Groups
      BY <1>0, <1>5
    <2>2. /\ front \in Seq(Groups)
          /\ Len(front) = IF 1 <= k - 1 THEN (k - 1) - 1 + 1 ELSE 0
          /\ \A i \in 1 .. (k - 1) - 1 + 1 : front[i] = a[1 + i - 1]
      BY <2>1, SubSeqProperties
    <2> HIDE DEF front
    <2>3. Len(front) = k - 1
      BY <1>5, <2>2
    <2>4. ASSUME NEW i \in 1 .. k - 1 PROVE front[i] = a[i]
      <3>1. i \in 1 .. (k - 1) - 1 + 1 /\ 1 + i - 1 = i
        BY <1>5
      <3> QED BY <3>1, <2>2
    <2> QED BY <2>2, <2>3, <2>4
  <1>7. /\ back \in Seq(Groups) /\ Len(back) = n - k
        /\ \A i \in 1 .. n - k : back[i] = a[k + i]
    <2>1. k + 1 \in Int /\ n \in Int /\ \A i \in k + 1 .. n : a[i] \in Groups
      BY <1>0, <1>5
    <2>2. /\ back \in Seq(Groups)
          /\ Len(back) = IF k + 1 <= n THEN n - (k + 1) + 1 ELSE 0
          /\ \A i \in 1 .. n - (k + 1) + 1 : back[i] = a[(k + 1) + i - 1]
      BY <2>1, SubSeqProperties
    <2> HIDE DEF back
    <2>3. Len(back) = n - k
      BY <1>5, <2>2
    <2>4. ASSUME NEW i \in 1 .. n - k PROVE back[i] = a[k + i]
      <3>1. i \in 1 .. n - (k + 1) + 1 /\ (k + 1) + i - 1 = k + i
        BY <1>5
      <3> QED BY <3>1, <2>2
    <2> QED BY <2>2, <2>3, <2>4
  <1> HIDE DEF front, back
  <1>8. /\ r \in Seq(Groups) /\ Len(r) = n - 1
        /\ \A i \in 1 .. n - 1 : r[i] = IF i <= k - 1 THEN front[i] ELSE back[i - (k - 1)]
    <2>1. /\ r \in Seq(Groups) /\ Len(r) = Len(front) + Len(back)
          /\ \A i \in 1 .. Len(front) + Len(back) :
               r[i] = IF i <= Len(front) THEN front[i] ELSE back[i - Len(front)]
      BY <1>6, <1>7, ConcatProperties
    <2>2. Len(front) + Len(back) = n - 1 /\ Len(front) = k - 1
      BY <1>5, <1>6, <1>7
    <2> QED BY <2>1, <2>2
  <1> HIDE DEF r
  <1>9. ASSUME NEW i \in 1 .. n - 1
        PROVE  \/ i < k /\ i \in 1 .. n /\ r[i] = a[i]
               \/ i >= k /\ i + 1 \in 1 .. n /\ r[i] = a[i + 1]
    <2>1. CASE i < k
      <3>1. i \in 1 .. k - 1 /\ i <= k - 1
        BY <2>1, <1>5
      <3> QED BY <2>1, <3>1, <1>5, <1>6, <1>8
    <2>2. CASE i >= k
      <3>1. i - (k - 1) \in 1 .. n - k /\ ~(i <= k - 1) /\ k + (i - (k - 1)) = i + 1
        BY <2>2, <1>5
      <3> QED BY <2>2, <3>1, <1>5, <1>7, <1>8
    <2> QED BY <2>1, <2>2, <1>5
  <1>10. Distinct(r)
    <2> SUFFICES ASSUME NEW i \in 1 .. n - 1, NEW j \in 1 .. n - 1, r[i] = r[j] PROVE i = j
      BY <1>8 DEF Distinct
    <2> QED BY <1>5, <1>9, <1>a
  <1>11. Elems(r) = Elems(a) \ {g}
    <2>1. ASSUME NEW i \in 1 .. n - 1 PROVE r[i] \in Elems(a) \ {g}
      BY <1>3, <1>5, <1>9, <1>a, <1>e
    <2>2. ASSUME NEW i \in 1 .. n, a[i] # g PROVE a[i] \in Elems(r)
      <3>1. CASE i < k
        <4>1. i \in 1 .. n - 1 /\ r[i] = a[i]
          BY <3>1, <1>5, <1>9
        <4> QED BY <4>1, <1>8 DEF Elems
      <3>2. CASE i > k
        <4>1. i - 1 \in 1 .. n - 1 /\ ~(i - 1 < k) /\ (i - 1) + 1 = i
          BY <3>2, <1>5
        <4>2. r[i - 1] = a[i]
          BY <4>1, <1>9
        <4> QED BY <4>1, <4>2, <1>8 DEF Elems
      <3> QED BY <3>1, <3>2, <2>2, <1>3, <1>5
    <2>3. Elems(r) = {r[i] : i \in 1 .. n - 1}
      BY <1>8 DEF Elems
    <2> QED BY <2>1, <2>2, <2>3, <1>e
  <1> QED BY <1>4, <1>8, <1>10, <1>11 DEF a

-----------------------------------------------------------------------------

(***************************************************************************)
(* The inductive invariant                                                 *)
(***************************************************************************)

\* Tasks are numbered below nextTaskInfoIndex and wait at most once, and a
\* group on the free list is as Reset leaves it.
GroupInv ==
    \A g \in Groups :
      /\ IsFiniteSet(outstanding[g])
      /\ \A k \in outstanding[g] : k < nextTaskInfoIndex[g]
      /\ Elems(waitingTasks[g]) \subseteq outstanding[g]
      /\ Distinct(waitingTasks[g])
      /\ g \in freeGroups => outstanding[g] = {} /\ numUnfinishedTasks[g] = 0

\* The active list has the groups with waiting tasks, each once.
ListInv ==
    /\ Distinct(activeTaskGroups)
    /\ \A g \in Groups :
         /\ inActiveList[g] <=> waitingTasks[g] # <<>>
         /\ inActiveList[g] <=> g \in Elems(activeTaskGroups)

\* A function in a launch or sync statement has a handle; no two functions
\* have the same one, and it is not on the free list.
HandleInv ==
    \A a \in Activations :
      /\ Fn(a).pc # "body" => Fn(a).tg # Null
      /\ Fn(a).tg # Null =>
           /\ Fn(a).tg \notin freeGroups
           /\ \A b \in Activations : Fn(b).tg = Fn(a).tg => b = a

\* A task on a stack is unfinished, is not waiting any more, and is on no
\* other stack.
TaskInv ==
    \A a \in Activations :
      Fn(a).group # Null =>
        /\ Fn(a).num \in outstanding[Fn(a).group]
        /\ Fn(a).num \notin Elems(waitingTasks[Fn(a).group])
        /\ \A b \in Activations :
             Fn(b).group = Fn(a).group /\ Fn(b).num = Fn(a).num => b = a

\* The counter and the label "free" mean what Sync takes them to mean.
CountInv ==
    \A a \in Activations :
      /\ Fn(a).tg # Null =>
           numUnfinishedTasks[Fn(a).tg] + Uncounted(Fn(a)) = Cardinality(outstanding[Fn(a).tg])
      /\ Fn(a).pc = "free" => outstanding[Fn(a).tg] = {}

\* An unfinished task is waiting or on a stack.
NoTaskLost ==
    \A g \in Groups : \A k \in outstanding[g] :
      k \in Elems(waitingTasks[g]) \/ \E a \in Activations : Fn(a).group = g /\ Fn(a).num = k

\* Below the top of a stack are functions that wait in Sync, and a worker
\* that has just left sem_wait runs nothing.
StackInv ==
    /\ \A a, b \in Activations : a[1] = b[1] /\ a[2] < b[2] => Fn(a).pc = "running"
    /\ \A t \in awake : stack[t] = <<>>

Inv ==
    /\ TypeOK /\ GroupInv /\ ListInv /\ HandleInv /\ TaskInv /\ CountInv
    /\ NoTaskLost /\ StackInv

-----------------------------------------------------------------------------

\* The initial state satisfies the invariant.
LEMMA InitInv == Init => Inv
  <1> SUFFICES ASSUME Init PROVE Inv
    OBVIOUS
  <1>1. TypeOK
    BY TaskSystemAssumption DEF Init, TypeOK
  <1>2. Activations = {}
    <2> SUFFICES ASSUME NEW a \in Activations PROVE FALSE
      OBVIOUS
    <2> QED BY ActivationFacts, BelowTop DEF Init
  <1>3. \A g \in Groups : Elems(waitingTasks[g]) = {} /\ Distinct(waitingTasks[g]) /\ waitingTasks[g] = <<>>
    BY DEF Init, Elems, Distinct
  <1>4. Distinct(activeTaskGroups) /\ Elems(activeTaskGroups) = {}
    BY DEF Init, Elems, Distinct
  <1>5. GroupInv
    BY <1>3, FS_EmptySet DEF GroupInv, Init
  <1>6. ListInv
    BY <1>3, <1>4 DEF ListInv, Init
  <1>7. HandleInv /\ TaskInv /\ CountInv
    BY <1>2 DEF HandleInv, TaskInv, CountInv
  <1>8. NoTaskLost /\ StackInv
    BY <1>2 DEF NoTaskLost, StackInv, Init
  <1> QED BY <1>1, <1>5, <1>6, <1>7, <1>8 DEF Inv

\* A step that changes no group and no list preserves what is said of them.
LEMMA GroupsUnchanged ==
    ASSUME Inv, UNCHANGED groupVars, freeGroups' = freeGroups, outstanding' = outstanding
    PROVE  GroupInv' /\ ListInv'
  BY DEF Inv, GroupInv, ListInv, groupVars

\* Replacing the top function of a thread keeps StackInv.
LEMMA SetTopStackInv ==
    ASSUME TypeOK, StackInv, NEW t \in Threads, stack[t] # <<>>, NEW f \in Frame,
           stack' = SetTop(t, f), awake' = awake
    PROVE  StackInv'
  <1> DEFINE top == Act(t)
  <1>1. /\ stack' \in [Threads -> Seq(Frame)]
        /\ \A u \in Threads : Len(stack'[u]) = Len(stack[u])
        /\ Activations' = Activations
        /\ \A a \in Activations : Fn(a)' = IF a = top THEN f ELSE Fn(a)
    BY SetTopFacts DEF TypeOK
  <1>2. \A a \in Activations : a[1] = t => a[2] \in Nat /\ a[2] <= top[2] /\ top[2] \in Nat
    BY BelowTop, TopFacts DEF TypeOK
  <1> HIDE DEF top
  <1>3. ASSUME NEW a \in Activations, NEW b \in Activations, a[1] = b[1], a[2] < b[2]
        PROVE  Fn(a)'.pc = "running"
    <2>1. a # top
      <3> SUFFICES ASSUME a = top PROVE FALSE
        OBVIOUS
      <3>1. a[1] = t /\ b[1] = t
        BY <1>3 DEF top, Act
      <3> QED BY <3>1, <1>2, <1>3
    <2> QED BY <2>1, <1>1, <1>3 DEF StackInv
  <1>4. ASSUME NEW u \in awake PROVE stack'[u] = <<>>
    <2>1. u \in Threads /\ stack[u] = <<>> /\ Len(stack'[u]) = 0 /\ stack'[u] \in Seq(Frame)
      BY <1>1 DEF StackInv, TypeOK, Threads
    <2> QED BY <2>1, EmptySeq
  <1> QED BY <1>1, <1>3, <1>4 DEF StackInv

\* A step that moves the top function of a thread to another label, and
\* changes neither its handle nor any group, preserves the invariant.
LEMMA Relabel ==
    ASSUME Inv, NEW t \in Threads, stack[t] # <<>>, NEW f \in Frame,
           f.group = Top(t).group, f.num = Top(t).num, f.tg = Top(t).tg,
           f.tg # Null,
           Uncounted(f) = Uncounted(Top(t)),
           f.pc = "free" => outstanding[f.tg] = {},
           stack' = SetTop(t, f),
           awake' = awake, freeGroups' = freeGroups, UNCHANGED groupVars,
           workerSemaphore' \in Nat, outstanding' = outstanding, launches' \in Nat
    PROVE  Inv'
  <1> DEFINE top == Act(t)
  <1>1. /\ stack' \in [Threads -> Seq(Frame)]
        /\ \A u \in Threads : Len(stack'[u]) = Len(stack[u])
        /\ Activations' = Activations
        /\ \A a \in Activations : Fn(a)' = IF a = top THEN f ELSE Fn(a)
    BY SetTopFacts DEF Inv, TypeOK
  <1>2. top \in Activations /\ Fn(top) = Top(t)
    BY TopFacts DEF Inv, TypeOK
  <1>3. \A a \in Activations :
          /\ Fn(a)'.group = Fn(a).group /\ Fn(a)'.num = Fn(a).num /\ Fn(a)'.tg = Fn(a).tg
          /\ Uncounted(Fn(a)') = Uncounted(Fn(a))
          /\ a # top => Fn(a)' = Fn(a)
    BY <1>1, <1>2
  <1>4. waitingTasks' = waitingTasks
    BY DEF groupVars
  <1>5. \A a \in Activations : Fn(a) \in Frame
    BY FrameFacts DEF Inv, TypeOK
  <1> HIDE DEF top
  <1>6. TypeOK'
    BY <1>1 DEF Inv, TypeOK, groupVars
  <1>7. GroupInv' /\ ListInv'
    BY GroupsUnchanged
  <1>8. HandleInv'
    BY <1>1, <1>2, <1>3 DEF Inv, HandleInv
  <1>9. TaskInv'
    BY <1>1, <1>3, <1>4, <1>5 DEF Inv, TaskInv, Frame
  <1>10. CountInv'
    BY <1>1, <1>3 DEF Inv, CountInv, groupVars
  <1>11. NoTaskLost'
    BY <1>1, <1>3, <1>4, SMTT(30) DEF Inv, NoTaskLost
  <1>12. StackInv'
    BY SetTopStackInv DEF Inv
  <1> QED BY <1>6, <1>7, <1>8, <1>9, <1>10, <1>11, <1>12 DEF Inv

-----------------------------------------------------------------------------
(***************************************************************************)
(* One lemma per action                                                    *)
(***************************************************************************)

\* A call from the application preserves the invariant: the new function has
\* no handle and is no task.
LEMMA CallStep ==
    ASSUME Inv, NEW t \in Threads, Call(t)
    PROVE  Inv'
  <1> DEFINE f == NewFrame(Null, 0)
             b == <<t, 1>>
  <1>1. f \in Frame /\ f.tg = Null /\ f.group = Null /\ f.pc = "body"
    BY DEF NewFrame, Frame, Labels
  <1>2. /\ stack[t] = <<>> /\ stack' = [stack EXCEPT ![t] = <<f>>] /\ t \notin awake
        /\ awake' = awake
        /\ freeGroups' = freeGroups /\ UNCHANGED groupVars /\ outstanding' = outstanding
    BY TaskSystemAssumption DEF Call, Inv, TypeOK
  <1> HIDE DEF f
  <1>3. /\ stack' \in [Threads -> Seq(Frame)]
        /\ \A a \in Activations : a[1] # t
        /\ b \notin Activations
        /\ Activations' = Activations \cup {b}
        /\ Fn(b)' = f
        /\ \A a \in Activations : Fn(a)' = Fn(a)
    BY <1>1, <1>2, FirstFacts DEF Inv, TypeOK
  <1>4. b[1] = t /\ b[2] = 1
    OBVIOUS
  <1> HIDE DEF b
  <1>5. waitingTasks' = waitingTasks
    BY <1>2 DEF groupVars
  <1>6. \A a \in Activations : Fn(a) \in Frame
    BY FrameFacts DEF Inv, TypeOK
  <1>7. TypeOK'
    BY <1>2, <1>3 DEF Call, Inv, TypeOK, groupVars
  <1>8. GroupInv' /\ ListInv'
    BY <1>2, GroupsUnchanged
  <1>9. HandleInv'
    BY <1>1, <1>2, <1>3 DEF Inv, HandleInv
  <1>10. TaskInv'
    BY <1>1, <1>2, <1>3, <1>5, <1>6 DEF Inv, TaskInv, Frame
  <1>11. CountInv'
    BY <1>1, <1>2, <1>3 DEF Inv, CountInv, groupVars
  <1>12. NoTaskLost'
    BY <1>2, <1>3, <1>5 DEF Inv, NoTaskLost
  <1>13. StackInv'
    <2>1. \A u \in awake : stack'[u] = <<>>
      BY <1>2 DEF Inv, StackInv, TypeOK, Threads
    <2>2. ASSUME NEW c \in Activations', NEW d \in Activations', c[1] = d[1], c[2] < d[2]
          PROVE  Fn(c)'.pc = "running"
      <3>1. c # b /\ d # b
        BY <1>3, <1>4, <2>2
      <3> QED BY <3>1, <1>3, <2>2 DEF Inv, StackInv
    <2> QED BY <2>1, <2>2, <1>2 DEF StackInv
  <1> QED BY <1>7, <1>8, <1>9, <1>10, <1>11, <1>12, <1>13 DEF Inv

\* A return to the application preserves the invariant: the function had
\* synced, so no handle goes with it.
LEMMA ReturnToClientStep ==
    ASSUME Inv, NEW t \in Threads, ReturnToClient(t)
    PROVE  Inv'
  <1> DEFINE top == Act(t)
  <1>1. /\ stack[t] \in Seq(Frame) /\ stack[t] # <<>> /\ Top(t).group = Null
        /\ stack' = [stack EXCEPT ![t] = Pop(stack[t])]
        /\ awake' = awake
        /\ freeGroups' = freeGroups /\ UNCHANGED groupVars /\ outstanding' = outstanding
    BY DEF Inv, TypeOK, ReturnToClient, At
  <1> DEFINE r == Pop(stack[t])
  <1>2. /\ r \in Seq(Frame) /\ Len(r) = Len(stack[t]) - 1
        /\ \A d \in 1 .. Len(stack[t]) - 1 : r[d] = stack[t][d]
    BY <1>1, PopFacts
  <1>a. /\ stack \in [Threads -> Seq(Frame)] /\ stack[t] # <<>>
        /\ stack' = [stack EXCEPT ![t] = r]
    BY <1>1 DEF Inv, TypeOK
  <1>b. r \in Seq(Frame) /\ Len(r) = Len(stack[t]) - 1
    BY <1>2
  <1> HIDE DEF r
  <1>3. /\ stack' \in [Threads -> Seq(Frame)]
        /\ Activations' = Activations \ {top}
        /\ \A a \in Activations : a[1] # t => Fn(a)' = Fn(a)
        /\ \A a \in Activations \ {top} :
             a[1] = t => a[2] \in 1 .. Len(stack[t]) - 1 /\ Fn(a)' = r[a[2]]
    BY <1>a, <1>b, PopStackFacts
  <1>4. ASSUME NEW a \in Activations \ {top} PROVE Fn(a)' = Fn(a)
    <2>1. CASE a[1] # t
      BY <2>1, <1>3
    <2>2. CASE a[1] = t
      <3>1. Fn(a)' = r[a[2]] /\ a[2] \in 1 .. Len(stack[t]) - 1
        BY <2>2, <1>3
      <3>2. r[a[2]] = stack[t][a[2]]
        BY <3>1, <1>2
      <3> QED BY <2>2, <3>1, <3>2 DEF Fn
    <2> QED BY <2>1, <2>2
  <1>5. top \in Activations /\ Fn(top).group = Null
    BY <1>1, TopFacts DEF Inv, TypeOK
  <1> HIDE DEF top
  <1>6. waitingTasks' = waitingTasks
    BY <1>1 DEF groupVars
  <1>7. \A a \in Activations : Fn(a) \in Frame
    BY FrameFacts DEF Inv, TypeOK
  <1>8. TypeOK'
    BY <1>1, <1>3 DEF ReturnToClient, Inv, TypeOK, groupVars
  <1>9. GroupInv' /\ ListInv'
    BY <1>1, GroupsUnchanged
  <1>10. HandleInv'
    BY <1>1, <1>3, <1>4 DEF Inv, HandleInv
  <1>11. TaskInv'
    BY <1>1, <1>3, <1>4, <1>6, <1>7 DEF Inv, TaskInv, Frame
  <1>12. CountInv'
    BY <1>1, <1>3, <1>4 DEF Inv, CountInv, groupVars
  <1>13. NoTaskLost'
    BY <1>1, <1>3, <1>4, <1>5, <1>6, TaskSystemAssumption DEF Inv, NoTaskLost
  <1>14. StackInv'
    <2>1. ASSUME NEW u \in awake PROVE stack'[u] = <<>>
      BY <1>1 DEF Inv, StackInv, TypeOK, Threads
    <2> QED BY <2>1, <1>1, <1>3, <1>4 DEF Inv, StackInv
  <1> QED BY <1>8, <1>9, <1>10, <1>11, <1>12, <1>13, <1>14 DEF Inv

\* ISPCAlloc preserves the invariant: the handle it may take is a free group,
\* which has no tasks and no other holder.
LEMMA ISPCAllocStep ==
    ASSUME Inv, NEW t \in Threads, ISPCAlloc(t)
    PROVE  Inv'
  <1> DEFINE top == Act(t)
  <1>1. stack[t] # <<>> /\ Top(t).pc = "body"
    BY DEF ISPCAlloc, At
  <1>2. top \in Activations /\ Fn(top) = Top(t) /\ Top(t) \in Frame
    BY <1>1, TopFacts DEF Inv, TypeOK
  <1>3. launches' \in Nat
    <2>1. launches' = launches + 1 /\ launches \in Nat
      BY DEF ISPCAlloc, Inv, TypeOK
    <2> QED BY <2>1
  <1>4. CASE Top(t).tg # Null
    <2> DEFINE f == [Top(t) EXCEPT !.pc = "launch"]
    <2>1. /\ f \in Frame /\ f.group = Top(t).group /\ f.num = Top(t).num
          /\ f.tg = Top(t).tg /\ f.pc = "launch"
      BY <1>2 DEF Frame, Labels
    <2>2. Uncounted(f) = Uncounted(Top(t))
      BY <1>1, <2>1 DEF Uncounted
    <2>3. stack' = SetTop(t, f) /\ freeGroups' = freeGroups
      BY <1>4 DEF ISPCAlloc, Goto
    <2> HIDE DEF f
    <2> QED BY <1>1, <1>3, <1>4, <2>1, <2>2, <2>3, Relabel DEF ISPCAlloc, Inv, TypeOK
  <1>5. CASE Top(t).tg = Null
    <2>1. PICK g \in freeGroups :
            /\ stack' = SetTop(t, [Top(t) EXCEPT !.tg = g, !.pc = "launch"])
            /\ freeGroups' = freeGroups \ {g}
      BY <1>5 DEF ISPCAlloc
    <2>2. g \in Groups /\ g # Null
      BY <2>1, TaskSystemAssumption DEF Inv, TypeOK
    <2> DEFINE f == [Top(t) EXCEPT !.tg = g, !.pc = "launch"]
    <2>3. /\ f \in Frame /\ f.group = Top(t).group /\ f.num = Top(t).num
          /\ f.tg = g /\ f.pc = "launch"
      BY <1>2, <2>2 DEF Frame, Labels
    <2>4. Uncounted(f) = 0
      BY <2>3 DEF Uncounted
    <2>5. stack' = SetTop(t, f)
      BY <2>1
    <2> HIDE DEF f
    <2>6. /\ stack' \in [Threads -> Seq(Frame)] /\ Activations' = Activations
          /\ \A a \in Activations : Fn(a)' = IF a = top THEN f ELSE Fn(a)
      BY <1>1, <2>3, <2>5, SetTopFacts DEF Inv, TypeOK
    <2> HIDE DEF top
    <2>7. outstanding[g] = {} /\ numUnfinishedTasks[g] = 0 /\ Cardinality(outstanding[g]) = 0
      BY <2>1, <2>2, FS_EmptySet DEF Inv, GroupInv
    <2>8. /\ UNCHANGED groupVars /\ awake' = awake /\ outstanding' = outstanding
          /\ workerSemaphore' = workerSemaphore
      BY DEF ISPCAlloc
    <2>9. waitingTasks' = waitingTasks
      BY <2>8 DEF groupVars
    <2>10. \A a \in Activations :
             /\ Fn(a) \in Frame
             /\ Fn(a)'.group = Fn(a).group /\ Fn(a)'.num = Fn(a).num
             /\ a # top => Fn(a)' = Fn(a)
      BY <1>2, <2>3, <2>6, FrameFacts DEF Inv, TypeOK
    <2>11. Fn(top).tg = Null
      BY <1>2, <1>5
    <2>12. \A a \in Activations : a = top => Fn(a)' = f
      BY <2>6
    <2>13. TypeOK'
      BY <1>3, <2>1, <2>6, <2>8 DEF Inv, TypeOK, groupVars
    <2>14. GroupInv' /\ ListInv'
      BY <2>1, <2>8, <2>9 DEF Inv, GroupInv, ListInv, groupVars
    <2>15. HandleInv'
      BY <1>2, <2>1, <2>2, <2>3, <2>6, <2>10, <2>12 DEF Inv, HandleInv
    <2>16. TaskInv'
      BY <2>6, <2>8, <2>9, <2>10 DEF Inv, TaskInv, Frame
    <2>17. CountInv'
      <3> SUFFICES ASSUME NEW a \in Activations
                   PROVE  /\ Fn(a)'.tg # Null =>
                               numUnfinishedTasks[Fn(a)'.tg] + Uncounted(Fn(a)')
                                 = Cardinality(outstanding[Fn(a)'.tg])
                          /\ Fn(a)'.pc = "free" => outstanding[Fn(a)'.tg] = {}
        BY <2>6, <2>8 DEF CountInv, groupVars
      <3>1. CASE a = top
        <4>1. Fn(a)' = f
          BY <3>1, <2>12
        <4> QED BY <4>1, <2>3, <2>4, <2>7
      <3>2. CASE a # top
        BY <3>2, <2>10 DEF Inv, CountInv
      <3> QED BY <3>1, <3>2
    <2>18. NoTaskLost'
      BY <2>6, <2>8, <2>9, <2>10 DEF Inv, NoTaskLost
    <2>19. StackInv'
      BY <1>1, <2>3, <2>5, <2>8, SetTopStackInv DEF Inv
    <2> QED BY <2>13, <2>14, <2>15, <2>16, <2>17, <2>18, <2>19 DEF Inv
  <1> QED BY <1>4, <1>5

\* What the invariant says of the top function of a thread and its handle,
\* while the function is in a launch or sync statement.
LEMMA TopHandle ==
    ASSUME Inv, NEW t \in Threads, stack[t] # <<>>, Top(t).pc # "body"
    PROVE  LET g == Top(t).tg IN
           /\ g \in Groups /\ g # Null /\ g \notin freeGroups
           /\ \A a \in Activations : Fn(a).tg = g => a = Act(t)
           /\ numUnfinishedTasks[g] + Uncounted(Top(t)) = Cardinality(outstanding[g])
           /\ Top(t).pc = "free" => outstanding[g] = {}
  <1> DEFINE top == Act(t)
  <1>1. top \in Activations /\ Fn(top) = Top(t) /\ Top(t) \in Frame
    BY TopFacts DEF Inv, TypeOK
  <1> HIDE DEF top
  <1>2. Fn(top).tg # Null
    BY <1>1 DEF Inv, HandleInv
  <1>3. Fn(top).tg \in Groups
    BY <1>1, <1>2 DEF Frame
  <1>4. /\ Fn(top).tg \notin freeGroups
        /\ \A a \in Activations : Fn(a).tg = Fn(top).tg => a = top
    BY <1>1, <1>2 DEF Inv, HandleInv
  <1>5. /\ numUnfinishedTasks[Fn(top).tg] + Uncounted(Fn(top)) = Cardinality(outstanding[Fn(top).tg])
        /\ Fn(top).pc = "free" => outstanding[Fn(top).tg] = {}
    BY <1>1, <1>2 DEF Inv, CountInv
  <1> QED BY <1>1, <1>2, <1>3, <1>4, <1>5 DEF top

\* LaunchEnqueue preserves the invariant when the launch has tasks: the new
\* ones have numbers that no unfinished task has.
LEMMA LaunchEnqueueStep ==
    ASSUME Inv, NEW t \in Threads, NEW count \in Nat \ {0}, LaunchEnqueue(t, count)
    PROVE  Inv'
  <1> DEFINE top == Act(t)
             g == Top(t).tg
             base == nextTaskInfoIndex[g]
             f == [Top(t) EXCEPT !.pc = "count", !.n = count]
             new == base .. base + count - 1
             w == waitingTasks[g] \o [j \in 1 .. count |-> base + j - 1]
  <1>1. stack[t] # <<>> /\ Top(t).pc = "launch"
    BY DEF LaunchEnqueue, At
  <1>2. top \in Activations /\ Fn(top) = Top(t) /\ Top(t) \in Frame
    BY <1>1, TopFacts DEF Inv, TypeOK
  <1>3. /\ g \in Groups /\ g # Null /\ g \notin freeGroups
        /\ \A a \in Activations : Fn(a).tg = g => a = top
        /\ numUnfinishedTasks[g] + Uncounted(Top(t)) = Cardinality(outstanding[g])
    BY <1>1, TopHandle
  <1>4. /\ f \in Frame /\ f.group = Top(t).group /\ f.num = Top(t).num
        /\ f.tg = g /\ f.pc = "count" /\ f.n = count
    BY <1>2 DEF Frame, Labels
  <1>5. Uncounted(f) = count /\ Uncounted(Top(t)) = 0
    BY <1>1, <1>4 DEF Uncounted
  <1>6. stack' = SetTop(t, f)
    BY DEF LaunchEnqueue
  <1>7. /\ waitingTasks' = [waitingTasks EXCEPT ![g] = w]
        /\ outstanding' = [outstanding EXCEPT ![g] = @ \cup new]
        /\ nextTaskInfoIndex' = [nextTaskInfoIndex EXCEPT ![g] = base + count]
        /\ inActiveList' = [inActiveList EXCEPT ![g] = TRUE]
        /\ inActiveList[g] => activeTaskGroups' = activeTaskGroups
        /\ ~inActiveList[g] => activeTaskGroups' = Append(activeTaskGroups, g)
        /\ awake' = awake /\ freeGroups' = freeGroups
        /\ numUnfinishedTasks' = numUnfinishedTasks
        /\ workerSemaphore' = workerSemaphore /\ launches' = launches
    BY DEF LaunchEnqueue
  <1>8. /\ base \in Nat /\ waitingTasks[g] \in Seq(Nat)
        /\ outstanding[g] \subseteq Nat /\ IsFiniteSet(outstanding[g])
        /\ \A k \in outstanding[g] : k < base
        /\ Distinct(waitingTasks[g])
        /\ Elems(waitingTasks[g]) \subseteq outstanding[g]
    BY <1>3 DEF Inv, TypeOK, GroupInv
  <1>9. w \in Seq(Nat) /\ Distinct(w) /\ Elems(w) = Elems(waitingTasks[g]) \cup new
    BY <1>8, EnqueueQueue
  <1>10. /\ new \subseteq Nat /\ IsFiniteSet(new) /\ Cardinality(new) = count
         /\ new \cap outstanding[g] = {} /\ base \in new
         /\ \A k \in new : k < base + count
    <2> DEFINE last == base + count - 1
    <2>1. base \in Int /\ last \in Int /\ ~(base > last) /\ last - base + 1 = count
      BY <1>8
    <2> HIDE DEF last, base
    <2>2. IsFiniteSet(base .. last) /\ Cardinality(base .. last) = count
      BY <2>1, FS_Interval
    <2> USE DEF last
    <2> QED BY <1>8, <2>2
  <1>11. \A k \in outstanding[g] : k < base + count
    BY <1>8
  <1> HIDE DEF f, w, new
  <1>12. /\ IsFiniteSet(outstanding[g] \cup new)
         /\ Cardinality(outstanding[g] \cup new) = Cardinality(outstanding[g]) + count
    <2>1. outstanding[g] \cap new = {} /\ Cardinality(outstanding[g]) \in Nat
      BY <1>8, <1>10, FS_CardinalityType
    <2>2. Cardinality(outstanding[g] \cap new) = 0
      BY <2>1, FS_EmptySet
    <2>3. /\ IsFiniteSet(outstanding[g] \cup new)
          /\ Cardinality(outstanding[g] \cup new)
               = Cardinality(outstanding[g]) + Cardinality(new) - Cardinality(outstanding[g] \cap new)
      BY <1>8, <1>10, FS_Union
    <2> QED BY <2>1, <2>2, <2>3, <1>10
  <1> HIDE DEF base
  <1>13. /\ waitingTasks' \in [Groups -> Seq(Nat)] /\ waitingTasks'[g] = w
         /\ outstanding' \in [Groups -> SUBSET Nat] /\ outstanding'[g] = outstanding[g] \cup new
         /\ nextTaskInfoIndex' \in [Groups -> Nat] /\ nextTaskInfoIndex'[g] = base + count
         /\ inActiveList' \in [Groups -> BOOLEAN] /\ inActiveList'[g] = TRUE
         /\ \A h \in Groups \ {g} :
              /\ waitingTasks'[h] = waitingTasks[h] /\ outstanding'[h] = outstanding[h]
              /\ nextTaskInfoIndex'[h] = nextTaskInfoIndex[h]
              /\ inActiveList'[h] = inActiveList[h]
    <2> HIDE DEF g
    <2>1. /\ waitingTasks' \in [Groups -> Seq(Nat)] /\ waitingTasks'[g] = w
          /\ \A h \in Groups \ {g} : waitingTasks'[h] = waitingTasks[h]
      BY <1>3, <1>7, <1>9 DEF Inv, TypeOK
    <2>2. /\ outstanding' \in [Groups -> SUBSET Nat] /\ outstanding'[g] = outstanding[g] \cup new
          /\ \A h \in Groups \ {g} : outstanding'[h] = outstanding[h]
      BY <1>3, <1>7, <1>8, <1>10 DEF Inv, TypeOK
    <2>3. /\ nextTaskInfoIndex' \in [Groups -> Nat] /\ nextTaskInfoIndex'[g] = base + count
          /\ \A h \in Groups \ {g} : nextTaskInfoIndex'[h] = nextTaskInfoIndex[h]
      BY <1>3, <1>7, <1>8 DEF Inv, TypeOK
    <2>4. /\ inActiveList' \in [Groups -> BOOLEAN] /\ inActiveList'[g] = TRUE
          /\ \A h \in Groups \ {g} : inActiveList'[h] = inActiveList[h]
      BY <1>3, <1>7 DEF Inv, TypeOK
    <2> QED BY <2>1, <2>2, <2>3, <2>4
  <1>14. /\ stack' \in [Threads -> Seq(Frame)] /\ Activations' = Activations
         /\ \A a \in Activations : Fn(a)' = IF a = top THEN f ELSE Fn(a)
    BY <1>1, <1>4, <1>6, SetTopFacts DEF Inv, TypeOK
  <1>15. \A a \in Activations :
           /\ Fn(a) \in Frame
           /\ Fn(a)'.group = Fn(a).group /\ Fn(a)'.num = Fn(a).num /\ Fn(a)'.tg = Fn(a).tg
           /\ a # top => Fn(a)' = Fn(a)
           /\ a = top => Fn(a)' = f
    BY <1>2, <1>4, <1>14, FrameFacts DEF Inv, TypeOK
  <1>16. \A k : k \in Elems(waitingTasks'[g]) <=> k \in Elems(waitingTasks[g]) \/ k \in new
    BY <1>9, <1>13
  <1> HIDE DEF top, g
  <1>17. /\ activeTaskGroups' \in Seq(Groups) /\ Distinct(activeTaskGroups')
         /\ Elems(activeTaskGroups') = Elems(activeTaskGroups) \cup {g}
    <2>1. CASE inActiveList[g]
      <3>1. g \in Elems(activeTaskGroups) /\ activeTaskGroups' = activeTaskGroups
        BY <2>1, <1>3, <1>7 DEF Inv, ListInv
      <3> QED BY <3>1 DEF Inv, ListInv, TypeOK
    <2>2. CASE ~inActiveList[g]
      <3>1. g \notin Elems(activeTaskGroups) /\ activeTaskGroups' = Append(activeTaskGroups, g)
        BY <2>2, <1>3, <1>7 DEF Inv, ListInv
      <3>2. activeTaskGroups \in Seq(Groups) /\ Distinct(activeTaskGroups)
        BY DEF Inv, ListInv, TypeOK
      <3> QED BY <3>1, <3>2, <1>3, AppendQueue
    <2> QED BY <2>1, <2>2
  <1>18. TypeOK'
    BY <1>7, <1>13, <1>14, <1>17 DEF Inv, TypeOK
  <1>19. GroupInv'
    <2> SUFFICES ASSUME NEW h \in Groups
                 PROVE  /\ IsFiniteSet(outstanding'[h])
                        /\ \A k \in outstanding'[h] : k < nextTaskInfoIndex'[h]
                        /\ Elems(waitingTasks'[h]) \subseteq outstanding'[h]
                        /\ Distinct(waitingTasks'[h])
                        /\ h \in freeGroups' => outstanding'[h] = {} /\ numUnfinishedTasks'[h] = 0
      BY DEF GroupInv
    <2>1. CASE h # g
      BY <2>1, <1>7, <1>13 DEF Inv, GroupInv
    <2>2. CASE h = g
      <3>1. \A k \in outstanding'[g] : k < base + count
        BY <1>10, <1>11, <1>13
      <3> QED BY <2>2, <3>1, <1>3, <1>7, <1>8, <1>9, <1>12, <1>13, <1>16
    <2> QED BY <2>1, <2>2
  <1>20. ListInv'
    <2> SUFFICES ASSUME NEW h \in Groups
                 PROVE  /\ inActiveList'[h] <=> waitingTasks'[h] # <<>>
                        /\ inActiveList'[h] <=> h \in Elems(activeTaskGroups')
      BY <1>17 DEF ListInv
    <2>1. CASE h # g
      BY <2>1, <1>13, <1>17 DEF Inv, ListInv
    <2>2. CASE h = g
      <3>1. w # <<>>
        BY <1>9, <1>10, EmptyQueue
      <3> QED BY <2>2, <3>1, <1>13, <1>17
    <2> QED BY <2>1, <2>2
  <1>21. HandleInv'
    BY <1>3, <1>4, <1>7, <1>14, <1>15 DEF Inv, HandleInv
  <1>22. TaskInv'
    <2> SUFFICES ASSUME NEW a \in Activations, Fn(a).group # Null
                 PROVE  /\ Fn(a).num \in outstanding'[Fn(a).group]
                        /\ Fn(a).num \notin Elems(waitingTasks'[Fn(a).group])
                        /\ \A b \in Activations :
                             Fn(b).group = Fn(a).group /\ Fn(b).num = Fn(a).num => b = a
      BY <1>14, <1>15 DEF TaskInv
    <2>1. PICK h \in Groups : h = Fn(a).group
      BY <1>15 DEF Frame
    <2>2. /\ Fn(a).num \in outstanding[h] /\ Fn(a).num \notin Elems(waitingTasks[h])
          /\ \A b \in Activations :
               Fn(b).group = Fn(a).group /\ Fn(b).num = Fn(a).num => b = a
      BY <2>1 DEF Inv, TaskInv
    <2>3. Fn(a).num \in outstanding'[h]
      BY <2>2, <1>13
    <2>4. Fn(a).num \notin Elems(waitingTasks'[h])
      BY <2>2, <1>10, <1>13, <1>16
    <2> QED BY <2>1, <2>2, <2>3, <2>4
  <1>23. CountInv'
    <2> SUFFICES ASSUME NEW a \in Activations
                 PROVE  /\ Fn(a)'.tg # Null =>
                             numUnfinishedTasks[Fn(a)'.tg] + Uncounted(Fn(a)')
                               = Cardinality(outstanding'[Fn(a)'.tg])
                        /\ Fn(a)'.pc = "free" => outstanding'[Fn(a)'.tg] = {}
      BY <1>7, <1>14 DEF CountInv
    <2>1. CASE a = top
      <3>1. Fn(a)' = f
        BY <2>1, <1>15
      <3>2. numUnfinishedTasks[g] \in Int
        BY <1>3 DEF Inv, TypeOK
      <3>3. numUnfinishedTasks[g] + count = Cardinality(outstanding'[g])
        BY <3>2, <1>3, <1>5, <1>12, <1>13
      <3> QED BY <3>1, <3>3, <1>4, <1>5
    <2>2. CASE a # top
      <3>1. Fn(a)' = Fn(a) /\ Fn(a).tg # g /\ (Fn(a).tg # Null => Fn(a).tg \in Groups \ {g})
        BY <2>2, <1>3, <1>15 DEF Frame
      <3>2. Fn(a).pc = "free" => Fn(a).tg # Null
        BY DEF Inv, HandleInv
      <3>3. Fn(a).tg # Null => outstanding'[Fn(a).tg] = outstanding[Fn(a).tg]
        BY <3>1, <1>13
      <3>4. /\ Fn(a).tg # Null =>
                 numUnfinishedTasks[Fn(a).tg] + Uncounted(Fn(a)) = Cardinality(outstanding[Fn(a).tg])
            /\ Fn(a).pc = "free" => outstanding[Fn(a).tg] = {}
        BY DEF Inv, CountInv
      <3> QED BY <3>1, <3>2, <3>3, <3>4
    <2> QED BY <2>1, <2>2
  <1>24. NoTaskLost'
    <2> SUFFICES ASSUME NEW h \in Groups, NEW k \in outstanding'[h], k \notin Elems(waitingTasks'[h])
                 PROVE  \E a \in Activations : Fn(a)'.group = h /\ Fn(a)'.num = k
      BY <1>14 DEF NoTaskLost
    <2>1. k \in outstanding[h] /\ k \notin Elems(waitingTasks[h])
      BY <1>13, <1>16
    <2>2. PICK a \in Activations : Fn(a).group = h /\ Fn(a).num = k
      BY <2>1 DEF Inv, NoTaskLost
    <2> QED BY <2>2, <1>15
  <1>25. StackInv'
    BY <1>1, <1>4, <1>6, <1>7, SetTopStackInv DEF Inv
  <1> QED BY <1>18, <1>19, <1>20, <1>21, <1>22, <1>23, <1>24, <1>25 DEF Inv

\* LaunchCount preserves the invariant: it counts the tasks that CountInv
\* has counted for the function so far.
LEMMA LaunchCountStep ==
    ASSUME Inv, NEW t \in Threads, LaunchCount(t)
    PROVE  Inv'
  <1> DEFINE top == Act(t)
             g == Top(t).tg
             f == [Top(t) EXCEPT !.pc = "post"]
  <1>1. stack[t] # <<>> /\ Top(t).pc = "count"
    BY DEF LaunchCount, At
  <1>2. top \in Activations /\ Fn(top) = Top(t) /\ Top(t) \in Frame
    BY <1>1, TopFacts DEF Inv, TypeOK
  <1>3. /\ g \in Groups /\ g # Null /\ g \notin freeGroups
        /\ \A a \in Activations : Fn(a).tg = g => a = top
        /\ numUnfinishedTasks[g] + Uncounted(Top(t)) = Cardinality(outstanding[g])
    BY <1>1, TopHandle
  <1>4. /\ f \in Frame /\ f.group = Top(t).group /\ f.num = Top(t).num
        /\ f.tg = g /\ f.pc = "post" /\ Top(t).n \in Nat
    BY <1>2 DEF Frame, Labels
  <1>5. Uncounted(f) = 0 /\ Uncounted(Top(t)) = Top(t).n
    BY <1>1, <1>4 DEF Uncounted
  <1>6. stack' = SetTop(t, f)
    BY DEF LaunchCount, Goto
  <1>7. /\ numUnfinishedTasks' = [numUnfinishedTasks EXCEPT ![g] = @ + Top(t).n]
        /\ waitingTasks' = waitingTasks /\ outstanding' = outstanding
        /\ nextTaskInfoIndex' = nextTaskInfoIndex /\ inActiveList' = inActiveList
        /\ activeTaskGroups' = activeTaskGroups
        /\ awake' = awake /\ freeGroups' = freeGroups
        /\ workerSemaphore' = workerSemaphore /\ launches' = launches
    BY DEF LaunchCount
  <1> HIDE DEF f
  <1>8. /\ stack' \in [Threads -> Seq(Frame)] /\ Activations' = Activations
        /\ \A a \in Activations : Fn(a)' = IF a = top THEN f ELSE Fn(a)
    BY <1>1, <1>4, <1>6, SetTopFacts DEF Inv, TypeOK
  <1>9. \A a \in Activations :
          /\ Fn(a) \in Frame
          /\ Fn(a)'.group = Fn(a).group /\ Fn(a)'.num = Fn(a).num /\ Fn(a)'.tg = Fn(a).tg
          /\ a # top => Fn(a)' = Fn(a)
          /\ a = top => Fn(a)' = f
    BY <1>2, <1>4, <1>8, FrameFacts DEF Inv, TypeOK
  <1> HIDE DEF top, g
  <1>10. /\ numUnfinishedTasks' \in [Groups -> Int]
         /\ numUnfinishedTasks'[g] = numUnfinishedTasks[g] + Top(t).n
         /\ numUnfinishedTasks[g] \in Int
         /\ \A h \in Groups \ {g} : numUnfinishedTasks'[h] = numUnfinishedTasks[h]
    BY <1>3, <1>4, <1>7 DEF Inv, TypeOK
  <1>11. TypeOK'
    BY <1>7, <1>8, <1>10 DEF Inv, TypeOK
  <1>12. GroupInv'
    BY <1>3, <1>7, <1>10 DEF Inv, GroupInv
  <1>13. ListInv'
    BY <1>7 DEF Inv, ListInv
  <1>14. HandleInv'
    BY <1>3, <1>4, <1>7, <1>8, <1>9 DEF Inv, HandleInv
  <1>15. TaskInv'
    BY <1>7, <1>8, <1>9 DEF Inv, TaskInv
  <1>16. CountInv'
    <2> SUFFICES ASSUME NEW a \in Activations
                 PROVE  /\ Fn(a)'.tg # Null =>
                             numUnfinishedTasks'[Fn(a)'.tg] + Uncounted(Fn(a)')
                               = Cardinality(outstanding[Fn(a)'.tg])
                        /\ Fn(a)'.pc = "free" => outstanding[Fn(a)'.tg] = {}
      BY <1>7, <1>8 DEF CountInv
    <2>1. CASE a = top
      <3>1. Fn(a)' = f
        BY <2>1, <1>9
      <3>2. numUnfinishedTasks'[g] + 0 = Cardinality(outstanding[g])
        BY <1>3, <1>4, <1>5, <1>10
      <3> QED BY <3>1, <3>2, <1>4, <1>5
    <2>2. CASE a # top
      <3>1. Fn(a)' = Fn(a) /\ (Fn(a).tg # Null => Fn(a).tg \in Groups \ {g})
        BY <2>2, <1>3, <1>9 DEF Frame
      <3>2. Fn(a).tg # Null => numUnfinishedTasks'[Fn(a).tg] = numUnfinishedTasks[Fn(a).tg]
        BY <3>1, <1>10
      <3>3. /\ Fn(a).tg # Null =>
                 numUnfinishedTasks[Fn(a).tg] + Uncounted(Fn(a)) = Cardinality(outstanding[Fn(a).tg])
            /\ Fn(a).pc = "free" => outstanding[Fn(a).tg] = {}
        BY DEF Inv, CountInv
      <3> QED BY <3>1, <3>2, <3>3
    <2> QED BY <2>1, <2>2
  <1>17. NoTaskLost'
    BY <1>7, <1>8, <1>9 DEF Inv, NoTaskLost
  <1>18. StackInv'
    BY <1>1, <1>4, <1>6, <1>7, SetTopStackInv DEF Inv
  <1> QED BY <1>11, <1>12, <1>13, <1>14, <1>15, <1>16, <1>17, <1>18 DEF Inv

\* A sem_post preserves the invariant: it touches no group.
LEMMA LaunchPostStep ==
    ASSUME Inv, NEW t \in Threads, LaunchPost(t)
    PROVE  Inv'
  <1>1. stack[t] # <<>> /\ Top(t).pc = "post"
    BY DEF LaunchPost, At
  <1>2. Top(t) \in Frame /\ Top(t).tg # Null
    BY <1>1, TopFacts, TopHandle DEF Inv, TypeOK
  <1>3. PICK f : /\ \/ f = [Top(t) EXCEPT !.n = @ - 1] /\ Top(t).n > 0
                    \/ f = [Top(t) EXCEPT !.pc = "body"]
                 /\ stack' = SetTop(t, f)
    BY DEF LaunchPost, Goto
  <1>4. /\ f \in Frame /\ f.group = Top(t).group /\ f.num = Top(t).num
        /\ f.tg = Top(t).tg /\ f.pc \in {"post", "body"}
    BY <1>1, <1>2, <1>3 DEF Frame, Labels
  <1>5. Uncounted(f) = Uncounted(Top(t))
    BY <1>1, <1>4 DEF Uncounted
  <1>6. /\ awake' = awake /\ freeGroups' = freeGroups /\ UNCHANGED groupVars
        /\ outstanding' = outstanding /\ launches' = launches
    BY DEF LaunchPost
  <1>7. workerSemaphore' \in Nat /\ launches' \in Nat
    <2>1. workerSemaphore' = workerSemaphore + 1 \/ workerSemaphore' = workerSemaphore
      BY DEF LaunchPost
    <2> QED BY <2>1, <1>6 DEF Inv, TypeOK
  <1>8. f.pc # "free"
    BY <1>4
  <1> QED BY <1>1, <1>2, <1>3, <1>4, <1>5, <1>6, <1>7, <1>8, Relabel

\* Entering Sync preserves the invariant.
LEMMA ISPCSyncStep ==
    ASSUME Inv, NEW t \in Threads, ISPCSync(t)
    PROVE  Inv'
  <1> DEFINE f == [Top(t) EXCEPT !.pc = "sync"]
  <1>1. stack[t] # <<>> /\ Top(t).pc = "body" /\ Top(t).tg # Null
    BY DEF ISPCSync, At
  <1>2. Top(t) \in Frame
    BY <1>1, TopFacts DEF Inv, TypeOK
  <1>3. /\ f \in Frame /\ f.group = Top(t).group /\ f.num = Top(t).num
        /\ f.tg = Top(t).tg /\ f.pc = "sync"
    BY <1>2 DEF Frame, Labels
  <1>4. Uncounted(f) = Uncounted(Top(t)) /\ f.pc # "free"
    BY <1>1, <1>3 DEF Uncounted
  <1>5. /\ stack' = SetTop(t, f)
        /\ awake' = awake /\ freeGroups' = freeGroups /\ UNCHANGED groupVars
        /\ outstanding' = outstanding /\ launches' = launches
        /\ workerSemaphore' = workerSemaphore
    BY DEF ISPCSync, Goto
  <1>6. workerSemaphore' \in Nat /\ launches' \in Nat
    BY <1>5 DEF Inv, TypeOK
  <1> HIDE DEF f
  <1> QED BY <1>1, <1>3, <1>4, <1>5, <1>6, Relabel

\* The loop test of Sync preserves the invariant: a counter that is not
\* positive means that no task of the group is unfinished.
LEMMA SyncTestStep ==
    ASSUME Inv, NEW t \in Threads, SyncTest(t)
    PROVE  Inv'
  <1> DEFINE g == Top(t).tg
             label == IF numUnfinishedTasks[g] > 0 THEN "help" ELSE "free"
             f == [Top(t) EXCEPT !.pc = label]
  <1>1. stack[t] # <<>> /\ Top(t).pc = "sync"
    BY DEF SyncTest, At
  <1>2. Top(t) \in Frame
    BY <1>1, TopFacts DEF Inv, TypeOK
  <1>3. /\ g \in Groups /\ g # Null
        /\ numUnfinishedTasks[g] + Uncounted(Top(t)) = Cardinality(outstanding[g])
    BY <1>1, TopHandle
  <1>4. label \in {"help", "free"}
    OBVIOUS
  <1>5. /\ stack' = SetTop(t, f)
        /\ awake' = awake /\ freeGroups' = freeGroups /\ UNCHANGED groupVars
        /\ outstanding' = outstanding /\ launches' = launches
        /\ workerSemaphore' = workerSemaphore
    BY DEF SyncTest, Goto
  <1>6. ASSUME label = "free" PROVE outstanding[g] = {}
    <2>1. Uncounted(Top(t)) = 0 /\ ~(numUnfinishedTasks[g] > 0)
      BY <1>1, <1>6 DEF Uncounted
    <2>2. numUnfinishedTasks[g] \in Int
      BY <1>3 DEF Inv, TypeOK
    <2>3. IsFiniteSet(outstanding[g]) /\ Cardinality(outstanding[g]) \in Nat
      BY <1>3, FS_CardinalityType DEF Inv, GroupInv
    <2>4. Cardinality(outstanding[g]) = 0
      BY <2>1, <2>2, <2>3, <1>3
    <2> QED BY <2>3, <2>4, FS_EmptySet
  <1> HIDE DEF label
  <1>7. /\ f \in Frame /\ f.group = Top(t).group /\ f.num = Top(t).num
        /\ f.tg = g /\ f.pc = label
    BY <1>2, <1>4 DEF Frame, Labels
  <1>8. Uncounted(f) = Uncounted(Top(t))
    BY <1>1, <1>4, <1>7 DEF Uncounted
  <1>9. workerSemaphore' \in Nat /\ launches' \in Nat
    BY <1>5 DEF Inv, TypeOK
  <1>10. f.pc = "free" => outstanding[f.tg] = {}
    BY <1>6, <1>7
  <1> HIDE DEF f
  <1> QED BY <1>1, <1>3, <1>5, <1>7, <1>8, <1>9, <1>10, Relabel

\* FreeTaskGroup preserves the invariant: the group has no tasks left, and
\* no other function has it as its handle.
LEMMA SyncFreeStep ==
    ASSUME Inv, NEW t \in Threads, SyncFree(t)
    PROVE  Inv'
  <1> DEFINE top == Act(t)
             g == Top(t).tg
             f == [Top(t) EXCEPT !.tg = Null, !.pc = "body"]
  <1>1. stack[t] # <<>> /\ Top(t).pc = "free"
    BY DEF SyncFree, At
  <1>2. top \in Activations /\ Fn(top) = Top(t) /\ Top(t) \in Frame
    BY <1>1, TopFacts DEF Inv, TypeOK
  <1>3. /\ g \in Groups /\ g # Null
        /\ \A a \in Activations : Fn(a).tg = g => a = top
        /\ outstanding[g] = {}
    BY <1>1, TopHandle
  <1>4. /\ f \in Frame /\ f.group = Top(t).group /\ f.num = Top(t).num
        /\ f.tg = Null /\ f.pc = "body"
    BY <1>2 DEF Frame, Labels
  <1>5. stack' = SetTop(t, f)
    BY DEF SyncFree
  <1>6. /\ numUnfinishedTasks' = [numUnfinishedTasks EXCEPT ![g] = 0]
        /\ nextTaskInfoIndex' = [nextTaskInfoIndex EXCEPT ![g] = 0]
        /\ freeGroups' = freeGroups \cup {g}
        /\ waitingTasks' = waitingTasks /\ outstanding' = outstanding
        /\ inActiveList' = inActiveList /\ activeTaskGroups' = activeTaskGroups
        /\ awake' = awake
        /\ workerSemaphore' = workerSemaphore /\ launches' = launches
    BY DEF SyncFree
  <1> HIDE DEF f
  <1>7. /\ stack' \in [Threads -> Seq(Frame)] /\ Activations' = Activations
        /\ \A a \in Activations : Fn(a)' = IF a = top THEN f ELSE Fn(a)
    BY <1>1, <1>4, <1>5, SetTopFacts DEF Inv, TypeOK
  <1>8. \A a \in Activations :
          /\ Fn(a) \in Frame
          /\ Fn(a)'.group = Fn(a).group /\ Fn(a)'.num = Fn(a).num
          /\ a # top => Fn(a)' = Fn(a) /\ Fn(a).tg # g
          /\ a = top => Fn(a)'.tg = Null /\ Fn(a)'.pc = "body"
    BY <1>2, <1>3, <1>4, <1>7, FrameFacts DEF Inv, TypeOK
  <1> HIDE DEF top, g
  <1>9. /\ numUnfinishedTasks' \in [Groups -> Int] /\ numUnfinishedTasks'[g] = 0
        /\ nextTaskInfoIndex' \in [Groups -> Nat]
        /\ \A h \in Groups \ {g} : /\ numUnfinishedTasks'[h] = numUnfinishedTasks[h]
                                   /\ nextTaskInfoIndex'[h] = nextTaskInfoIndex[h]
    BY <1>3, <1>6 DEF Inv, TypeOK
  <1>10. TypeOK'
    BY <1>3, <1>6, <1>7, <1>9 DEF Inv, TypeOK
  <1>11. GroupInv'
    BY <1>3, <1>6, <1>9 DEF Inv, GroupInv
  <1>12. ListInv'
    BY <1>6 DEF Inv, ListInv
  <1>13. HandleInv'
    BY <1>6, <1>7, <1>8 DEF Inv, HandleInv
  <1>14. TaskInv'
    BY <1>6, <1>7, <1>8 DEF Inv, TaskInv
  <1>15. CountInv'
    <2> SUFFICES ASSUME NEW a \in Activations
                 PROVE  /\ Fn(a)'.tg # Null =>
                             numUnfinishedTasks'[Fn(a)'.tg] + Uncounted(Fn(a)')
                               = Cardinality(outstanding[Fn(a)'.tg])
                        /\ Fn(a)'.pc = "free" => outstanding[Fn(a)'.tg] = {}
      BY <1>6, <1>7 DEF CountInv
    <2>1. CASE a = top
      BY <2>1, <1>8
    <2>2. CASE a # top
      <3>1. Fn(a)' = Fn(a) /\ (Fn(a).tg # Null => Fn(a).tg \in Groups \ {g})
        BY <2>2, <1>8 DEF Frame
      <3>2. Fn(a).tg # Null => numUnfinishedTasks'[Fn(a).tg] = numUnfinishedTasks[Fn(a).tg]
        BY <3>1, <1>9
      <3>3. /\ Fn(a).tg # Null =>
                 numUnfinishedTasks[Fn(a).tg] + Uncounted(Fn(a)) = Cardinality(outstanding[Fn(a).tg])
            /\ Fn(a).pc = "free" => outstanding[Fn(a).tg] = {}
        BY DEF Inv, CountInv
      <3> QED BY <3>1, <3>2, <3>3
    <2> QED BY <2>1, <2>2
  <1>16. NoTaskLost'
    BY <1>6, <1>7, <1>8 DEF Inv, NoTaskLost
  <1>17. StackInv'
    BY <1>1, <1>4, <1>5, <1>6, SetTopStackInv DEF Inv
  <1> QED BY <1>10, <1>11, <1>12, <1>13, <1>14, <1>15, <1>16, <1>17 DEF Inv

\* What FinishTask does to the stacks: the task on top is gone, and the
\* function below it is back at Sync's loop test.
LEMMA FinishFrames ==
    ASSUME Inv, NEW t \in Threads, FinishTask(t)
    PROVE  /\ stack' \in [Threads -> Seq(Frame)]
           /\ Activations' = Activations \ {Act(t)}
           /\ \A a \in Activations \ {Act(t)} :
                /\ Fn(a) \in Frame
                /\ Fn(a)'.group = Fn(a).group /\ Fn(a)'.num = Fn(a).num /\ Fn(a)'.tg = Fn(a).tg
                /\ \/ Fn(a)'.pc = Fn(a).pc
                   \/ Fn(a)'.pc = "sync" /\ Fn(a).pc = "running" /\ a[1] = t
                        /\ a[2] = Len(stack[t]) - 1
                /\ Uncounted(Fn(a)') = Uncounted(Fn(a))
                /\ a[1] = t => a[2] \in 1 .. Len(stack[t]) - 1
  <1> DEFINE top == Act(t)
             m == Len(stack[t])
             below == Pop(stack[t])
             f == [below[Len(below)] EXCEPT !.pc = "sync"]
             r == IF below = <<>> THEN <<>> ELSE Append(Pop(below), f)
  <1>1. stack[t] # <<>> /\ stack \in [Threads -> Seq(Frame)]
    BY DEF FinishTask, At, Inv, TypeOK
  <1>2. /\ top \in Activations /\ Fn(top) = Top(t) /\ Top(t) \in Frame
        /\ stack[t] \in Seq(Frame) /\ m \in Nat /\ m > 0
    BY <1>1, TopFacts
  <1>3. /\ below \in Seq(Frame) /\ Len(below) = m - 1
        /\ \A d \in 1 .. m - 1 : below[d] = stack[t][d]
    BY <1>1, <1>2, PopFacts
  <1>6. stack' = [stack EXCEPT ![t] = r]
    BY DEF FinishTask
  <1>7. /\ r \in Seq(Frame) /\ Len(r) = m - 1
        /\ \A d \in 1 .. m - 1 :
             r[d] = IF d = m - 1 THEN [stack[t][d] EXCEPT !.pc = "sync"] ELSE stack[t][d]
    <2>1. CASE below = <<>>
      <3>1. r = <<>> /\ Len(below) = 0
        BY <2>1
      <3>2. m \in Nat /\ m - 1 = 0
        BY <3>1, <1>2, <1>3
      <3> HIDE DEF m
      <3>3. 1 .. m - 1 = {}
        BY <3>2
      <3> QED BY <3>1, <3>2, <3>3
    <2>2. CASE below # <<>>
      <3>1. below[Len(below)] \in Frame /\ Len(below) > 0
        BY <2>2, <1>3, PopFacts
      <3>2. f \in Frame
        BY <3>1 DEF Frame, Labels
      <3>3. f = [stack[t][m - 1] EXCEPT !.pc = "sync"]
        BY <3>1, <1>2, <1>3, SMTT(30)
      <3>4. r = Append(Pop(below), f)
        BY <2>2
      <3>a. below \in Seq(Frame)
        BY <1>3
      <3> HIDE DEF f, r, below
      <3>5. /\ r \in Seq(Frame) /\ Len(r) = Len(below)
            /\ \A d \in 1 .. Len(below) : r[d] = IF d = Len(below) THEN f ELSE below[d]
        BY <2>2, <3>2, <3>4, <3>a, ReplaceTop
      <3> QED BY <3>3, <3>5, <1>2, <1>3
    <2> QED BY <2>1, <2>2
  <1> HIDE DEF r, below
  <1>8. /\ stack' \in [Threads -> Seq(Frame)]
        /\ Activations' = Activations \ {top}
        /\ \A a \in Activations : a[1] # t => Fn(a)' = Fn(a)
        /\ \A a \in Activations \ {top} : a[1] = t => a[2] \in 1 .. m - 1 /\ Fn(a)' = r[a[2]]
    <2>1. stack' = [stack EXCEPT ![t] = r] /\ r \in Seq(Frame) /\ Len(r) = Len(stack[t]) - 1
      BY <1>6, <1>7
    <2>2. stack \in [Threads -> Seq(Frame)] /\ stack[t] # <<>>
      BY <1>1
    <2> QED BY <2>1, <2>2, PopStackFacts
  <1>9. ASSUME NEW a \in Activations \ {top}
        PROVE  /\ Fn(a) \in Frame
               /\ Fn(a)'.group = Fn(a).group /\ Fn(a)'.num = Fn(a).num /\ Fn(a)'.tg = Fn(a).tg
               /\ \/ Fn(a)'.pc = Fn(a).pc
                  \/ Fn(a)'.pc = "sync" /\ Fn(a).pc = "running" /\ a[1] = t /\ a[2] = m - 1
               /\ Uncounted(Fn(a)') = Uncounted(Fn(a))
    <2>1. Fn(a) \in Frame
      BY <1>1, FrameFacts
    <2>2. CASE a[1] # t
      BY <2>1, <2>2, <1>8
    <2>3. CASE a[1] = t
      <3>1. a[2] \in 1 .. m - 1 /\ Fn(a)' = r[a[2]] /\ Fn(a) = stack[t][a[2]]
        BY <2>3, <1>8 DEF Fn
      <3>2. CASE a[2] = m - 1
        <4>1. Fn(a)' = [Fn(a) EXCEPT !.pc = "sync"]
          BY <3>1, <3>2, <1>7
        <4>2. top[1] = t /\ top[2] = m
          BY DEF Act
        <4>3. Fn(a).pc = "running"
          BY <2>3, <3>1, <4>2, <1>2 DEF Inv, StackInv
        <4> QED BY <2>1, <2>3, <3>2, <4>1, <4>3 DEF Uncounted, Frame
      <3>3. CASE a[2] # m - 1
        BY <2>1, <3>1, <3>3, <1>7
      <3> QED BY <3>2, <3>3
    <2> QED BY <2>2, <2>3
  <1> QED BY <1>8, <1>9

\* A task that returns preserves the invariant: its group loses one unfinished
\* task and one count.
LEMMA FinishTaskStep ==
    ASSUME Inv, NEW t \in Threads, FinishTask(t)
    PROVE  Inv'
  <1> DEFINE top == Act(t)
             g == Top(t).group
             k == Top(t).num
             m == Len(stack[t])
  <1>1. stack[t] # <<>> /\ g # Null
    BY DEF FinishTask, At
  <1>2. /\ top \in Activations /\ Fn(top) = Top(t) /\ Top(t) \in Frame
        /\ m \in Nat /\ m > 0
    BY <1>1, TopFacts DEF Inv, TypeOK
  <1>4. g \in Groups
    BY <1>1, <1>2 DEF Frame
  <1>5. /\ k \in outstanding[g] /\ k \notin Elems(waitingTasks[g])
        /\ \A a \in Activations : Fn(a).group = g /\ Fn(a).num = k => a = top
    BY <1>1, <1>2 DEF Inv, TaskInv
  <1>6. /\ outstanding' = [outstanding EXCEPT ![g] = @ \ {k}]
        /\ numUnfinishedTasks' = [numUnfinishedTasks EXCEPT ![g] = @ - 1]
        /\ awake' = awake /\ freeGroups' = freeGroups
        /\ nextTaskInfoIndex' = nextTaskInfoIndex /\ waitingTasks' = waitingTasks
        /\ inActiveList' = inActiveList /\ activeTaskGroups' = activeTaskGroups
        /\ workerSemaphore' = workerSemaphore /\ launches' = launches
    BY DEF FinishTask
  <1>8. stack' \in [Threads -> Seq(Frame)] /\ Activations' = Activations \ {top}
    BY FinishFrames
  <1>9. \A a \in Activations \ {top} :
          /\ Fn(a) \in Frame
          /\ Fn(a)'.group = Fn(a).group /\ Fn(a)'.num = Fn(a).num /\ Fn(a)'.tg = Fn(a).tg
          /\ \/ Fn(a)'.pc = Fn(a).pc
             \/ Fn(a)'.pc = "sync" /\ Fn(a).pc = "running" /\ a[1] = t /\ a[2] = m - 1
          /\ Uncounted(Fn(a)') = Uncounted(Fn(a))
          /\ a[1] = t => a[2] \in 1 .. m - 1
    BY FinishFrames
  <1>7. \A u \in Threads \ {t} : stack'[u] = stack[u]
    BY DEF FinishTask, Inv, TypeOK
  <1>10. t \notin awake
    BY <1>1 DEF Inv, StackInv
  <1>11. \A a \in Activations \ {top} : a[1] = t => a[2] \in Nat /\ a[2] <= m - 1
    BY <1>2, <1>9
  <1> HIDE DEF top, g, k
  <1>12. /\ outstanding' \in [Groups -> SUBSET Nat] /\ outstanding'[g] = outstanding[g] \ {k}
         /\ numUnfinishedTasks' \in [Groups -> Int]
         /\ numUnfinishedTasks'[g] = numUnfinishedTasks[g] - 1 /\ numUnfinishedTasks[g] \in Int
         /\ \A h \in Groups \ {g} : /\ outstanding'[h] = outstanding[h]
                                    /\ numUnfinishedTasks'[h] = numUnfinishedTasks[h]
    BY <1>4, <1>6 DEF Inv, TypeOK
  <1>13. /\ IsFiniteSet(outstanding'[g]) /\ Cardinality(outstanding[g]) \in Nat
         /\ Cardinality(outstanding'[g]) = Cardinality(outstanding[g]) - 1
    <2>1. IsFiniteSet(outstanding[g])
      BY <1>4 DEF Inv, GroupInv
    <2> QED BY <2>1, <1>5, <1>12, FS_RemoveElement, FS_CardinalityType
  <1>14. TypeOK'
    BY <1>6, <1>8, <1>12 DEF Inv, TypeOK
  <1>15. GroupInv'
    <2>1. g \notin freeGroups
      BY <1>4, <1>5 DEF Inv, GroupInv
    <2> QED BY <2>1, <1>4, <1>5, <1>6, <1>12, <1>13 DEF Inv, GroupInv
  <1>16. ListInv'
    BY <1>6 DEF Inv, ListInv
  <1>17. HandleInv'
    BY <1>6, <1>8, <1>9 DEF Inv, HandleInv
  <1>18. TaskInv'
    <2> SUFFICES ASSUME NEW a \in Activations \ {top}, Fn(a).group # Null
                 PROVE  /\ Fn(a).num \in outstanding'[Fn(a).group]
                        /\ Fn(a).num \notin Elems(waitingTasks[Fn(a).group])
                        /\ \A b \in Activations :
                             Fn(b).group = Fn(a).group /\ Fn(b).num = Fn(a).num => b = a
      BY <1>6, <1>8, <1>9 DEF TaskInv
    <2>1. PICK h \in Groups : h = Fn(a).group
      BY <1>9 DEF Frame
    <2>2. /\ Fn(a).num \in outstanding[h] /\ Fn(a).num \notin Elems(waitingTasks[h])
          /\ \A b \in Activations :
               Fn(b).group = Fn(a).group /\ Fn(b).num = Fn(a).num => b = a
      BY <2>1 DEF Inv, TaskInv
    <2>3. ~(h = g /\ Fn(a).num = k)
      BY <2>1, <1>5
    <2> QED BY <2>1, <2>2, <2>3, <1>12
  <1>19. CountInv'
    <2> SUFFICES ASSUME NEW a \in Activations \ {top}
                 PROVE  /\ Fn(a)'.tg # Null =>
                             numUnfinishedTasks'[Fn(a)'.tg] + Uncounted(Fn(a)')
                               = Cardinality(outstanding'[Fn(a)'.tg])
                        /\ Fn(a)'.pc = "free" => outstanding'[Fn(a)'.tg] = {}
      BY <1>8 DEF CountInv
    <2> DEFINE h == Fn(a).tg
    <2>1. /\ Fn(a)'.tg = h /\ Uncounted(Fn(a)') = Uncounted(Fn(a))
          /\ Fn(a)'.pc = "free" => Fn(a).pc = "free"
          /\ h # Null => h \in Groups
      BY <1>9 DEF Frame
    <2>2. Uncounted(Fn(a)) \in Nat
      BY <1>9 DEF Uncounted, Frame
    <2>3. Fn(a).pc = "free" => h # Null
      BY DEF Inv, HandleInv
    <2>4. /\ h # Null => numUnfinishedTasks[h] + Uncounted(Fn(a)) = Cardinality(outstanding[h])
          /\ Fn(a).pc = "free" => outstanding[h] = {}
      BY DEF Inv, CountInv
    <2> HIDE DEF h
    <2>5. CASE h = g
      <3>1. numUnfinishedTasks'[g] + Uncounted(Fn(a)) = Cardinality(outstanding'[g])
        BY <2>1, <2>2, <2>4, <2>5, <1>1, <1>12, <1>13 DEF g
      <3> QED BY <3>1, <2>1, <2>4, <2>5, <1>12
    <2>6. CASE h # g
      BY <2>1, <2>3, <2>4, <2>6, <1>12
    <2> QED BY <2>5, <2>6
  <1>20. NoTaskLost'
    <2> SUFFICES ASSUME NEW h \in Groups, NEW i \in outstanding'[h],
                        i \notin Elems(waitingTasks[h])
                 PROVE  \E a \in Activations \ {top} : Fn(a)'.group = h /\ Fn(a)'.num = i
      BY <1>6, <1>8 DEF NoTaskLost
    <2>1. i \in outstanding[h] /\ ~(h = g /\ i = k)
      BY <1>12
    <2>2. PICK a \in Activations : Fn(a).group = h /\ Fn(a).num = i
      BY <2>1 DEF Inv, NoTaskLost
    <2>3. a # top
      BY <2>1, <2>2, <1>2 DEF g, k
    <2> QED BY <2>2, <2>3, <1>9
  <1>21. StackInv'
    <2>1. ASSUME NEW u \in awake PROVE stack'[u] = <<>>
      BY <1>7, <1>10 DEF Inv, StackInv, TypeOK, Threads
    <2>2. ASSUME NEW a \in Activations \ {top}, NEW b \in Activations \ {top},
                 a[1] = b[1], a[2] < b[2]
          PROVE  Fn(a)'.pc = "running"
      <3>1. ~(a[1] = t /\ a[2] = m - 1)
        BY <2>2, <1>2, <1>11
      <3> QED BY <3>1, <2>2, <1>9 DEF Inv, StackInv
    <2> QED BY <2>1, <2>2, <1>6, <1>8 DEF StackInv
  <1> QED BY <1>14, <1>15, <1>16, <1>17, <1>18, <1>19, <1>20, <1>21 DEF Inv

\* A thread takes the last task of group g and runs it as function b, on top
\* of the function that waits in Sync if there is one; list is the active list
\* without g.
LEMMA TakeStep ==
    ASSUME Inv, NEW t \in Threads, NEW g \in Groups, waitingTasks[g] # <<>>,
           NEW list \in Seq(Groups), Distinct(list),
           Elems(list) = Elems(activeTaskGroups) \ {g},
           TakeFrom(g, list),
           NEW b, b[1] = t, b[2] \in Nat, b \notin Activations,
           stack' \in [Threads -> Seq(Frame)],
           \A u \in Threads \ {t} : stack'[u] = stack[u],
           Activations' = Activations \cup {b},
           Fn(b)' = NewFrame(g, LastWaiting(g)),
           \A a \in Activations : a[1] # t => Fn(a)' = Fn(a),
           \A a \in Activations :
             a[1] = t => /\ a[2] < b[2]
                         /\ \/ a = Act(t) /\ Fn(a).pc = "help" /\ Fn(a)' = [Fn(a) EXCEPT !.pc = "running"]
                            \/ Fn(a).pc = "running" /\ Fn(a)' = Fn(a),
           awake' \subseteq awake \ {t},
           freeGroups' = freeGroups, workerSemaphore' = workerSemaphore,
           outstanding' = outstanding, launches' = launches
    PROVE  Inv'
  <1> DEFINE k == LastWaiting(g)
             f == NewFrame(g, k)
             w == waitingTasks[g]
             rest == Pop(w)
  <1>1. /\ w \in Seq(Nat) /\ Distinct(w) /\ Elems(w) \subseteq outstanding[g]
        /\ k = w[Len(w)] /\ g # Null
    BY TaskSystemAssumption DEF Inv, TypeOK, GroupInv, LastWaiting
  <1>2. /\ rest \in Seq(Nat) /\ Distinct(rest) /\ k \in Nat /\ k \in Elems(w)
        /\ Elems(rest) = Elems(w) \ {k}
    BY <1>1, PopQueue, SMTT(30)
  <1>3. f.group = g /\ f.num = k /\ f.tg = Null /\ f.pc = "body"
    BY DEF NewFrame
  <1>4. Fn(b)' = f
    OBVIOUS
  <1> HIDE DEF f
  <1>5. /\ waitingTasks' = [waitingTasks EXCEPT ![g] = rest]
        /\ inActiveList' = [inActiveList EXCEPT ![g] = (rest # <<>>)]
        /\ activeTaskGroups' = IF rest = <<>> THEN list ELSE activeTaskGroups
        /\ nextTaskInfoIndex' = nextTaskInfoIndex /\ numUnfinishedTasks' = numUnfinishedTasks
    BY DEF TakeFrom
  <1> HIDE DEF rest
  <1>6. /\ waitingTasks' \in [Groups -> Seq(Nat)] /\ waitingTasks'[g] = rest
        /\ inActiveList' \in [Groups -> BOOLEAN] /\ inActiveList'[g] = (rest # <<>>)
        /\ \A h \in Groups \ {g} : /\ waitingTasks'[h] = waitingTasks[h]
                                   /\ inActiveList'[h] = inActiveList[h]
    BY <1>2, <1>5 DEF Inv, TypeOK
  <1>7. \A a \in Activations : ~(Fn(a).group = g /\ Fn(a).num = k)
    BY <1>1, <1>2 DEF Inv, TaskInv
  <1>8. ASSUME NEW a \in Activations
        PROVE  /\ Fn(a) \in Frame
               /\ Fn(a)'.group = Fn(a).group /\ Fn(a)'.num = Fn(a).num /\ Fn(a)'.tg = Fn(a).tg
               /\ \/ Fn(a)'.pc = Fn(a).pc
                  \/ Fn(a)'.pc = "running" /\ Fn(a).pc = "help"
               /\ a[1] = t => Fn(a)'.pc = "running" /\ a[2] < b[2]
               /\ Uncounted(Fn(a)') = Uncounted(Fn(a))
    <2>1. Fn(a) \in Frame
      BY FrameFacts DEF Inv, TypeOK
    <2>2. CASE a[1] # t
      BY <2>1, <2>2
    <2>3. CASE a[1] = t
      <3>1. /\ a[2] < b[2]
            /\ \/ Fn(a).pc = "help" /\ Fn(a)' = [Fn(a) EXCEPT !.pc = "running"]
               \/ Fn(a).pc = "running" /\ Fn(a)' = Fn(a)
        BY <2>3
      <3>2. CASE Fn(a).pc = "help" /\ Fn(a)' = [Fn(a) EXCEPT !.pc = "running"]
        BY <2>1, <2>3, <3>1, <3>2 DEF Frame, Uncounted
      <3>3. CASE Fn(a).pc = "running" /\ Fn(a)' = Fn(a)
        BY <2>1, <2>3, <3>1, <3>3
      <3> QED BY <3>1, <3>2, <3>3
    <2> QED BY <2>2, <2>3
  <1> HIDE DEF k, w
  <1>9. activeTaskGroups' \in Seq(Groups) /\ Distinct(activeTaskGroups')
    BY <1>5 DEF Inv, TypeOK, ListInv
  <1>10. TypeOK'
    BY <1>5, <1>6, <1>9 DEF Inv, TypeOK
  <1>11. GroupInv'
    <2>1. Elems(rest) \subseteq outstanding[g]
      BY <1>1, <1>2
    <2> QED BY <2>1, <1>2, <1>5, <1>6 DEF Inv, GroupInv
  <1>12. ListInv'
    <2>1. inActiveList[g] /\ g \in Elems(activeTaskGroups)
      BY DEF Inv, ListInv
    <2>2. CASE rest = <<>>
      BY <2>2, <1>5, <1>6, <1>9 DEF Inv, ListInv
    <2>3. CASE rest # <<>>
      BY <2>1, <2>3, <1>5, <1>6, <1>9 DEF Inv, ListInv
    <2> QED BY <2>2, <2>3
  <1>13. HandleInv'
    <2> SUFFICES ASSUME NEW a \in Activations'
                 PROVE  /\ Fn(a)'.pc # "body" => Fn(a)'.tg # Null
                        /\ Fn(a)'.tg # Null =>
                             /\ Fn(a)'.tg \notin freeGroups
                             /\ \A c \in Activations' : Fn(c)'.tg = Fn(a)'.tg => c = a
      BY DEF HandleInv
    <2>1. CASE a = b
      BY <2>1, <1>3, <1>4
    <2>2. CASE a \in Activations
      BY <2>2, <1>3, <1>4, <1>8 DEF Inv, HandleInv
    <2> QED BY <2>1, <2>2
  <1>14. TaskInv'
    <2> SUFFICES ASSUME NEW a \in Activations', Fn(a)'.group # Null
                 PROVE  /\ Fn(a)'.num \in outstanding[Fn(a)'.group]
                        /\ Fn(a)'.num \notin Elems(waitingTasks'[Fn(a)'.group])
                        /\ \A c \in Activations' :
                             Fn(c)'.group = Fn(a)'.group /\ Fn(c)'.num = Fn(a)'.num => c = a
      BY DEF TaskInv
    <2>1. CASE a = b
      <3>1. k \in outstanding[g] /\ k \notin Elems(waitingTasks'[g])
        BY <1>1, <1>2, <1>6
      <3> QED BY <2>1, <3>1, <1>3, <1>4, <1>7, <1>8, SMTT(30)
    <2>2. CASE a \in Activations
      <3>1. PICK h \in Groups : h = Fn(a).group
        BY <2>2, <1>8 DEF Frame
      <3>2. /\ Fn(a).num \in outstanding[h] /\ Fn(a).num \notin Elems(waitingTasks[h])
            /\ \A c \in Activations :
                 Fn(c).group = Fn(a).group /\ Fn(c).num = Fn(a).num => c = a
        BY <2>2, <3>1, <1>8 DEF Inv, TaskInv
      <3>3. Fn(a).num \notin Elems(waitingTasks'[h])
        BY <3>2, <1>2, <1>6 DEF w
      <3>4. Fn(a)'.group = h /\ Fn(a)'.num = Fn(a).num /\ ~(h = g /\ Fn(a).num = k)
        BY <2>2, <3>1, <1>7, <1>8
      <3>5. ASSUME NEW c \in Activations', Fn(c)'.group = h, Fn(c)'.num = Fn(a).num
            PROVE  c = a
        <4>1. c # b
          BY <3>4, <3>5, <1>3, <1>4
        <4> QED BY <4>1, <3>1, <3>2, <3>5, <1>8
      <3> QED BY <3>2, <3>3, <3>4, <3>5
    <2> QED BY <2>1, <2>2
  <1>15. CountInv'
    <2> SUFFICES ASSUME NEW a \in Activations'
                 PROVE  /\ Fn(a)'.tg # Null =>
                             numUnfinishedTasks[Fn(a)'.tg] + Uncounted(Fn(a)')
                               = Cardinality(outstanding[Fn(a)'.tg])
                        /\ Fn(a)'.pc = "free" => outstanding[Fn(a)'.tg] = {}
      BY <1>5 DEF CountInv
    <2>1. CASE a = b
      BY <2>1, <1>3, <1>4
    <2>2. CASE a \in Activations
      <3>1. /\ Fn(a).tg # Null =>
                 numUnfinishedTasks[Fn(a).tg] + Uncounted(Fn(a)) = Cardinality(outstanding[Fn(a).tg])
            /\ Fn(a).pc = "free" => outstanding[Fn(a).tg] = {}
        BY <2>2 DEF Inv, CountInv
      <3>2. Fn(a)'.tg = Fn(a).tg /\ Uncounted(Fn(a)') = Uncounted(Fn(a)) /\ (Fn(a)'.pc = "free" => Fn(a).pc = "free")
        BY <2>2, <1>8
      <3> QED BY <3>1, <3>2
    <2> QED BY <2>1, <2>2
  <1>16. NoTaskLost'
    <2> SUFFICES ASSUME NEW h \in Groups, NEW i \in outstanding[h],
                        i \notin Elems(waitingTasks'[h])
                 PROVE  \E a \in Activations' : Fn(a)'.group = h /\ Fn(a)'.num = i
      BY DEF NoTaskLost
    <2>1. CASE h = g /\ i = k
      BY <2>1, <1>3, <1>4
    <2>2. CASE ~(h = g /\ i = k)
      <3>1. i \notin Elems(waitingTasks[h])
        BY <2>2, <1>2, <1>6 DEF w
      <3>2. PICK a \in Activations : Fn(a).group = h /\ Fn(a).num = i
        BY <3>1 DEF Inv, NoTaskLost
      <3> QED BY <3>2, <1>8
    <2> QED BY <2>1, <2>2
  <1>17. StackInv'
    <2>1. ASSUME NEW u \in awake' PROVE stack'[u] = <<>>
      BY DEF Inv, StackInv, TypeOK, Threads
    <2>2. ASSUME NEW a \in Activations', NEW c \in Activations', a[1] = c[1], a[2] < c[2]
          PROVE  Fn(a)'.pc = "running"
      <3>1. CASE a = b
        <4>1. c \in Activations /\ c[1] = t
          BY <2>2, <3>1
        <4>2. c[2] < b[2]
          BY <4>1, <1>8
        <4>3. c[2] \in Nat
          BY <4>1, BelowTop DEF Inv, TypeOK
        <4> QED BY <2>2, <3>1, <4>2, <4>3
      <3>2. CASE a \in Activations /\ a[1] = t
        BY <3>2, <1>8
      <3>3. CASE a \in Activations /\ a[1] # t
        <4>1. c \in Activations
          BY <2>2, <3>3
        <4> QED BY <2>2, <3>3, <4>1, <1>8 DEF Inv, StackInv
      <3> QED BY <3>1, <3>2, <3>3
    <2> QED BY <2>1, <2>2 DEF StackInv
  <1> QED BY <1>10, <1>11, <1>12, <1>13, <1>14, <1>15, <1>16, <1>17 DEF Inv

\* The group at the back of a non-empty active list has waiting tasks, and
\* pop_back removes it from the list.
LEMMA LastActiveFacts ==
    ASSUME Inv, activeTaskGroups # <<>>
    PROVE  /\ LastActive \in Groups /\ waitingTasks[LastActive] # <<>>
           /\ Pop(activeTaskGroups) \in Seq(Groups) /\ Distinct(Pop(activeTaskGroups))
           /\ Elems(Pop(activeTaskGroups)) = Elems(activeTaskGroups) \ {LastActive}
  <1>1. activeTaskGroups \in Seq(Groups) /\ Distinct(activeTaskGroups)
    BY DEF Inv, TypeOK, ListInv
  <1>2. /\ LastActive \in Groups /\ LastActive \in Elems(activeTaskGroups)
        /\ Pop(activeTaskGroups) \in Seq(Groups) /\ Distinct(Pop(activeTaskGroups))
        /\ Elems(Pop(activeTaskGroups)) = Elems(activeTaskGroups) \ {LastActive}
    BY <1>1, PopQueue DEF LastActive
  <1>3. waitingTasks[LastActive] # <<>>
    BY <1>2 DEF Inv, ListInv
  <1> QED BY <1>2, <1>3

\* A frame for the last waiting task of a group.
LEMMA TaskFrame ==
    ASSUME Inv, NEW g \in Groups, waitingTasks[g] # <<>>
    PROVE  NewFrame(g, LastWaiting(g)) \in Frame
  <1>1. waitingTasks[g] \in Seq(Nat)
    BY DEF Inv, TypeOK
  <1>2. LastWaiting(g) \in Nat
    BY <1>1, PopFacts DEF LastWaiting
  <1> QED BY <1>2 DEF NewFrame, Frame, Labels

\* What RunOnTop does to the stacks: there is a new function c, and the
\* function that waits below it is now labelled "running".
LEMMA RunOnTopFrames ==
    ASSUME Inv, NEW t \in Threads, stack[t] # <<>>, Top(t).pc = "help",
           NEW g \in Groups, waitingTasks[g] # <<>>, RunOnTop(t, g)
    PROVE  /\ stack' \in [Threads -> Seq(Frame)]
           /\ \A u \in Threads \ {t} : stack'[u] = stack[u]
           /\ \E c : /\ c[1] = t /\ c[2] \in Nat /\ c \notin Activations
                     /\ Activations' = Activations \cup {c}
                     /\ Fn(c)' = NewFrame(g, LastWaiting(g))
                     /\ \A a \in Activations : a[1] # t => Fn(a)' = Fn(a)
                     /\ \A a \in Activations :
                          a[1] = t =>
                            /\ a[2] < c[2]
                            /\ \/ /\ a = Act(t) /\ Fn(a).pc = "help"
                                  /\ Fn(a)' = [Fn(a) EXCEPT !.pc = "running"]
                               \/ Fn(a).pc = "running" /\ Fn(a)' = Fn(a)
  <1> DEFINE top == Act(t)
             b == <<t, Len(stack[t]) + 1>>
             f == [Top(t) EXCEPT !.pc = "running"]
             new == NewFrame(g, LastWaiting(g))
  <1>1. /\ top \in Activations /\ Fn(top) = Top(t) /\ Top(t) \in Frame
        /\ Len(stack[t]) \in Nat /\ stack \in [Threads -> Seq(Frame)]
    BY TopFacts DEF Inv, TypeOK
  <1>2. f \in Frame
    BY <1>1 DEF Frame, Labels
  <1>3. new \in Frame
    BY TaskFrame
  <1>4. stack' = [stack EXCEPT ![t] = Append(Append(Pop(@), f), new)]
    BY DEF RunOnTop
  <1>5. f = [Fn(top) EXCEPT !.pc = "running"] /\ Fn(top).pc = "help"
    BY <1>1
  <1>6. new = NewFrame(g, LastWaiting(g))
    OBVIOUS
  <1> HIDE DEF f, new
  <1>7. /\ stack' \in [Threads -> Seq(Frame)]
        /\ b \notin Activations /\ b # top
        /\ Activations' = Activations \cup {b}
        /\ \A a \in Activations' :
             Fn(a)' = IF a = b THEN new ELSE IF a = top THEN f ELSE Fn(a)
    BY <1>1, <1>2, <1>3, <1>4, OnTopFacts
  <1>8. \A u \in Threads \ {t} : stack'[u] = stack[u]
    BY <1>1, <1>4
  <1>9. b[1] = t /\ b[2] \in Nat /\ top[1] = t
    BY <1>1 DEF Act
  <1>10. ASSUME NEW a \in Activations, a[1] = t
         PROVE  a[2] < b[2] /\ (a # top => Fn(a).pc = "running")
    <2>1. /\ a[2] \in Nat /\ a[2] <= Len(stack[t])
          /\ a # top => a[2] < top[2]
      BY <1>1, <1>10, BelowTop
    <2>2. a[2] < b[2]
      BY <2>1, <1>1
    <2>3. a # top => Fn(a).pc = "running"
      BY <2>1, <1>1, <1>9, <1>10 DEF Inv, StackInv
    <2> QED BY <2>2, <2>3
  <1>12. PICK c : c = b
    OBVIOUS
  <1> HIDE DEF top, b
  <1>13. /\ c[1] = t /\ c[2] \in Nat /\ c \notin Activations
         /\ Activations' = Activations \cup {c}
         /\ \A a \in Activations' : Fn(a)' = IF a = c THEN new ELSE IF a = top THEN f ELSE Fn(a)
    BY <1>7, <1>9, <1>12
  <1>14. Fn(c)' = NewFrame(g, LastWaiting(g))
    BY <1>6, <1>13
  <1>15. \A a \in Activations : a[1] # t => Fn(a)' = Fn(a)
    BY <1>9, <1>13
  <1>16. ASSUME NEW a \in Activations, a[1] = t
         PROVE  /\ a[2] < c[2]
                /\ \/ a = Act(t) /\ Fn(a).pc = "help" /\ Fn(a)' = [Fn(a) EXCEPT !.pc = "running"]
                   \/ Fn(a).pc = "running" /\ Fn(a)' = Fn(a)
    <2>1. a[2] < c[2] /\ (a # top => Fn(a).pc = "running")
      BY <1>10, <1>12, <1>16
    <2>2. CASE a = top
      <3>1. Fn(a)' = f
        BY <2>2, <1>13
      <3>2. Fn(a).pc = "help" /\ Fn(a)' = [Fn(a) EXCEPT !.pc = "running"]
        BY <2>2, <3>1, <1>5
      <3>3. a = Act(t)
        BY <2>2 DEF top
      <3> QED BY <2>1, <3>2, <3>3
    <2>3. CASE a # top
      <3>1. Fn(a)' = Fn(a)
        BY <2>3, <1>13
      <3> QED BY <2>1, <2>3, <3>1
    <2> QED BY <2>2, <2>3
  <1>17. stack' \in [Threads -> Seq(Frame)]
    BY <1>7
  <1>18. /\ c[1] = t /\ c[2] \in Nat /\ c \notin Activations
         /\ Activations' = Activations \cup {c}
    BY <1>13
  <1> QED BY <1>8, <1>14, <1>15, <1>16, <1>17, <1>18

\* A waiting thread that runs a task of group g on top of its function
\* preserves the invariant.
LEMMA RunOnTopStep ==
    ASSUME Inv, NEW t \in Threads, stack[t] # <<>>, Top(t).pc = "help",
           NEW g \in Groups, waitingTasks[g] # <<>>,
           NEW list \in Seq(Groups), Distinct(list),
           Elems(list) = Elems(activeTaskGroups) \ {g},
           RunOnTop(t, g), TakeFrom(g, list),
           awake' = awake, freeGroups' = freeGroups, workerSemaphore' = workerSemaphore,
           outstanding' = outstanding, launches' = launches
    PROVE  Inv'
  <1>1. awake' \subseteq awake \ {t}
    BY DEF Inv, StackInv
  <1>2. /\ stack' \in [Threads -> Seq(Frame)]
        /\ \A u \in Threads \ {t} : stack'[u] = stack[u]
    BY RunOnTopFrames
  <1>3. PICK c : /\ c[1] = t /\ c[2] \in Nat /\ c \notin Activations
                 /\ Activations' = Activations \cup {c}
                 /\ Fn(c)' = NewFrame(g, LastWaiting(g))
                 /\ \A a \in Activations : a[1] # t => Fn(a)' = Fn(a)
                 /\ \A a \in Activations :
                      a[1] = t =>
                        /\ a[2] < c[2]
                        /\ \/ /\ a = Act(t) /\ Fn(a).pc = "help"
                              /\ Fn(a)' = [Fn(a) EXCEPT !.pc = "running"]
                           \/ Fn(a).pc = "running" /\ Fn(a)' = Fn(a)
    BY RunOnTopFrames
  <1> QED BY <1>1, <1>2, <1>3, TakeStep

\* The locked part of Sync preserves the invariant.
LEMMA SyncTakeStep ==
    ASSUME Inv, NEW t \in Threads, SyncTake(t)
    PROVE  Inv'
  <1> DEFINE g == Top(t).tg
  <1>1. stack[t] # <<>> /\ Top(t).pc = "help"
    BY DEF SyncTake, At
  <1>2. g \in Groups /\ g # Null
    BY <1>1, TopHandle
  <1>3. /\ awake' = awake /\ freeGroups' = freeGroups /\ workerSemaphore' = workerSemaphore
        /\ outstanding' = outstanding /\ launches' = launches
    BY DEF SyncTake
  <1>4. CASE waitingTasks[g] # <<>>
    <2>1. RunOnTop(t, g) /\ TakeFrom(g, Erase(g))
      BY <1>4 DEF SyncTake
    <2>2. /\ activeTaskGroups \in Seq(Groups) /\ Distinct(activeTaskGroups)
          /\ g \in Elems(activeTaskGroups)
      BY <1>2, <1>4 DEF Inv, TypeOK, ListInv
    <2> HIDE DEF g
    <2>3. /\ Erase(g) \in Seq(Groups) /\ Distinct(Erase(g))
          /\ Elems(Erase(g)) = Elems(activeTaskGroups) \ {g}
      BY <2>2, EraseQueue
    <2> QED BY <2>1, <2>3, <1>1, <1>2, <1>3, <1>4, RunOnTopStep
  <1>5. CASE waitingTasks[g] = <<>> /\ activeTaskGroups # <<>>
    <2>1. RunOnTop(t, LastActive) /\ TakeFrom(LastActive, Pop(activeTaskGroups))
      BY <1>5 DEF SyncTake
    <2> QED BY <2>1, <1>1, <1>3, <1>5, LastActiveFacts, RunOnTopStep
  <1>6. CASE waitingTasks[g] = <<>> /\ activeTaskGroups = <<>>
    <2> DEFINE f == [Top(t) EXCEPT !.pc = "sync"]
    <2>1. Top(t) \in Frame
      BY <1>1, TopFacts DEF Inv, TypeOK
    <2>2. /\ f \in Frame /\ f.group = Top(t).group /\ f.num = Top(t).num
          /\ f.tg = Top(t).tg /\ f.pc = "sync"
      BY <2>1 DEF Frame, Labels
    <2>3. Uncounted(f) = Uncounted(Top(t)) /\ f.pc # "free"
      BY <1>1, <2>2 DEF Uncounted
    <2>4. stack' = SetTop(t, f) /\ UNCHANGED groupVars
      BY <1>6 DEF SyncTake, Goto
    <2>5. workerSemaphore' \in Nat /\ launches' \in Nat
      BY <1>3 DEF Inv, TypeOK
    <2> HIDE DEF f
    <2> QED BY <1>1, <1>2, <1>3, <2>2, <2>3, <2>4, <2>5, Relabel
  <1> QED BY <1>4, <1>5, <1>6

\* A step that only changes the set of woken workers and the semaphore
\* preserves the invariant.
LEMMA AwakeStep ==
    ASSUME Inv, stack' = stack, freeGroups' = freeGroups, UNCHANGED groupVars,
           outstanding' = outstanding, launches' = launches,
           workerSemaphore' \in Nat, awake' \subseteq Workers,
           \A u \in awake' : stack[u] = <<>>
    PROVE  Inv'
  <1>1. /\ Activations' = Activations
        /\ \A a \in Activations : Fn(a)' = Fn(a)
    BY DEF Activations, Fn
  <1>2. TypeOK'
    BY DEF Inv, TypeOK, groupVars
  <1>3. GroupInv' /\ ListInv'
    BY GroupsUnchanged
  <1>4. HandleInv' /\ CountInv'
    BY <1>1 DEF Inv, HandleInv, CountInv, groupVars
  <1>5. TaskInv' /\ NoTaskLost'
    BY <1>1 DEF Inv, TaskInv, NoTaskLost, groupVars
  <1>6. StackInv'
    BY <1>1 DEF Inv, StackInv
  <1> QED BY <1>2, <1>3, <1>4, <1>5, <1>6 DEF Inv

\* A worker that leaves sem_wait preserves the invariant.
LEMMA WorkerWakeStep ==
    ASSUME Inv, NEW t \in Threads, WorkerWake(t)
    PROVE  Inv'
  <1>1. /\ stack' = stack /\ UNCHANGED groupVars /\ freeGroups' = freeGroups
        /\ outstanding' = outstanding /\ launches' = launches
        /\ awake' = awake \cup {t} /\ t \in Workers /\ stack[t] = <<>>
        /\ workerSemaphore > 0 /\ workerSemaphore' = workerSemaphore - 1
    BY DEF WorkerWake
  <1>2. workerSemaphore' \in Nat /\ awake' \subseteq Workers
    BY <1>1 DEF Inv, TypeOK
  <1>3. \A u \in awake' : stack[u] = <<>>
    BY <1>1 DEF Inv, StackInv
  <1> QED BY <1>1, <1>2, <1>3, AwakeStep

\* The locked part of lTaskEntry preserves the invariant.
LEMMA WorkerTakeStep ==
    ASSUME Inv, NEW t \in Threads, WorkerTake(t)
    PROVE  Inv'
  <1>1. /\ stack[t] = <<>> /\ t \in awake /\ awake' = awake \ {t}
        /\ freeGroups' = freeGroups /\ workerSemaphore' = workerSemaphore
        /\ outstanding' = outstanding /\ launches' = launches
    BY DEF Inv, StackInv, WorkerTake
  <1>2. CASE activeTaskGroups # <<>>
    <2>1. PICK g \in Groups : g = LastActive
      BY <1>2, LastActiveFacts
    <2> DEFINE new == NewFrame(g, LastWaiting(g))
    <2>2. /\ stack' = [stack EXCEPT ![t] = <<new>>]
          /\ TakeFrom(g, Pop(activeTaskGroups))
      BY <1>2, <2>1 DEF WorkerTake
    <2>3. /\ waitingTasks[g] # <<>>
          /\ Pop(activeTaskGroups) \in Seq(Groups) /\ Distinct(Pop(activeTaskGroups))
          /\ Elems(Pop(activeTaskGroups)) = Elems(activeTaskGroups) \ {g}
      BY <1>2, <2>1, LastActiveFacts
    <2>4. new \in Frame
      BY <2>3, TaskFrame
    <2>5. new = NewFrame(g, LastWaiting(g))
      OBVIOUS
    <2> HIDE DEF new
    <2>6. stack \in [Threads -> Seq(Frame)]
      BY DEF Inv, TypeOK
    <2>7. PICK b : b = <<t, 1>>
      OBVIOUS
    <2>8. /\ stack' \in [Threads -> Seq(Frame)]
          /\ \A a \in Activations : a[1] # t
          /\ b \notin Activations
          /\ Activations' = Activations \cup {b}
          /\ Fn(b)' = new
          /\ \A a \in Activations : Fn(a)' = Fn(a)
      BY <1>1, <2>2, <2>4, <2>6, <2>7, FirstFacts
    <2>9. b[1] = t /\ b[2] \in Nat
      BY <2>7
    <2>10. \A u \in Threads \ {t} : stack'[u] = stack[u]
      BY <2>2, <2>6
    <2>11. awake' \subseteq awake \ {t}
      BY <1>1
    <2>12. Fn(b)' = NewFrame(g, LastWaiting(g))
      BY <2>5, <2>8
    <2>13. /\ TakeFrom(g, Pop(activeTaskGroups)) /\ stack' \in [Threads -> Seq(Frame)]
           /\ b \notin Activations /\ Activations' = Activations \cup {b}
           /\ \A a \in Activations : a[1] # t => Fn(a)' = Fn(a)
      BY <2>2, <2>8
    <2>14. \A a \in Activations :
             a[1] = t => /\ a[2] < b[2]
                         /\ \/ a = Act(t) /\ Fn(a).pc = "help" /\ Fn(a)' = [Fn(a) EXCEPT !.pc = "running"]
                            \/ Fn(a).pc = "running" /\ Fn(a)' = Fn(a)
      BY <2>8
    <2> QED BY <1>1, <2>3, <2>9, <2>10, <2>11, <2>12, <2>13, <2>14, TakeStep
  <1>3. CASE activeTaskGroups = <<>>
    <2>1. stack' = stack /\ UNCHANGED groupVars
      BY <1>3 DEF WorkerTake
    <2>2. workerSemaphore' \in Nat /\ awake' \subseteq Workers
      BY <1>1 DEF Inv, TypeOK
    <2>3. \A u \in awake' : stack[u] = <<>>
      BY <1>1 DEF Inv, StackInv
    <2> QED BY <1>1, <2>1, <2>2, <2>3, AwakeStep
  <1> QED BY <1>2, <1>3

\* Every step preserves the invariant, unless a launch may have no tasks: a
\* launch of no tasks would put a group without waiting tasks on the list.
LEMMA NextInv ==
    ASSUME 0 \notin Counts, Inv, [Next]_vars
    PROVE  Inv'
  <1>1. CASE UNCHANGED vars
    <2>1. /\ stack' = stack /\ freeGroups' = freeGroups /\ UNCHANGED groupVars
          /\ outstanding' = outstanding /\ launches' = launches
          /\ workerSemaphore' = workerSemaphore /\ awake' = awake
      BY <1>1 DEF vars
    <2>2. /\ workerSemaphore' \in Nat /\ awake' \subseteq Workers
          /\ \A u \in awake' : stack[u] = <<>>
      BY <2>1 DEF Inv, TypeOK, StackInv
    <2> QED BY <2>1, <2>2, AwakeStep
  <1>2. CASE Next
    <2>1. PICK t \in Threads : Call(t) \/ Step(t)
      BY <1>2 DEF Next
    <2>2. ASSUME NEW count \in Counts, LaunchEnqueue(t, count) PROVE Inv'
      <3>1. count \in Nat \ {0}
        BY TaskSystemAssumption
      <3> QED BY <2>2, <3>1, LaunchEnqueueStep
    <2> QED BY <2>1, <2>2, CallStep, ReturnToClientStep, FinishTaskStep, ISPCAllocStep,
              LaunchCountStep, LaunchPostStep, ISPCSyncStep, SyncTestStep, SyncTakeStep,
              SyncFreeStep, WorkerWakeStep, WorkerTakeStep DEF Step
  <1> QED BY <1>1, <1>2

-----------------------------------------------------------------------------
(***************************************************************************)
(* The properties of TaskSystem follow from the invariant                  *)
(***************************************************************************)

\* Sync is a barrier in every state that satisfies the invariant.
LEMMA InvSyncWaitsForAll ==
    ASSUME Inv
    PROVE  SyncWaitsForAll
  <1> SUFFICES ASSUME NEW a \in Activations, Fn(a).pc = "free"
               PROVE  /\ outstanding[Fn(a).tg] = {}
                      /\ Waiting(Fn(a).tg) = {} /\ Running(Fn(a).tg) = {}
    BY DEF SyncWaitsForAll
  <1> DEFINE g == Fn(a).tg
  <1>1. Fn(a) \in Frame
    BY FrameFacts DEF Inv, TypeOK
  <1>2. g # Null /\ outstanding[g] = {}
    BY DEF Inv, HandleInv, CountInv
  <1>3. g \in Groups
    BY <1>1, <1>2 DEF Frame
  <1> HIDE DEF g
  <1>4. Elems(waitingTasks[g]) = {}
    BY <1>2, <1>3 DEF Inv, GroupInv
  <1>5. Waiting(g) = {}
    BY <1>4 DEF Waiting, Elems
  <1>6. \A b \in Activations : Fn(b).group # g
    BY <1>2, <1>3 DEF Inv, TaskInv
  <1>7. Running(g) = {}
    BY <1>6 DEF Running
  <1> QED BY <1>2, <1>5, <1>7 DEF g

\* A group that is about to be freed is not on the active list.
LEMMA InvResetAssertion ==
    ASSUME Inv
    PROVE  ResetAssertion
  <1> SUFFICES ASSUME NEW a \in Activations, Fn(a).pc = "free"
               PROVE  ~inActiveList[Fn(a).tg]
    BY DEF ResetAssertion
  <1> DEFINE g == Fn(a).tg
  <1>1. Fn(a) \in Frame
    BY FrameFacts DEF Inv, TypeOK
  <1>2. g # Null /\ outstanding[g] = {}
    BY DEF Inv, HandleInv, CountInv
  <1>3. g \in Groups
    BY <1>1, <1>2 DEF Frame
  <1> HIDE DEF g
  <1>4. waitingTasks[g] \in Seq(Nat) /\ Elems(waitingTasks[g]) = {}
    BY <1>2, <1>3 DEF Inv, TypeOK, GroupInv
  <1>5. waitingTasks[g] = <<>>
    BY <1>4, EmptyQueue
  <1>6. ~inActiveList[g]
    BY <1>3, <1>5 DEF Inv, ListInv
  <1> QED BY <1>6 DEF g

\* Nothing refers to a group on the free list.
LEMMA InvFreeGroupsUntouched ==
    ASSUME Inv
    PROVE  FreeGroupsUntouched
  <1> SUFFICES ASSUME NEW g \in freeGroups
               PROVE  /\ numUnfinishedTasks[g] = 0 /\ outstanding[g] = {}
                      /\ \A j \in 1 .. Len(activeTaskGroups) : activeTaskGroups[j] # g
                      /\ \A a \in Activations : Fn(a).group # g /\ Fn(a).tg # g
    BY DEF FreeGroupsUntouched
  <1>1. g \in Groups /\ g # Null
    BY TaskSystemAssumption DEF Inv, TypeOK
  <1>2. numUnfinishedTasks[g] = 0 /\ outstanding[g] = {}
    BY <1>1 DEF Inv, GroupInv
  <1>3. waitingTasks[g] \in Seq(Nat) /\ Elems(waitingTasks[g]) = {}
    BY <1>1, <1>2 DEF Inv, TypeOK, GroupInv
  <1>4. waitingTasks[g] = <<>>
    BY <1>3, EmptyQueue
  <1>5. g \notin Elems(activeTaskGroups)
    BY <1>1, <1>4 DEF Inv, ListInv
  <1>6. \A j \in 1 .. Len(activeTaskGroups) : activeTaskGroups[j] # g
    BY <1>5 DEF Elems
  <1>7. \A a \in Activations : Fn(a).group # g /\ Fn(a).tg # g
    BY <1>1, <1>2 DEF Inv, TaskInv, HandleInv
  <1> QED BY <1>2, <1>6, <1>7

\* The counter of a group agrees with its unfinished tasks.
LEMMA InvCounterExact ==
    ASSUME Inv
    PROVE  CounterExact
  BY DEF Inv, CountInv, CounterExact

\* The active list and the flags agree with the groups' queues.
LEMMA InvActiveListExact ==
    ASSUME Inv
    PROVE  ActiveListExact
  <1>1. \A g \in Groups :
          /\ inActiveList[g] <=> waitingTasks[g] # <<>>
          /\ inActiveList[g] <=> g \in Elems(activeTaskGroups)
    BY DEF Inv, ListInv
  <1>2. \A g \in Groups :
          g \in Elems(activeTaskGroups)
            <=> \E j \in 1 .. Len(activeTaskGroups) : activeTaskGroups[j] = g
    BY DEF Elems
  <1>3. \A j, k \in 1 .. Len(activeTaskGroups) :
          activeTaskGroups[j] = activeTaskGroups[k] => j = k
    BY DEF Inv, ListInv, Distinct
  <1> QED BY <1>1, <1>2, <1>3 DEF ActiveListExact

\* A queue without repetitions has as many elements as positions.
LEMMA DistinctCardinality ==
    ASSUME NEW s \in Seq(Nat), Distinct(s)
    PROVE  Cardinality(Elems(s)) = Len(s)
  <1> DEFINE n == Len(s)
             f == [j \in 1 .. n |-> s[j]]
  <1>1. n \in Nat
    BY LenProperties
  <1>2. \A i, j \in 1 .. n : s[i] = s[j] => i = j
    BY DEF Distinct
  <1>3. f \in [1 .. n -> Elems(s)]
    BY DEF Elems
  <1>4. f \in Injection(1 .. n, Elems(s))
    BY <1>2, <1>3 DEF Injection, IsInjective
  <1>5. f \in Surjection(1 .. n, Elems(s))
    BY <1>3 DEF Surjection, Elems
  <1>6. f \in Bijection(1 .. n, Elems(s))
    BY <1>4, <1>5 DEF Bijection
  <1>7. ExistsBijection(1 .. n, Elems(s))
    BY <1>6 DEF ExistsBijection
  <1> HIDE DEF n, f
  <1>8. IsFiniteSet(1 .. n) /\ Cardinality(1 .. n) = n
    BY <1>1, FS_Interval
  <1> QED BY <1>7, <1>8, FS_Bijection DEF n

\* Every unfinished task is in one place, once.
LEMMA InvEveryTaskOnce ==
    ASSUME Inv
    PROVE  EveryTaskOnce
  <1> SUFFICES ASSUME NEW g \in Groups
               PROVE  /\ outstanding[g] = Waiting(g) \cup Running(g)
                      /\ Waiting(g) \cap Running(g) = {}
                      /\ Cardinality(Waiting(g)) = Len(waitingTasks[g])
                      /\ \A a, b \in Activations :
                           Fn(a).group = g /\ Fn(b).group = g /\ Fn(a).num = Fn(b).num => a = b
    BY DEF EveryTaskOnce
  <1>1. g # Null /\ Waiting(g) = Elems(waitingTasks[g])
    BY TaskSystemAssumption DEF Waiting, Elems
  <1>2. /\ Waiting(g) \subseteq outstanding[g]
        /\ waitingTasks[g] \in Seq(Nat) /\ Distinct(waitingTasks[g])
    BY <1>1 DEF Inv, GroupInv, TypeOK
  <1>3. \A k : k \in Running(g) <=> \E a \in Activations : Fn(a).group = g /\ Fn(a).num = k
    BY DEF Running
  <1>4. \A a \in Activations :
          Fn(a).group = g => Fn(a).num \in outstanding[g] /\ Fn(a).num \notin Waiting(g)
    BY <1>1 DEF Inv, TaskInv
  <1>5. outstanding[g] \subseteq Waiting(g) \cup Running(g)
    BY <1>1, <1>3 DEF Inv, NoTaskLost
  <1>6. Running(g) \subseteq outstanding[g] /\ Waiting(g) \cap Running(g) = {}
    BY <1>3, <1>4
  <1>7. Cardinality(Waiting(g)) = Len(waitingTasks[g])
    BY <1>1, <1>2, DistinctCardinality
  <1>8. \A a, b \in Activations :
          Fn(a).group = g /\ Fn(b).group = g /\ Fn(a).num = Fn(b).num => a = b
    BY <1>1 DEF Inv, TaskInv
  <1> QED BY <1>2, <1>5, <1>6, <1>7, <1>8

-----------------------------------------------------------------------------

\* The invariant holds in every reachable state of the task system, for any
\* threads, groups and launches of one or more tasks.
THEOREM InvAlways ==
    ASSUME 0 \notin Counts
    PROVE  Spec => []Inv
  BY InitInv, NextInv, PTL DEF Spec

\* Type correctness: the variables of the task system keep their types; in
\* particular sem_wait never lets the semaphore's value fall below zero.
THEOREM TypeCorrect ==
    ASSUME 0 \notin Counts
    PROVE  Spec => []TypeOK
  <1>1. Inv => TypeOK
    BY DEF Inv
  <1> QED BY <1>1, InvAlways, PTL

\* Sync (while numUnfinishedTasks > 0) returns only when every task launched
\* through the handle has finished, for any number of threads, groups and
\* launches and any nesting of them.
THEOREM SyncIsABarrier ==
    ASSUME 0 \notin Counts
    PROVE  Spec => []SyncWaitsForAll
  BY InvAlways, InvSyncWaitsForAll, PTL

\* The assertion inActiveList == false of TaskGroup::Reset holds whenever
\* FreeTaskGroup calls it.
THEOREM ResetAssertionHolds ==
    ASSUME 0 \notin Counts
    PROVE  Spec => []ResetAssertion
  BY InvAlways, InvResetAssertion, PTL

\* Launch, lTaskEntry and Sync hand every launched task to exactly one thread.
THEOREM TasksRunOnce ==
    ASSUME 0 \notin Counts
    PROVE  Spec => []EveryTaskOnce
  BY InvAlways, InvEveryTaskOnce, PTL

\* After FreeTaskGroup nothing in the task system refers to the group until
\* AllocTaskGroup returns it again: deleting it there is safe.
THEOREM NoUseAfterFree ==
    ASSUME 0 \notin Counts
    PROVE  Spec => []FreeGroupsUntouched
  BY InvAlways, InvFreeGroupsUntouched, PTL

\* activeTaskGroups lists exactly the groups with waiting tasks, each once, so
\* the unchecked back() of lTaskEntry and Sync and the erase of Sync are right.
THEOREM ActiveListIsExact ==
    ASSUME 0 \notin Counts
    PROVE  Spec => []ActiveListExact
  BY InvAlways, InvActiveListExact, PTL

\* numUnfinishedTasks equals the unfinished tasks of the group, up to the
\* launch whose lAtomicAdd is still to come.
THEOREM CounterIsExact ==
    ASSUME 0 \notin Counts
    PROVE  Spec => []CounterExact
  BY InvAlways, InvCounterExact, PTL

-----------------------------------------------------------------------------
(***************************************************************************)
(* The posts of the semaphore                                              *)
(***************************************************************************)

\* Raising f at x by m adds m tokens.
LEMMA MoreTokens ==
    ASSUME NEW S, NEW f \in [S -> Nat], NEW x \in S, NEW m \in Nat,
           NEW h \in [S -> Nat], h[x] = f[x] + m, \A y \in S \ {x} : h[y] = f[y],
           IsFiniteSet(Tokens(f))
    PROVE  /\ IsFiniteSet(Tokens(h))
           /\ Cardinality(Tokens(h)) = Cardinality(Tokens(f)) + m
  <1> DEFINE range == f[x] + 1 .. f[x] + m
             new == {x} \X range
  <1>1. f[x] \in Nat
    OBVIOUS
  <1>2. \A F \in [S -> Nat] : \A p : p \in Tokens(F) <=> \E y \in S : \E k \in 1 .. F[y] : p = <<y, k>>
    <2> TAKE F \in [S -> Nat]
    <2>1. DOMAIN F = S
      OBVIOUS
    <2> QED BY <2>1 DEF Tokens
  <1>3. h[x] = f[x] + m /\ \A y \in S \ {x} : h[y] = f[y]
    OBVIOUS
  <1>a. \A p : p \in Tokens(h) <=> \E y \in S : \E k \in 1 .. h[y] : p = <<y, k>>
    BY <1>2, <1>3, Zenon
  <1>b. \A p : p \in Tokens(f) <=> \E y \in S : \E k \in 1 .. f[y] : p = <<y, k>>
    BY <1>2, Zenon
  <1>4. \A p : p \in new <=> \E k \in range : p = <<x, k>>
    OBVIOUS
  <1>5. \A k : k \in 1 .. f[x] + m <=> k \in 1 .. f[x] \/ k \in range
    BY <1>1
  <1>6. Tokens(h) = Tokens(f) \cup new
    <2>1. ASSUME NEW p \in Tokens(h) PROVE p \in Tokens(f) \cup new
      <3>1. PICK y \in S : \E k \in 1 .. h[y] : p = <<y, k>>
        BY <1>a, <2>1
      <3>2. CASE y = x
        BY <3>1, <3>2, <1>b, <1>3, <1>4, <1>5
      <3>3. CASE y # x
        BY <3>1, <3>3, <1>a, <1>b, <1>3
      <3> QED BY <3>2, <3>3
    <2>2. ASSUME NEW p \in Tokens(f) PROVE p \in Tokens(h)
      <3>1. PICK y \in S : \E k \in 1 .. f[y] : p = <<y, k>>
        BY <1>b, <2>2
      <3>2. CASE y = x
        BY <3>1, <3>2, <1>a, <1>3, <1>5
      <3>3. CASE y # x
        BY <3>1, <3>3, <1>a, <1>b, <1>3
      <3> QED BY <3>2, <3>3
    <2>3. ASSUME NEW p \in new PROVE p \in Tokens(h)
      BY <1>a, <1>3, <1>4, <1>5, <2>3
    <2> QED BY <2>1, <2>2, <2>3
  <1>7. Tokens(f) \cap new = {}
    <2> SUFFICES ASSUME NEW p \in Tokens(f), p \in new PROVE FALSE
      OBVIOUS
    <2>1. PICK y \in S : \E k \in 1 .. f[y] : p = <<y, k>>
      BY <1>b
    <2>2. PICK k \in 1 .. f[y] : p = <<y, k>>
      BY <2>1
    <2>3. PICK j \in range : p = <<x, j>>
      BY <1>4
    <2>4. y = x /\ k = j
      BY <2>2, <2>3
    <2> QED BY <2>2, <2>3, <2>4, <1>1
  <1>8. IsFiniteSet(range) /\ Cardinality(range) = m
    <2>1. f[x] + 1 \in Int /\ f[x] + m \in Int
      BY <1>1
    <2>2. IsFiniteSet(range) /\ Cardinality(range) = IF f[x] + 1 > f[x] + m THEN 0 ELSE (f[x] + m) - (f[x] + 1) + 1
      BY <2>1, FS_Interval
    <2> QED BY <2>2, <1>1
  <1> HIDE DEF range, new
  <1>9. ExistsBijection(range, new)
    <2> DEFINE b == [k \in range |-> <<x, k>>]
    <2>1. b \in [range -> new] /\ \A k \in range : b[k] = <<x, k>>
      BY <1>4
    <2> HIDE DEF b
    <2>2. b \in Injection(range, new)
      BY <2>1 DEF Injection, IsInjective
    <2>3. b \in Surjection(range, new)
      <3>1. \A p \in new : \E k \in range : b[k] = p
        BY <2>1, <1>4, Zenon
      <3> QED BY <2>1, <3>1, Zenon DEF Surjection
    <2> QED BY <2>2, <2>3 DEF ExistsBijection, Bijection
  <1>10. IsFiniteSet(new) /\ Cardinality(new) = m
    BY <1>8, <1>9, FS_Bijection
  <1>11. IsFiniteSet(Tokens(f) \cup new)
         /\ Cardinality(Tokens(f) \cup new) = Cardinality(Tokens(f)) + Cardinality(new) - Cardinality(Tokens(f) \cap new)
    BY <1>10, FS_Union
  <1>12. Cardinality(Tokens(f)) \in Nat /\ Cardinality({}) = 0
    BY FS_CardinalityType, FS_EmptySet
  <1>13. Cardinality(Tokens(h)) = Cardinality(Tokens(f)) + m
    <2>1. Cardinality(Tokens(h)) = Cardinality(Tokens(f)) + Cardinality(new) - Cardinality({})
      BY <1>6, <1>7, <1>11, Zenon
    <2> QED BY <2>1, <1>10, <1>12
  <1> QED BY <1>6, <1>11, <1>13

\* Lowering f at x by one removes one token.
LEMMA OneTokenLess ==
    ASSUME NEW S, NEW f \in [S -> Nat], NEW x \in S, f[x] > 0,
           NEW h \in [S -> Nat], h[x] = f[x] - 1, \A y \in S \ {x} : h[y] = f[y],
           IsFiniteSet(Tokens(f))
    PROVE  /\ IsFiniteSet(Tokens(h))
           /\ Cardinality(Tokens(h)) = Cardinality(Tokens(f)) - 1
  <1>1. f[x] \in Nat /\ h[x] \in Nat /\ f[x] = h[x] + 1 /\ \A y \in S \ {x} : f[y] = h[y]
    OBVIOUS
  <1>3. Tokens(h) \subseteq Tokens(f)
    <2>1. DOMAIN f = S /\ DOMAIN h = S /\ \A y \in S : h[y] \in Nat /\ f[y] \in Nat /\ h[y] <= f[y]
      BY <1>1
    <2>2. \A y \in S : \A k \in 1 .. h[y] : k \in 1 .. f[y]
      BY <2>1
    <2> QED BY <2>1, <2>2 DEF Tokens
  <1>4. IsFiniteSet(Tokens(h))
    BY <1>3, FS_Subset
  <1>5. Cardinality(Tokens(f)) = Cardinality(Tokens(h)) + 1
    <2>1. 1 \in Nat
      OBVIOUS
    <2> QED BY <1>1, <1>4, <2>1, MoreTokens
  <1>6. Cardinality(Tokens(h)) \in Nat
    BY <1>4, FS_CardinalityType
  <1>7. Cardinality(Tokens(h)) = Cardinality(Tokens(f)) - 1
    BY <1>5, <1>6
  <1> QED BY <1>4, <1>7

\* The posts owed by the function on top of stack s.
Debt(s) == IF s = <<>> THEN 0 ELSE PostsOwed(s[Len(s)])

\* Owed and Waits count natural numbers.
LEMMA CountTypes ==
    ASSUME TypeOK
    PROVE  /\ Owed \in [Threads -> Nat] /\ \A t \in Threads : Owed[t] = Debt(stack[t])
           /\ Waits \in [Groups -> Nat] /\ \A g \in Groups : Waits[g] = Len(waitingTasks[g])
  <1>1. \A t \in Threads : stack[t] # <<>> => Top(t) \in Frame
    BY TopFacts DEF TypeOK
  <1>2. \A f \in Frame : PostsOwed(f) \in Nat
    BY DEF Frame, PostsOwed
  <1>3. \A t \in Threads : (IF stack[t] = <<>> THEN 0 ELSE PostsOwed(Top(t))) \in Nat
    BY <1>1, <1>2
  <1>4. Owed \in [Threads -> Nat]
    BY <1>3 DEF Owed
  <1>5. \A t \in Threads : Owed[t] = Debt(stack[t])
    BY DEF Owed, Debt, Top
  <1>6. \A g \in Groups : Len(waitingTasks[g]) \in Nat
    BY LenProperties DEF TypeOK
  <1> QED BY <1>4, <1>5, <1>6 DEF Waits

\* The same after a step.
LEMMA CountTypesPrimed ==
    ASSUME TypeOK'
    PROVE  Owed' \in [Threads -> Nat] /\ Waits' \in [Groups -> Nat]
  <1>1. (TypeOK => Owed \in [Threads -> Nat] /\ Waits \in [Groups -> Nat])'
    BY CountTypes, PTL
  <1> QED BY <1>1

\* What the stack of one thread owes after a step that changes no other.
LEMMA OwedStep ==
    ASSUME TypeOK, TypeOK', NEW t \in Threads, NEW s, stack' = [stack EXCEPT ![t] = s]
    PROVE  Owed'[t] = Debt(s) /\ \A u \in Threads \ {t} : Owed'[u] = Owed[u]
  <1>1. stack'[t] = s /\ \A u \in Threads \ {t} : stack'[u] = stack[u]
    BY DEF TypeOK
  <1>2. Owed' = [u \in Threads |-> Debt(stack'[u])]
    BY DEF Owed, Debt, Top
  <1>3. \A u \in Threads : Owed[u] = Debt(stack[u])
    BY CountTypes
  <1> QED BY <1>1, <1>2, <1>3

\* The function that is pushed last decides.
LEMMA DebtAppend ==
    ASSUME NEW s \in Seq(Frame), NEW f \in Frame
    PROVE  Debt(Append(s, f)) = PostsOwed(f)
  <1>1. /\ Append(s, f) \in Seq(Frame) /\ Len(s) \in Nat
        /\ Len(Append(s, f)) = Len(s) + 1 /\ Append(s, f)[Len(s) + 1] = f
    BY PushFacts
  <1>2. Append(s, f) # <<>>
    BY <1>1, EmptySeq
  <1> QED BY <1>1, <1>2 DEF Debt

\* A step that replaces the top function of a thread.
LEMMA SetTopOwed ==
    ASSUME TypeOK, TypeOK', NEW t \in Threads, stack[t] # <<>>, NEW f \in Frame, stack' = SetTop(t, f)
    PROVE  /\ Owed[t] = PostsOwed(Top(t)) /\ Owed'[t] = PostsOwed(f)
           /\ \A u \in Threads \ {t} : Owed'[u] = Owed[u]
  <1>1. stack[t] \in Seq(Frame) /\ Pop(stack[t]) \in Seq(Frame)
    BY PopFacts DEF TypeOK
  <1>2. stack' = [stack EXCEPT ![t] = Append(Pop(stack[t]), f)]
    BY DEF SetTop
  <1>3. Debt(Append(Pop(stack[t]), f)) = PostsOwed(f)
    BY <1>1, DebtAppend
  <1>4. Owed[t] = PostsOwed(Top(t))
    BY DEF Owed
  <1> QED BY <1>2, <1>3, <1>4, OwedStep

\* Functions that agree everywhere are equal.
LEMMA SameFunction ==
    ASSUME NEW S, NEW f \in [S -> Nat], NEW h \in [S -> Nat], \A x \in S : h[x] = f[x]
    PROVE  h = f
  OBVIOUS

-----------------------------------------------------------------------------

\* The tokens are finite, so that they can be counted, and suffice.
WakeInv ==
    /\ IsFiniteSet(Tokens(Waits)) /\ IsFiniteSet(Tokens(Owed))
    /\ WakeupsSuffice

\* The numbers that WakeupsSuffice compares.
LEMMA WakeTypes ==
    ASSUME TypeOK, WakeInv
    PROVE  /\ Cardinality(Tokens(Waits)) \in Nat /\ Cardinality(Tokens(Owed)) \in Nat
           /\ IsFiniteSet(awake) /\ Cardinality(awake) \in Nat /\ workerSemaphore \in Nat
  <1>1. IsFiniteSet(Workers)
    BY TaskSystemAssumption, FS_Interval DEF Workers
  <1>2. IsFiniteSet(awake)
    BY <1>1, FS_Subset DEF TypeOK
  <1> QED BY <1>2, FS_CardinalityType DEF WakeInv, TypeOK

\* A step that leaves the tokens, the semaphore and the woken workers alone.
LEMMA WakeUnchanged ==
    ASSUME WakeInv, Waits' = Waits, Owed' = Owed, awake' = awake, workerSemaphore' = workerSemaphore
    PROVE  WakeInv'
  BY DEF WakeInv, WakeupsSuffice

\* A step that leaves the queues alone leaves Waits alone.
LEMMA WaitsUnchanged ==
    ASSUME waitingTasks' = waitingTasks
    PROVE  Waits' = Waits
  BY DEF Waits

\* A step that changes the top function of a thread and the posts it owes not.
LEMMA WakeRelabel ==
    ASSUME TypeOK, TypeOK', WakeInv, NEW t \in Threads, stack[t] # <<>>, NEW f \in Frame,
           stack' = SetTop(t, f), PostsOwed(f) = PostsOwed(Top(t)),
           waitingTasks' = waitingTasks, awake' = awake, workerSemaphore' = workerSemaphore
    PROVE  WakeInv'
  <1>1. \A u \in Threads : Owed'[u] = Owed[u]
    BY SetTopOwed
  <1>2. Owed \in [Threads -> Nat] /\ Owed' \in [Threads -> Nat]
    BY CountTypes, CountTypesPrimed
  <1>3. Owed' = Owed
    BY <1>1, <1>2, SameFunction
  <1> QED BY <1>3, WaitsUnchanged, WakeUnchanged

\* A launch adds as many waiting tasks as posts that it will make.
LEMMA WakeEnqueue ==
    ASSUME Inv, Inv', WakeInv, NEW t \in Threads, NEW count \in Nat, LaunchEnqueue(t, count)
    PROVE  WakeInv'
  <1> DEFINE g == Top(t).tg
             f == [Top(t) EXCEPT !.pc = "count", !.n = count]
             new == [j \in 1 .. count |-> nextTaskInfoIndex[g] + j - 1]
  <1>1. /\ stack[t] # <<>> /\ Top(t).pc = "launch" /\ stack' = SetTop(t, f)
        /\ waitingTasks' = [waitingTasks EXCEPT ![g] = @ \o new]
        /\ awake' = awake /\ workerSemaphore' = workerSemaphore
    BY DEF LaunchEnqueue, At
  <1>2. Top(t) \in Frame /\ TypeOK /\ TypeOK'
    BY <1>1, TopFacts DEF Inv, TypeOK
  <1>3. g \in Groups
    BY <1>1, TopHandle
  <1>4. f \in Frame /\ PostsOwed(f) = count /\ PostsOwed(Top(t)) = 0
    BY <1>1, <1>2 DEF Frame, Labels, PostsOwed
  <1> HIDE DEF f
  <1>5. Owed[t] = 0 /\ Owed'[t] = count /\ \A u \in Threads \ {t} : Owed'[u] = Owed[u]
    BY <1>1, <1>2, <1>4, SetTopOwed
  <1>6. /\ Owed \in [Threads -> Nat] /\ Waits \in [Groups -> Nat]
        /\ \A h \in Groups : Waits[h] = Len(waitingTasks[h])
        /\ Owed' \in [Threads -> Nat] /\ Waits' \in [Groups -> Nat]
    BY <1>2, CountTypes, CountTypesPrimed
  <1>7. Waits'[g] = Waits[g] + count /\ \A h \in Groups \ {g} : Waits'[h] = Waits[h]
    <2>1. waitingTasks[g] \in Seq(Nat) /\ new \in Seq(Nat) /\ Len(new) = count
      <3>1. nextTaskInfoIndex[g] \in Nat /\ waitingTasks[g] \in Seq(Nat)
        BY <1>2, <1>3 DEF TypeOK
      <3>2. \A j \in 1 .. count : nextTaskInfoIndex[g] + j - 1 \in Nat
        BY <3>1
      <3> QED BY <3>1, <3>2, IsASeq
    <2>2. Len(waitingTasks[g] \o new) = Len(waitingTasks[g]) + count
      BY <2>1, ConcatProperties
    <2>3. waitingTasks'[g] = waitingTasks[g] \o new /\ \A h \in Groups \ {g} : waitingTasks'[h] = waitingTasks[h]
      BY <1>1, <1>2, <1>3 DEF TypeOK
    <2>4. \A h \in Groups : Waits'[h] = Len(waitingTasks'[h])
      BY DEF Waits
    <2> QED BY <1>3, <1>6, <2>2, <2>3, <2>4
  <1>8. Owed'[t] = Owed[t] + count
    BY <1>5
  <1> HIDE DEF g
  <1>9. /\ IsFiniteSet(Tokens(Waits')) /\ Cardinality(Tokens(Waits')) = Cardinality(Tokens(Waits)) + count
    <2>1. Waits \in [Groups -> Nat] /\ Waits' \in [Groups -> Nat] /\ IsFiniteSet(Tokens(Waits))
      BY <1>6 DEF WakeInv
    <2>2. PICK f1 \in [Groups -> Nat] : f1 = Waits
      BY <2>1
    <2>3. PICK f2 \in [Groups -> Nat] : f2 = Waits'
      BY <2>1
    <2>4. f2[g] = f1[g] + count /\ \A h \in Groups \ {g} : f2[h] = f1[h]
      BY <1>7, <2>2, <2>3
    <2>5. IsFiniteSet(Tokens(f1))
      BY <2>1, <2>2
    <2>6. IsFiniteSet(Tokens(f2)) /\ Cardinality(Tokens(f2)) = Cardinality(Tokens(f1)) + count
      BY <1>3, <2>4, <2>5, MoreTokens
    <2> QED BY <2>2, <2>3, <2>6
  <1>10. /\ IsFiniteSet(Tokens(Owed')) /\ Cardinality(Tokens(Owed')) = Cardinality(Tokens(Owed)) + count
    <2>1. Owed \in [Threads -> Nat] /\ Owed' \in [Threads -> Nat] /\ IsFiniteSet(Tokens(Owed))
      BY <1>6 DEF WakeInv
    <2>2. \A u \in Threads \ {t} : Owed'[u] = Owed[u]
      BY <1>5
    <2>3. PICK f1 \in [Threads -> Nat] : f1 = Owed
      BY <2>1
    <2>4. PICK f2 \in [Threads -> Nat] : f2 = Owed'
      BY <2>1
    <2>5. f2[t] = f1[t] + count /\ \A u \in Threads \ {t} : f2[u] = f1[u]
      BY <1>8, <2>2, <2>3, <2>4
    <2>6. IsFiniteSet(Tokens(f1))
      BY <2>1, <2>3
    <2>7. IsFiniteSet(Tokens(f2)) /\ Cardinality(Tokens(f2)) = Cardinality(Tokens(f1)) + count
      BY <2>5, <2>6, MoreTokens
    <2> QED BY <2>3, <2>4, <2>7
  <1>11. WakeupsSuffice'
    BY <1>1, <1>2, <1>9, <1>10, WakeTypes DEF WakeInv, WakeupsSuffice
  <1> QED BY <1>9, <1>10, <1>11 DEF WakeInv

\* A sem_post turns a post that is owed into one in the semaphore.
LEMMA WakePost ==
    ASSUME Inv, Inv', WakeInv, NEW t \in Threads, LaunchPost(t)
    PROVE  WakeInv'
  <1>1. /\ stack[t] # <<>> /\ Top(t).pc = "post" /\ awake' = awake
        /\ waitingTasks' = waitingTasks
    BY DEF LaunchPost, At, groupVars
  <1>2. Top(t) \in Frame /\ TypeOK /\ TypeOK'
    BY <1>1, TopFacts DEF Inv, TypeOK
  <1>3. CASE Top(t).n = 0
    <2> DEFINE f == [Top(t) EXCEPT !.pc = "body"]
    <2>1. stack' = SetTop(t, f) /\ workerSemaphore' = workerSemaphore
      BY <1>3 DEF LaunchPost, Goto
    <2>2. f \in Frame /\ PostsOwed(f) = PostsOwed(Top(t))
      BY <1>1, <1>2, <1>3 DEF Frame, Labels, PostsOwed
    <2> HIDE DEF f
    <2> QED BY <1>1, <1>2, <2>1, <2>2, WakeRelabel
  <1>4. CASE Top(t).n > 0
    <2> DEFINE f == [Top(t) EXCEPT !.n = @ - 1]
    <2>1. stack' = SetTop(t, f) /\ workerSemaphore' = workerSemaphore + 1
      BY <1>4 DEF LaunchPost
    <2>2. f \in Frame /\ PostsOwed(f) = PostsOwed(Top(t)) - 1 /\ PostsOwed(Top(t)) > 0
      BY <1>1, <1>2, <1>4 DEF Frame, Labels, PostsOwed
    <2> HIDE DEF f
    <2>3. Owed[t] > 0 /\ Owed'[t] = Owed[t] - 1 /\ \A u \in Threads \ {t} : Owed'[u] = Owed[u]
      BY <1>1, <1>2, <2>1, <2>2, SetTopOwed
    <2>4. Owed \in [Threads -> Nat] /\ Owed' \in [Threads -> Nat] /\ Waits' = Waits
      BY <1>1, <1>2, CountTypes, CountTypesPrimed, WaitsUnchanged
    <2>5. /\ IsFiniteSet(Tokens(Owed')) /\ Cardinality(Tokens(Owed')) = Cardinality(Tokens(Owed)) - 1
      BY <2>3, <2>4, OneTokenLess DEF WakeInv
    <2>6. WakeupsSuffice'
      BY <1>1, <1>2, <2>1, <2>4, <2>5, WakeTypes DEF WakeInv, WakeupsSuffice
    <2> QED BY <2>4, <2>5, <2>6 DEF WakeInv
  <1> QED BY <1>2, <1>3, <1>4 DEF Frame

\* Taking a task removes one token from Waits.
LEMMA TakeTokens ==
    ASSUME Inv, Inv', WakeInv, NEW g \in Groups, waitingTasks[g] # <<>>, NEW list, TakeFrom(g, list)
    PROVE  /\ IsFiniteSet(Tokens(Waits'))
           /\ Cardinality(Tokens(Waits')) = Cardinality(Tokens(Waits)) - 1
  <1>1. /\ TypeOK /\ TypeOK' /\ waitingTasks[g] \in Seq(Nat)
        /\ waitingTasks' = [waitingTasks EXCEPT ![g] = Pop(waitingTasks[g])]
    BY DEF Inv, TypeOK, TakeFrom
  <1>2. Len(Pop(waitingTasks[g])) = Len(waitingTasks[g]) - 1 /\ Len(waitingTasks[g]) > 0
    BY <1>1, PopFacts
  <1>3. /\ Waits \in [Groups -> Nat] /\ Waits' \in [Groups -> Nat]
        /\ \A h \in Groups : Waits[h] = Len(waitingTasks[h])
    BY <1>1, CountTypes, CountTypesPrimed
  <1>4. \A h \in Groups : Waits'[h] = Len(waitingTasks'[h])
    BY DEF Waits
  <1>5. waitingTasks'[g] = Pop(waitingTasks[g]) /\ \A h \in Groups \ {g} : waitingTasks'[h] = waitingTasks[h]
    BY <1>1 DEF TypeOK
  <1>6. Waits[g] > 0 /\ Waits'[g] = Waits[g] - 1 /\ \A h \in Groups \ {g} : Waits'[h] = Waits[h]
    BY <1>2, <1>3, <1>4, <1>5
  <1> QED BY <1>3, <1>6, OneTokenLess DEF WakeInv

\* A thread in Sync that takes a task takes no post for it.
LEMMA WakeSyncTake ==
    ASSUME Inv, Inv', WakeInv, NEW t \in Threads, SyncTake(t)
    PROVE  WakeInv'
  <1> DEFINE g == Top(t).tg
  <1>1. /\ stack[t] # <<>> /\ Top(t).pc = "help" /\ awake' = awake
        /\ workerSemaphore' = workerSemaphore
    BY DEF SyncTake, At
  <1>2. Top(t) \in Frame /\ TypeOK /\ TypeOK' /\ g \in Groups
    BY <1>1, TopFacts, TopHandle DEF Inv, TypeOK
  <1>3. ASSUME NEW h \in Groups, waitingTasks[h] # <<>>, RunOnTop(t, h), NEW list, TakeFrom(h, list)
        PROVE  WakeInv'
    <2> DEFINE f == [Top(t) EXCEPT !.pc = "running"]
               new == NewFrame(h, LastWaiting(h))
               s == Append(Pop(stack[t]), f)
    <2>1. f \in Frame /\ PostsOwed(Top(t)) = 0
      BY <1>1, <1>2 DEF Frame, Labels, PostsOwed
    <2>2. new \in Frame /\ PostsOwed(new) = 0
      BY <1>3, TaskFrame DEF NewFrame, PostsOwed
    <2>3. stack' = [stack EXCEPT ![t] = Append(s, new)]
      BY <1>3 DEF RunOnTop
    <2> HIDE DEF f, new
    <2>4. stack[t] \in Seq(Frame) /\ s \in Seq(Frame)
      BY <1>1, <1>2, <2>1, PopFacts DEF TypeOK
    <2> HIDE DEF s
    <2>5. Debt(Append(s, new)) = 0
      BY <2>2, <2>4, DebtAppend
    <2>6. Owed'[t] = 0 /\ \A u \in Threads \ {t} : Owed'[u] = Owed[u]
      BY <1>2, <2>3, <2>5, OwedStep
    <2>7. Owed[t] = 0
      BY <1>1, <2>1 DEF Owed
    <2>8. Owed' = Owed
      BY <1>2, <2>6, <2>7, CountTypes, CountTypesPrimed, SameFunction
    <2>9. IsFiniteSet(Tokens(Waits')) /\ Cardinality(Tokens(Waits')) = Cardinality(Tokens(Waits)) - 1
      BY <1>3, TakeTokens
    <2>10. WakeupsSuffice'
      BY <1>1, <1>2, <2>8, <2>9, WakeTypes DEF WakeInv, WakeupsSuffice
    <2> QED BY <2>8, <2>9, <2>10 DEF WakeInv
  <1>4. CASE waitingTasks[g] # <<>>
    BY <1>2, <1>3, <1>4 DEF SyncTake
  <1>5. CASE waitingTasks[g] = <<>> /\ activeTaskGroups # <<>>
    <2>1. LastActive \in Groups /\ waitingTasks[LastActive] # <<>>
      BY <1>5, LastActiveFacts
    <2>2. RunOnTop(t, LastActive) /\ TakeFrom(LastActive, Pop(activeTaskGroups))
      BY <1>5 DEF SyncTake
    <2> QED BY <1>3, <2>1, <2>2
  <1>6. CASE waitingTasks[g] = <<>> /\ activeTaskGroups = <<>>
    <2> DEFINE f == [Top(t) EXCEPT !.pc = "sync"]
    <2>1. stack' = SetTop(t, f) /\ waitingTasks' = waitingTasks
      BY <1>6 DEF SyncTake, Goto, groupVars
    <2>2. f \in Frame /\ PostsOwed(f) = PostsOwed(Top(t))
      BY <1>1, <1>2 DEF Frame, Labels, PostsOwed
    <2> HIDE DEF f
    <2> QED BY <1>1, <1>2, <2>1, <2>2, WakeRelabel
  <1> QED BY <1>4, <1>5, <1>6

\* sem_wait turns a post in the semaphore into a woken worker.
LEMMA WakeWorkerWake ==
    ASSUME Inv, WakeInv, NEW t \in Threads, WorkerWake(t)
    PROVE  WakeInv'
  <1>1. /\ stack' = stack /\ waitingTasks' = waitingTasks /\ t \notin awake
        /\ awake' = awake \cup {t} /\ workerSemaphore' = workerSemaphore - 1
    BY DEF WorkerWake, groupVars
  <1>2. Owed' = Owed /\ Waits' = Waits
    BY <1>1 DEF Owed, Waits, Top
  <1>3. IsFiniteSet(awake) /\ TypeOK
    BY WakeTypes DEF Inv
  <1>4. Cardinality(awake') = Cardinality(awake) + 1
    BY <1>1, <1>3, FS_AddElement
  <1>5. WakeupsSuffice'
    BY <1>1, <1>2, <1>3, <1>4, WakeTypes DEF WakeInv, WakeupsSuffice
  <1> QED BY <1>2, <1>5 DEF WakeInv

\* When no group is active, no task waits.
LEMMA NothingWaits ==
    ASSUME Inv, activeTaskGroups = <<>>
    PROVE  Cardinality(Tokens(Waits)) = 0
  <1>1. Elems(activeTaskGroups) = {}
    BY EmptyQueue DEF Inv, TypeOK
  <1>2. \A g \in Groups : waitingTasks[g] = <<>>
    BY <1>1 DEF Inv, ListInv
  <1>3. \A g \in Groups : Waits[g] = 0
    BY <1>2 DEF Waits
  <1>4. DOMAIN Waits = Groups
    BY DEF Waits
  <1>5. Tokens(Waits) = {}
    BY <1>3, <1>4 DEF Tokens
  <1> QED BY <1>5, FS_EmptySet

\* A woken worker takes one task, or finds none waiting.
LEMMA WakeWorkerTake ==
    ASSUME Inv, Inv', WakeInv, NEW t \in Threads, WorkerTake(t)
    PROVE  WakeInv'
  <1>1. /\ t \in awake /\ awake' = awake \ {t} /\ workerSemaphore' = workerSemaphore
        /\ stack[t] = <<>> /\ TypeOK /\ TypeOK'
    BY DEF WorkerTake, Inv, StackInv
  <1>2. Cardinality(awake') = Cardinality(awake) - 1 /\ Cardinality(awake') \in Nat
    BY <1>1, WakeTypes, FS_RemoveElement, FS_CardinalityType
  <1>3. CASE activeTaskGroups # <<>>
    <2>1. PICK g \in Groups : g = LastActive /\ waitingTasks[g] # <<>>
      BY <1>3, LastActiveFacts
    <2> DEFINE new == NewFrame(g, LastWaiting(g))
    <2>2. stack' = [stack EXCEPT ![t] = <<new>>] /\ TakeFrom(g, Pop(activeTaskGroups))
      BY <1>3, <2>1 DEF WorkerTake
    <2>3. Debt(<<new>>) = 0
      BY DEF Debt, PostsOwed, NewFrame
    <2> HIDE DEF new
    <2>4. Owed'[t] = 0 /\ \A u \in Threads \ {t} : Owed'[u] = Owed[u]
      BY <1>1, <2>2, <2>3, OwedStep
    <2>5. Owed[t] = 0
      BY <1>1 DEF Owed
    <2>6. Owed' = Owed
      BY <1>1, <2>4, <2>5, CountTypes, CountTypesPrimed, SameFunction
    <2>7. IsFiniteSet(Tokens(Waits')) /\ Cardinality(Tokens(Waits')) = Cardinality(Tokens(Waits)) - 1
      BY <2>1, <2>2, TakeTokens
    <2>8. WakeupsSuffice'
      BY <1>1, <1>2, <2>6, <2>7, WakeTypes DEF WakeInv, WakeupsSuffice
    <2> QED BY <2>6, <2>7, <2>8 DEF WakeInv
  <1>4. CASE activeTaskGroups = <<>>
    <2>1. stack' = stack /\ waitingTasks' = waitingTasks
      BY <1>4 DEF WorkerTake, groupVars
    <2>2. Owed' = Owed /\ Waits' = Waits
      BY <2>1 DEF Owed, Waits, Top
    <2>3. Cardinality(Tokens(Waits)) = 0
      BY <1>4, NothingWaits
    <2>4. WakeupsSuffice'
      BY <1>1, <1>2, <2>2, <2>3, WakeTypes DEF WakeupsSuffice
    <2> QED BY <2>2, <2>4 DEF WakeInv
  <1> QED BY <1>3, <1>4

\* The function that a return uncovers waits in Sync and owes no posts.
LEMMA DebtBelow ==
    ASSUME Inv, NEW t \in Threads, stack[t] # <<>>
    PROVE  Debt(Pop(stack[t])) = 0
  <1> DEFINE s == stack[t]
             m == Len(s)
  <1>1. s \in Seq(Frame) /\ stack \in [Threads -> Seq(Frame)]
    BY DEF Inv, TypeOK
  <1>2. /\ Pop(s) \in Seq(Frame) /\ m \in Nat /\ m > 0 /\ Len(Pop(s)) = m - 1
        /\ \A d \in 1 .. m - 1 : Pop(s)[d] = s[d]
    BY <1>1, PopFacts
  <1>3. CASE Pop(s) = <<>>
    BY <1>3 DEF Debt
  <1>4. CASE Pop(s) # <<>>
    <2>1. m - 1 \in 1 .. m - 1 /\ m - 1 \in 1 .. m /\ m \in 1 .. m
      BY <1>2, <1>4, PopFacts
    <2>2. /\ <<t, m - 1>> \in Activations /\ <<t, m>> \in Activations
          /\ Fn(<<t, m - 1>>) = s[m - 1]
      BY <2>1, ActivationFacts
    <2>3. s[m - 1].pc = "running"
      BY <1>2, <2>2 DEF Inv, StackInv
    <2> QED BY <1>2, <1>4, <2>1, <2>3 DEF Debt, PostsOwed
  <1> QED BY <1>3, <1>4

\* The other steps of a function between its calls owe no posts before and
\* after.
LEMMA WakeOther ==
    ASSUME Inv, Inv', WakeInv, NEW t \in Threads,
           \/ Call(t) \/ ReturnToClient(t) \/ FinishTask(t) \/ ISPCAlloc(t) \/ LaunchCount(t)
           \/ ISPCSync(t) \/ SyncTest(t) \/ SyncFree(t)
    PROVE  WakeInv'
  <1>1. TypeOK /\ TypeOK' /\ (stack[t] # <<>> => Top(t) \in Frame)
    BY TopFacts DEF Inv, TypeOK
  <1>2. waitingTasks' = waitingTasks /\ awake' = awake /\ workerSemaphore' = workerSemaphore
    BY DEF Call, ReturnToClient, FinishTask, ISPCAlloc, LaunchCount, ISPCSync, SyncTest, SyncFree,
           groupVars
  <1>3. ASSUME stack[t] # <<>>, NEW f \in Frame, stack' = SetTop(t, f), PostsOwed(f) = PostsOwed(Top(t))
        PROVE  WakeInv'
    BY <1>1, <1>2, <1>3, WakeRelabel
  <1>4. ASSUME NEW s, stack' = [stack EXCEPT ![t] = s], Debt(s) = 0, Debt(stack[t]) = 0 PROVE WakeInv'
    <2>1. Owed'[t] = 0 /\ Owed[t] = 0 /\ \A u \in Threads \ {t} : Owed'[u] = Owed[u]
      BY <1>1, <1>4, OwedStep, CountTypes
    <2>2. Owed' = Owed
      BY <1>1, <2>1, CountTypes, CountTypesPrimed, SameFunction
    <2> QED BY <1>2, <2>2, WaitsUnchanged, WakeUnchanged
  <1>5. CASE Call(t)
    <2>1. Debt(<<NewFrame(Null, 0)>>) = 0 /\ Debt(stack[t]) = 0
      BY <1>5 DEF Call, Debt, NewFrame, PostsOwed
    <2> QED BY <1>4, <1>5, <2>1 DEF Call
  <1>6. CASE ReturnToClient(t)
    <2>1. stack[t] # <<>> /\ Top(t).pc = "body" /\ stack' = [stack EXCEPT ![t] = Pop(stack[t])]
      BY <1>6 DEF ReturnToClient, At
    <2>2. Debt(stack[t]) = 0
      BY <2>1 DEF Debt, PostsOwed, Top
    <2>3. Debt(Pop(stack[t])) = 0
      BY <1>1, <2>1, DebtBelow
    <2> QED BY <1>4, <2>1, <2>2, <2>3
  <1>7. CASE FinishTask(t)
    <2> DEFINE below == Pop(stack[t])
               f == [below[Len(below)] EXCEPT !.pc = "sync"]
               s == IF below = <<>> THEN <<>> ELSE Append(Pop(below), f)
    <2>1. stack[t] # <<>> /\ Top(t).pc = "body" /\ stack' = [stack EXCEPT ![t] = s]
      BY <1>7 DEF FinishTask, At
    <2>2. Debt(stack[t]) = 0
      BY <2>1 DEF Debt, PostsOwed, Top
    <2>3. below \in Seq(Frame)
      BY <1>1, <2>1, PopFacts DEF TypeOK
    <2>4. Debt(s) = 0
      <3>1. CASE below = <<>>
        BY <3>1 DEF Debt
      <3>2. CASE below # <<>>
        <4>1. Pop(below) \in Seq(Frame) /\ below[Len(below)] \in Frame
          BY <2>3, <3>2, PopFacts
        <4>2. f \in Frame /\ PostsOwed(f) = 0
          BY <4>1 DEF Frame, Labels, PostsOwed
        <4>3. s = Append(Pop(below), f)
          BY <3>2
        <4> HIDE DEF f, below, s
        <4> QED BY <4>1, <4>2, <4>3, DebtAppend
      <3> QED BY <3>1, <3>2
    <2> HIDE DEF s
    <2> QED BY <1>4, <2>1, <2>2, <2>4
  <1>8. CASE ISPCAlloc(t)
    <2>1. stack[t] # <<>> /\ Top(t).pc = "body" /\ Top(t) \in Frame
      BY <1>1, <1>8 DEF ISPCAlloc, At
    <2>2. CASE Top(t).tg # Null
      <3> DEFINE f == [Top(t) EXCEPT !.pc = "launch"]
      <3>1. f \in Frame /\ PostsOwed(f) = PostsOwed(Top(t))
        BY <2>1 DEF Frame, Labels, PostsOwed
      <3>2. stack' = SetTop(t, f)
        BY <1>8, <2>2 DEF ISPCAlloc, Goto
      <3> QED BY <1>3, <2>1, <3>1, <3>2
    <2>3. CASE Top(t).tg = Null
      <3>1. PICK g \in freeGroups : stack' = SetTop(t, [Top(t) EXCEPT !.tg = g, !.pc = "launch"])
        BY <1>8, <2>3 DEF ISPCAlloc
      <3> DEFINE f == [Top(t) EXCEPT !.tg = g, !.pc = "launch"]
      <3>2. g \in Groups
        BY <1>1 DEF TypeOK
      <3>3. f \in Frame /\ PostsOwed(f) = PostsOwed(Top(t))
        BY <2>1, <3>2 DEF Frame, Labels, PostsOwed
      <3> QED BY <1>3, <2>1, <3>1, <3>3
    <2> QED BY <2>2, <2>3
  <1>9. CASE LaunchCount(t)
    <2> DEFINE f == [Top(t) EXCEPT !.pc = "post"]
    <2>1. stack[t] # <<>> /\ Top(t).pc = "count" /\ Top(t) \in Frame /\ stack' = SetTop(t, f)
      BY <1>1, <1>9 DEF LaunchCount, At, Goto
    <2>2. f \in Frame /\ PostsOwed(f) = PostsOwed(Top(t))
      BY <2>1 DEF Frame, Labels, PostsOwed
    <2> QED BY <1>3, <2>1, <2>2
  <1>10. CASE ISPCSync(t)
    <2> DEFINE f == [Top(t) EXCEPT !.pc = "sync"]
    <2>1. stack[t] # <<>> /\ Top(t).pc = "body" /\ Top(t) \in Frame /\ stack' = SetTop(t, f)
      BY <1>1, <1>10 DEF ISPCSync, At, Goto
    <2>2. f \in Frame /\ PostsOwed(f) = PostsOwed(Top(t))
      BY <2>1 DEF Frame, Labels, PostsOwed
    <2> QED BY <1>3, <2>1, <2>2
  <1>11. CASE SyncTest(t)
    <2>1. PICK label \in {"help", "free"} : stack' = SetTop(t, [Top(t) EXCEPT !.pc = label])
      BY <1>11 DEF SyncTest, Goto
    <2> DEFINE f == [Top(t) EXCEPT !.pc = label]
    <2>2. stack[t] # <<>> /\ Top(t).pc = "sync" /\ Top(t) \in Frame
      BY <1>1, <1>11 DEF SyncTest, At
    <2>3. f \in Frame /\ PostsOwed(f) = PostsOwed(Top(t))
      BY <2>2 DEF Frame, Labels, PostsOwed
    <2> QED BY <1>3, <2>1, <2>2, <2>3
  <1>12. CASE SyncFree(t)
    <2> DEFINE f == [Top(t) EXCEPT !.tg = Null, !.pc = "body"]
    <2>1. stack[t] # <<>> /\ Top(t).pc = "free" /\ Top(t) \in Frame /\ stack' = SetTop(t, f)
      BY <1>1, <1>12 DEF SyncFree, At
    <2>2. f \in Frame /\ PostsOwed(f) = PostsOwed(Top(t))
      BY <2>1 DEF Frame, Labels, PostsOwed
    <2> QED BY <1>3, <2>1, <2>2
  <1> QED BY <1>5, <1>6, <1>7, <1>8, <1>9, <1>10, <1>11, <1>12

\* Every step keeps the posts sufficient.
LEMMA WakeNext ==
    ASSUME Inv, Inv', WakeInv, [Next]_vars
    PROVE  WakeInv'
  <1>1. CASE UNCHANGED vars
    BY <1>1, WakeUnchanged DEF vars, groupVars, Owed, Waits, Top
  <1>2. CASE Next
    <2>1. PICK t \in Threads : Call(t) \/ Step(t)
      BY <1>2 DEF Next
    <2>2. ASSUME NEW count \in Counts, LaunchEnqueue(t, count) PROVE WakeInv'
      <3>1. count \in Nat
        BY TaskSystemAssumption
      <3> QED BY <2>2, <3>1, WakeEnqueue
    <2> QED BY <2>1, <2>2, WakeOther, WakePost, WakeSyncTake, WakeWorkerWake, WakeWorkerTake DEF Step
  <1> QED BY <1>1, <1>2

\* Nothing waits at first.
LEMMA WakeInit == Init => WakeInv
  <1> SUFFICES ASSUME Init PROVE WakeInv
    OBVIOUS
  <1>1. Waits = [g \in Groups |-> 0] /\ Owed = [t \in Threads |-> 0]
    BY DEF Init, Waits, Owed
  <1>2. Tokens(Waits) = {} /\ Tokens(Owed) = {}
    BY <1>1 DEF Tokens
  <1>3. IsFiniteSet({}) /\ Cardinality({}) = 0
    BY FS_EmptySet
  <1> QED BY <1>2, <1>3 DEF Init, WakeInv, WakeupsSuffice

\* Launch posts the semaphore once per task and every worker that sem_wait lets
\* through takes a task or finds none: while a task waits, a worker is awake for
\* it, a post is there to wake one, or the launch is still posting, although
\* threads in Sync take tasks without taking a post.
THEOREM NoWakeupLost ==
    ASSUME 0 \notin Counts
    PROVE  Spec => []WakeupsSuffice
  <1>1. Init => Inv /\ WakeInv
    BY InitInv, WakeInit
  <1>2. (Inv /\ WakeInv) /\ [Next]_vars => (Inv /\ WakeInv)'
    BY NextInv, WakeNext
  <1>3. WakeInv => WakeupsSuffice
    BY DEF WakeInv
  <1> QED BY <1>1, <1>2, <1>3, PTL DEF Spec
=============================================================================
