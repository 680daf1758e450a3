------------------------ MODULE TaskSystemRefinement ------------------------
(***************************************************************************)
(* TaskSystem implements LaunchSync for every value of the constants: each *)
(* step of the code is a step of launch and sync, or changes neither the   *)
(* handles in use nor the tasks waiting and running.                       *)
(***************************************************************************)
EXTENDS TaskSystemProofs

\* Running and Waiting in terms of activations and queues.
LEMMA TaskSets ==
    \A g \in Groups :
      /\ \A k : k \in Running(g) <=> \E a \in Activations : Fn(a).group = g /\ Fn(a).num = k
      /\ Waiting(g) = Elems(waitingTasks[g])
  BY DEF Running, Waiting, Elems

\* TaskSets in the next state.
LEMMA TaskSetsPrimed ==
    \A g \in Groups :
      /\ \A k : k \in Running(g)' <=> \E a \in Activations' : Fn(a)'.group = g /\ Fn(a)'.num = k
      /\ Waiting(g)' = Elems(waitingTasks'[g])
  <1>1. (\A g \in Groups :
          /\ \A k : k \in Running(g) <=> \E a \in Activations : Fn(a).group = g /\ Fn(a).num = k
          /\ Waiting(g) = Elems(waitingTasks[g]))'
    BY TaskSets, PTL
  <1> QED BY <1>1 DEF Elems

\* A step that changes neither the free list nor the tasks waiting and running
\* is invisible to LaunchSync.
LEMMA Invisible ==
    ASSUME freeGroups' = freeGroups,
           \A g \in Groups : Running(g)' = Running(g) /\ Waiting(g)' = Waiting(g)
    PROVE  UNCHANGED LS!vars
  BY DEF LS!vars

\* Waiting depends on waitingTasks only.
LEMMA SameWaiting ==
    ASSUME NEW g \in Groups, waitingTasks'[g] = waitingTasks[g]
    PROVE  Waiting(g)' = Waiting(g)
  BY TaskSets, TaskSetsPrimed

\* Replacing the top of a stack by the same task at another label starts and
\* finishes no task.
LEMMA SameRunning ==
    ASSUME Inv, NEW t \in Threads, stack[t] # <<>>, NEW f \in Frame,
           f.group = Top(t).group, f.num = Top(t).num, stack' = SetTop(t, f)
    PROVE  \A g \in Groups : Running(g)' = Running(g)
  <1>1. /\ Activations' = Activations
        /\ \A a \in Activations : Fn(a)' = IF a = Act(t) THEN f ELSE Fn(a)
    BY SetTopFacts DEF Inv, TypeOK
  <1>2. Fn(Act(t)) = Top(t)
    BY TopFacts DEF Inv, TypeOK
  <1>3. \A a \in Activations : Fn(a)'.group = Fn(a).group /\ Fn(a)'.num = Fn(a).num
    BY <1>1, <1>2
  <1> SUFFICES ASSUME NEW g \in Groups PROVE \A k : k \in Running(g)' <=> k \in Running(g)
    OBVIOUS
  <1> QED BY <1>1, <1>3, TaskSets, TaskSetsPrimed

\* A step that only moves the top function of a thread to another label.
LEMMA GotoInvisible ==
    ASSUME Inv, NEW t \in Threads, NEW label \in Labels, stack[t] # <<>>,
           stack' = Goto(t, label),
           freeGroups' = freeGroups, waitingTasks' = waitingTasks
    PROVE  UNCHANGED LS!vars
  <1> DEFINE f == [Top(t) EXCEPT !.pc = label]
  <1>1. Top(t) \in Frame
    BY TopFacts DEF Inv, TypeOK
  <1>2. f \in Frame /\ f.group = Top(t).group /\ f.num = Top(t).num
    BY <1>1 DEF Frame
  <1>3. stack' = SetTop(t, f)
    BY DEF Goto
  <1> HIDE DEF f
  <1> QED BY <1>2, <1>3, SameRunning, SameWaiting, Invisible

\* A call from the application is invisible.
LEMMA CallInvisible ==
    ASSUME Inv, NEW t \in Threads, Call(t)
    PROVE  UNCHANGED LS!vars
  <1> DEFINE f == NewFrame(Null, 0)
  <1>1. /\ stack[t] = <<>> /\ stack' = [stack EXCEPT ![t] = <<f>>]
        /\ f.group = Null /\ f \in Frame
    BY DEF Call, NewFrame, Frame, Labels
  <1> HIDE DEF f
  <1>2. PICK b : b = <<t, 1>>
    OBVIOUS
  <1>3. /\ Activations' = Activations \cup {b} /\ Fn(b)' = f
        /\ \A a \in Activations : Fn(a)' = Fn(a)
    BY <1>1, <1>2, FirstFacts DEF Inv, TypeOK
  <1>4. \A g \in Groups : Running(g)' = Running(g)
    <2> SUFFICES ASSUME NEW g \in Groups, NEW k
                 PROVE  k \in Running(g)' <=> k \in Running(g)
      OBVIOUS
    <2>1. g # Null
      BY TaskSystemAssumption
    <2>2. k \in Running(g)' <=> \E a \in Activations : Fn(a)'.group = g /\ Fn(a)'.num = k
      BY <1>1, <1>3, <2>1, TaskSetsPrimed
    <2> QED BY <1>3, <2>2, TaskSets
  <1>5. freeGroups' = freeGroups /\ waitingTasks' = waitingTasks
    BY DEF Call, groupVars
  <1> QED BY <1>4, <1>5, SameWaiting, Invisible

\* A return to the application is invisible: the function was not a task.
LEMMA ReturnToClientInvisible ==
    ASSUME Inv, NEW t \in Threads, ReturnToClient(t)
    PROVE  UNCHANGED LS!vars
  <1> DEFINE r == Pop(stack[t])
  <1>1. /\ stack[t] \in Seq(Frame) /\ stack[t] # <<>> /\ stack \in [Threads -> Seq(Frame)]
        /\ stack' = [stack EXCEPT ![t] = r]
        /\ Top(t).group = Null
    BY DEF Inv, TypeOK, ReturnToClient, At
  <1>2. /\ r \in Seq(Frame) /\ Len(r) = Len(stack[t]) - 1
        /\ \A d \in 1 .. Len(stack[t]) - 1 : r[d] = stack[t][d]
    BY <1>1, PopFacts
  <1> HIDE DEF r
  <1>3. /\ Activations' = Activations \ {Act(t)}
        /\ \A a \in Activations : a[1] # t => Fn(a)' = Fn(a)
        /\ \A a \in Activations \ {Act(t)} :
             a[1] = t => a[2] \in 1 .. Len(stack[t]) - 1 /\ Fn(a)' = r[a[2]]
    <2>1. stack \in [Threads -> Seq(Frame)] /\ stack[t] # <<>>
          /\ stack' = [stack EXCEPT ![t] = r]
      BY <1>1
    <2>2. r \in Seq(Frame) /\ Len(r) = Len(stack[t]) - 1
      BY <1>2
    <2> QED BY <2>1, <2>2, PopStackFacts
  <1>4. ASSUME NEW a \in Activations \ {Act(t)} PROVE Fn(a)' = Fn(a)
    <2>1. CASE a[1] = t
      <3>1. a[2] \in 1 .. Len(stack[t]) - 1 /\ Fn(a)' = r[a[2]]
        BY <1>3, <2>1
      <3>2. Fn(a) = stack[t][a[2]]
        BY <2>1 DEF Fn
      <3> QED BY <1>2, <3>1, <3>2
    <2> QED BY <1>3, <2>1
  <1>5. Fn(Act(t)).group = Null
    BY <1>1, TopFacts
  <1>6. \A g \in Groups : Running(g)' = Running(g)
    <2> SUFFICES ASSUME NEW g \in Groups, NEW k
                 PROVE  k \in Running(g)' <=> k \in Running(g)
      OBVIOUS
    <2>1. g # Null
      BY TaskSystemAssumption
    <2>2. k \in Running(g) <=> \E a \in Activations \ {Act(t)} : Fn(a).group = g /\ Fn(a).num = k
      BY <1>5, <2>1, TaskSets
    <2> QED BY <1>3, <1>4, <2>2, TaskSetsPrimed
  <1>7. freeGroups' = freeGroups /\ waitingTasks' = waitingTasks
    BY DEF ReturnToClient, groupVars
  <1> QED BY <1>6, <1>7, SameWaiting, Invisible

\* ISPCAlloc acquires a handle, or is invisible when the function has one.
LEMMA ISPCAllocRefines ==
    ASSUME Inv, NEW t \in Threads, ISPCAlloc(t)
    PROVE  [LS!Next]_LS!vars
  <1>1. stack[t] # <<>> /\ waitingTasks' = waitingTasks
    BY DEF ISPCAlloc, At, groupVars
  <1>2. Top(t) \in Frame
    BY <1>1, TopFacts DEF Inv, TypeOK
  <1>3. CASE Top(t).tg # Null
    BY <1>1, <1>3, GotoInvisible DEF ISPCAlloc, Labels
  <1>4. CASE Top(t).tg = Null
    <2>1. PICK g \in freeGroups :
            /\ stack' = SetTop(t, [Top(t) EXCEPT !.tg = g, !.pc = "launch"])
            /\ freeGroups' = freeGroups \ {g}
      BY <1>4 DEF ISPCAlloc
    <2>2. g \in Groups
      BY <2>1 DEF Inv, TypeOK
    <2> DEFINE f == [Top(t) EXCEPT !.tg = g, !.pc = "launch"]
    <2>3. f \in Frame /\ f.group = Top(t).group /\ f.num = Top(t).num
      BY <1>2, <2>2 DEF Frame, Labels
    <2>4. stack' = SetTop(t, f)
      BY <2>1
    <2> HIDE DEF f
    <2>5. \A h \in Groups : Running(h)' = Running(h) /\ Waiting(h)' = Waiting(h)
      BY <1>1, <2>3, <2>4, SameRunning, SameWaiting
    <2>6. LS!Acquire(g)
      BY <2>1, <2>2, <2>5 DEF LS!Acquire, Inv, TypeOK
    <2> QED BY <2>2, <2>6 DEF LS!Next
  <1> QED BY <1>3, <1>4

\* FreeTaskGroup at the end of Sync is the return of the sync.
LEMMA SyncFreeRefines ==
    ASSUME Inv, NEW t \in Threads, SyncFree(t)
    PROVE  LS!Next
  <1>1. stack[t] # <<>> /\ Top(t).pc = "free"
    BY DEF SyncFree, At
  <1>2. Act(t) \in Activations /\ Fn(Act(t)) = Top(t) /\ Top(t) \in Frame
    BY <1>1, TopFacts DEF Inv, TypeOK
  <1>3. PICK g \in Groups : g = Top(t).tg
    BY <1>1, TopHandle
  <1>4. g \notin freeGroups
    BY <1>1, <1>3, TopHandle
  <1>5. Waiting(g) = {} /\ Running(g) = {}
    BY <1>1, <1>2, <1>3, InvSyncWaitsForAll DEF SyncWaitsForAll
  <1> DEFINE f == [Top(t) EXCEPT !.tg = Null, !.pc = "body"]
  <1>6. f \in Frame /\ f.group = Top(t).group /\ f.num = Top(t).num
    BY <1>2 DEF Frame, Labels
  <1>7. stack' = SetTop(t, f) /\ waitingTasks' = waitingTasks /\ freeGroups' = freeGroups \cup {g}
    BY <1>3 DEF SyncFree
  <1> HIDE DEF f
  <1>8. \A h \in Groups : Running(h)' = Running(h) /\ Waiting(h)' = Waiting(h)
    BY <1>1, <1>6, <1>7, SameRunning, SameWaiting
  <1>9. LS!Sync(g)
    BY <1>4, <1>5, <1>7, <1>8 DEF LS!Sync
  <1> QED BY <1>9 DEF LS!Next

\* Enqueuing the tasks of a launch is the launch.
LEMMA LaunchEnqueueRefines ==
    ASSUME Inv, NEW t \in Threads, NEW count \in Nat, LaunchEnqueue(t, count)
    PROVE  LS!Next
  <1>1. stack[t] # <<>> /\ Top(t).pc = "launch"
    BY DEF LaunchEnqueue, At
  <1>2. Top(t) \in Frame
    BY <1>1, TopFacts DEF Inv, TypeOK
  <1>3. PICK g \in Groups : g = Top(t).tg
    BY <1>1, TopHandle
  <1>4. g \notin freeGroups
    BY <1>1, <1>3, TopHandle
  <1> DEFINE base == nextTaskInfoIndex[g]
             q == waitingTasks[g] \o [j \in 1 .. count |-> base + j - 1]
             f == [Top(t) EXCEPT !.pc = "count", !.n = count]
  <1>5. f \in Frame /\ f.group = Top(t).group /\ f.num = Top(t).num
    BY <1>2 DEF Frame, Labels
  <1>6. /\ stack' = SetTop(t, f) /\ freeGroups' = freeGroups
        /\ waitingTasks' = [waitingTasks EXCEPT ![g] = q]
    BY <1>3 DEF LaunchEnqueue
  <1> HIDE DEF f
  <1>7. \A h \in Groups : Running(h)' = Running(h)
    BY <1>1, <1>5, <1>6, SameRunning
  <1>8. /\ base \in Nat /\ waitingTasks[g] \in Seq(Nat) /\ Distinct(waitingTasks[g])
        /\ \A k \in outstanding[g] : k < base /\ k \in Nat
        /\ Elems(waitingTasks[g]) \subseteq outstanding[g]
    BY DEF Inv, TypeOK, GroupInv
  <1>9. Elems(q) = Elems(waitingTasks[g]) \cup (base .. base + count - 1)
    BY <1>8, EnqueueQueue
  <1>10. waitingTasks'[g] = q /\ \A h \in Groups \ {g} : waitingTasks'[h] = waitingTasks[h]
    BY <1>6 DEF Inv, TypeOK
  <1> HIDE DEF q
  <1>11. Waiting(g)' = Waiting(g) \cup (base .. base + count - 1)
    BY <1>9, <1>10, TaskSets, TaskSetsPrimed
  <1>12. \A h \in Groups \ {g} : Waiting(h)' = Waiting(h)
    BY <1>10, SameWaiting
  <1>13. Waiting(g)' \cap Running(g) = {}
    <2>1. Waiting(g) \cap Running(g) = {} /\ Running(g) \subseteq outstanding[g]
      BY InvEveryTaskOnce DEF EveryTaskOnce
    <2>2. \A k \in Running(g) : k \notin base .. base + count - 1
      BY <2>1, <1>8
    <2> QED BY <1>11, <2>1, <2>2
  <1>14. LS!Launch(g)
    BY <1>4, <1>6, <1>7, <1>11, <1>12, <1>13 DEF LS!Launch
  <1> QED BY <1>14 DEF LS!Next

\* A task that returns finishes.
LEMMA FinishTaskRefines ==
    ASSUME Inv, NEW t \in Threads, FinishTask(t)
    PROVE  LS!Next
  <1>1. stack[t] # <<>> /\ Top(t).group # Null
    BY DEF FinishTask, At
  <1>2. Act(t) \in Activations /\ Fn(Act(t)) = Top(t) /\ Top(t) \in Frame
    BY <1>1, TopFacts DEF Inv, TypeOK
  <1>3. PICK g \in Groups : g = Top(t).group
    BY <1>1, <1>2 DEF Frame
  <1>4. PICK k : k = Top(t).num
    OBVIOUS
  <1>5. /\ Activations' = Activations \ {Act(t)}
        /\ \A a \in Activations \ {Act(t)} :
             Fn(a)'.group = Fn(a).group /\ Fn(a)'.num = Fn(a).num
    BY FinishFrames
  <1>6. \A a \in Activations : Fn(a).group = g /\ Fn(a).num = k => a = Act(t)
    BY <1>1, <1>2, <1>3, <1>4 DEF Inv, TaskInv
  <1>7. k \in Running(g)
    BY <1>2, <1>3, <1>4, TaskSets
  <1>8. ASSUME NEW h \in Groups
        PROVE  Running(h)' = IF h = g THEN Running(g) \ {k} ELSE Running(h)
    <2> SUFFICES ASSUME NEW i
                 PROVE  i \in Running(h)' <=> i \in Running(h) /\ ~(h = g /\ i = k)
      OBVIOUS
    <2>1. i \in Running(h)' <=>
            \E a \in Activations \ {Act(t)} : Fn(a).group = h /\ Fn(a).num = i
      BY <1>5, TaskSetsPrimed
    <2>2. i \in Running(h) <=> \E a \in Activations : Fn(a).group = h /\ Fn(a).num = i
      BY TaskSets
    <2>3. Fn(Act(t)).group = h /\ Fn(Act(t)).num = i <=> h = g /\ i = k
      BY <1>2, <1>3, <1>4
    <2> QED BY <1>6, <2>1, <2>2, <2>3
  <1>9. freeGroups' = freeGroups /\ waitingTasks' = waitingTasks
    BY DEF FinishTask
  <1>10. \A h \in Groups : Waiting(h)' = Waiting(h)
    BY <1>9, SameWaiting
  <1>11. LS!Finish(g)
    BY <1>7, <1>8, <1>9, <1>10 DEF LS!Finish
  <1> QED BY <1>11 DEF LS!Next

\* Taking the last task of group g and running it as a new function b starts
\* the task.
LEMMA TakeRefines ==
    ASSUME Inv, NEW g \in Groups, waitingTasks[g] # <<>>, NEW list, TakeFrom(g, list),
           NEW b, b \notin Activations, Activations' = Activations \cup {b},
           Fn(b)' = NewFrame(g, LastWaiting(g)),
           \A a \in Activations : Fn(a)'.group = Fn(a).group /\ Fn(a)'.num = Fn(a).num,
           freeGroups' = freeGroups
    PROVE  LS!Next
  <1>1. waitingTasks \in [Groups -> Seq(Nat)] /\ Distinct(waitingTasks[g])
    BY DEF Inv, TypeOK, GroupInv
  <1>2. PICK k : k = LastWaiting(g)
    OBVIOUS
  <1> DEFINE rest == Pop(waitingTasks[g])
  <1>3. k \in Elems(waitingTasks[g]) /\ Elems(rest) = Elems(waitingTasks[g]) \ {k}
    BY <1>1, <1>2, PopQueue DEF LastWaiting
  <1>4. waitingTasks' = [waitingTasks EXCEPT ![g] = rest]
    BY DEF TakeFrom
  <1> HIDE DEF rest
  <1>5. waitingTasks'[g] = rest /\ \A h \in Groups \ {g} : waitingTasks'[h] = waitingTasks[h]
    BY <1>1, <1>4
  <1>6. k \in Waiting(g) /\ Waiting(g)' = Waiting(g) \ {k}
    BY <1>3, <1>5, TaskSets, TaskSetsPrimed
  <1>7. \A h \in Groups \ {g} : Waiting(h)' = Waiting(h)
    BY <1>5, SameWaiting
  <1>8. Fn(b)'.group = g /\ Fn(b)'.num = k
    BY <1>2 DEF NewFrame
  <1>9. ASSUME NEW h \in Groups
        PROVE  Running(h)' = IF h = g THEN Running(g) \cup {k} ELSE Running(h)
    <2> SUFFICES ASSUME NEW i
                 PROVE  i \in Running(h)' <=> i \in Running(h) \/ (h = g /\ i = k)
      OBVIOUS
    <2>1. i \in Running(h)' <=> \E a \in Activations' : Fn(a)'.group = h /\ Fn(a)'.num = i
      BY TaskSetsPrimed
    <2>2. i \in Running(h) <=> \E a \in Activations : Fn(a).group = h /\ Fn(a).num = i
      BY TaskSets
    <2> QED BY <1>8, <2>1, <2>2
  <1>10. LS!Start(g)
    BY <1>6, <1>7, <1>9 DEF LS!Start
  <1> QED BY <1>10 DEF LS!Next

\* The locked part of Sync starts a task or is invisible.
LEMMA SyncTakeRefines ==
    ASSUME Inv, NEW t \in Threads, SyncTake(t)
    PROVE  [LS!Next]_LS!vars
  <1>1. stack[t] # <<>> /\ Top(t).pc = "help" /\ freeGroups' = freeGroups
    BY DEF SyncTake, At
  <1>2. ASSUME NEW g \in Groups, waitingTasks[g] # <<>>, NEW list, TakeFrom(g, list),
               RunOnTop(t, g)
        PROVE  LS!Next
    <2>1. PICK b : /\ b \notin Activations
                   /\ Activations' = Activations \cup {b}
                   /\ Fn(b)' = NewFrame(g, LastWaiting(g))
                   /\ \A a \in Activations : a[1] # t => Fn(a)' = Fn(a)
                   /\ \A a \in Activations :
                        a[1] = t =>
                          \/ Fn(a)' = [Fn(a) EXCEPT !.pc = "running"]
                          \/ Fn(a)' = Fn(a)
      BY <1>1, <1>2, RunOnTopFrames
    <2>2. ASSUME NEW a \in Activations
          PROVE  Fn(a)'.group = Fn(a).group /\ Fn(a)'.num = Fn(a).num
      <3>1. Fn(a) \in Frame
        BY FrameFacts DEF Inv, TypeOK
      <3> QED BY <2>1, <3>1 DEF Frame
    <2> QED BY <1>1, <1>2, <2>1, <2>2, TakeRefines
  <1>3. PICK g \in Groups : g = Top(t).tg
    BY <1>1, TopHandle
  <1>4. CASE waitingTasks[g] # <<>>
    <2>1. RunOnTop(t, g) /\ TakeFrom(g, Erase(g))
      BY <1>3, <1>4 DEF SyncTake
    <2> QED BY <1>2, <1>4, <2>1
  <1>5. CASE waitingTasks[g] = <<>> /\ activeTaskGroups # <<>>
    <2>1. RunOnTop(t, LastActive) /\ TakeFrom(LastActive, Pop(activeTaskGroups))
      BY <1>3, <1>5 DEF SyncTake
    <2>2. LastActive \in Groups /\ waitingTasks[LastActive] # <<>>
      BY <1>5, LastActiveFacts
    <2> QED BY <1>2, <2>1, <2>2
  <1>6. CASE waitingTasks[g] = <<>> /\ activeTaskGroups = <<>>
    <2>1. stack' = Goto(t, "sync") /\ waitingTasks' = waitingTasks /\ "sync" \in Labels
      BY <1>3, <1>6 DEF SyncTake, groupVars, Labels
    <2> QED BY <1>1, <2>1, GotoInvisible
  <1> QED BY <1>4, <1>5, <1>6

\* The locked part of lTaskEntry starts a task or is invisible.
LEMMA WorkerTakeRefines ==
    ASSUME Inv, NEW t \in Threads, WorkerTake(t)
    PROVE  [LS!Next]_LS!vars
  <1>1. /\ stack[t] = <<>> /\ freeGroups' = freeGroups
        /\ stack \in [Threads -> Seq(Frame)]
    BY DEF Inv, TypeOK, StackInv, WorkerTake
  <1>2. CASE activeTaskGroups # <<>>
    <2>1. PICK g \in Groups : g = LastActive
      BY <1>2, LastActiveFacts
    <2> DEFINE new == NewFrame(g, LastWaiting(g))
    <2>2. stack' = [stack EXCEPT ![t] = <<new>>] /\ TakeFrom(g, Pop(activeTaskGroups))
      BY <1>2, <2>1 DEF WorkerTake
    <2>3. waitingTasks[g] # <<>>
      BY <1>2, <2>1, LastActiveFacts
    <2>4. new \in Frame /\ new = NewFrame(g, LastWaiting(g))
      BY <2>3, TaskFrame
    <2> HIDE DEF new
    <2>5. PICK b : b = <<t, 1>>
      OBVIOUS
    <2>6. /\ b \notin Activations /\ Activations' = Activations \cup {b} /\ Fn(b)' = new
          /\ \A a \in Activations : Fn(a)' = Fn(a)
      BY <1>1, <2>2, <2>4, <2>5, FirstFacts
    <2>7. Fn(b)' = NewFrame(g, LastWaiting(g))
      BY <2>4, <2>6
    <2>8. \A a \in Activations : Fn(a)'.group = Fn(a).group /\ Fn(a)'.num = Fn(a).num
      BY <2>6
    <2> QED BY <1>1, <2>2, <2>3, <2>6, <2>7, <2>8, TakeRefines
  <1>3. CASE activeTaskGroups = <<>>
    <2>1. stack' = stack /\ waitingTasks' = waitingTasks
      BY <1>3 DEF WorkerTake, groupVars
    <2>2. \A g \in Groups : Running(g)' = Running(g) /\ Waiting(g)' = Waiting(g)
      BY <2>1 DEF Running, Waiting, Activations, Fn
    <2> QED BY <1>1, <2>2, Invisible
  <1> QED BY <1>2, <1>3

\* Every step is a step of LaunchSync or invisible to it.
LEMMA NextRefines ==
    ASSUME Inv, [Next]_vars
    PROVE  [LS!Next]_LS!vars
  <1>1. ASSUME stack' = stack, waitingTasks' = waitingTasks, freeGroups' = freeGroups
        PROVE  UNCHANGED LS!vars
    <2>1. \A g \in Groups : Running(g)' = Running(g) /\ Waiting(g)' = Waiting(g)
      BY <1>1 DEF Running, Waiting, Activations, Fn
    <2> QED BY <1>1, <2>1, Invisible
  <1>2. CASE UNCHANGED vars
    BY <1>1, <1>2 DEF vars, groupVars
  <1>3. CASE Next
    <2>1. PICK t \in Threads : Call(t) \/ Step(t)
      BY <1>3 DEF Next
    <2>2. CASE \E count \in Counts : LaunchEnqueue(t, count)
      BY <2>2, LaunchEnqueueRefines, TaskSystemAssumption
    <2>3. CASE LaunchCount(t)
      BY <2>3, GotoInvisible DEF LaunchCount, At, Labels
    <2>4. CASE LaunchPost(t)
      <3>1. stack[t] # <<>> /\ freeGroups' = freeGroups /\ waitingTasks' = waitingTasks
        BY <2>4 DEF LaunchPost, At, groupVars
      <3>2. CASE stack' = Goto(t, "body")
        BY <3>1, <3>2, GotoInvisible DEF Labels
      <3>3. CASE Top(t).n > 0 /\ stack' = SetTop(t, [Top(t) EXCEPT !.n = @ - 1])
        <4> DEFINE f == [Top(t) EXCEPT !.n = @ - 1]
        <4>1. Top(t) \in Frame
          BY <3>1, TopFacts DEF Inv, TypeOK
        <4>2. f \in Frame /\ f.group = Top(t).group /\ f.num = Top(t).num
          BY <4>1, <3>3 DEF Frame
        <4>3. stack' = SetTop(t, f)
          BY <3>3
        <4> HIDE DEF f
        <4> QED BY <3>1, <4>2, <4>3, SameRunning, SameWaiting, Invisible
      <3> QED BY <2>4, <3>2, <3>3 DEF LaunchPost
    <2>5. CASE ISPCSync(t)
      BY <2>5, GotoInvisible DEF ISPCSync, At, Labels, groupVars
    <2>6. CASE SyncTest(t)
      <3> DEFINE label == IF numUnfinishedTasks[Top(t).tg] > 0 THEN "help" ELSE "free"
      <3>1. stack' = Goto(t, label) /\ label \in Labels
        BY <2>6 DEF SyncTest, Labels
      <3> HIDE DEF label
      <3> QED BY <2>6, <3>1, GotoInvisible DEF SyncTest, At, groupVars
    <2>7. CASE WorkerWake(t)
      BY <2>7, <1>1 DEF WorkerWake, groupVars
    <2> QED BY <2>1, <2>2, <2>3, <2>4, <2>5, <2>6, <2>7, CallInvisible, ReturnToClientInvisible,
              FinishTaskRefines, ISPCAllocRefines, SyncTakeRefines, SyncFreeRefines,
              WorkerTakeRefines DEF Step
  <1> QED BY <1>2, <1>3

\* Initially no handle is in use and no task waits or runs.
LEMMA InitRefines == Init => LS!Init
  <1> SUFFICES ASSUME Init PROVE LS!Init
    OBVIOUS
  <1>1. Inv
    BY InitInv
  <1>2. \A g \in Groups : outstanding[g] = {}
    BY DEF Init
  <1>3. \A g \in Groups : Running(g) = {} /\ Waiting(g) = {}
    BY <1>1, <1>2, InvEveryTaskOnce DEF EveryTaskOnce
  <1> QED BY <1>3 DEF LS!Init, Init

\* The pthreads task system (ISPCAlloc, ISPCLaunch, ISPCSync and lTaskEntry)
\* implements the promise of launch and sync: a task is started by one thread,
\* and no sync returns while a task launched through its handle is unfinished.
THEOREM Refinement ==
    ASSUME 0 \notin Counts
    PROVE  Spec => ImplementsLaunchSync
  BY InitRefines, NextRefines, InvAlways, PTL DEF Spec, ImplementsLaunchSync, LS!Spec
=============================================================================
