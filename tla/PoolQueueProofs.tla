-------------------------- MODULE PoolQueueProofs --------------------------
(***************************************************************************)
(* The thread pool, for any finite pool of workers, {} included, and any   *)
(* set of connections; the task queue, for any memory and any descriptors; *)
(* and the pool on its linked list: the pool never sees more of the list   *)
(* than the queue it is modelled with, so what is proved of ThreadPool     *)
(* holds of the pool on the list.                                          *)
(***************************************************************************)
EXTENDS PoolQueue, FiniteSetTheorems, SequenceTheorems, TLAPS

-----------------------------------------------------------------------------
(* The thread pool.                                                        *)

\* queue_push and queue_pop keep a queue of descriptors a queue of descriptors.
LEMMA QueueTypes ==
  ASSUME NEW S, NEW q \in Seq(S)
  PROVE  /\ \A c \in S : Append(q, c) \in Seq(S) /\ Append(q, c) # <<>>
         /\ q # <<>> => Head(q) \in S /\ Tail(q) \in Seq(S)
BY AppendProperties, HeadTailProperties

-----------------------------------------------------------------------------
Inv1 == TypeOK /\ ControlInv

\* Types, with what each program counter says of the variables beside it: the
\* inductive ground of everything below.
LEMMA Inv1Holds == Spec => []Inv1
<1> USE NamesAssumption
<1>1. Init => Inv1
  BY DEF Init, Inv1, TypeOK, ControlInv, MainPC, WorkerPC
<1>2. Inv1 /\ [Next]_vars => Inv1'
  <2> SUFFICES ASSUME Inv1, [Next]_vars PROVE Inv1'
    OBVIOUS
  <2> USE DEF Inv1, TypeOK, ControlInv, MainPC, WorkerPC, poolVars, connVars
  <2>1. CASE MainStarts
    BY <2>1 DEF MainStarts, InitFails, CreateFails, PoolReady, Listen, Created
  <2>2. CASE MainAccepts
    BY <2>2 DEF MainAccepts, LoopTest, AcceptFails, Reject, Accept
  <2>3. CASE MainAdds
    <3>1. CASE QueuePush
      BY <3>1, QueueTypes DEF QueuePush
    <3>2. CASE CondSignal
      BY <3>2 DEF CondSignal, Waiting
    <3>3. CASE AddTaskLock \/ QueuePushFails \/ AddTaskUnlock
      BY <3>3 DEF AddTaskLock, QueuePushFails, AddTaskUnlock
    <3> QED BY <2>3, <3>1, <3>2, <3>3 DEF MainAdds
  <2>4. CASE MainDestroys
    <3>1. CASE CondBroadcast
      BY <3>1 DEF CondBroadcast, Waiting
    <3>2. CASE Drain
      BY <3>2, QueueTypes DEF Drain
    <3>3. CASE JoinAll
      BY <3>3 DEF JoinAll, Created
    <3>4. CASE DestroyLock \/ SetExitFlag \/ DestroyUnlock \/ DestroyReturns
      BY <3>4 DEF DestroyLock, SetExitFlag, DestroyUnlock, DestroyReturns
    <3> QED BY <2>4, <3>1, <3>2, <3>3, <3>4 DEF MainDestroys
  <2>5. CASE Sigint
    BY <2>5 DEF Sigint
  <2>6. ASSUME NEW w \in Workers, CreateWorker(w) \/ SpuriousWakeup(w) \/ SessionEnds(w)
        PROVE  Inv1'
    BY <2>6 DEF CreateWorker, SpuriousWakeup, SessionEnds
  <2>7. ASSUME NEW w \in Workers, WorkerQueues(w)
        PROVE  Inv1'
    <3>1. CASE WorkerPop(w)
      BY <3>1, QueueTypes DEF WorkerPop
    <3>2. CASE WorkerClose(w)
      BY <3>2 DEF WorkerClose
    <3>3. CASE WorkerUnlock(w)
      BY <3>3 DEF WorkerUnlock
    <3>4. CASE WorkerLock(w) \/ WorkerWait(w) \/ WorkerReacquire(w)
      BY <3>4 DEF WorkerLock, WorkerWait, WorkerReacquire
    <3>5. CASE WorkerExit(w) \/ WorkerSeesTask(w)
      BY <3>5 DEF WorkerExit, WorkerSeesTask
    <3> QED BY <2>7, <3>1, <3>2, <3>3, <3>4, <3>5 DEF WorkerQueues
  <2>8. CASE UNCHANGED vars
    BY <2>8 DEF vars
  <2> QED BY <2>1, <2>2, <2>3, <2>4, <2>5, <2>6, <2>7, <2>8 DEF Next, Terminated
<1> QED BY <1>1, <1>2, PTL DEF Spec

\* The model's variables keep their types, whatever the workers and the
\* connections are.
THEOREM TypeCorrect == Spec => []TypeOK
BY Inv1Holds, PTL DEF Inv1

-----------------------------------------------------------------------------
\* The mutex is held by the thread that stands between a lock and its unlock.
THEOREM MutexIsOwned == Spec => []MutexOwnership
<1> USE NamesAssumption
<1>1. Init => MutexOwnership
  BY DEF Init, MutexOwnership, MainHolding, WorkerHolding
<1>2. Inv1 /\ MutexOwnership /\ [Next]_vars => MutexOwnership'
  <2> SUFFICES ASSUME Inv1, MutexOwnership, [Next]_vars PROVE MutexOwnership'
    OBVIOUS
  <2> USE DEF Inv1, TypeOK, MutexOwnership, MainHolding, WorkerHolding, poolVars, connVars
  <2>1. CASE MainStarts
    BY <2>1 DEF MainStarts, InitFails, CreateFails, PoolReady, Listen
  <2>2. CASE MainAccepts
    BY <2>2 DEF MainAccepts, LoopTest, AcceptFails, Reject, Accept
  <2>3. CASE MainAdds
    BY <2>3 DEF MainAdds, AddTaskLock, QueuePush, QueuePushFails, CondSignal, AddTaskUnlock, Waiting
  <2>4. CASE MainDestroys
    BY <2>4 DEF MainDestroys, DestroyLock, SetExitFlag, CondBroadcast, DestroyUnlock, JoinAll, Drain, DestroyReturns, Waiting
  <2>5. CASE Sigint
    BY <2>5 DEF Sigint
  <2>6. ASSUME NEW w \in Workers, CreateWorker(w) \/ SpuriousWakeup(w) \/ SessionEnds(w)
        PROVE  MutexOwnership'
    BY <2>6 DEF CreateWorker, SpuriousWakeup, SessionEnds
  <2>7. ASSUME NEW w \in Workers, WorkerQueues(w)
        PROVE  MutexOwnership'
    <3>1. CASE WorkerLock(w) \/ WorkerReacquire(w)
      BY <3>1 DEF WorkerLock, WorkerReacquire
    <3>2. CASE WorkerWait(w) \/ WorkerExit(w) \/ WorkerUnlock(w)
      BY <3>2 DEF WorkerWait, WorkerExit, WorkerUnlock
    <3>3. CASE WorkerSeesTask(w) \/ WorkerPop(w) \/ WorkerClose(w)
      BY <3>3 DEF WorkerSeesTask, WorkerPop, WorkerClose
    <3> QED BY <2>7, <3>1, <3>2, <3>3 DEF WorkerQueues
  <2>8. CASE UNCHANGED vars
    BY <2>8 DEF vars
  <2> QED BY <2>1, <2>2, <2>3, <2>4, <2>5, <2>6, <2>7, <2>8 DEF Next, Terminated
<1> QED BY <1>1, <1>2, Inv1Holds, PTL DEF Spec

-----------------------------------------------------------------------------
(* Sleeping, waking and exiting, given who holds the mutex.                *)

Inv2 == Inv1 /\ MutexOwnership

\* Types, control and the mutex together.
LEMMA Inv2Holds == Spec => []Inv2
BY Inv1Holds, MutexIsOwned, PTL DEF Inv2

Wakefulness == PopFindsTask /\ NobodySleepsAtExit /\ ExitLeavesNoTask

\* The three facts about the wait loop need each other: a worker that was told
\* of the exit flag leaves an empty queue behind, one that was not finds a task,
\* and none still sleeps once the flag is broadcast (thread_pool.c:90-93,
\* worker.c:20-36).
LEMMA WakefulnessHolds == Spec => []Wakefulness
<1> USE NamesAssumption
<1>1. Init => Wakefulness
  BY DEF Init, Wakefulness, PopFindsTask, NobodySleepsAtExit, ExitLeavesNoTask
<1>2. Inv2 /\ Wakefulness /\ [Next]_vars => Wakefulness'
  <2> SUFFICES ASSUME Inv2, Wakefulness, [Next]_vars PROVE Wakefulness'
    OBVIOUS
  <2> USE DEF Inv2, Inv1, TypeOK, ControlInv, MutexOwnership, MainHolding, WorkerHolding,
              Wakefulness, PopFindsTask, NobodySleepsAtExit, ExitLeavesNoTask, Waiting,
              poolVars, connVars
  <2>1. CASE MainStarts
    BY <2>1 DEF MainStarts, InitFails, CreateFails, PoolReady, Listen
  <2>2. CASE MainAccepts
    BY <2>2 DEF MainAccepts, LoopTest, AcceptFails, Reject, Accept
  <2>3. CASE MainAdds
    <3>1. CASE QueuePush
      BY <3>1, QueueTypes DEF QueuePush
    <3>2. CASE CondSignal
      BY <3>2 DEF CondSignal
    <3>3. CASE AddTaskLock \/ QueuePushFails \/ AddTaskUnlock
      BY <3>3 DEF AddTaskLock, QueuePushFails, AddTaskUnlock
    <3> QED BY <2>3, <3>1, <3>2, <3>3 DEF MainAdds
  <2>4. CASE MainDestroys
    <3>1. CASE CondBroadcast
      BY <3>1 DEF CondBroadcast
    <3>2. CASE Drain
      \* Whoever has exited left an empty queue behind.
      BY <3>2 DEF Drain
    <3>3. CASE JoinAll \/ DestroyLock \/ SetExitFlag \/ DestroyUnlock \/ DestroyReturns
      BY <3>3 DEF JoinAll, DestroyLock, SetExitFlag, DestroyUnlock, DestroyReturns
    <3> QED BY <2>4, <3>1, <3>2, <3>3 DEF MainDestroys
  <2>5. CASE Sigint
    BY <2>5 DEF Sigint
  <2>6. ASSUME NEW w \in Workers, CreateWorker(w) \/ SpuriousWakeup(w) \/ SessionEnds(w)
        PROVE  Wakefulness'
    BY <2>6 DEF CreateWorker, SpuriousWakeup, SessionEnds
  <2>7. ASSUME NEW w \in Workers, WorkerQueues(w)
        PROVE  Wakefulness'
    <3>1. CASE WorkerPop(w)
      BY <3>1 DEF WorkerPop
    <3>2. CASE WorkerLock(w) \/ WorkerReacquire(w) \/ WorkerWait(w)
      BY <3>2 DEF WorkerLock, WorkerReacquire, WorkerWait
    <3>3. CASE WorkerExit(w) \/ WorkerSeesTask(w)
      BY <3>3 DEF WorkerExit, WorkerSeesTask
    <3>4. CASE WorkerUnlock(w) \/ WorkerClose(w)
      BY <3>4 DEF WorkerUnlock, WorkerClose
    <3> QED BY <2>7, <3>1, <3>2, <3>3, <3>4 DEF WorkerQueues
  <2>8. CASE UNCHANGED vars
    BY <2>8 DEF vars
  <2> QED BY <2>1, <2>2, <2>3, <2>4, <2>5, <2>6, <2>7, <2>8 DEF Next, Terminated
<1> QED BY <1>1, <1>2, Inv2Holds, PTL DEF Spec

\* A worker that goes past the wait loop always finds a task, whoever else
\* was woken for it.
THEOREM PopAlwaysFindsTask == Spec => []PopFindsTask
BY WakefulnessHolds, PTL DEF Wakefulness

\* Nobody is left asleep once destroy has broadcast.
THEOREM NobodySleepsThroughExit == Spec => []NobodySleepsAtExit
BY WakefulnessHolds, PTL DEF Wakefulness

\* A worker exits only after the exit flag is set and with the queue empty.
THEOREM ExitAfterLastTask == Spec => []ExitLeavesNoTask
BY WakefulnessHolds, PTL DEF Wakefulness

-----------------------------------------------------------------------------
(* Where a descriptor is.                                                  *)

\* Appending a descriptor adds it and nothing else, and repeats nothing if the
\* descriptor was not queued.
LEMMA AppendHas ==
  ASSUME NEW S, NEW q \in Seq(S), NEW e \in S
  PROVE  /\ \A c : Has(Append(q, e), c) <=> Has(q, c) \/ c = e
         /\ NoRepeat(q) /\ ~Has(q, e) => NoRepeat(Append(q, e))
<1> DEFINE n == Len(q)
<1>1. /\ n \in Nat /\ DOMAIN q = 1 .. n
      /\ DOMAIN Append(q, e) = 1 .. (n + 1)
      /\ \A i \in 1 .. n : Append(q, e)[i] = q[i]
      /\ Append(q, e)[n + 1] = e
  BY AppendProperties, LenProperties
<1> HIDE DEF n
<1>2. ASSUME NEW c PROVE Has(Append(q, e), c) <=> Has(q, c) \/ c = e
  BY <1>1 DEF Has
<1>3. NoRepeat(q) /\ ~Has(q, e) => NoRepeat(Append(q, e))
  BY <1>1 DEF Has, NoRepeat
<1> QED BY <1>2, <1>3

\* Popping the head of a queue without repetitions removes that descriptor and
\* no other.
LEMMA TailHas ==
  ASSUME NEW S, NEW q \in Seq(S), q # <<>>, NoRepeat(q)
  PROVE  /\ Has(q, Head(q))
         /\ \A c : Has(Tail(q), c) <=> Has(q, c) /\ c # Head(q)
         /\ NoRepeat(Tail(q))
<1> DEFINE n == Len(q)
<1>1. /\ n \in Nat \ {0} /\ DOMAIN q = 1 .. n
      /\ DOMAIN Tail(q) = 1 .. (n - 1)
      /\ \A i \in 1 .. (n - 1) : Tail(q)[i] = q[i + 1]
      /\ Head(q) = q[1]
  BY EmptySeq, HeadTailProperties, LenProperties
<1> HIDE DEF n
<1>2. Has(q, Head(q))
  BY <1>1 DEF Has
<1>3. ASSUME NEW c, Has(Tail(q), c) PROVE Has(q, c) /\ c # Head(q)
  <2>1. PICK i \in 1 .. (n - 1) : q[i + 1] = c
    BY <1>1, <1>3 DEF Has
  <2>2. i + 1 \in 1 .. n /\ i + 1 # 1
    BY <1>1
  <2> QED BY <1>1, <2>1, <2>2 DEF Has, NoRepeat
<1>4. ASSUME NEW c, Has(q, c), c # Head(q) PROVE Has(Tail(q), c)
  <2>1. PICK i \in 1 .. n : q[i] = c
    BY <1>1, <1>4 DEF Has
  <2>2. i - 1 \in 1 .. (n - 1) /\ (i - 1) + 1 = i
    BY <1>1, <1>4, <2>1
  <2> QED BY <1>1, <2>1, <2>2 DEF Has
<1>5. NoRepeat(Tail(q))
  <2> SUFFICES ASSUME NEW i \in 1 .. (n - 1), NEW j \in 1 .. (n - 1), q[i + 1] = q[j + 1]
               PROVE  i = j
    BY <1>1 DEF NoRepeat
  <2>1. i + 1 \in 1 .. n /\ j + 1 \in 1 .. n
    BY <1>1
  <2> QED BY <1>1, <2>1 DEF NoRepeat
<1> QED BY <1>2, <1>3, <1>4, <1>5

Inv3 == Inv2 /\ Wakefulness

\* Everything proved so far, for the arguments about descriptors.
LEMMA Inv3Holds == Spec => []Inv3
BY Inv2Holds, WakefulnessHolds, PTL DEF Inv3

\* Every accepted descriptor has exactly one owner until it is closed, and it
\* is closed once.
THEOREM DescriptorsAreOwned == Spec => []DescriptorOwnership
<1> USE NamesAssumption
<1>1. Init => DescriptorOwnership
  BY DEF Init, DescriptorOwnership, OnePlace, InQueue, AtWorker, Has, NoRepeat
<1>2. Inv3 /\ DescriptorOwnership /\ [Next]_vars => DescriptorOwnership'
  <2> SUFFICES ASSUME Inv3, DescriptorOwnership, [Next]_vars PROVE DescriptorOwnership'
    OBVIOUS
  <2> USE DEF Inv3, Inv2, Inv1, TypeOK, ControlInv, DescriptorOwnership, OnePlace,
              InQueue, AtWorker
  \* Most steps move no descriptor.
  <2>1. CASE UNCHANGED <<queue, connVars>>
    BY <2>1 DEF connVars
  <2>2. ASSUME NEW c \in Conns, Accept(c) PROVE DescriptorOwnership'
    BY <2>2 DEF Accept, poolVars
  <2>3. CASE Reject
    BY <2>3 DEF Reject, poolVars
  <2>4. CASE QueuePush
    <3>1. client \in Conns
      BY <2>4 DEF QueuePush
    <3>2. /\ \A c : Has(queue', c) <=> Has(queue, c) \/ c = client
          /\ NoRepeat(queue')
      BY <2>4, <3>1, AppendHas DEF QueuePush
    <3> QED BY <2>4, <3>1, <3>2 DEF QueuePush
  <2>5. CASE Drain
    <3>1. /\ Head(queue) \in Conns
          /\ Has(queue, Head(queue))
          /\ \A c : Has(queue', c) <=> Has(queue, c) /\ c # Head(queue)
          /\ NoRepeat(queue')
      BY <2>5, QueueTypes, TailHas DEF Drain
    <3> QED BY <2>5, <3>1 DEF Drain
  <2>6. ASSUME NEW w \in Workers, WorkerPop(w) PROVE DescriptorOwnership'
    <3>1. queue # <<>>
      BY <2>6 DEF WorkerPop, Wakefulness, PopFindsTask
    <3>2. /\ Head(queue) \in Conns
          /\ Has(queue, Head(queue))
          /\ \A c : Has(queue', c) <=> Has(queue, c) /\ c # Head(queue)
          /\ NoRepeat(queue')
          /\ cur' = [cur EXCEPT ![w] = Head(queue)]
      BY <2>6, <3>1, QueueTypes, TailHas DEF WorkerPop
    <3>3. cur[w] = None
      BY <2>6 DEF WorkerPop
    <3> QED BY <2>6, <3>2, <3>3 DEF WorkerPop
  <2>7. ASSUME NEW w \in Workers, WorkerClose(w) PROVE DescriptorOwnership'
    <3>1. cur[w] \in Conns
      BY <2>7 DEF WorkerClose
    <3> QED BY <2>7, <3>1 DEF WorkerClose, poolVars
  <2>8. CASE MainStarts
    BY <2>1, <2>8 DEF MainStarts, InitFails, CreateFails, PoolReady, Listen, poolVars
  <2>9. CASE MainAccepts
    BY <2>1, <2>2, <2>3, <2>9 DEF MainAccepts, LoopTest, AcceptFails, poolVars
  <2>10. CASE MainAdds
    BY <2>1, <2>4, <2>10 DEF MainAdds, AddTaskLock, QueuePushFails, CondSignal, AddTaskUnlock, poolVars
  <2>11. CASE MainDestroys
    BY <2>1, <2>5, <2>11 DEF MainDestroys, DestroyLock, SetExitFlag, CondBroadcast, DestroyUnlock,
                             JoinAll, DestroyReturns, poolVars
  <2>12. CASE Sigint
    BY <2>1, <2>12 DEF Sigint, poolVars
  <2>13. ASSUME NEW w \in Workers,
                CreateWorker(w) \/ WorkerQueues(w) \/ SpuriousWakeup(w) \/ SessionEnds(w)
         PROVE  DescriptorOwnership'
    BY <2>1, <2>6, <2>7, <2>13 DEF CreateWorker, SpuriousWakeup, SessionEnds, WorkerQueues, WorkerLock,
         WorkerWait, WorkerReacquire, WorkerExit, WorkerSeesTask, WorkerUnlock, poolVars
  <2> QED BY <2>1, <2>8, <2>9, <2>10, <2>11, <2>12, <2>13 DEF Next, Terminated, vars, connVars
<1> QED BY <1>1, <1>2, Inv3Holds, PTL DEF Spec

\* main() returns with no worker running and no accepted descriptor open.
THEOREM ExitIsClean == Spec => []CleanExit
<1>1. Inv3 /\ DescriptorOwnership => CleanExit
  BY NamesAssumption DEF Inv3, Inv2, Inv1, TypeOK, ControlInv, DescriptorOwnership, OnePlace,
     InQueue, AtWorker, Has, CleanExit
<1> QED BY <1>1, Inv3Holds, DescriptorsAreOwned, PTL

-----------------------------------------------------------------------------
(* The counting argument behind NoLostWakeup.                              *)

\* The workers on their way to the queue can be counted.
LEMMA ComingIsFinite == IsFiniteSet(Coming) /\ Cardinality(Coming) \in Nat
BY WorkersAssumption, FS_Subset, FS_CardinalityType DEF Coming

\* A step that takes no worker off its way to the queue does not lower it.
LEMMA ComingGrows ==
  ASSUME Coming \subseteq Coming'
  PROVE  Cardinality(Coming) <= Cardinality(Coming')
<1>1. IsFiniteSet(Coming')
  BY WorkersAssumption, FS_Subset DEF Coming
<1> QED BY <1>1, FS_Subset

\* While a worker sleeps, every queued connection but the one about to be
\* signalled has a worker on its way to it.
THEOREM WakeupsAreNotLost == Spec => []NoLostWakeup
<1>1. Init => NoLostWakeup
  BY DEF Init, NoLostWakeup, Waiting
<1>2. Inv3 /\ NoLostWakeup /\ [Next]_vars => NoLostWakeup'
  <2> SUFFICES ASSUME Inv3, NoLostWakeup, [Next]_vars, Waiting' # {}
               PROVE  Len(queue') <= Cardinality(Coming') + (IF main' = "signal" THEN 1 ELSE 0)
    BY DEF NoLostWakeup
  <2> USE DEF Inv3, Inv2, Inv1, TypeOK, NoLostWakeup
  <2>1. /\ Cardinality(Coming) \in Nat
        /\ Cardinality(Coming') \in Nat
        /\ Len(queue) \in Nat
    <3>1. IsFiniteSet(Coming')
      BY WorkersAssumption, FS_Subset DEF Coming
    <3> QED BY <3>1, ComingIsFinite, FS_CardinalityType, LenProperties
  \* A step that shortens nothing and adds no task cannot break the count.
  <2>2. ASSUME Waiting # {}, Coming \subseteq Coming', Len(queue') <= Len(queue),
               Len(queue') \in Nat, main = "signal" => main' = "signal"
        PROVE  Len(queue') <= Cardinality(Coming') + (IF main' = "signal" THEN 1 ELSE 0)
    BY <2>1, <2>2, ComingGrows
  <2>3. CASE queue' = <<>>
    BY <2>1, <2>3, EmptySeq
  <2>4. CASE QueuePush
    <3>1. Len(queue') = Len(queue) + 1
      BY <2>4, AppendProperties, NamesAssumption DEF QueuePush, ControlInv
    <3>2. Coming' = Coming /\ Waiting' = Waiting
      BY <2>4 DEF QueuePush, Coming, Waiting
    <3>3. Len(queue) <= Cardinality(Coming)
      BY <2>1, <2>4, <3>2 DEF QueuePush
    <3> QED BY <2>1, <2>4, <3>1, <3>2, <3>3 DEF QueuePush
  <2>5. CASE CondSignal
    <3>1. PICK w \in Waiting : pc' = [pc EXCEPT ![w] = "woken"]
      BY <2>5 DEF CondSignal, Waiting
    <3>2. Coming' = Coming \cup {w} /\ w \notin Coming
      BY <3>1 DEF Coming, Waiting
    <3>3. Cardinality(Coming') = Cardinality(Coming) + 1
      BY <3>2, ComingIsFinite, FS_AddElement
    <3>4. Len(queue) <= Cardinality(Coming) + 1 /\ queue' = queue /\ main' = "unlock"
      BY <2>5, <3>1 DEF CondSignal, poolVars
    <3> QED BY <2>1, <3>3, <3>4
  <2>6. ASSUME NEW w \in Workers, WorkerPop(w) PROVE
          Len(queue') <= Cardinality(Coming') + (IF main' = "signal" THEN 1 ELSE 0)
    <3>1. queue # <<>>
      BY <2>6 DEF WorkerPop, Wakefulness, PopFindsTask
    <3>2. Len(queue') = Len(queue) - 1
      BY <2>6, <3>1, HeadTailProperties DEF WorkerPop
    <3>3. Coming' = Coming \ {w} /\ w \in Coming /\ Waiting' = Waiting
      BY <2>6 DEF WorkerPop, Coming, Waiting
    <3>4. Cardinality(Coming') = Cardinality(Coming) - 1
      BY <3>3, ComingIsFinite, FS_RemoveElement
    <3>5. main' = main
      BY <2>6 DEF WorkerPop
    <3> QED BY <2>1, <3>2, <3>3, <3>4, <3>5
  <2>7. CASE Drain
    <3>1. Len(queue') = Len(queue) - 1
      BY <2>7, HeadTailProperties DEF Drain
    <3> QED BY <2>1, <2>2, <2>7, <3>1 DEF Drain, Coming, Waiting
  <2>8. CASE MainStarts \/ Sigint \/ UNCHANGED vars
    BY <2>1, <2>2, <2>8 DEF MainStarts, InitFails, CreateFails, PoolReady, Listen, Sigint, vars,
                            poolVars, Coming, Waiting
  <2>9. CASE MainAccepts
    BY <2>1, <2>2, <2>9 DEF MainAccepts, LoopTest, AcceptFails, Reject, Accept, poolVars, Coming, Waiting
  <2>10. CASE MainAdds
    BY <2>1, <2>2, <2>4, <2>5, <2>10
       DEF MainAdds, AddTaskLock, QueuePushFails, AddTaskUnlock, poolVars, Coming, Waiting
  <2>11. CASE MainDestroys
    <3>1. CASE CondBroadcast
      BY <3>1 DEF CondBroadcast, Waiting
    <3> QED BY <2>1, <2>2, <2>7, <2>11, <3>1
       DEF MainDestroys, DestroyLock, SetExitFlag, DestroyUnlock, JoinAll, DestroyReturns, poolVars,
           Coming, Waiting
  <2>12. ASSUME NEW w \in Workers,
                CreateWorker(w) \/ WorkerQueues(w) \/ SpuriousWakeup(w) \/ SessionEnds(w)
         PROVE  Len(queue') <= Cardinality(Coming') + (IF main' = "signal" THEN 1 ELSE 0)
    <3>1. CASE CreateWorker(w) \/ SpuriousWakeup(w) \/ SessionEnds(w)
      BY <2>1, <2>2, <3>1 DEF CreateWorker, SpuriousWakeup, SessionEnds, poolVars, Coming, Waiting
    <3>2. CASE WorkerLock(w) \/ WorkerReacquire(w) \/ WorkerSeesTask(w)
      BY <2>1, <2>2, <3>2 DEF WorkerLock, WorkerReacquire, WorkerSeesTask, poolVars, Coming, Waiting
    <3>3. CASE WorkerWait(w) \/ WorkerExit(w)
      BY <2>3, <3>3 DEF WorkerWait, WorkerExit
    <3>4. CASE WorkerUnlock(w) \/ WorkerClose(w)
      BY <2>1, <2>2, <3>4 DEF WorkerUnlock, WorkerClose, poolVars, Coming, Waiting
    <3> QED BY <2>6, <2>12, <3>1, <3>2, <3>3, <3>4 DEF WorkerQueues
  <2> QED BY <2>8, <2>9, <2>10, <2>11, <2>12 DEF Next, Terminated
<1> QED BY <1>1, <1>2, Inv3Holds, PTL DEF Spec

-----------------------------------------------------------------------------
(* The pool implements the connection service.                             *)

Inv4 == Inv3 /\ DescriptorOwnership

\* The invariant under which every step is a step of the abstract service.
LEMMA Inv4Holds == Spec => []Inv4
BY Inv3Holds, DescriptorsAreOwned, PTL DEF Inv4

\* A step that moves no descriptor, and does not end main(), is invisible.
LEMMA Invisible ==
  ASSUME UNCHANGED <<queue, connVars>>, main' = "done" <=> main = "done"
  PROVE  UNCHANGED Service!serviceVars
BY DEF Service!serviceVars, connVars

\* Every step of the threads is a step of the abstract service or invisible to
\* it: connections are served in queue order, each by one worker, each closed
\* once, and none is dropped while there is a worker.
THEOREM ImplementsService == Spec => ServiceSpec
<1> USE NamesAssumption
<1>1. Init => Service!Init
  BY DEF Init, Service!Init
<1>2. Inv4 /\ [Next]_vars => [Service!Next]_Service!serviceVars
  <2> SUFFICES ASSUME Inv4, [Next]_vars PROVE Service!Next \/ UNCHANGED Service!serviceVars
    OBVIOUS
  <2> USE DEF Inv4, Inv3, Inv2, Inv1, TypeOK, ControlInv
  <2>1. ASSUME NEW c \in Conns, Accept(c) PROVE Service!Arrive(c)
    BY <2>1 DEF Accept, poolVars, Service!Arrive, Service!Unknown, Service!InLine, Service!AtDesk,
                DescriptorOwnership, InQueue, AtWorker, Has
  <2>2. CASE Reject
    <3>1. {c \in Conns : closes'[c] > 0} = {c \in Conns : closes[c] > 0} \cup {client}
      BY <2>2 DEF Reject
    <3>2. Service!TurnAway
      BY <2>2, <3>1 DEF Reject, poolVars, Service!TurnAway
    <3> QED BY <3>2 DEF Service!Next
  <2>3. CASE QueuePush
    <3>1. Service!JoinLine
      BY <2>3 DEF QueuePush, Service!JoinLine
    <3> QED BY <3>1 DEF Service!Next
  <2>4. ASSUME NEW w \in Workers, WorkerPop(w) PROVE Service!Serve(w)
    BY <2>4 DEF WorkerPop, Wakefulness, PopFindsTask, Service!Serve
  <2>5. ASSUME NEW w \in Workers, WorkerClose(w) PROVE Service!Leave(w)
    <3>1. cur[w] \in Conns /\ closes[cur[w]] = 0
      BY <2>5 DEF WorkerClose, DescriptorOwnership, AtWorker
    <3>2. {c \in Conns : closes'[c] > 0} = {c \in Conns : closes[c] > 0} \cup {cur[w]}
      BY <2>5, <3>1 DEF WorkerClose
    <3> QED BY <2>5, <3>1, <3>2 DEF WorkerClose, poolVars, Service!Leave
  <2>6. CASE Drain
    <3>1. Head(queue) \in Conns /\ InQueue(Head(queue))
      BY <2>6, QueueTypes, TailHas DEF Drain, DescriptorOwnership, OnePlace, InQueue
    <3>2. closes[Head(queue)] = 0
      BY <3>1 DEF DescriptorOwnership
    <3>3. {c \in Conns : closes'[c] > 0} = {c \in Conns : closes[c] > 0} \cup {Head(queue)}
      BY <2>6, <3>1 DEF Drain
    \* With a worker there would be one that has exited, leaving nothing queued.
    <3>4. Workers = {}
      BY <2>6 DEF Drain, Wakefulness, ExitLeavesNoTask
    <3>5. Service!Drop
      BY <2>6, <3>1, <3>2, <3>3, <3>4 DEF Drain, Service!Drop
    <3> QED BY <3>5 DEF Service!Next
  <2>7. CASE DestroyReturns \/ InitFails
    <3>1. /\ main # "done" /\ main' = "done" /\ queue = <<>> /\ UNCHANGED <<queue, connVars>>
          /\ client = None /\ \A w \in Workers : cur[w] = None
      BY <2>7 DEF DestroyReturns, InitFails, Created, poolVars
    <3>2. Service!End
      BY <3>1 DEF Service!End, connVars
    <3> QED BY <3>2 DEF Service!Next
  <2>8. CASE MainStarts
    <3>1. CASE CreateFails \/ PoolReady \/ Listen
      BY <3>1, Invisible DEF CreateFails, PoolReady, Listen, poolVars
    <3> QED BY <2>7, <2>8, <3>1 DEF MainStarts
  <2>9. CASE MainAccepts
    <3>1. CASE LoopTest \/ AcceptFails
      BY <3>1, Invisible DEF LoopTest, AcceptFails, poolVars
    <3> QED BY <2>1, <2>2, <2>9, <3>1 DEF MainAccepts, Service!Next
  <2>10. CASE MainAdds
    <3>1. CASE AddTaskLock \/ QueuePushFails \/ CondSignal \/ AddTaskUnlock
      BY <3>1, Invisible DEF AddTaskLock, QueuePushFails, CondSignal, AddTaskUnlock, poolVars
    <3> QED BY <2>3, <2>10, <3>1 DEF MainAdds
  <2>11. CASE MainDestroys
    <3>1. CASE DestroyLock \/ SetExitFlag \/ CondBroadcast \/ DestroyUnlock \/ JoinAll
      BY <3>1, Invisible DEF DestroyLock, SetExitFlag, CondBroadcast, DestroyUnlock, JoinAll, poolVars
    <3> QED BY <2>6, <2>7, <2>11, <3>1 DEF MainDestroys
  <2>12. CASE Sigint \/ UNCHANGED vars
    BY <2>12, Invisible DEF Sigint, poolVars, connVars, vars
  <2>13. ASSUME NEW w \in Workers,
                CreateWorker(w) \/ WorkerQueues(w) \/ SpuriousWakeup(w) \/ SessionEnds(w)
         PROVE  Service!Next \/ UNCHANGED Service!serviceVars
    <3>1. CASE \/ CreateWorker(w) \/ SpuriousWakeup(w) \/ SessionEnds(w) \/ WorkerLock(w)
               \/ WorkerWait(w) \/ WorkerReacquire(w) \/ WorkerExit(w) \/ WorkerSeesTask(w)
               \/ WorkerUnlock(w)
      BY <3>1, Invisible DEF CreateWorker, SpuriousWakeup, SessionEnds, WorkerLock, WorkerWait,
         WorkerReacquire, WorkerExit, WorkerSeesTask, WorkerUnlock, poolVars
    <3> QED BY <2>4, <2>5, <2>13, <3>1 DEF WorkerQueues, Service!Next
  <2> QED BY <2>8, <2>9, <2>10, <2>11, <2>12, <2>13 DEF Next, Terminated
<1> QED BY <1>1, <1>2, Inv4Holds, PTL DEF Spec, ServiceSpec, Service!Spec

-----------------------------------------------------------------------------
(* The task queue.                                                         *)

\* Every pointer points to a node or is NULL, and every node holds a
\* descriptor.
Inv == ListTypeOK /\ ListIsWhole

\* A node that was free is at none of the places of the list.
LEMMA FreshNode ==
  ASSUME Inv, NEW n \in Nodes \ live
  PROVE  \A i \in 1 .. Len(order) : order[i] \in Nodes /\ order[i] # n
BY DEF Inv, ListTypeOK, ListIsWhole

\* The counter is zero when the list is empty, and else both ends are nodes.
LEMMA Ends ==
  ASSUME Inv
  PROVE  /\ size = 0 <=> order = <<>>
         /\ order # <<>> => /\ 1 \in 1 .. Len(order) /\ Len(order) \in 1 .. Len(order)
                            /\ head \in Nodes /\ tail \in Nodes
BY DEF Inv, ListTypeOK, ListIsWhole

\* queue_push leaves a whole list, one node longer.
LEMMA PushKeeps ==
  ASSUME Inv, NEW fd \in Fds, Push(fd)
  PROVE  Inv'
<1>1. PICK n \in Nodes \ live :
        /\ live' = live \cup {n}
        /\ cell' = [a \in Nodes |->
                      CASE a = n -> [client_fd |-> fd, next |-> NULL]
                        [] a # n /\ a = tail /\ size # 0 -> [cell[a] EXCEPT !.next = n]
                        [] OTHER -> cell[a]]
        /\ head' = IF size = 0 THEN n ELSE head
        /\ tail' = n
        /\ size' = size + 1
        /\ order' = Append(order, n)
        /\ got' = got
  BY DEF Push
<1> DEFINE k == Len(order)
<1>2. /\ k \in Nat /\ order \in Seq(Nodes) /\ order' \in Seq(Nodes) /\ Len(order') = k + 1
      /\ \A i \in 1 .. k : order'[i] = order[i]
      /\ order'[k + 1] = n /\ order' # <<>>
  BY <1>1 DEF Inv, ListTypeOK
<1>3. \A a \in Nodes : cell'[a] \in Node
  BY <1>1 DEF Inv, ListTypeOK, Node
<1>4. ListTypeOK'
  BY <1>1, <1>2, <1>3 DEF Inv, ListTypeOK
<1>5. /\ cell'[n].next = NULL
      /\ \A a \in Nodes : a # n /\ (a # tail \/ size = 0) => cell'[a] = cell[a]
      /\ size # 0 => cell'[tail].next = n
  <2>1. size # 0 => tail \in live
    BY Ends DEF Inv, ListIsWhole
  <2> QED BY <1>1, <2>1, Ends DEF Inv, ListTypeOK, Node
<1>6. ListIsWhole'
  <2>1. size' = Len(order')
    BY <1>1, <1>2 DEF Inv, ListIsWhole
  <2>2. live' = {order'[i] : i \in 1 .. Len(order')}
    BY <1>1, <1>2 DEF Inv, ListIsWhole
  <2>3. \A i, j \in 1 .. Len(order') : order'[i] = order'[j] => i = j
    BY <1>2, FreshNode DEF Inv, ListIsWhole
  <2>4. head' = order'[1] /\ tail' = order'[Len(order')]
    BY <1>1, <1>2, Ends DEF Inv, ListIsWhole
  <2>5. ASSUME NEW i \in 1 .. Len(order')
        PROVE  cell'[order'[i]].next = IF i = Len(order') THEN NULL ELSE order'[i + 1]
    <3>1. CASE i = k + 1
      BY <1>2, <1>5, <3>1
    <3>2. CASE i = k
      <4>1. order'[i] = tail /\ size # 0 /\ order'[i + 1] = n /\ i # Len(order')
        BY <1>2, <3>2 DEF Inv, ListIsWhole
      <4> QED BY <4>1, <1>5
    <3>3. CASE i < k
      <4>1. i \in 1 .. k /\ i + 1 \in 1 .. k /\ k \in 1 .. k /\ i # k
        BY <1>2, <3>3
      <4>2. order'[i] = order[i] /\ order'[i + 1] = order[i + 1]
        BY <1>2, <4>1
      <4>3. order[i] # tail /\ order[i] # n /\ order[i] \in Nodes
        BY <4>1, FreshNode, Ends DEF Inv, ListIsWhole
      <4>4. cell'[order[i]] = cell[order[i]]
        BY <4>3, <1>5
      <4> QED BY <4>1, <4>2, <4>4, <1>2 DEF Inv, ListIsWhole
    <3> QED BY <1>2, <3>1, <3>2, <3>3
  <2> QED BY <2>1, <2>2, <2>3, <2>4, <2>5, <1>2 DEF ListIsWhole
<1> QED BY <1>4, <1>6 DEF Inv

\* queue_pop leaves a whole list, one node shorter.
LEMMA PopKeeps ==
  ASSUME Inv, Pop
  PROVE  Inv'
<1> DEFINE k == Len(order)
<1>1. /\ order # <<>> /\ k \in Nat \ {0} /\ head = order[1] /\ tail = order[k]
      /\ head \in Nodes
  BY Ends DEF Inv, ListTypeOK, ListIsWhole, Pop
<1>2. /\ order' \in Seq(Nodes) /\ Len(order') = k - 1
      /\ \A i \in 1 .. k - 1 : order'[i] = order[i + 1]
  BY <1>1 DEF Inv, ListTypeOK, Pop
<1>3. ListTypeOK'
  BY <1>1, <1>2 DEF Inv, ListTypeOK, ListIsWhole, Pop, Node
<1>4. head' = IF k = 1 THEN NULL ELSE order[2]
  BY <1>1 DEF Inv, ListIsWhole, Pop
<1>5. ListIsWhole'
  <2>1. size' = Len(order')
    BY <1>1, <1>2 DEF Inv, ListIsWhole, Pop
  <2>2. \A i \in 2 .. k : i \in 1 .. k /\ i # 1 /\ order[i] # order[1] /\ order'[i - 1] = order[i]
    BY <1>1, <1>2 DEF Inv, ListIsWhole
  <2>3. live' = {order'[i] : i \in 1 .. Len(order')}
    <3>1. ASSUME NEW a \in live'
          PROVE  \E j \in 1 .. Len(order') : a = order'[j]
      <4>1. PICK i \in 1 .. k : a = order[i]
        BY <3>1 DEF Inv, ListIsWhole, Pop
      <4>2. i # 1
        BY <3>1, <4>1, <1>1 DEF Pop
      <4>3. i - 1 \in 1 .. Len(order') /\ a = order'[i - 1]
        BY <4>1, <4>2, <1>1, <1>2, <2>2
      <4> QED BY <4>3
    <3>2. ASSUME NEW j \in 1 .. Len(order')
          PROVE  order'[j] \in live'
      <4>1. j + 1 \in 2 .. k /\ j + 1 \in 1 .. k /\ order'[j] = order[j + 1]
        BY <1>1, <1>2
      <4>2. order[j + 1] \in live /\ order[j + 1] # head
        BY <4>1, <2>2, <1>1 DEF Inv, ListIsWhole
      <4> QED BY <4>1, <4>2 DEF Pop
    <3> QED BY <3>1, <3>2
  <2>4. \A i, j \in 1 .. Len(order') : order'[i] = order'[j] => i = j
    <3> TAKE i, j \in 1 .. Len(order')
    <3>1. i + 1 \in 1 .. k /\ j + 1 \in 1 .. k /\ i \in Nat /\ j \in Nat
          /\ order'[i] = order[i + 1] /\ order'[j] = order[j + 1]
      BY <1>1, <1>2
    <3>2. order[i + 1] = order[j + 1] => i + 1 = j + 1
      BY <3>1 DEF Inv, ListIsWhole
    <3> QED BY <3>1, <3>2
  <2>5. IF order' = <<>>
          THEN head' = NULL /\ tail' = NULL
          ELSE head' = order'[1] /\ tail' = order'[Len(order')]
    <3>1. CASE k = 1
      BY <3>1, <1>2, <1>4 DEF Pop
    <3>2. CASE k # 1
      <4>1. /\ k - 1 \in 1 .. k - 1 /\ 1 \in 1 .. k - 1 /\ order' # <<>>
            /\ order'[1] = order[2] /\ order'[k - 1] = order[k]
        BY <3>2, <1>1, <1>2
      <4>2. head' = order[2]
        BY <3>2, <1>4
      <4>3. k \in Nat /\ k >= 2
        BY <3>2, <1>1
      <4>4. order[2] \in Nodes
        BY <4>3, 2 \in 1 .. k DEF Inv, ListTypeOK
      <4> QED BY <4>1, <4>2, <4>4, <1>1, <1>2, AddressAssumption DEF Pop
    <3> QED BY <3>1, <3>2
  <2>6. ASSUME NEW i \in 1 .. Len(order')
        PROVE  cell'[order'[i]].next = IF i = Len(order') THEN NULL ELSE order'[i + 1]
    <3>1. i \in Nat /\ i + 1 \in 1 .. k /\ order'[i] = order[i + 1]
      BY <1>1, <1>2
    <3>2. cell[order[i + 1]].next = IF i + 1 = k THEN NULL ELSE order[i + 2]
      BY <3>1, <1>1 DEF Inv, ListIsWhole
    <3>3. i + 1 # k => order'[i + 1] = order[i + 2]
      BY <3>1, <1>1, <1>2
    <3>4. i = Len(order') <=> i + 1 = k
      BY <3>1, <1>1, <1>2
    <3> QED BY <3>1, <3>2, <3>3, <3>4 DEF Pop
  <2> QED BY <2>1, <2>3, <2>4, <2>5, <2>6 DEF ListIsWhole
<1> QED BY <1>3, <1>5 DEF Inv

\* The abstract queue is a sequence of descriptors as long as the list.
LEMMA ContentsTypes ==
  ASSUME Inv
  PROVE  Contents \in Seq(Fds \cup {NoFd}) /\ Len(Contents) = Len(order)
<1>1. Len(order) \in Nat /\ \A i \in 1 .. Len(order) : order[i] \in Nodes
  BY DEF Inv, ListTypeOK
<1>2. \A a \in Nodes : cell[a].client_fd \in Fds \cup {NoFd}
  BY DEF Inv, ListTypeOK, Node
<1>3. \A i \in 1 .. Len(order) : cell[order[i]].client_fd \in Fds \cup {NoFd}
  BY <1>1, <1>2
<1> QED BY <1>1, <1>3 DEF Contents

\* queue_pop takes the oldest descriptor off the queue and stores it.
LEMMA PopTakes ==
  ASSUME Inv, Pop
  PROVE  /\ Contents # <<>>
         /\ got' = Head(Contents)
         /\ Contents' = Tail(Contents)
<1> DEFINE k == Len(order)
<1>1. /\ order # <<>> /\ k \in Nat \ {0} /\ head = order[1] /\ head \in Nodes
      /\ order' = Tail(order) /\ cell' = cell /\ order \in Seq(Nodes)
  BY Ends DEF Inv, ListTypeOK, ListIsWhole, Pop
<1>2. Contents \in Seq(Fds \cup {NoFd}) /\ Len(Contents) = k /\ Contents # <<>>
  BY <1>1, ContentsTypes
<1>3. got' = Head(Contents)
  BY <1>1, <1>2 DEF Contents, Pop
<1>4. Contents' = Tail(Contents)
  <2>1. Len(Tail(Contents)) = k - 1 /\ Len(order') = k - 1
    BY <1>1, <1>2
  <2>2. \A i \in 1 .. k - 1 : Contents'[i] = Tail(Contents)[i]
    BY <1>1, <1>2, <2>1 DEF Contents
  <2> QED BY <1>1, <1>2, <2>1, <2>2 DEF Contents
<1> QED BY <1>2, <1>3, <1>4

\* queue_push puts its descriptor behind the others.
LEMMA PushPuts ==
  ASSUME Inv, NEW fd \in Fds, Push(fd)
  PROVE  Contents' = Append(Contents, fd) /\ got' = got
<1>1. PICK n \in Nodes \ live : /\ order' = Append(order, n) /\ got' = got
                                /\ cell'[n].client_fd = fd
                                /\ \A a \in Nodes : a # n => cell'[a].client_fd = cell[a].client_fd
  BY DEF Push, Inv, ListTypeOK, Node
<1> DEFINE k == Len(order)
<1>2. /\ k \in Nat /\ Len(order') = k + 1 /\ order'[k + 1] = n
      /\ \A i \in 1 .. k : order'[i] = order[i] /\ order[i] \in Nodes /\ order[i] # n
  BY <1>1, FreshNode DEF Inv, ListTypeOK
<1>3. Contents \in Seq(Fds \cup {NoFd}) /\ Len(Contents) = k
  BY ContentsTypes
<1>4. \A i \in 1 .. k + 1 : Contents'[i] = Append(Contents, fd)[i]
  BY <1>1, <1>2, <1>3 DEF Contents
<1>5. Contents' = Append(Contents, fd)
  BY <1>2, <1>3, <1>4 DEF Contents
<1> QED BY <1>1, <1>5

\* Types and the shape of the list are one inductive invariant.
LEMMA InvHolds == QueueSpec => []Inv
<1>1. QueueInit => Inv
  BY DEF QueueInit, Inv, ListTypeOK, ListIsWhole, Node
<1>2. Inv /\ [QueueNext]_listVars => Inv'
  <2> SUFFICES ASSUME Inv, [QueueNext]_listVars PROVE Inv'
    OBVIOUS
  <2>1. CASE UNCHANGED listVars
    BY <2>1 DEF listVars, queueVars, Inv, ListTypeOK, ListIsWhole
  <2>2. CASE Pop
    BY <2>2, PopKeeps
  <2>3. ASSUME NEW fd \in Fds, Push(fd) PROVE Inv'
    BY <2>3, PushKeeps
  <2> QED BY <2>1, <2>2, <2>3 DEF QueueNext, PopEmpty, PushFails
<1> QED BY <1>1, <1>2, PTL DEF QueueSpec

\* The pointers and the counter always describe one list of exactly the
\* allocated nodes: nothing leaks, and nothing freed is reached.
THEOREM ListAlwaysWhole == QueueSpec => []ListIsWhole
BY InvHolds, PTL DEF Inv

\* The linked list implements the queue its callers rely on.
THEOREM ListIsFifo == QueueSpec => FifoSpec
<1>1. QueueInit => Line!Init
  BY DEF QueueInit, Line!Init, Contents
<1>2. Inv /\ [QueueNext]_listVars => [Line!Next]_<<Contents, got>>
  <2> SUFFICES ASSUME Inv, [QueueNext]_listVars PROVE [Line!Next]_<<Contents, got>>
    OBVIOUS
  <2>1. CASE UNCHANGED listVars
    BY <2>1 DEF listVars, queueVars, Contents
  <2>2. CASE Pop
    BY <2>2, PopTakes, Ends DEF Pop, Line!Next, Line!Take
  <2>3. ASSUME NEW fd \in Fds, Push(fd) PROVE Line!Put(fd)
    BY <2>3, PushPuts DEF Line!Put
  <2> QED BY <2>1, <2>2, <2>3 DEF QueueNext, PopEmpty, PushFails, Line!Next
<1> QED BY <1>1, <1>2, InvHolds, PTL DEF QueueSpec, FifoSpec, Line!Spec

-----------------------------------------------------------------------------
(* The pool on the list.                                                   *)

\* A step of the pool on the list is a step of the pool.
LEMMA PoolRuns == PoolSpec => Spec
<1>1. PoolInit => Init
  BY DEF PoolInit
<1>2. [PoolNext]_memory => [Next]_vars
  BY DEF PoolNext, memory
<1> QED BY <1>1, <1>2, PTL DEF PoolSpec, Spec

\* The pool pushes only descriptors, so that its steps are steps of the list.
LEMMA ListStepIsStep ==
  ASSUME Inv1, PoolNext
  PROVE  [QueueNext]_listVars
<1>1. main = "push" => client \in Fds
  BY SharedAssumption DEF Inv1, TypeOK, ControlInv
<1> QED BY <1>1 DEF PoolNext, ListStep, QueueNext

\* The pool runs the list as its callers do in TaskQueue.
THEOREM PoolRunsList == PoolSpec => QueueSpec
<1>1. PoolInit => QueueInit
  BY DEF PoolInit
<1>2. Inv1 /\ [PoolNext]_memory => [QueueNext]_listVars
  BY ListStepIsStep DEF memory
<1> QED BY <1>1, <1>2, PoolRuns, Inv1Holds, PTL DEF PoolSpec, QueueSpec

-----------------------------------------------------------------------------
PoolInv == Inv /\ Inv3

\* The list's invariant and the pool's hold together.
LEMMA PoolInvHolds == PoolSpec => []PoolInv
BY PoolRuns, PoolRunsList, InvHolds, Inv3Holds, PTL DEF PoolInv

\* What ListIsTheQueue says is kept by a step that leaves list and queue alone
\* and in which no worker pops.
LEMMA Untouched ==
  ASSUME ListIsTheQueue, UNCHANGED <<listVars, queue>>,
         \A w \in Workers : pc'[w] = "popped" => pc[w] = "popped" /\ cur'[w] = cur[w]
  PROVE  ListIsTheQueue'
BY DEF ListIsTheQueue, Contents, listVars, queueVars

\* A step of the main thread that does not touch the queue.
LEMMA MainElsewhere ==
  ASSUME Inv1, ListIsTheQueue, ListStep, main # "push", UNCHANGED <<queue, cur>>,
         \A w \in Workers : pc'[w] \in {pc[w], "woken", "lock"},
         \A w \in Workers : pc[w] = "pop" => pc'[w] = "pop"
  PROVE  ListIsTheQueue'
<1>1. UNCHANGED listVars
  BY DEF ListStep, Pops
<1> QED BY <1>1, Untouched

\* The list is empty exactly when the queue is.
LEMMA BothEmpty ==
  ASSUME Inv, ListIsTheQueue
  PROVE  size = 0 <=> queue = <<>>
<1>1. Len(Contents) = Len(order) /\ order \in Seq(Nodes) /\ Contents \in Seq(Fds \cup {NoFd})
  BY ContentsTypes DEF Inv, ListTypeOK
<1> QED BY <1>1, Ends DEF ListIsTheQueue

\* The linked list holds what the pool has queued, in its order, and a worker
\* that has popped owns what queue_pop stored.
THEOREM ListHoldsQueue == PoolSpec => []ListIsTheQueue
<1>1. PoolInit => ListIsTheQueue
  BY DEF PoolInit, Init, QueueInit, ListIsTheQueue, Contents
<1>2. PoolInv /\ ListIsTheQueue /\ [PoolNext]_memory => ListIsTheQueue'
  <2> SUFFICES ASSUME PoolInv, ListIsTheQueue, [PoolNext]_memory PROVE ListIsTheQueue'
    OBVIOUS
  <2>0. CASE UNCHANGED memory
    BY <2>0, Untouched DEF memory, vars
  <2> SUFFICES ASSUME Next, ListStep PROVE ListIsTheQueue'
    BY <2>0 DEF PoolNext
  <2> USE DEF PoolInv, Inv3, Inv2, Inv1, TypeOK, poolVars, connVars
  <2>1. CASE MainStarts \/ MainAccepts
    <3>1. main # "push" /\ UNCHANGED <<pc, queue, cur>>
      BY <2>1 DEF MainStarts, InitFails, CreateFails, PoolReady, Listen,
                  MainAccepts, LoopTest, AcceptFails, Reject, Accept
    <3> QED BY <3>1, MainElsewhere
  <2>2. CASE QueuePush
    <3>1. Push(client) /\ client \in Fds
      BY <2>2, SharedAssumption DEF QueuePush, ListStep, Pops, ControlInv
    <3>2. Contents' = Append(Contents, client) /\ got' = got
      BY <3>1, PushPuts
    <3> QED BY <3>2, <2>2 DEF QueuePush, ListIsTheQueue
  <2>3. CASE QueuePushFails
    <3>1. UNCHANGED listVars
      BY <2>3 DEF QueuePushFails, ListStep, Pops, PushFails
    <3> QED BY <3>1, <2>3, Untouched DEF QueuePushFails
  <2>4. CASE AddTaskLock \/ CondSignal \/ AddTaskUnlock
    <3>1. main # "push" /\ UNCHANGED <<queue, cur>>
      BY <2>4 DEF AddTaskLock, CondSignal, AddTaskUnlock
    <3>2. \A w \in Workers : pc'[w] \in {pc[w], "woken"} /\ (pc[w] = "pop" => pc'[w] = "pop")
      BY <2>4 DEF AddTaskLock, CondSignal, AddTaskUnlock, Waiting
    <3> QED BY <3>1, <3>2, MainElsewhere
  <2>5. CASE Drain
    <3>1. Pops /\ main = "drain"
      <4>1. Len(Tail(queue)) = Len(queue) - 1 /\ Len(queue) \in Nat
        BY <2>5 DEF Drain
      <4> QED BY <4>1, <2>5 DEF Drain, Pops
    <3>2. size # 0
      BY <2>5, BothEmpty DEF Drain
    <3>3. Pop
      BY <3>1, <3>2 DEF ListStep
    <3>4. Contents' = queue'
      BY <3>3, PopTakes, <2>5 DEF Drain, ListIsTheQueue
    <3>5. \A w \in Workers : pc'[w] # "popped"
      BY <2>5 DEF Drain, ControlInv
    <3> QED BY <3>4, <3>5 DEF ListIsTheQueue
  <2>6. CASE DestroyLock \/ SetExitFlag \/ CondBroadcast \/ DestroyUnlock \/ JoinAll \/ DestroyReturns
    <3>1. main # "push" /\ UNCHANGED <<queue, cur>>
      BY <2>6 DEF DestroyLock, SetExitFlag, CondBroadcast, DestroyUnlock, JoinAll, DestroyReturns
    <3>2. \A w \in Workers : pc'[w] \in {pc[w], "woken"} /\ (pc[w] = "pop" => pc'[w] = "pop")
      BY <2>6 DEF DestroyLock, SetExitFlag, CondBroadcast, DestroyUnlock, JoinAll, DestroyReturns, Waiting
    <3> QED BY <3>1, <3>2, MainElsewhere
  <2>7. CASE Sigint \/ Terminated
    <3>1. UNCHANGED <<main, pc, queue, cur>>
      BY <2>7 DEF Sigint, Terminated, vars
    <3>2. UNCHANGED listVars
      BY <3>1 DEF ListStep, Pops
    <3> QED BY <3>1, <3>2, Untouched
  <2>8. ASSUME NEW w \in Workers,
               CreateWorker(w) \/ SpuriousWakeup(w) \/ SessionEnds(w) \/ WorkerClose(w)
        PROVE  ListIsTheQueue'
    <3>1. /\ UNCHANGED <<main, queue>> /\ pc[w] # "pop" /\ pc'[w] # "popped"
          /\ \A v \in Workers : v # w => pc'[v] = pc[v] /\ cur'[v] = cur[v]
      BY <2>8 DEF CreateWorker, SpuriousWakeup, SessionEnds, WorkerClose
    <3>2. UNCHANGED listVars
      BY <3>1 DEF ListStep, Pops
    <3> QED BY <3>1, <3>2, Untouched
  <2>9. ASSUME NEW w \in Workers, WorkerPop(w)
        PROVE  ListIsTheQueue'
    <3>1. Pops /\ main # "push"
      BY <2>9, NamesAssumption DEF WorkerPop, Pops, MutexOwnership, MainHolding, WorkerHolding
    <3>2. \A v \in Workers : v # w => pc'[v] # "popped"
      BY <2>9, NamesAssumption DEF WorkerPop, MutexOwnership, WorkerHolding
    <3>3. CASE queue # <<>>
      <4>1. Pop
        BY <3>1, <3>3, BothEmpty DEF ListStep
      <4> QED BY <4>1, <3>2, <3>3, <2>9, PopTakes DEF WorkerPop, ListIsTheQueue
    <3>4. CASE queue = <<>>
      BY <3>4, <2>9 DEF WorkerPop, Wakefulness, PopFindsTask
    <3> QED BY <3>3, <3>4
  <2>10. ASSUME NEW w \in Workers,
                WorkerLock(w) \/ WorkerWait(w) \/ WorkerReacquire(w) \/ WorkerExit(w)
                  \/ WorkerSeesTask(w) \/ WorkerUnlock(w)
         PROVE  ListIsTheQueue'
    <3>1. /\ UNCHANGED <<main, queue>> /\ pc[w] # "pop" /\ pc'[w] # "popped"
          /\ \A v \in Workers : v # w => pc'[v] = pc[v] /\ cur'[v] = cur[v]
      BY <2>10 DEF WorkerLock, WorkerWait, WorkerReacquire, WorkerExit, WorkerSeesTask, WorkerUnlock
    <3>2. UNCHANGED listVars
      BY <3>1 DEF ListStep, Pops
    <3> QED BY <3>1, <3>2, Untouched
  <2> QED BY <2>1, <2>2, <2>3, <2>4, <2>5, <2>6, <2>7, <2>8, <2>9, <2>10
             DEF Next, MainAdds, MainDestroys, WorkerQueues
<1> QED BY <1>1, <1>2, PoolInvHolds, PTL DEF PoolSpec

\* The pool on the list gives the service of ConnService, and its list is a
\* whole one that hands descriptors out first come, first served.
THEOREM PoolOnListServes == PoolSpec => ServiceSpec /\ []ListIsWhole /\ FifoSpec
BY PoolRuns, PoolRunsList, ImplementsService, ListAlwaysWhole, ListIsFifo, PTL
=============================================================================
