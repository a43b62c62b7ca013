------------------------------ MODULE ThreadPool ------------------------------
(***************************************************************************)
(* The server's threads: main() accepts connections and hands their        *)
(* descriptors to a pool of workers through a queue guarded by one mutex   *)
(* and one condition variable; SIGINT stops the accept loop, after which   *)
(* main() destroys the pool and returns.                                   *)
(*                                                                         *)
(*   src/src/server/main.c         main, server_main_loop, the handler     *)
(*   src/src/server/thread_pool.c  init, add_task, destroy                 *)
(*   src/src/server/worker.c       thread_worker                           *)
(*   src/src/server/queue.c        push and pop (here a sequence)          *)
(*                                                                         *)
(* A step is what a thread does between two points where another thread    *)
(* can see the difference.  `main` and `pc` say which source line a thread *)
(* is about to execute.  A member of Conns stands for one accepted socket, *)
(* not for its number.  A session (handle_request) is one pc value here:   *)
(* it lasts as long as the client likes.                                   *)
(***************************************************************************)
EXTENDS Naturals, Sequences, FiniteSets

CONSTANTS Workers,   \* the threads of the pool, thread_num of them
          Conns,     \* the connections clients may open
          Main,      \* the main thread
          None       \* no thread, no connection (fd -1)

\* thread_num comes from atoi() of a configuration line: any finite set, {} too.
ASSUME WorkersAssumption == IsFiniteSet(Workers)

ASSUME NamesAssumption ==
  /\ Main \notin Workers
  /\ None \notin Workers \cup {Main}
  /\ None \notin Conns

VARIABLES
  main,      \* the main thread's program counter
  pc,        \* the program counter of each worker
  mutex,     \* the holder of pool->mutex
  queue,     \* pool->queue, oldest first
  exitFlag,  \* pool->exit_flag
  stop,      \* g_stop
  client,    \* client_fd of server_main_loop while the main thread owns it
  cur,       \* client_fd of each worker
  accepted,  \* every connection accept() has returned
  closes     \* how many times close() was called on each connection

vars == <<main, pc, mutex, queue, exitFlag, stop, client, cur, accepted, closes>>

poolVars == <<mutex, queue, exitFlag>>
connVars == <<client, cur, accepted, closes>>

MainPC == {"init", "listen", "loop", "accept", "add", "push", "signal",
           "unlock", "reject", "destroy", "setexit", "broadcast", "release",
           "join", "drain", "done"}

WorkerPC == {"new", "lock", "check", "waiting", "woken", "pop", "popped",
             "handle", "close", "exited"}

\* The values of `main` and `pc` between pthread_mutex_lock and its unlock.
MainHolding == {"push", "signal", "unlock", "setexit", "broadcast", "release"}
WorkerHolding == {"check", "pop", "popped"}

Created == {w \in Workers : pc[w] # "new"}
Waiting == {w \in Workers : pc[w] = "waiting"}

Init ==
  /\ main = "init"
  /\ pc = [w \in Workers |-> "new"]
  /\ mutex = None
  /\ queue = <<>>
  /\ exitFlag = 0
  /\ stop = 0
  /\ client = None
  /\ cur = [w \in Workers |-> None]
  /\ accepted = {}
  /\ closes = [c \in Conns |-> 0]

-----------------------------------------------------------------------------
(* Faulty variants of some actions below.  Next does not use them; they    *)
(* stand for mistakes the properties are there to find.                    *)

\* The accept loop forgets whether add_task worked.
AddTaskUnlockIgnoresFailure ==
  /\ main = "unlock"
  /\ mutex' = None
  /\ main' = "loop"
  /\ UNCHANGED <<pc, queue, exitFlag, stop, connVars>>

\* The new node becomes the head.
QueuePushFront ==
  /\ main = "push"
  /\ queue' = <<client>> \o queue
  /\ client' = None
  /\ main' = "signal"
  /\ UNCHANGED <<pc, mutex, exitFlag, stop, cur, accepted, closes>>

\* No pthread_cond_signal after the push.
CondSignalNobody ==
  /\ main = "signal"
  /\ main' = "unlock"
  /\ UNCHANGED <<pc, poolVars, stop, connVars>>

\* pthread_cond_signal where pthread_cond_broadcast is needed.
CondBroadcastOne ==
  /\ main = "broadcast"
  /\ main' = "release"
  /\ \/ Waiting = {} /\ pc' = pc
     \/ \E w \in Waiting : pc' = [pc EXCEPT ![w] = "woken"]
  /\ UNCHANGED <<poolVars, stop, connVars>>

\* destroy goes on after the first worker has exited.
JoinFirst ==
  /\ main = "join"
  /\ Created = {} \/ \E w \in Created : pc[w] = "exited"
  /\ main' = "drain"
  /\ UNCHANGED <<pc, poolVars, stop, connVars>>

\* The drain loop pops without closing.
DrainLeaks ==
  /\ main = "drain"
  /\ queue # <<>>
  /\ queue' = Tail(queue)
  /\ UNCHANGED <<main, pc, mutex, exitFlag, stop, client, cur, accepted, closes>>

\* The worker's loop tests the queue but not the exit flag.
WorkerWaitIgnoresExit(w) ==
  /\ pc[w] = "check"
  /\ queue = <<>>
  /\ mutex' = None
  /\ pc' = [pc EXCEPT ![w] = "waiting"]
  /\ UNCHANGED <<main, queue, exitFlag, stop, connVars>>

\* pthread_cond_wait returns without the mutex.
WorkerReacquireUnlocked(w) ==
  /\ pc[w] = "woken"
  /\ pc' = [pc EXCEPT ![w] = "check"]
  /\ UNCHANGED <<main, poolVars, stop, connVars>>

\* `if` in place of `while` around pthread_cond_wait.
WorkerReacquireNoRecheck(w) ==
  /\ pc[w] = "woken"
  /\ mutex = None
  /\ mutex' = w
  /\ pc' = [pc EXCEPT ![w] = "pop"]
  /\ UNCHANGED <<main, queue, exitFlag, stop, connVars>>

\* The worker leaves as soon as the exit flag is set.
WorkerExitEarly(w) ==
  /\ pc[w] = "check"
  /\ exitFlag = 1
  /\ mutex' = None
  /\ pc' = [pc EXCEPT ![w] = "exited"]
  /\ UNCHANGED <<main, queue, exitFlag, stop, connVars>>

-----------------------------------------------------------------------------
(* thread_pool_init and the start of main().                               *)

\* Loading the configuration, or setting up the pool's own data, fails
\* before any thread exists: server_init_env returns -1 and main returns.
InitFails ==
  /\ main = "init"
  /\ Created = {}
  /\ main' = "done"
  /\ UNCHANGED <<pc, poolVars, stop, connVars>>

CreateWorker(w) ==
  /\ main = "init"
  /\ pc[w] = "new"
  /\ pc' = [pc EXCEPT ![w] = "lock"]
  /\ UNCHANGED <<main, poolVars, stop, connVars>>

\* pthread_create fails part of the way: the threads that exist are destroyed.
CreateFails ==
  /\ main = "init"
  /\ Created # Workers
  /\ main' = "destroy"
  /\ UNCHANGED <<pc, poolVars, stop, connVars>>

PoolReady ==
  /\ main = "init"
  /\ Created = Workers
  /\ main' = "listen"
  /\ UNCHANGED <<pc, poolVars, stop, connVars>>

\* socket_init_listen gives a descriptor, or -1 and the pool is destroyed.
Listen ==
  /\ main = "listen"
  /\ main' \in {"loop", "destroy"}
  /\ UNCHANGED <<pc, poolVars, stop, connVars>>

-----------------------------------------------------------------------------
(* server_main_loop.                                                       *)

LoopTest ==
  /\ main = "loop"
  /\ main' = IF stop = 1 THEN "destroy" ELSE "accept"
  /\ UNCHANGED <<pc, poolVars, stop, connVars>>

\* accept() may still return a connection when g_stop is already set.
Accept(c) ==
  /\ main = "accept"
  /\ c \notin accepted
  /\ accepted' = accepted \cup {c}
  /\ client' = c
  /\ main' = "add"
  /\ UNCHANGED <<pc, poolVars, stop, cur, closes>>

\* accept() returns -1: the loop ends if g_stop is set and goes on if not.
AcceptFails ==
  /\ main = "accept"
  /\ main' = IF stop = 1 THEN "destroy" ELSE "loop"
  /\ UNCHANGED <<pc, poolVars, stop, connVars>>

\* thread_pool_add_task failed: the main thread closes the descriptor itself.
Reject ==
  /\ main = "reject"
  /\ closes' = [closes EXCEPT ![client] = @ + 1]
  /\ client' = None
  /\ main' = "loop"
  /\ UNCHANGED <<pc, poolVars, stop, cur, accepted>>

\* server_signal_handler sets g_stop.
Sigint ==
  /\ main # "done"
  /\ stop = 0
  /\ stop' = 1
  /\ UNCHANGED <<main, pc, poolVars, connVars>>

-----------------------------------------------------------------------------
(* thread_pool_add_task, called by the main thread only.                   *)

AddTaskLock ==
  /\ main = "add"
  /\ mutex = None
  /\ mutex' = Main
  /\ main' = "push"
  /\ UNCHANGED <<pc, queue, exitFlag, stop, connVars>>

\* queue_push: the queue owns the descriptor from here on.
QueuePush ==
  /\ main = "push"
  /\ queue' = Append(queue, client)
  /\ client' = None
  /\ main' = "signal"
  /\ UNCHANGED <<pc, mutex, exitFlag, stop, cur, accepted, closes>>

\* queue_push: calloc fails, nothing is queued and nobody is signalled.
QueuePushFails ==
  /\ main = "push"
  /\ main' = "unlock"
  /\ UNCHANGED <<pc, poolVars, stop, connVars>>

\* pthread_cond_signal wakes a waiting worker if there is one.
CondSignal ==
  /\ main = "signal"
  /\ main' = "unlock"
  /\ \/ Waiting = {} /\ pc' = pc
     \/ \E w \in Waiting : pc' = [pc EXCEPT ![w] = "woken"]
  /\ UNCHANGED <<poolVars, stop, connVars>>

\* The return value decides who closes: -1 leaves it to server_main_loop.
AddTaskUnlock ==
  /\ main = "unlock"
  /\ mutex' = None
  /\ main' = IF client = None THEN "loop" ELSE "reject"
  /\ UNCHANGED <<pc, queue, exitFlag, stop, connVars>>

-----------------------------------------------------------------------------
(* thread_pool_destroy.                                                    *)

DestroyLock ==
  /\ main = "destroy"
  /\ mutex = None
  /\ mutex' = Main
  /\ main' = "setexit"
  /\ UNCHANGED <<pc, queue, exitFlag, stop, connVars>>

SetExitFlag ==
  /\ main = "setexit"
  /\ exitFlag' = 1
  /\ main' = "broadcast"
  /\ UNCHANGED <<pc, mutex, queue, stop, connVars>>

CondBroadcast ==
  /\ main = "broadcast"
  /\ pc' = [w \in Workers |-> IF w \in Waiting THEN "woken" ELSE pc[w]]
  /\ main' = "release"
  /\ UNCHANGED <<poolVars, stop, connVars>>

DestroyUnlock ==
  /\ main = "release"
  /\ mutex' = None
  /\ main' = "join"
  /\ UNCHANGED <<pc, queue, exitFlag, stop, connVars>>

\* The pthread_join calls return one by one; the loop ends with the last.
JoinAll ==
  /\ main = "join"
  /\ \A w \in Created : pc[w] = "exited"
  /\ main' = "drain"
  /\ UNCHANGED <<pc, poolVars, stop, connVars>>

\* A descriptor left in the queue is closed unserved.  No lock is taken.
Drain ==
  /\ main = "drain"
  /\ queue # <<>>
  /\ closes' = [closes EXCEPT ![Head(queue)] = @ + 1]
  /\ queue' = Tail(queue)
  /\ UNCHANGED <<main, pc, mutex, exitFlag, stop, client, cur, accepted>>

DestroyReturns ==
  /\ main = "drain"
  /\ queue = <<>>
  /\ main' = "done"
  /\ UNCHANGED <<pc, poolVars, stop, connVars>>

-----------------------------------------------------------------------------
(* thread_worker.                                                          *)

WorkerLock(w) ==
  /\ pc[w] = "lock"
  /\ mutex = None
  /\ mutex' = w
  /\ pc' = [pc EXCEPT ![w] = "check"]
  /\ UNCHANGED <<main, queue, exitFlag, stop, connVars>>

\* pthread_cond_wait gives up the mutex and sleeps in one step.
WorkerWait(w) ==
  /\ pc[w] = "check"
  /\ queue = <<>>
  /\ exitFlag = 0
  /\ mutex' = None
  /\ pc' = [pc EXCEPT ![w] = "waiting"]
  /\ UNCHANGED <<main, queue, exitFlag, stop, connVars>>

\* POSIX lets pthread_cond_wait return with no signal sent.
SpuriousWakeup(w) ==
  /\ pc[w] = "waiting"
  /\ pc' = [pc EXCEPT ![w] = "woken"]
  /\ UNCHANGED <<main, poolVars, stop, connVars>>

\* pthread_cond_wait takes the mutex again before it returns to the loop.
WorkerReacquire(w) ==
  /\ pc[w] = "woken"
  /\ mutex = None
  /\ mutex' = w
  /\ pc' = [pc EXCEPT ![w] = "check"]
  /\ UNCHANGED <<main, queue, exitFlag, stop, connVars>>

WorkerExit(w) ==
  /\ pc[w] = "check"
  /\ queue = <<>>
  /\ exitFlag = 1
  /\ mutex' = None
  /\ pc' = [pc EXCEPT ![w] = "exited"]
  /\ UNCHANGED <<main, queue, exitFlag, stop, connVars>>

WorkerSeesTask(w) ==
  /\ pc[w] = "check"
  /\ queue # <<>>
  /\ pc' = [pc EXCEPT ![w] = "pop"]
  /\ UNCHANGED <<main, poolVars, stop, connVars>>

\* queue_pop; on an empty queue it returns -1 and client_fd keeps its -1.
WorkerPop(w) ==
  /\ pc[w] = "pop"
  /\ cur' = [cur EXCEPT ![w] = IF queue = <<>> THEN None ELSE Head(queue)]
  /\ queue' = IF queue = <<>> THEN queue ELSE Tail(queue)
  /\ pc' = [pc EXCEPT ![w] = "popped"]
  /\ UNCHANGED <<main, mutex, exitFlag, stop, client, accepted, closes>>

WorkerUnlock(w) ==
  /\ pc[w] = "popped"
  /\ mutex' = None
  /\ pc' = [pc EXCEPT ![w] = IF cur[w] = None THEN "lock" ELSE "handle"]
  /\ UNCHANGED <<main, queue, exitFlag, stop, connVars>>

\* handle_request returns: the client quit, left, or the connection failed.
SessionEnds(w) ==
  /\ pc[w] = "handle"
  /\ pc' = [pc EXCEPT ![w] = "close"]
  /\ UNCHANGED <<main, poolVars, stop, connVars>>

WorkerClose(w) ==
  /\ pc[w] = "close"
  /\ closes' = [closes EXCEPT ![cur[w]] = @ + 1]
  /\ cur' = [cur EXCEPT ![w] = None]
  /\ pc' = [pc EXCEPT ![w] = "lock"]
  /\ UNCHANGED <<main, poolVars, stop, client, accepted>>

-----------------------------------------------------------------------------
MainStarts == InitFails \/ CreateFails \/ PoolReady \/ Listen

MainAccepts == LoopTest \/ AcceptFails \/ Reject \/ \E c \in Conns : Accept(c)

MainAdds == AddTaskLock \/ QueuePush \/ QueuePushFails \/ CondSignal \/ AddTaskUnlock

MainDestroys ==
  \/ DestroyLock \/ SetExitFlag \/ CondBroadcast \/ DestroyUnlock
  \/ JoinAll \/ Drain \/ DestroyReturns

WorkerQueues(w) ==
  \/ WorkerLock(w) \/ WorkerWait(w) \/ WorkerReacquire(w) \/ WorkerExit(w)
  \/ WorkerSeesTask(w) \/ WorkerPop(w) \/ WorkerUnlock(w) \/ WorkerClose(w)

\* main() has returned and the process is gone.
Terminated == main = "done" /\ UNCHANGED vars

Next ==
  \/ MainStarts \/ MainAccepts \/ MainAdds \/ MainDestroys
  \/ Sigint
  \/ \E w \in Workers :
       CreateWorker(w) \/ WorkerQueues(w) \/ SpuriousWakeup(w) \/ SessionEnds(w)
  \/ Terminated

Spec == Init /\ [][Next]_vars

(***************************************************************************)
(* Fairness.  A thread that can run does run, and one that contends for    *)
(* the mutex for ever gets it (strong fairness: other threads may take it  *)
(* infinitely often in between).  accept() need not return, except that    *)
(* once g_stop is set the handler has closed the listening socket in the   *)
(* main thread and accept() fails.  Nothing makes clients connect, SIGINT  *)
(* arrive, threads wake up by themselves, or a session end.                *)
(***************************************************************************)
MainFairness ==
  /\ WF_vars(MainStarts \/ \E w \in Workers : CreateWorker(w))
  /\ WF_vars(LoopTest \/ Reject \/ (stop = 1 /\ AcceptFails))
  /\ WF_vars(MainAdds \/ MainDestroys)
  /\ SF_vars(AddTaskLock \/ DestroyLock)

WorkerFairness(w) ==
  /\ WF_vars(WorkerQueues(w))
  /\ SF_vars(WorkerLock(w) \/ WorkerReacquire(w))

FairSpec == Spec /\ MainFairness /\ \A w \in Workers : WorkerFairness(w)

\* Every client leaves in the end: quits, closes, or its connection breaks.
ClientsLeave == \A w \in Workers : WF_vars(SessionEnds(w))

-----------------------------------------------------------------------------
(* Safety.                                                                 *)

TypeOK ==
  /\ main \in MainPC
  /\ pc \in [Workers -> WorkerPC]
  /\ mutex \in Workers \cup {Main, None}
  /\ queue \in Seq(Conns)
  /\ exitFlag \in {0, 1}
  /\ stop \in {0, 1}
  /\ client \in Conns \cup {None}
  /\ cur \in [Workers -> Conns \cup {None}]
  /\ accepted \subseteq Conns
  /\ closes \in [Conns -> Nat]

\* What the program counters say about the other variables: who holds a
\* descriptor where, what is over before the main thread goes on.
ControlInv ==
  /\ main \in {"add", "push", "reject"} => client # None
  /\ client # None => main \in {"add", "push", "unlock", "reject"}
  /\ \A w \in Workers : pc[w] \in {"handle", "close"} => cur[w] # None
  /\ \A w \in Workers : cur[w] # None => pc[w] \in {"popped", "handle", "close"}
  /\ main \in {"init", "listen", "done"} => queue = <<>>
  /\ main \in {"broadcast", "release", "join", "drain"} => exitFlag = 1
  /\ exitFlag = 1 => main \in {"broadcast", "release", "join", "drain", "done"}
  /\ main \in {"drain", "done"} => \A w \in Workers : pc[w] \in {"new", "exited"}
  /\ \A w \in Workers : pc[w] = "new" =>
       /\ queue = <<>>
       /\ main \in {"init", "destroy", "setexit", "broadcast", "release", "join", "drain", "done"}

\* A thread stands between a lock and its unlock exactly when it holds the
\* mutex, so the queue and exit_flag never have two threads in them at once
\* (thread_pool.c:66-72 and 90-93, worker.c:20-37).
MutexOwnership ==
  /\ main \in MainHolding <=> mutex = Main
  /\ \A w \in Workers : pc[w] \in WorkerHolding <=> mutex = w

Has(q, c) == \E i \in DOMAIN q : q[i] = c
NoRepeat(q) == \A i, j \in DOMAIN q : q[i] = q[j] => i = j

InQueue(c) == Has(queue, c)
AtWorker(c) == \E w \in Workers : cur[w] = c

\* A descriptor is in one place at a time: twice in the queue, or with two
\* threads, it would be served twice and closed twice.
OnePlace ==
  /\ NoRepeat(queue)
  /\ \A v, w \in Workers : cur[v] = cur[w] /\ cur[v] # None => v = w
  /\ \A c \in Conns : InQueue(c) => ~AtWorker(c) /\ client # c
  /\ \A c \in Conns : AtWorker(c) => client # c

\* An accepted descriptor is open exactly as long as the queue, a worker or
\* the accept loop has it, and is closed once: no leak, no second close, no
\* session on a closed descriptor, whoever fails on the way.
DescriptorOwnership ==
  /\ OnePlace
  /\ \A c \in Conns :
       IF c \in accepted
         THEN \/ closes[c] = 0 /\ (InQueue(c) \/ AtWorker(c) \/ client = c)
              \/ closes[c] = 1 /\ ~InQueue(c) /\ ~AtWorker(c) /\ client # c
         ELSE closes[c] = 0 /\ ~InQueue(c) /\ ~AtWorker(c) /\ client # c

\* Workers that will look at the queue before they sleep again.
Coming == {w \in Workers : pc[w] \in {"lock", "woken", "check", "pop"}}

\* While a worker sleeps in pthread_cond_wait, every queued connection has a
\* worker of its own on its way to it; only between the push and the signal
\* is one connection uncovered (thread_pool.c:67-71, worker.c:24-26).
NoLostWakeup ==
  Waiting # {} =>
    Len(queue) <= Cardinality(Coming) + (IF main = "signal" THEN 1 ELSE 0)

\* A worker that goes past the loop finds a task, although others pop too and
\* the wake-up it got may have been for a task that is gone (worker.c:24-36).
PopFindsTask == \A w \in Workers : pc[w] = "pop" => queue # <<>>

\* Once the exit flag is set and broadcast nobody sleeps: the join would
\* never return (thread_pool.c:88-92).
NobodySleepsAtExit == exitFlag = 1 /\ main # "broadcast" => Waiting = {}

\* A worker exits only after the flag is set, and leaves an empty queue
\* behind: the drain loop of destroy closes nothing that a worker could
\* have served (worker.c:30-33, thread_pool.c:104-106).
ExitLeavesNoTask ==
  \A w \in Workers : pc[w] = "exited" => exitFlag = 1 /\ queue = <<>>

\* When main() returns no worker runs and no accepted descriptor is open.
CleanExit ==
  main = "done" =>
    /\ \A w \in Workers : pc[w] \in {"new", "exited"}
    /\ \A c \in accepted : closes[c] = 1

-----------------------------------------------------------------------------
(* What the pool implements.                                               *)

\* Connections are served one per worker, in the order they were queued,
\* each closed exactly once, and none is dropped while there are workers.
Service == INSTANCE ConnService WITH
  Desks <- Workers,
  arriving <- client,
  line <- queue,
  desk <- cur,
  finished <- {c \in Conns : closes[c] > 0},
  ended <- main = "done"

ServiceSpec == Service!Spec

-----------------------------------------------------------------------------
(* Liveness.                                                               *)

\* After SIGINT the server comes down once the clients are gone: no thread
\* is left asleep and the joins return (thread_pool.c:88-100).
ShutdownCompletes == ClientsLeave => (stop = 1 ~> main = "done")

\* If clients leave, every connection accept() returned is closed in the end,
\* served or not.
EveryConnectionCloses ==
  ClientsLeave => \A c \in Conns : c \in accepted ~> closes[c] = 1

\* Even if no client ever leaves, the queue cannot keep a connection for good
\* while some worker is free for it.
QueuedOnlyWhileAllBusy ==
  []<>(queue = <<>> \/ \A w \in Workers : pc[w] = "handle")
=============================================================================
