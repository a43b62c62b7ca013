------------------------------ MODULE PoolQueue ------------------------------
(***************************************************************************)
(* The thread pool on the list it really uses.  ThreadPool has a sequence  *)
(* where the code has a linked list; here every step of a thread that      *)
(* calls queue_push or queue_pop also does to the list what those do.      *)
(*                                                                         *)
(*   src/src/server/thread_pool.c  thread_pool_add_task, _destroy          *)
(*   src/src/server/worker.c       thread_worker                           *)
(*   src/src/server/queue.c        queue_push, queue_pop                   *)
(***************************************************************************)
EXTENDS ThreadPool, TaskQueue

ASSUME SharedAssumption == Fds = Conns /\ NoFd = None

memory == <<listVars, vars>>

\* A worker pops, or thread_pool_destroy does.
Pops ==
  \/ \E w \in Workers : pc[w] = "pop" /\ pc'[w] # "pop"
  \/ main = "drain" /\ queue # queue'

\* What the step of a thread does to the list.
ListStep ==
  CASE main = "push" /\ main' = "signal" -> Push(client)
    [] main = "push" /\ main' = "unlock" -> PushFails
    [] Pops -> IF size = 0 THEN PopEmpty ELSE Pop
    [] OTHER -> UNCHANGED listVars

PoolInit == Init /\ QueueInit
PoolNext == Next /\ ListStep
PoolSpec == PoolInit /\ [][PoolNext]_memory

-----------------------------------------------------------------------------
\* The list holds, oldest first, exactly the connections the pool has queued,
\* and what queue_pop stored is what the worker that popped now owns, however
\* pushes, failed pushes and pops of several threads follow each other and
\* whatever addresses come back (thread_pool.c:66-72 and 103-106, worker.c:20-37).
ListIsTheQueue ==
  /\ Contents = queue
  /\ \A w \in Workers : pc[w] = "popped" => cur[w] = got
=============================================================================
