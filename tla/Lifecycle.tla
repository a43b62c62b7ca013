------------------------------ MODULE Lifecycle ------------------------------
(***************************************************************************)
(* src/src/server/main.c and socket_init.c seen from the descriptor table: *)
(* who holds which number, what the number is at that moment, and a signal *)
(* handler that closes one of them on whatever thread it runs.             *)
(*                                                                         *)
(* The kernel hands out the lowest free number, so a number that was       *)
(* closed is soon another object.  The program is built without            *)
(* optimisation (Makefile, CFLAGS): every use of g_listen_fd reads memory. *)
(* The pool is a queue here; ThreadPool has its mutex and its waits.       *)
(***************************************************************************)
EXTENDS Integers, Sequences, FiniteSets

CONSTANTS Workers, Clients,
          Main,     \* the main thread
          Free,     \* what an unused number is
          MaxFd,    \* numbers 0 .. MaxFd - 1 are left to sockets and files
          Signals   \* bound: how often Ctrl+C is pressed

ASSUME LifecycleAssumption ==
  MaxFd \in Nat /\ Signals \in Nat /\ Main \notin Workers

Threads == Workers \cup {Main}
Numbers == 0 .. MaxFd - 1
NoFd == -1

VARIABLES
  table,    \* the kernel's: number -> Free or the object it stands for
  listenFd, \* g_listen_fd
  stop,     \* g_stop
  main,     \* the main thread: pc, the number in its hands, and whose it is
  worker,   \* each worker: pc, its client_fd and file_fd
  queue,    \* descriptors in the pool
  exitFlag, \* the pool's
  handler,  \* each thread's signal handler: pc, the number it has read
  presses,  \* signals sent so far
  backlog,  \* clients the kernel has connected, not yet accepted
  served    \* history: clients whose connection was closed by its owner

vars == <<table, listenFd, stop, main, worker, queue, exitFlag, handler, presses, backlog, served>>

-----------------------------------------------------------------------------
(* The kernel.                                                             *)

Unused == {n \in Numbers : table[n] = Free}
Lowest(set) == CHOOSE n \in set : \A m \in set : n <= m

Listening == <<"listen", Main>>
Connection(c) == <<"connection", c>>
File(w) == <<"file", w>>

ASSUME FreeAssumption ==
  Free \notin {Listening} \cup {Connection(c) : c \in Clients} \cup {File(w) : w \in Workers}

\* close of a number that is not in use fails and changes nothing.
Close(n) == table' = IF n \in Numbers THEN [table EXCEPT ![n] = Free] ELSE table
Open(object) == Unused # {} /\ table' = [table EXCEPT ![Lowest(Unused)] = object]

Init ==
  /\ table = [n \in Numbers |-> Free]
  /\ listenFd = NoFd
  /\ stop = FALSE
  /\ main = [pc |-> "socket", fd |-> NoFd, client |-> Free]
  /\ worker = [w \in Workers |-> [pc |-> "idle", fd |-> NoFd, client |-> Free, file |-> NoFd]]
  /\ queue = <<>>
  /\ exitFlag = FALSE
  /\ handler = [t \in Threads |-> [pc |-> "out", fd |-> NoFd]]
  /\ presses = 0
  /\ backlog = {}
  /\ served = {}

\* A thread runs its program while it is not in the handler.
Runs(t) == handler[t].pc = "out"

MainAt(pc) == main.pc = pc /\ Runs(Main)
MainGoes(pc) == main' = [main EXCEPT !.pc = pc]
-----------------------------------------------------------------------------
(* The main thread.                                                        *)

\* socket_init_listen; a failing setsockopt, bind or listen closes the socket.
SocketInit ==
  /\ MainAt("socket")
  /\ \/ Open(Listening) /\ main' = [main EXCEPT !.pc = "store", !.fd = Lowest(Unused)]
     \/ table' = table /\ MainGoes("destroy")
  /\ UNCHANGED <<listenFd, stop, worker, queue, exitFlag, handler, presses, backlog, served>>

StoreListenFd ==
  /\ MainAt("store")
  /\ listenFd' = main.fd
  /\ MainGoes("test")
  /\ UNCHANGED <<table, stop, worker, queue, exitFlag, handler, presses, backlog, served>>

\* while (!g_stop); the argument of accept is read after it.
LoopTest ==
  /\ MainAt("test")
  /\ MainGoes(IF stop THEN "exitTest" ELSE "read")
  /\ UNCHANGED <<table, listenFd, stop, worker, queue, exitFlag, handler, presses, backlog, served>>

ReadListenFd ==
  /\ MainAt("read")
  /\ main' = [main EXCEPT !.pc = "accept", !.fd = listenFd]
  /\ UNCHANGED <<table, listenFd, stop, worker, queue, exitFlag, handler, presses, backlog, served>>

IsListening(n) == n \in Numbers /\ table[n] = Listening

Accept ==
  /\ MainAt("accept")
  /\ IsListening(main.fd)
  /\ \E c \in backlog :
       /\ Open(Connection(c))
       /\ main' = [pc |-> "add", fd |-> Lowest(Unused), client |-> c]
       /\ backlog' = backlog \ {c}
  /\ UNCHANGED <<listenFd, stop, worker, queue, exitFlag, handler, presses, served>>

\* The number is no listening socket (any more), or no number is left for the
\* connection, which stays in the backlog; and a version that tries again
\* without asking for g_stop (faulty).
AcceptFailsTriesOn ==
  /\ MainAt("accept")
  /\ ~IsListening(main.fd) \/ (backlog # {} /\ Unused = {})
  /\ MainGoes("read")
  /\ UNCHANGED <<table, listenFd, stop, worker, queue, exitFlag, handler, presses, backlog, served>>

AcceptFails ==
  /\ MainAt("accept")
  /\ ~IsListening(main.fd) \/ (backlog # {} /\ Unused = {})
  /\ MainGoes(IF stop THEN "exitTest" ELSE "test")
  /\ UNCHANGED <<table, listenFd, stop, worker, queue, exitFlag, handler, presses, backlog, served>>

AddTask ==
  /\ MainAt("add")
  /\ queue' = Append(queue, [fd |-> main.fd, client |-> main.client])
  /\ main' = [pc |-> "test", fd |-> NoFd, client |-> Free]
  /\ UNCHANGED <<table, listenFd, stop, worker, exitFlag, handler, presses, backlog, served>>

\* No memory for the task.
AddTaskFails ==
  /\ MainAt("add")
  /\ Close(main.fd)
  /\ main' = [pc |-> "test", fd |-> NoFd, client |-> Free]
  /\ served' = served \cup {main.client}
  /\ UNCHANGED <<listenFd, stop, worker, queue, exitFlag, handler, presses, backlog>>

\* if (g_listen_fd != -1) close(g_listen_fd)
ExitTest ==
  /\ MainAt("exitTest")
  /\ MainGoes(IF listenFd = NoFd THEN "destroy" ELSE "exitRead")
  /\ UNCHANGED <<table, listenFd, stop, worker, queue, exitFlag, handler, presses, backlog, served>>

ExitRead ==
  /\ MainAt("exitRead")
  /\ main' = [main EXCEPT !.pc = "exitClose", !.fd = listenFd]
  /\ UNCHANGED <<table, listenFd, stop, worker, queue, exitFlag, handler, presses, backlog, served>>

ExitClose ==
  /\ MainAt("exitClose")
  /\ Close(main.fd)
  /\ main' = [main EXCEPT !.pc = "destroy", !.fd = NoFd]
  /\ UNCHANGED <<listenFd, stop, worker, queue, exitFlag, handler, presses, backlog, served>>

\* thread_pool_destroy
Destroy ==
  /\ MainAt("destroy")
  /\ exitFlag' = TRUE
  /\ MainGoes("join")
  /\ UNCHANGED <<table, listenFd, stop, worker, queue, handler, presses, backlog, served>>

Join ==
  /\ MainAt("join")
  /\ \A w \in Workers : worker[w].pc = "gone"
  /\ MainGoes("done")
  /\ UNCHANGED <<table, listenFd, stop, worker, queue, exitFlag, handler, presses, backlog, served>>
-----------------------------------------------------------------------------
(* A worker: it takes a connection, opens and closes files for it, and     *)
(* closes it.                                                              *)

At(w, pc) == worker[w].pc = pc /\ Runs(w)
othersOfWorker == <<listenFd, stop, main, exitFlag, handler, presses, backlog>>

Take(w) ==
  /\ At(w, "idle") /\ queue # <<>>
  /\ worker' = [worker EXCEPT ![w] = [pc |-> "session", fd |-> Head(queue).fd,
                                      client |-> Head(queue).client, file |-> NoFd]]
  /\ queue' = Tail(queue)
  /\ UNCHANGED <<othersOfWorker, table, served>>

OpenFile(w) ==
  /\ At(w, "session")
  /\ Open(File(w))
  /\ worker' = [worker EXCEPT ![w].pc = "transfer", ![w].file = Lowest(Unused)]
  /\ UNCHANGED <<othersOfWorker, queue, served>>

\* The end of a transfer, complete or not; and a failing one that leaves the
\* file open.
LeaveFileOpen(w) ==
  /\ At(w, "transfer")
  /\ worker' = [worker EXCEPT ![w].pc = "session", ![w].file = NoFd]
  /\ UNCHANGED <<othersOfWorker, table, queue, served>>

CloseFile(w) ==
  /\ At(w, "transfer")
  /\ Close(worker[w].file)
  /\ worker' = [worker EXCEPT ![w].pc = "session", ![w].file = NoFd]
  /\ UNCHANGED <<othersOfWorker, queue, served>>

\* handle_request has returned; and a worker that does not close.
SessionEndsOpen(w) ==
  /\ At(w, "session")
  /\ served' = served \cup {worker[w].client}
  /\ worker' = [worker EXCEPT ![w] = [pc |-> "idle", fd |-> NoFd, client |-> Free, file |-> NoFd]]
  /\ UNCHANGED <<othersOfWorker, table, queue>>

SessionEnds(w) ==
  /\ At(w, "session")
  /\ Close(worker[w].fd)
  /\ served' = served \cup {worker[w].client}
  /\ worker' = [worker EXCEPT ![w] = [pc |-> "idle", fd |-> NoFd, client |-> Free, file |-> NoFd]]
  /\ UNCHANGED <<othersOfWorker, queue>>

Exit(w) ==
  /\ At(w, "idle") /\ exitFlag /\ queue = <<>>
  /\ worker' = [worker EXCEPT ![w].pc = "gone"]
  /\ UNCHANGED <<othersOfWorker, table, queue, served>>
-----------------------------------------------------------------------------
(* SIGINT.  The kernel gives it to the main thread as long as that thread  *)
(* does not block it, which it does while it runs the handler.             *)

Hosts ==
  IF Runs(Main) THEN {Main} ELSE {w \in Workers : Runs(w) /\ worker[w].pc # "gone"}

HandlerGoes(t, pc) == handler' = [handler EXCEPT ![t].pc = pc]
othersOfHandler == <<main, worker, queue, exitFlag, backlog, served>>

Sigint(t) ==
  /\ presses < Signals /\ main.pc # "done"
  /\ t \in Hosts
  /\ presses' = presses + 1
  /\ HandlerGoes(t, "set")
  /\ UNCHANGED <<othersOfHandler, table, listenFd, stop>>

SetStop(t) ==
  /\ handler[t].pc = "set"
  /\ stop' = TRUE
  /\ HandlerGoes(t, "test")
  /\ UNCHANGED <<othersOfHandler, table, listenFd, presses>>

TestListenFd(t) ==
  /\ handler[t].pc = "test"
  /\ HandlerGoes(t, IF listenFd = NoFd THEN "out" ELSE "read")
  /\ UNCHANGED <<othersOfHandler, table, listenFd, stop, presses>>

HandlerRead(t) ==
  /\ handler[t].pc = "read"
  /\ handler' = [handler EXCEPT ![t] = [pc |-> "close", fd |-> listenFd]]
  /\ UNCHANGED <<othersOfHandler, table, listenFd, stop, presses>>

HandlerClose(t) ==
  /\ handler[t].pc = "close"
  /\ Close(handler[t].fd)
  /\ HandlerGoes(t, "clear")
  /\ UNCHANGED <<othersOfHandler, listenFd, stop, presses>>

\* g_listen_fd = -1; and a handler that leaves the old number there.
ClearListenFdNot(t) ==
  /\ handler[t].pc = "clear"
  /\ handler' = [handler EXCEPT ![t] = [pc |-> "out", fd |-> NoFd]]
  /\ UNCHANGED <<othersOfHandler, table, listenFd, stop, presses>>

ClearListenFd(t) ==
  /\ handler[t].pc = "clear"
  /\ listenFd' = NoFd
  /\ handler' = [handler EXCEPT ![t] = [pc |-> "out", fd |-> NoFd]]
  /\ UNCHANGED <<othersOfHandler, table, stop, presses>>
-----------------------------------------------------------------------------
Connect(c) ==
  /\ \E n \in Numbers : IsListening(n)
  /\ c \notin backlog \cup served
  /\ \A n \in Numbers : table[n] # Connection(c)
  /\ backlog' = backlog \cup {c}
  /\ UNCHANGED <<table, listenFd, stop, main, worker, queue, exitFlag, handler, presses, served>>

Terminated ==
  /\ main.pc = "done" /\ \A t \in Threads : Runs(t)
  /\ UNCHANGED vars

MainStep ==
  \/ SocketInit \/ StoreListenFd \/ LoopTest \/ ReadListenFd
  \/ Accept \/ AcceptFails \/ AddTask \/ AddTaskFails
  \/ ExitTest \/ ExitRead \/ ExitClose \/ Destroy \/ Join

WorkerStep(w) ==
  Take(w) \/ OpenFile(w) \/ CloseFile(w) \/ SessionEnds(w) \/ Exit(w)

HandlerStep(t) ==
  SetStop(t) \/ TestListenFd(t) \/ HandlerRead(t) \/ HandlerClose(t) \/ ClearListenFd(t)

Next ==
  \/ MainStep \/ Terminated
  \/ \E w \in Workers : WorkerStep(w)
  \/ \E t \in Threads : Sigint(t) \/ HandlerStep(t)
  \/ \E c \in Clients : Connect(c)

Spec == Init /\ [][Next]_vars

\* Threads run on, transfers and sessions come to an end.
FairSpec ==
  /\ Spec
  /\ WF_vars(MainStep)
  /\ \A t \in Threads : WF_vars(HandlerStep(t))
  /\ \A w \in Workers : WF_vars(Take(w) \/ CloseFile(w) \/ Exit(w)) /\ SF_vars(SessionEnds(w))
-----------------------------------------------------------------------------
\* What a thread holds a number for is what the number stands for: nobody
\* else has closed it, and it has not become another connection or file
\* (main.c:23-35, 142-145, 186-188; worker.c:44; file_transfer.c).
HeldIsOpen ==
  /\ main.pc = "add" => table[main.fd] = Connection(main.client)
  /\ \A i \in DOMAIN queue : table[queue[i].fd] = Connection(queue[i].client)
  /\ \A w \in Workers :
       /\ worker[w].pc \in {"session", "transfer"} => table[worker[w].fd] = Connection(worker[w].client)
       /\ worker[w].pc = "transfer" => table[worker[w].file] = File(w)

\* Nothing stays open behind its holder's back: every used number is the
\* listening socket's or somebody holds it; none is left when main returns
\* (main.c:186-191).
EveryNumberIsHeld ==
  \A n \in Numbers : table[n] # Free =>
    \/ table[n] = Listening /\ main.pc # "done"
    \/ main.pc = "add" /\ main.fd = n
    \/ \E i \in DOMAIN queue : queue[i].fd = n
    \/ \E w \in Workers : worker[w].fd = n \/ worker[w].file = n

\* A signal that comes at any point, between the test of g_stop and accept
\* too, ends the server once the sessions end (main.c:26-29, 114-126).
SignalStopsServer == presses > 0 ~> main.pc = "done"

\* A client that waits in the backlog while all numbers are in use is
\* accepted when some are given back, unless the server stops
\* (main.c:122-134).
BacklogIsAccepted ==
  \A c \in Clients : c \in backlog ~> (c \notin backlog \/ stop \/ main.pc \in {"destroy", "join", "done"})
=============================================================================
