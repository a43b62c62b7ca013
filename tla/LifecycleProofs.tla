--------------------------- MODULE LifecycleProofs ---------------------------
(* What Lifecycle guarantees under one SIGINT, for any workers, clients    *)
(* and size of the descriptor table.                                       *)
EXTENDS Lifecycle, WellFoundedInduction, TLAPS

Objects == {Free, Listening} \cup {Connection(c) : c \in Clients} \cup {File(w) : w \in Workers}
MainPC == {"socket", "store", "test", "read", "accept", "add", "exitTest", "exitRead",
           "exitClose", "destroy", "join", "done"}
MaybeFd == Numbers \cup {NoFd}
Hands == [pc : {"idle", "session", "transfer", "gone"}, fd : MaybeFd,
          client : Clients \cup {Free}, file : MaybeFd]
Tasks == [fd : Numbers, client : Clients]

Types ==
  /\ table \in [Numbers -> Objects]
  /\ listenFd \in MaybeFd
  /\ stop \in BOOLEAN
  /\ main \in [pc : MainPC, fd : MaybeFd, client : Clients \cup {Free}]
  /\ worker \in [Workers -> Hands]
  /\ queue \in Seq(Tasks)
  /\ handler \in [Threads -> [pc : {"out", "set", "test", "read", "close", "clear"}, fd : MaybeFd]]
  /\ presses \in {0, 1}
  /\ backlog \subseteq Clients

\* Who holds which number for which connection or file.
MainHolds(n, c) == main.pc = "add" /\ main.fd = n /\ main.client = c
QueueHolds(i, n, c) == queue[i].fd = n /\ queue[i].client = c
WorkerHolds(w, n, c) ==
  worker[w].pc \in {"session", "transfer"} /\ worker[w].fd = n /\ worker[w].client = c
FileHeld(w, n) == worker[w].pc = "transfer" /\ worker[w].file = n

\* The numbers in somebody's hands are numbers; without a file a worker has none.
HandsFull ==
  /\ main.pc = "add" => main.fd \in Numbers /\ main.client \in Clients
  /\ \A w \in Workers :
       /\ worker[w].pc \in {"session", "transfer"} => worker[w].fd \in Numbers /\ worker[w].client \in Clients
       /\ worker[w].pc = "transfer" => worker[w].file \in Numbers
       /\ worker[w].pc # "transfer" => worker[w].file = NoFd
       /\ worker[w].pc \in {"idle", "gone"} => worker[w].fd = NoFd

\* A client is in one place: the backlog, main's hands, the queue or a worker's.
Serves(w, c) == worker[w].pc \in {"session", "transfer"} /\ worker[w].client = c
Adds(c) == main.pc = "add" /\ main.client = c
Queued(c) == \E i \in 1 .. Len(queue) : queue[i].client = c

OnePlace ==
  /\ \A i, j \in 1 .. Len(queue) : queue[i].client = queue[j].client => i = j
  /\ \A c \in Clients :
       /\ \A v, w \in Workers : Serves(v, c) /\ Serves(w, c) => v = w
       /\ \A w \in Workers : Serves(w, c) => ~Queued(c) /\ ~Adds(c) /\ c \notin backlog
       /\ Queued(c) => ~Adds(c) /\ c \notin backlog
       /\ Adds(c) => c \notin backlog

\* Where g_listen_fd is the listening socket; the handler runs once, on the
\* main thread.
ListenFdInv ==
  /\ \A w \in Workers : handler[w].pc = "out"
  /\ handler[Main].pc # "out" => presses = 1
  /\ stop => presses = 1
  /\ main.pc = "socket" => listenFd = NoFd
  /\ main.pc = "store" => main.fd \in Numbers /\ table[main.fd] = Listening /\ listenFd = NoFd
  /\ listenFd # NoFd /\ main.pc \notin {"destroy", "join", "done"} /\ handler[Main].pc # "clear"
       => table[listenFd] = Listening
  /\ main.pc \in {"destroy", "join", "done"} /\ listenFd # NoFd
       => presses = 1 /\ handler[Main].pc = "out"
  /\ main.pc \in {"exitTest", "exitRead", "exitClose"} => presses = 1 /\ handler[Main].pc = "out"
  /\ main.pc = "exitRead" => listenFd # NoFd
  /\ main.pc = "exitClose" => main.fd = listenFd /\ listenFd # NoFd
  /\ handler[Main].pc \in {"read", "close"} => listenFd # NoFd
  /\ handler[Main].pc = "close" => handler[Main].fd = listenFd

\* The listening socket is nowhere else.
OneListening ==
  \A n \in Numbers : table[n] = Listening =>
    /\ handler[Main].pc # "clear"
    /\ \/ main.pc = "store" /\ n = main.fd
       \/ main.pc \in {"test", "read", "accept", "add", "exitTest", "exitRead", "exitClose"} /\ n = listenFd

LifecycleInv ==
  Types /\ HandsFull /\ HeldIsOpen /\ OnePlace /\ ListenFdInv /\ OneListening /\ EveryNumberIsHeld

\* No two objects of the table are the same.
LEMMA ObjectsDiffer ==
  /\ NoFd \notin Numbers /\ Main \notin Workers
  /\ \A c, d \in Clients : Connection(c) = Connection(d) => c = d
  /\ \A v, w \in Workers : File(v) = File(w) => v = w
  /\ \A c \in Clients, w \in Workers : Connection(c) # File(w)
  /\ \A c \in Clients : Connection(c) # Listening /\ Connection(c) # Free
  /\ \A w \in Workers : File(w) # Listening /\ File(w) # Free
  /\ Listening # Free
BY LifecycleAssumption, FreeAssumption DEF Connection, File, Listening, Numbers, NoFd

Less == {p \in Nat \X Nat : p[1] < p[2]}

\* A set of naturals that is not empty has a least element.
LEMMA LeastNumber ==
  ASSUME NEW S, S \subseteq Nat, S # {}
  PROVE  \E n \in S : \A m \in S : n <= m
<1>1. Less = OpToRel(<, Nat)
  BY Zenon DEF OpToRel, Less
<1>2. IsWellFoundedOn(Less, Nat)
  BY <1>1, NatLessThanWellFounded, Zenon
<1>3. PICK n \in S : \A m \in S : ~(<<m, n>> \in Less)
  BY <1>2, WFMin, Zenon
<1>4. \A m \in S : n <= m
  <2>1. TAKE m \in S
  <2>2. m \in Nat /\ n \in Nat /\ ~(<<m, n>> \in Less)
    BY <1>3
  <2>3. ~(m < n)
    BY <2>2 DEF Less
  <2> QED BY <2>2, <2>3
<1> QED BY <1>4

\* A number that is handed out was free.
LEMMA OpenGives ==
  ASSUME Types, NEW object, Open(object)
  PROVE  /\ Lowest(Unused) \in Numbers
         /\ table[Lowest(Unused)] = Free
         /\ table' = [table EXCEPT ![Lowest(Unused)] = object]
<1>1. Unused \subseteq Nat /\ Unused # {}
  BY LifecycleAssumption DEF Unused, Numbers, Open
<1>2. \E n \in Unused : \A m \in Unused : n <= m
  BY <1>1, LeastNumber
<1>3. Lowest(Unused) \in Unused
  BY <1>2 DEF Lowest
<1> QED BY <1>3 DEF Unused, Open

\* What the parts of LifecycleInv say of connections and files changes only
\* with the table, the holders, and the backlog.
LEMMA HoldersUntouched ==
  ASSUME LifecycleInv,
         UNCHANGED <<table, queue, worker, backlog>>,
         main.pc = "add" \/ main'.pc = "add" => main' = main
  PROVE  HandsFull' /\ HeldIsOpen' /\ OnePlace'
<1> USE DEF LifecycleInv
<1>1. HandsFull'
  BY DEF HandsFull
<1>2. HeldIsOpen'
  BY DEF HeldIsOpen
<1>3. OnePlace'
  BY DEF OnePlace, Serves, Adds, Queued
<1> QED BY <1>1, <1>2, <1>3

\* The same of the numbers in use.
LEMMA NumbersUntouched ==
  ASSUME LifecycleInv,
         UNCHANGED <<table, queue, worker>>,
         main.pc = "add" \/ main'.pc \in {"add", "done"} => main' = main
  PROVE  EveryNumberIsHeld'
BY DEF LifecycleInv, EveryNumberIsHeld

\* What the handler and the listening socket have to do with each other
\* changes only with them.
LEMMA ListenerUntouched ==
  ASSUME LifecycleInv,
         UNCHANGED <<listenFd, stop, main, handler, presses>>,
         \A n \in Numbers : table'[n] = Listening <=> table[n] = Listening
  PROVE  ListenFdInv' /\ OneListening'
<1> USE DEF LifecycleInv
<1>0. listenFd \in Numbers \/ listenFd = NoFd
  BY DEF Types, MaybeFd
<1>1. ListenFdInv'
  BY <1>0 DEF ListenFdInv
<1>2. OneListening'
  BY DEF OneListening
<1> QED BY <1>1, <1>2

\* A task of the queue is one.
LEMMA QueueTyped ==
  ASSUME Types
  PROVE  /\ DOMAIN queue = 1 .. Len(queue)
         /\ \A i \in DOMAIN queue : queue[i].fd \in Numbers /\ queue[i].client \in Clients
<1>1. queue \in Seq(Tasks)
  BY DEF Types
<1>2. DOMAIN queue = 1 .. Len(queue) /\ \A i \in DOMAIN queue : queue[i] \in Tasks
  BY <1>1
<1> QED BY <1>2 DEF Tasks

\* A number that was free, and is something now, was in nobody's hands.
LEMMA OpenKeepsHeld ==
  ASSUME Types, HandsFull, HeldIsOpen, UNCHANGED queue,
         NEW n \in Numbers, NEW object,
         table[n] = Free, table' = [table EXCEPT ![n] = object]
  PROVE  /\ main.pc = "add" => table'[main.fd] = Connection(main.client)
         /\ \A i \in DOMAIN queue' : table'[queue'[i].fd] = Connection(queue'[i].client)
         /\ \A w \in Workers :
              /\ worker[w].pc \in {"session", "transfer"}
                   => table'[worker[w].fd] = Connection(worker[w].client)
              /\ worker[w].pc = "transfer" => table'[worker[w].file] = File(w)
<1>1. \A m \in Numbers : table[m] # Free => table'[m] = table[m]
  BY DEF Types
<1>2. \A i \in DOMAIN queue : table'[queue[i].fd] = Connection(queue[i].client)
  BY <1>1, QueueTyped, ObjectsDiffer DEF HeldIsOpen
<1>3. \A w \in Workers :
        /\ worker[w].pc \in {"session", "transfer"}
             => table'[worker[w].fd] = Connection(worker[w].client)
        /\ worker[w].pc = "transfer" => table'[worker[w].file] = File(w)
  BY <1>1, ObjectsDiffer DEF HeldIsOpen, HandsFull
<1> QED BY <1>1, <1>2, <1>3, ObjectsDiffer DEF HeldIsOpen, HandsFull

\* Steps of the main thread that touch neither table nor queue.
LEMMA MainGoesOn ==
  ASSUME LifecycleInv,
         StoreListenFd \/ LoopTest \/ ReadListenFd \/ AcceptFails
           \/ ExitTest \/ ExitRead \/ Destroy \/ Join
  PROVE  LifecycleInv'
<1> USE DEF LifecycleInv
<1> DEFINE Steps == {"store", "test", "read", "accept", "exitTest", "exitRead", "destroy", "join"}
<1>1. /\ UNCHANGED <<table, stop, worker, queue, handler, presses, backlog, served>>
      /\ main.pc \in Steps /\ Runs(Main) /\ main'.pc # "add"
  BY DEF StoreListenFd, LoopTest, ReadListenFd, AcceptFails, ExitTest, ExitRead, Destroy, Join,
         MainAt, MainGoes, Types
<1>2. Types'
  BY <1>1 DEF Types, StoreListenFd, LoopTest, ReadListenFd, AcceptFails, ExitTest, ExitRead,
         Destroy, Join, MainAt, MainGoes, MaybeFd, MainPC
<1>3. HandsFull' /\ HeldIsOpen' /\ OnePlace'
  BY <1>1, HoldersUntouched
<1>4. ListenFdInv' /\ OneListening'
  <2> USE DEF MainAt, MainGoes, Runs, Types, MaybeFd
  <2>1. CASE StoreListenFd
    BY <2>1, ObjectsDiffer DEF StoreListenFd, ListenFdInv, OneListening
  <2>2. CASE LoopTest
    BY <2>2, ObjectsDiffer DEF LoopTest, ListenFdInv, OneListening
  <2>3. CASE ReadListenFd
    BY <2>3, ObjectsDiffer DEF ReadListenFd, ListenFdInv, OneListening
  <2>4. CASE AcceptFails
    BY <2>4, ObjectsDiffer DEF AcceptFails, ListenFdInv, OneListening
  <2>5. CASE ExitTest
    BY <2>5, ObjectsDiffer DEF ExitTest, ListenFdInv, OneListening
  <2>6. CASE ExitRead
    BY <2>6, ObjectsDiffer DEF ExitRead, ListenFdInv, OneListening
  <2>7. CASE Destroy
    BY <2>7, ObjectsDiffer DEF Destroy, ListenFdInv, OneListening
  <2>8. CASE Join
    BY <2>8, ObjectsDiffer DEF Join, ListenFdInv, OneListening
  <2> QED BY <2>1, <2>2, <2>3, <2>4, <2>5, <2>6, <2>7, <2>8
<1>5. EveryNumberIsHeld'
  <2>1. CASE Join
    <3>1. main.pc = "join" /\ \A n \in Numbers : table[n] # Listening
      BY <2>1 DEF Join, MainAt, OneListening
    <3> QED BY <1>1, <3>1 DEF EveryNumberIsHeld
  <2>2. CASE ~Join
    <3>1. main'.pc # "done"
      BY <2>2 DEF StoreListenFd, LoopTest, ReadListenFd, AcceptFails, ExitTest, ExitRead,
             Destroy, MainAt, MainGoes, Types
    <3> QED BY <1>1, <3>1, NumbersUntouched
  <2> QED BY <2>1, <2>2
<1> QED BY <1>2, <1>3, <1>4, <1>5

\* Steps of the handler, and the signal, that leave the table alone.
LEMMA HandlerGoesOn ==
  ASSUME LifecycleInv, Signals <= 1, NEW t \in Threads,
         Sigint(t) \/ SetStop(t) \/ TestListenFd(t) \/ HandlerRead(t) \/ ClearListenFd(t)
  PROVE  LifecycleInv'
<1> USE DEF LifecycleInv, othersOfHandler
<1>0. UNCHANGED <<table, main, worker, queue, exitFlag, backlog, served>>
  BY DEF Sigint, SetStop, TestListenFd, HandlerRead, ClearListenFd
<1>1. t = Main /\ (Sigint(t) => presses = 0)
  <2>1. CASE Sigint(t)
    <3>1. presses = 0
      BY <2>1, LifecycleAssumption DEF Sigint, Types
    <3>2. Runs(Main)
      BY <3>1 DEF Runs, ListenFdInv
    <3> QED BY <2>1, <3>1, <3>2 DEF Sigint, Hosts
  <2>2. CASE ~Sigint(t)
    <3>1. handler[t].pc # "out"
      BY <2>2 DEF SetStop, TestListenFd, HandlerRead, ClearListenFd
    <3> QED BY <2>2, <3>1 DEF ListenFdInv, Threads
  <2> QED BY <2>1, <2>2
<1>2. Types'
  <2> USE <1>0, <1>1 DEF Types, HandlerGoes, MaybeFd, Threads
  <2>1. CASE Sigint(t)
    BY <2>1 DEF Sigint
  <2>2. CASE SetStop(t)
    BY <2>2 DEF SetStop
  <2>3. CASE TestListenFd(t)
    BY <2>3 DEF TestListenFd
  <2>4. CASE HandlerRead(t)
    BY <2>4 DEF HandlerRead
  <2>5. CASE ClearListenFd(t)
    BY <2>5 DEF ClearListenFd
  <2> QED BY <2>1, <2>2, <2>3, <2>4, <2>5
<1>3. HandsFull' /\ HeldIsOpen' /\ OnePlace' /\ EveryNumberIsHeld'
  <2>1. main' = main /\ UNCHANGED <<table, queue, worker>> /\ backlog' = backlog
    BY <1>0
  <2>2. HandsFull' /\ HeldIsOpen' /\ OnePlace'
    BY <2>1, HoldersUntouched
  <2>3. EveryNumberIsHeld'
    BY <2>1, NumbersUntouched
  <2> QED BY <2>2, <2>3
<1>4. ListenFdInv' /\ OneListening'
  <2> USE <1>0, <1>1, ObjectsDiffer DEF HandlerGoes, Types, MaybeFd, Threads, Runs, Hosts, ListenFdInv, OneListening
  <2>1. CASE Sigint(t)
    <3>1. presses = 0 /\ presses' = 1 /\ handler' = [handler EXCEPT ![Main].pc = "set"]
      BY <2>1 DEF Sigint
    <3>2. UNCHANGED <<listenFd, stop>> /\ main.pc # "done" /\ Runs(Main)
      BY <2>1, <3>1 DEF Sigint
    <3> QED BY <3>1, <3>2
  <2>2. CASE SetStop(t)
    BY <2>2 DEF SetStop
  <2>3. CASE TestListenFd(t)
    BY <2>3 DEF TestListenFd
  <2>4. CASE HandlerRead(t)
    BY <2>4 DEF HandlerRead
  <2>5. CASE ClearListenFd(t)
    BY <2>5 DEF ClearListenFd
  <2> QED BY <2>1, <2>2, <2>3, <2>4, <2>5
<1> QED BY <1>2, <1>3, <1>4

\* The listening socket is opened.
LEMMA SocketInitKeeps ==
  ASSUME LifecycleInv, SocketInit
  PROVE  LifecycleInv'
<1> USE DEF LifecycleInv
<1>1. CASE Open(Listening) /\ main' = [main EXCEPT !.pc = "store", !.fd = Lowest(Unused)]
  <2> DEFINE n == Lowest(Unused)
  <2>1. /\ n \in Numbers /\ table[n] = Free
        /\ table' = [table EXCEPT ![n] = Listening]
    BY <1>1, OpenGives
  <2> HIDE DEF n
  <2>2. /\ main.pc = "socket" /\ Runs(Main)
        /\ main' = [main EXCEPT !.pc = "store", !.fd = n]
        /\ UNCHANGED <<listenFd, stop, worker, queue, handler, presses, backlog, served>>
    BY <1>1 DEF SocketInit, MainAt, n
  <2> USE <2>1, <2>2, ObjectsDiffer
  <2>3. Types'
    BY DEF Types, Objects, MaybeFd, MainPC
  <2>4. HandsFull' /\ OnePlace'
    BY DEF HandsFull, OnePlace, Types, Serves, Adds, Queued
  <2>5. HeldIsOpen'
    BY OpenKeepsHeld DEF HeldIsOpen, Types
  <2>6. ListenFdInv' /\ OneListening'
    BY DEF ListenFdInv, OneListening, Types, Runs
  <2>7. EveryNumberIsHeld'
    BY DEF EveryNumberIsHeld, Types
  <2> QED BY <2>3, <2>4, <2>5, <2>6, <2>7
<1>2. CASE table' = table /\ MainGoes("destroy")
  <2>1. /\ main.pc = "socket" /\ Runs(Main)
        /\ main' = [main EXCEPT !.pc = "destroy"]
        /\ UNCHANGED <<table, listenFd, stop, worker, queue, handler, presses, backlog, served>>
    BY <1>2 DEF SocketInit, MainAt, MainGoes
  <2>2. Types'
    BY <2>1 DEF Types, MainPC
  <2>3. HandsFull' /\ HeldIsOpen' /\ OnePlace' /\ EveryNumberIsHeld'
    BY <2>1, HoldersUntouched, NumbersUntouched DEF Types
  <2>4. ListenFdInv' /\ OneListening'
    BY <2>1 DEF ListenFdInv, OneListening, Types, Runs
  <2> QED BY <2>2, <2>3, <2>4
<1> QED BY <1>1, <1>2 DEF SocketInit

\* A connection leaves the backlog for main's hands.
LEMMA AcceptKeeps ==
  ASSUME LifecycleInv, Accept
  PROVE  LifecycleInv'
<1> USE DEF LifecycleInv
<1>1. PICK c \in backlog :
        /\ Open(Connection(c))
        /\ main' = [pc |-> "add", fd |-> Lowest(Unused), client |-> c]
        /\ backlog' = backlog \ {c}
  BY DEF Accept
<1> DEFINE n == Lowest(Unused)
<1>2. /\ n \in Numbers /\ table[n] = Free
      /\ table' = [table EXCEPT ![n] = Connection(c)]
  BY <1>1, OpenGives
<1>3. main' = [pc |-> "add", fd |-> n, client |-> c]
  BY <1>1
<1> HIDE DEF n
<1>4. /\ main.pc = "accept" /\ Runs(Main) /\ c \in Clients
      /\ UNCHANGED <<listenFd, stop, worker, queue, handler, presses, served>>
      /\ backlog' = backlog \ {c}
  BY <1>1 DEF Accept, MainAt, Types
<1> USE <1>2, <1>3, <1>4, ObjectsDiffer
<1>5. Types'
  BY DEF Types, Objects, MaybeFd, MainPC
<1>6. HandsFull'
  BY DEF HandsFull
<1>7. OnePlace'
  BY DEF OnePlace, Serves, Adds, Queued
<1>8. HeldIsOpen'
  <2>1. table'[main'.fd] = Connection(main'.client)
    BY DEF Types
  <2>2. /\ \A i \in DOMAIN queue' : table'[queue'[i].fd] = Connection(queue'[i].client)
        /\ \A w \in Workers :
             /\ worker[w].pc \in {"session", "transfer"}
                  => table'[worker[w].fd] = Connection(worker[w].client)
             /\ worker[w].pc = "transfer" => table'[worker[w].file] = File(w)
    BY OpenKeepsHeld
  <2> QED BY <2>1, <2>2 DEF HeldIsOpen
<1>9. ListenFdInv'
  BY DEF ListenFdInv, Types, Runs, MaybeFd
<1>10. OneListening'
  BY DEF OneListening, Types, Runs
<1>11. EveryNumberIsHeld'
  BY DEF EveryNumberIsHeld, Types
<1> QED BY <1>5, <1>6, <1>7, <1>8, <1>9, <1>10, <1>11

\* A number is given back: the holders of others still hold them.
LEMMA CloseGives ==
  ASSUME Types, NEW n \in Numbers, Close(n)
  PROVE  table' = [table EXCEPT ![n] = Free] /\ table' \in [Numbers -> Objects]
BY DEF Close, Types, Objects

\* A connection goes from main's hands to the end of the queue.
LEMMA AddTaskKeeps ==
  ASSUME LifecycleInv, AddTask
  PROVE  LifecycleInv'
<1> USE DEF LifecycleInv
<1> DEFINE task == [fd |-> main.fd, client |-> main.client]
<1>1. /\ main.pc = "add" /\ Runs(Main)
      /\ main' = [pc |-> "test", fd |-> NoFd, client |-> Free]
      /\ UNCHANGED <<table, listenFd, stop, worker, handler, presses, backlog, served>>
      /\ queue' = Append(queue, task)
  BY DEF AddTask, MainAt
<1>2. task \in Tasks
  BY <1>1 DEF HandsFull, Tasks
<1>3. /\ Len(queue') = Len(queue) + 1 /\ Len(queue) \in Nat
      /\ queue' \in Seq(Tasks)
      /\ \A i \in 1 .. Len(queue) : queue'[i] = queue[i]
      /\ queue'[Len(queue) + 1] = task
  BY <1>1, <1>2 DEF Types
<1>4. \A i \in 1 .. Len(queue') : i \in 1 .. Len(queue) \/ i = Len(queue) + 1
  BY <1>3
<1>5. task.fd = main.fd /\ task.client = main.client
  OBVIOUS
<1>50. DOMAIN queue = 1 .. Len(queue) /\ DOMAIN queue' = 1 .. Len(queue')
  BY <1>3 DEF Types
<1> HIDE DEF task
<1>6. Types'
  BY <1>1, <1>3 DEF Types, MaybeFd, MainPC
<1>7. HandsFull'
  BY <1>1 DEF HandsFull
<1>8. OnePlace'
  <2>1. \A c \in Clients : Queued(c)' <=> Queued(c) \/ Adds(c)
    BY <1>1, <1>3, <1>4, <1>5 DEF Queued, Adds
  <2>2. \A c \in Clients : ~Adds(c)' /\ \A w \in Workers : Serves(w, c)' <=> Serves(w, c)
    BY <1>1 DEF Adds, Serves
  <2>3. \A i \in 1 .. Len(queue) : queue[i].client # main.client
    <3>1. Adds(main.client) /\ main.client \in Clients
      BY <1>1 DEF Adds, HandsFull
    <3> QED BY <3>1 DEF OnePlace, Queued
  <2>4. \A i, j \in 1 .. Len(queue') : queue'[i].client = queue'[j].client => i = j
    BY <1>3, <1>4, <1>5, <2>3 DEF OnePlace
  <2> QED BY <1>1, <2>1, <2>2, <2>4 DEF OnePlace
<1>9. HeldIsOpen'
  BY <1>1, <1>3, <1>4, <1>5, <1>50 DEF HeldIsOpen
<1>10. ListenFdInv' /\ OneListening'
  BY <1>1 DEF ListenFdInv, OneListening, Types, Runs
<1>11. EveryNumberIsHeld'
  <2> SUFFICES ASSUME NEW n \in Numbers, table[n] # Free, table[n] # Listening
               PROVE  \/ \E i \in DOMAIN queue' : queue'[i].fd = n
                      \/ \E w \in Workers : worker'[w].fd = n \/ worker'[w].file = n
    BY <1>1 DEF EveryNumberIsHeld
  <2>1. CASE main.fd = n
    <3>1. Len(queue) + 1 \in DOMAIN queue'
      BY <1>3, <1>50
    <3> QED BY <2>1, <1>3, <1>5, <3>1
  <2>2. CASE \E i \in DOMAIN queue : queue[i].fd = n
    BY <2>2, <1>3, <1>4, <1>50
  <2>3. CASE \E w \in Workers : worker[w].fd = n \/ worker[w].file = n
    BY <2>3, <1>1
  <2> QED BY <2>1, <2>2, <2>3 DEF EveryNumberIsHeld
<1> QED BY <1>6, <1>7, <1>8, <1>9, <1>10, <1>11

\* A connection goes from main's hands to nobody: its number is closed.
LEMMA AddTaskFailsKeeps ==
  ASSUME LifecycleInv, AddTaskFails
  PROVE  LifecycleInv'
<1> USE DEF LifecycleInv
<1>1. /\ main.pc = "add" /\ Runs(Main) /\ main.fd \in Numbers /\ main.client \in Clients
      /\ main' = [pc |-> "test", fd |-> NoFd, client |-> Free]
      /\ UNCHANGED <<listenFd, stop, worker, queue, handler, presses, backlog>>
  BY DEF AddTaskFails, MainAt, HandsFull
<1>2. table' = [table EXCEPT ![main.fd] = Free] /\ table' \in [Numbers -> Objects]
  BY <1>1, CloseGives DEF AddTaskFails
<1>3. table[main.fd] = Connection(main.client) /\ Adds(main.client)
  BY <1>1 DEF HeldIsOpen, Adds
<1> USE <1>1, <1>2, <1>3, ObjectsDiffer
<1>4. Types'
  BY DEF Types, MaybeFd, MainPC
<1>5. HandsFull' /\ OnePlace'
  BY DEF HandsFull, OnePlace, Serves, Adds, Queued
<1>6. HeldIsOpen'
  <2>1. \A m \in Numbers : m # main.fd => table'[m] = table[m]
    BY DEF Types
  <2>2. \A i \in DOMAIN queue : queue[i].fd # main.fd
    BY QueueTyped DEF OnePlace, Queued, HeldIsOpen
  <2>3. \A i \in DOMAIN queue' : table'[queue'[i].fd] = Connection(queue'[i].client)
    BY <2>1, <2>2, QueueTyped DEF HeldIsOpen
  <2>4. \A w \in Workers :
          /\ worker[w].pc \in {"session", "transfer"} => worker[w].fd # main.fd
          /\ worker[w].pc = "transfer" => worker[w].file # main.fd
    BY DEF OnePlace, Serves, HeldIsOpen, HandsFull
  <2> QED BY <2>1, <2>3, <2>4 DEF HeldIsOpen, HandsFull
<1>7. ListenFdInv' /\ OneListening'
  BY DEF ListenFdInv, OneListening, Types, Runs, MaybeFd
<1>8. EveryNumberIsHeld'
  BY DEF EveryNumberIsHeld, Types
<1> QED BY <1>4, <1>5, <1>6, <1>7, <1>8

\* The listening socket is closed, by main or by the handler: nobody held it.
LEMMA ListeningNotHeld ==
  ASSUME LifecycleInv, NEW n \in Numbers, table[n] = Listening,
         UNCHANGED <<queue, worker, backlog>>, table' = [table EXCEPT ![n] = Free],
         main.pc = "add" \/ main'.pc = "add" => main' = main
  PROVE  HandsFull' /\ HeldIsOpen' /\ OnePlace'
<1> USE DEF LifecycleInv
<1>1. \A m \in Numbers : m # n => table'[m] = table[m]
  BY DEF Types
<1>2. HandsFull'
  BY DEF HandsFull
<1>3. OnePlace'
  BY DEF OnePlace, Serves, Adds, Queued
<1>4. \A i \in DOMAIN queue : table'[queue[i].fd] = Connection(queue[i].client)
  BY <1>1, QueueTyped, ObjectsDiffer DEF HeldIsOpen
<1>5. \A w \in Workers :
        /\ worker[w].pc \in {"session", "transfer"}
             => table'[worker[w].fd] = Connection(worker[w].client)
        /\ worker[w].pc = "transfer" => table'[worker[w].file] = File(w)
  BY <1>1, ObjectsDiffer DEF HeldIsOpen, HandsFull
<1>6. main'.pc = "add" => table'[main'.fd] = Connection(main'.client)
  BY <1>1, ObjectsDiffer DEF HeldIsOpen, HandsFull
<1>7. HeldIsOpen'
  BY <1>4, <1>5, <1>6 DEF HeldIsOpen
<1> QED BY <1>2, <1>3, <1>7

\* Main closes the listening socket it finds in g_listen_fd.
LEMMA ExitCloseKeeps ==
  ASSUME LifecycleInv, ExitClose
  PROVE  LifecycleInv'
<1> USE DEF LifecycleInv
<1>1. /\ main.pc = "exitClose" /\ Runs(Main) /\ main.fd \in Numbers
      /\ main.fd = listenFd /\ presses = 1 /\ table[main.fd] = Listening
      /\ main' = [main EXCEPT !.pc = "destroy", !.fd = NoFd]
      /\ UNCHANGED <<listenFd, stop, worker, queue, handler, presses, backlog>>
  BY DEF ExitClose, MainAt, Runs, ListenFdInv, Types, MaybeFd
<1>2. table' = [table EXCEPT ![main.fd] = Free] /\ table' \in [Numbers -> Objects]
  BY <1>1, CloseGives DEF ExitClose
<1>3. main'.pc = "destroy"
  BY <1>1 DEF Types
<1>4. Types'
  BY <1>1, <1>2 DEF Types, MaybeFd, MainPC
<1>5. HandsFull' /\ HeldIsOpen' /\ OnePlace'
  BY <1>1, <1>2, <1>3, ListeningNotHeld
<1>6. ListenFdInv'
  BY <1>1, <1>2, <1>3, ObjectsDiffer DEF ListenFdInv, Types, Runs
<1>7. OneListening'
  BY <1>1, <1>2, <1>3, ObjectsDiffer DEF OneListening, Types
<1>8. EveryNumberIsHeld'
  BY <1>1, <1>2, <1>3, ObjectsDiffer DEF EveryNumberIsHeld, Types
<1> QED BY <1>4, <1>5, <1>6, <1>7, <1>8

\* The handler closes it, on the main thread.
LEMMA HandlerCloseKeeps ==
  ASSUME LifecycleInv, NEW t \in Threads, HandlerClose(t)
  PROVE  LifecycleInv'
<1> USE DEF LifecycleInv
<1>1. t = Main
  BY DEF HandlerClose, ListenFdInv, Threads
<1>2. /\ handler[Main].pc = "close" /\ handler[Main].fd = listenFd /\ listenFd \in Numbers
      /\ presses = 1 /\ ~(main.pc \in {"socket", "store", "destroy", "join", "done"})
      /\ main.pc \notin {"exitTest", "exitRead", "exitClose"}
      /\ table[listenFd] = Listening
      /\ handler' = [handler EXCEPT ![Main].pc = "clear"]
      /\ UNCHANGED <<listenFd, stop, main, worker, queue, presses, backlog>>
  BY <1>1 DEF HandlerClose, HandlerGoes, othersOfHandler, ListenFdInv, Types, MaybeFd
<1>3. table' = [table EXCEPT ![listenFd] = Free] /\ table' \in [Numbers -> Objects]
  BY <1>1, <1>2, CloseGives DEF HandlerClose
<1>4. Types'
  BY <1>2, <1>3 DEF Types, MaybeFd, Threads
<1>5. HandsFull' /\ HeldIsOpen' /\ OnePlace'
  BY <1>2, <1>3, ListeningNotHeld
<1>6. /\ handler'[Main].pc = "clear"
      /\ \A w \in Workers : handler'[w].pc = "out"
  BY <1>2, ObjectsDiffer DEF Types, Threads, ListenFdInv
<1>7. ListenFdInv'
  BY <1>2, <1>3, <1>6, ObjectsDiffer DEF ListenFdInv, Types
<1>8. OneListening'
  BY <1>2, <1>3, <1>6, ObjectsDiffer DEF OneListening, Types
<1>9. EveryNumberIsHeld'
  BY <1>2, <1>3, ObjectsDiffer DEF EveryNumberIsHeld, Types
<1> QED BY <1>4, <1>5, <1>7, <1>8, <1>9

\* A worker takes the first task.
LEMMA TakeKeeps ==
  ASSUME LifecycleInv, NEW w \in Workers, Take(w)
  PROVE  LifecycleInv'
<1> USE DEF LifecycleInv
<1> DEFINE hands == [pc |-> "session", fd |-> queue[1].fd, client |-> queue[1].client, file |-> NoFd]
<1>1. /\ worker[w].pc = "idle"
      /\ UNCHANGED <<table, listenFd, stop, main, handler, presses, backlog>>
      /\ queue # <<>> /\ queue' = Tail(queue) /\ queue \in Seq(Tasks)
  BY DEF Take, At, othersOfWorker, Types
<1>2. worker' = [worker EXCEPT ![w] = hands]
  <2>1. Head(queue) = queue[1]
    BY <1>1
  <2> QED BY <2>1 DEF Take
<1>3. /\ Len(queue) \in Nat /\ Len(queue) >= 1 /\ Len(queue') = Len(queue) - 1
      /\ queue' \in Seq(Tasks)
      /\ \A i \in 1 .. Len(queue') : i + 1 \in 1 .. Len(queue) /\ queue'[i] = queue[i + 1]
  BY <1>1
<1>4. 1 \in DOMAIN queue /\ queue[1].fd \in Numbers /\ queue[1].client \in Clients
  BY <1>3, QueueTyped
<1>5. DOMAIN queue' = 1 .. Len(queue') /\ DOMAIN queue = 1 .. Len(queue)
  BY <1>1, <1>3
<1>6. /\ hands.pc = "session" /\ hands.fd = queue[1].fd
      /\ hands.client = queue[1].client /\ hands.file = NoFd
      /\ hands \in Hands
  BY <1>4 DEF MaybeFd, Hands
<1> HIDE DEF hands
<1>7. worker'[w] = hands /\ \A v \in Workers : v # w => worker'[v] = worker[v]
  BY <1>2 DEF Types
<1>8. Types'
  BY <1>1, <1>2, <1>3, <1>6 DEF Types
<1>9. HandsFull'
  BY <1>1, <1>4, <1>6, <1>7 DEF HandsFull
<1>10. OnePlace'
  <2>1. \A c \in Clients : Queued(c)' => Queued(c) /\ c # queue[1].client
    <3>1. \A i \in 1 .. Len(queue') : queue[i + 1].client # queue[1].client
      BY <1>3, <1>4, <1>5 DEF OnePlace
    <3> QED BY <1>3, <3>1 DEF Queued
  <2>2. \A c \in Clients, v \in Workers :
          Serves(v, c)' => (v # w /\ Serves(v, c)) \/ (v = w /\ c = queue[1].client)
    <3> TAKE c \in Clients, v \in Workers
    <3>1. CASE v = w
      BY <3>1, <1>6, <1>7 DEF Serves
    <3>2. CASE v # w
      BY <3>2, <1>7 DEF Serves
    <3> QED BY <3>1, <3>2
  <2>3. Queued(queue[1].client)
    BY <1>4, <1>5 DEF Queued
  <2>4. \A c \in Clients : Adds(c)' <=> Adds(c)
    BY <1>1 DEF Adds
  <2>5. \A i, j \in 1 .. Len(queue') : queue'[i].client = queue'[j].client => i = j
    BY <1>3 DEF OnePlace
  <2> QED BY <1>1, <2>1, <2>2, <2>3, <2>4, <2>5 DEF OnePlace
<1>11. HeldIsOpen'
  <2>1. table[queue[1].fd] = Connection(queue[1].client)
    BY <1>4 DEF HeldIsOpen
  <2>2. \A i \in DOMAIN queue' : table[queue'[i].fd] = Connection(queue'[i].client)
    BY <1>3, <1>5 DEF HeldIsOpen
  <2> QED BY <1>1, <1>6, <1>7, <2>1, <2>2 DEF HeldIsOpen
<1>12. ListenFdInv' /\ OneListening'
  BY <1>1, ListenerUntouched
<1>13. EveryNumberIsHeld'
  <2> SUFFICES ASSUME NEW n \in Numbers, table[n] # Free
               PROVE  \/ table[n] = Listening /\ main.pc # "done"
                      \/ main.pc = "add" /\ main.fd = n
                      \/ \E i \in DOMAIN queue' : queue'[i].fd = n
                      \/ \E v \in Workers : worker'[v].fd = n \/ worker'[v].file = n
    BY <1>1 DEF EveryNumberIsHeld
  <2>1. CASE \E i \in DOMAIN queue : queue[i].fd = n
    <3>1. PICK i \in 1 .. Len(queue) : queue[i].fd = n
      BY <2>1, <1>5
    <3>2. CASE i = 1
      BY <3>1, <3>2, <1>6, <1>7
    <3>3. CASE i # 1
      <4>1. i - 1 \in 1 .. Len(queue') /\ (i - 1) + 1 = i
        BY <3>1, <3>3, <1>3
      <4>2. queue'[i - 1] = queue[i]
        BY <4>1, <1>3
      <4> QED BY <4>1, <4>2, <3>1, <1>5
    <3> QED BY <3>2, <3>3
  <2>2. CASE \E v \in Workers : worker[v].fd = n \/ worker[v].file = n
    <3>1. PICK v \in Workers : worker[v].fd = n \/ worker[v].file = n
      BY <2>2
    <3>2. v # w
      BY <3>1, <1>1, ObjectsDiffer DEF HandsFull
    <3> QED BY <3>1, <3>2, <1>7
  <2> QED BY <2>1, <2>2 DEF EveryNumberIsHeld
<1> QED BY <1>8, <1>9, <1>10, <1>11, <1>12, <1>13

\* A file takes a free number.
LEMMA OpenFileKeeps ==
  ASSUME LifecycleInv, NEW w \in Workers, OpenFile(w)
  PROVE  LifecycleInv'
<1> USE DEF LifecycleInv
<1> DEFINE n == Lowest(Unused)
<1>1. /\ n \in Numbers /\ table[n] = Free
      /\ table' = [table EXCEPT ![n] = File(w)]
  BY OpenGives DEF OpenFile
<1>2. /\ worker[w].pc = "session"
      /\ worker' = [worker EXCEPT ![w].pc = "transfer", ![w].file = n]
      /\ UNCHANGED <<listenFd, stop, main, queue, handler, presses, backlog>>
  BY DEF OpenFile, At, othersOfWorker
<1> HIDE DEF n
<1>3. /\ worker'[w].pc = "transfer" /\ worker'[w].file = n
      /\ worker'[w].fd = worker[w].fd /\ worker'[w].client = worker[w].client
      /\ \A v \in Workers : v # w => worker'[v] = worker[v]
  BY <1>2 DEF Types
<1>4. Types'
  <2>1. table' \in [Numbers -> Objects]
    BY <1>1 DEF Types, Objects
  <2>2. worker' \in [Workers -> Hands]
    <3>1. worker[w] \in Hands /\ n \in MaybeFd
      BY <1>1 DEF Types, MaybeFd
    <3>2. [worker[w] EXCEPT !.pc = "transfer", !.file = n] \in Hands
      BY <3>1 DEF Hands
    <3>3. worker' = [worker EXCEPT ![w] = [worker[w] EXCEPT !.pc = "transfer", !.file = n]]
      BY <1>2
    <3> QED BY <3>2, <3>3 DEF Types
  <2> QED BY <1>2, <2>1, <2>2 DEF Types
<1>5. HandsFull'
  BY <1>1, <1>2, <1>3 DEF HandsFull
<1>6. OnePlace'
  <2>1. \A c \in Clients, v \in Workers : Serves(v, c)' <=> Serves(v, c)
    BY <1>2, <1>3 DEF Serves
  <2>2. \A c \in Clients : (Adds(c)' <=> Adds(c)) /\ (Queued(c)' <=> Queued(c))
    BY <1>2 DEF Adds, Queued
  <2> QED BY <1>2, <2>1, <2>2 DEF OnePlace
<1>7. HeldIsOpen'
  <2>1. /\ main.pc = "add" => table'[main.fd] = Connection(main.client)
        /\ \A i \in DOMAIN queue' : table'[queue'[i].fd] = Connection(queue'[i].client)
        /\ \A v \in Workers :
             /\ worker[v].pc \in {"session", "transfer"}
                  => table'[worker[v].fd] = Connection(worker[v].client)
             /\ worker[v].pc = "transfer" => table'[worker[v].file] = File(v)
    BY <1>1, <1>2, OpenKeepsHeld
  <2>2. table'[n] = File(w)
    BY <1>1 DEF Types
  <2>3. \A v \in Workers :
          /\ worker'[v].pc \in {"session", "transfer"}
               => table'[worker'[v].fd] = Connection(worker'[v].client)
          /\ worker'[v].pc = "transfer" => table'[worker'[v].file] = File(v)
    <3> TAKE v \in Workers
    <3>1. CASE v = w
      BY <3>1, <1>2, <1>3, <2>1, <2>2
    <3>2. CASE v # w
      BY <3>2, <1>3, <2>1
    <3> QED BY <3>1, <3>2
  <2> QED BY <1>2, <2>1, <2>3 DEF HeldIsOpen
<1>8. ListenFdInv' /\ OneListening'
  <2>1. \A m \in Numbers : table'[m] = Listening <=> table[m] = Listening
    BY <1>1, ObjectsDiffer DEF Types
  <2> QED BY <1>2, <2>1, ListenerUntouched
<1>9. EveryNumberIsHeld'
  <2>1. \A m \in Numbers : m # n => table'[m] = table[m]
    BY <1>1 DEF Types
  <2>2. \A v \in Workers, m \in Numbers :
          worker[v].fd = m \/ worker[v].file = m => worker'[v].fd = m \/ worker'[v].file = m
    <3> TAKE v \in Workers, m \in Numbers
    <3>1. CASE v = w
      BY <3>1, <1>2, <1>3, ObjectsDiffer DEF HandsFull
    <3>2. CASE v # w
      BY <3>2, <1>3
    <3> QED BY <3>1, <3>2
  <2> SUFFICES ASSUME NEW m \in Numbers, table'[m] # Free
               PROVE  \/ table'[m] = Listening /\ main'.pc # "done"
                      \/ main'.pc = "add" /\ main'.fd = m
                      \/ \E i \in DOMAIN queue' : queue'[i].fd = m
                      \/ \E v \in Workers : worker'[v].fd = m \/ worker'[v].file = m
    BY DEF EveryNumberIsHeld
  <2>3. CASE m = n
    BY <1>3, <2>3
  <2>4. CASE m # n
    BY <1>2, <2>1, <2>2, <2>4 DEF EveryNumberIsHeld
  <2> QED BY <2>3, <2>4
<1> QED BY <1>4, <1>5, <1>6, <1>7, <1>8, <1>9

\* A worker closes its file, and nobody else's number.
LEMMA CloseFileKeeps ==
  ASSUME LifecycleInv, NEW w \in Workers, CloseFile(w)
  PROVE  LifecycleInv'
<1> USE DEF LifecycleInv
<1> DEFINE n == worker[w].file
<1>1. /\ worker[w].pc = "transfer" /\ n \in Numbers /\ table[n] = File(w)
      /\ worker' = [worker EXCEPT ![w].pc = "session", ![w].file = NoFd]
      /\ UNCHANGED <<listenFd, stop, main, queue, handler, presses, backlog>>
  BY DEF CloseFile, At, othersOfWorker, HandsFull, HeldIsOpen
<1>2. table' = [table EXCEPT ![n] = Free] /\ table' \in [Numbers -> Objects]
  BY <1>1, CloseGives DEF CloseFile
<1>3. /\ worker'[w].pc = "session" /\ worker'[w].file = NoFd
      /\ worker'[w].fd = worker[w].fd /\ worker'[w].client = worker[w].client
      /\ \A v \in Workers : v # w => worker'[v] = worker[v]
  BY <1>1 DEF Types
<1>4. table'[n] = Free /\ \A m \in Numbers : m # n => table'[m] = table[m]
  BY <1>1, <1>2 DEF Types
<1>0. n = worker[w].file
  OBVIOUS
<1> HIDE DEF n
<1>5. Types'
  <2>1. worker' \in [Workers -> Hands]
    <3>1. worker[w] \in Hands
      BY DEF Types
    <3>2. [worker[w] EXCEPT !.pc = "session", !.file = NoFd] \in Hands
      BY <3>1 DEF Hands, MaybeFd
    <3>3. worker' = [worker EXCEPT ![w] = [worker[w] EXCEPT !.pc = "session", !.file = NoFd]]
      BY <1>1
    <3> QED BY <3>2, <3>3 DEF Types
  <2> QED BY <1>1, <1>2, <2>1 DEF Types
<1>6. HandsFull'
  BY <1>1, <1>3 DEF HandsFull
<1>7. OnePlace'
  <2>1. \A c \in Clients, v \in Workers : Serves(v, c)' <=> Serves(v, c)
    BY <1>1, <1>3 DEF Serves
  <2>2. \A c \in Clients : (Adds(c)' <=> Adds(c)) /\ (Queued(c)' <=> Queued(c))
    BY <1>1 DEF Adds, Queued
  <2> QED BY <1>1, <2>1, <2>2 DEF OnePlace
<1>8. HeldIsOpen'
  <2>1. main.pc = "add" => table'[main.fd] = Connection(main.client)
    BY <1>1, <1>4, ObjectsDiffer DEF HeldIsOpen, HandsFull
  <2>2. \A i \in DOMAIN queue : table'[queue[i].fd] = Connection(queue[i].client)
    BY <1>1, <1>4, QueueTyped, ObjectsDiffer DEF HeldIsOpen
  <2>3. \A v \in Workers :
          worker[v].pc \in {"session", "transfer"} =>
            table'[worker[v].fd] = Connection(worker[v].client)
    BY <1>1, <1>4, ObjectsDiffer DEF HeldIsOpen, HandsFull
  <2>4. \A v \in Workers : v # w /\ worker[v].pc = "transfer" => table'[worker[v].file] = File(v)
    BY <1>1, <1>4, ObjectsDiffer DEF HeldIsOpen, HandsFull
  <2>5. \A v \in Workers :
          /\ worker'[v].pc \in {"session", "transfer"}
               => table'[worker'[v].fd] = Connection(worker'[v].client)
          /\ worker'[v].pc = "transfer" => table'[worker'[v].file] = File(v)
    <3> TAKE v \in Workers
    <3>1. CASE v = w
      BY <3>1, <1>1, <1>3, <2>3
    <3>2. CASE v # w
      BY <3>2, <1>3, <2>3, <2>4
    <3> QED BY <3>1, <3>2
  <2> QED BY <1>1, <2>1, <2>2, <2>5 DEF HeldIsOpen
<1>9. ListenFdInv' /\ OneListening'
  <2>1. \A m \in Numbers : table'[m] = Listening <=> table[m] = Listening
    BY <1>1, <1>4, ObjectsDiffer
  <2> QED BY <1>1, <2>1, ListenerUntouched
<1>10. EveryNumberIsHeld'
  <2>1. \A v \in Workers, m \in Numbers :
          m # n /\ (worker[v].fd = m \/ worker[v].file = m)
            => worker'[v].fd = m \/ worker'[v].file = m
    <3> TAKE v \in Workers, m \in Numbers
    <3>1. CASE v = w
      BY <3>1, <1>3, <1>0
    <3>2. CASE v # w
      BY <3>2, <1>3
    <3> QED BY <3>1, <3>2
  <2> QED BY <1>1, <1>4, <2>1 DEF EveryNumberIsHeld
<1> QED BY <1>5, <1>6, <1>7, <1>8, <1>9, <1>10

\* A worker closes its connection, and nobody else's number.
LEMMA SessionEndsKeeps ==
  ASSUME LifecycleInv, NEW w \in Workers, SessionEnds(w)
  PROVE  LifecycleInv'
<1> USE DEF LifecycleInv
<1> DEFINE n == worker[w].fd
           idle == [pc |-> "idle", fd |-> NoFd, client |-> Free, file |-> NoFd]
<1>1. /\ worker[w].pc = "session" /\ n \in Numbers
      /\ worker[w].client \in Clients /\ table[n] = Connection(worker[w].client)
      /\ worker' = [worker EXCEPT ![w] = idle]
      /\ UNCHANGED <<listenFd, stop, main, queue, handler, presses, backlog>>
  BY DEF SessionEnds, At, othersOfWorker, HandsFull, HeldIsOpen
<1>2. table' = [table EXCEPT ![n] = Free] /\ table' \in [Numbers -> Objects]
  BY <1>1, CloseGives DEF SessionEnds
<1>3. /\ worker'[w] = idle
      /\ \A v \in Workers : v # w => worker'[v] = worker[v]
  BY <1>1 DEF Types
<1>4. table'[n] = Free /\ \A m \in Numbers : m # n => table'[m] = table[m]
  BY <1>1, <1>2 DEF Types
<1>5. /\ idle.pc = "idle" /\ idle.fd = NoFd /\ idle.file = NoFd /\ n = worker[w].fd
      /\ idle \in Hands
  BY DEF MaybeFd, Hands
<1>6. Serves(w, worker[w].client)
  BY <1>1 DEF Serves
<1> HIDE DEF n, idle
<1>7. Types'
  BY <1>1, <1>2, <1>5 DEF Types
<1>8. HandsFull'
  BY <1>1, <1>3, <1>5 DEF HandsFull
<1>9. OnePlace'
  <2>1. \A c \in Clients, v \in Workers : Serves(v, c)' => Serves(v, c)
    <3> TAKE c \in Clients, v \in Workers
    <3>1. CASE v = w
      BY <3>1, <1>3, <1>5 DEF Serves
    <3>2. CASE v # w
      BY <3>2, <1>3 DEF Serves
    <3> QED BY <3>1, <3>2
  <2>2. \A c \in Clients : (Adds(c)' <=> Adds(c)) /\ (Queued(c)' <=> Queued(c))
    BY <1>1 DEF Adds, Queued
  <2> QED BY <1>1, <2>1, <2>2 DEF OnePlace
<1>10. HeldIsOpen'
  <2>1. main.pc = "add" => table'[main.fd] = Connection(main.client)
    <3>1. main.pc = "add" => main.client # worker[w].client /\ main.client \in Clients
      BY <1>1, <1>6 DEF OnePlace, Adds, HandsFull
    <3> QED BY <3>1, <1>1, <1>4, ObjectsDiffer DEF HeldIsOpen, HandsFull
  <2>2. \A i \in DOMAIN queue : table'[queue[i].fd] = Connection(queue[i].client)
    <3>1. \A i \in DOMAIN queue : queue[i].client # worker[w].client
      BY <1>1, <1>6, QueueTyped DEF OnePlace, Queued
    <3> QED BY <3>1, <1>1, <1>4, QueueTyped, ObjectsDiffer DEF HeldIsOpen
  <2>3. \A v \in Workers : v # w /\ worker[v].pc \in {"session", "transfer"} =>
          table'[worker[v].fd] = Connection(worker[v].client)
    <3>1. \A v \in Workers : v # w /\ worker[v].pc \in {"session", "transfer"} =>
            worker[v].client # worker[w].client
      BY <1>1 DEF OnePlace, Serves, HandsFull
    <3> QED BY <3>1, <1>1, <1>4, ObjectsDiffer DEF HeldIsOpen, HandsFull
  <2>4. \A v \in Workers : worker[v].pc = "transfer" => table'[worker[v].file] = File(v)
    BY <1>1, <1>4, ObjectsDiffer DEF HeldIsOpen, HandsFull
  <2>5. \A v \in Workers :
          /\ worker'[v].pc \in {"session", "transfer"}
               => table'[worker'[v].fd] = Connection(worker'[v].client)
          /\ worker'[v].pc = "transfer" => table'[worker'[v].file] = File(v)
    <3> TAKE v \in Workers
    <3>1. CASE v = w
      BY <3>1, <1>3, <1>5
    <3>2. CASE v # w
      BY <3>2, <1>3, <2>3, <2>4
    <3> QED BY <3>1, <3>2
  <2> QED BY <1>1, <2>1, <2>2, <2>5 DEF HeldIsOpen
<1>11. ListenFdInv' /\ OneListening'
  <2>1. \A m \in Numbers : table'[m] = Listening <=> table[m] = Listening
    BY <1>1, <1>4, ObjectsDiffer
  <2> QED BY <1>1, <2>1, ListenerUntouched
<1>12. EveryNumberIsHeld'
  <2>1. \A v \in Workers, m \in Numbers :
          m # n /\ (worker[v].fd = m \/ worker[v].file = m)
            => worker'[v].fd = m \/ worker'[v].file = m
    <3> TAKE v \in Workers, m \in Numbers
    <3>1. CASE v = w
      BY <3>1, <1>1, <1>5, ObjectsDiffer DEF HandsFull
    <3>2. CASE v # w
      BY <3>2, <1>3
    <3> QED BY <3>1, <3>2
  <2> QED BY <1>1, <1>4, <2>1 DEF EveryNumberIsHeld
<1> QED BY <1>7, <1>8, <1>9, <1>10, <1>11, <1>12

\* A worker that leaves has nothing in its hands.
LEMMA ExitKeeps ==
  ASSUME LifecycleInv, NEW w \in Workers, Exit(w)
  PROVE  LifecycleInv'
<1> USE DEF LifecycleInv
<1>1. /\ worker[w].pc = "idle" /\ worker' = [worker EXCEPT ![w].pc = "gone"]
      /\ UNCHANGED <<table, listenFd, stop, main, queue, handler, presses, backlog>>
  BY DEF Exit, At, othersOfWorker
<1>2. /\ worker'[w].pc = "gone"
      /\ worker'[w].fd = worker[w].fd /\ worker'[w].file = worker[w].file
      /\ \A v \in Workers : v # w => worker'[v] = worker[v]
  BY <1>1 DEF Types
<1>3. Types'
  <2>1. worker' \in [Workers -> Hands]
    <3>1. worker[w] \in Hands
      BY DEF Types
    <3>2. [worker[w] EXCEPT !.pc = "gone"] \in Hands
      BY <3>1 DEF Hands
    <3> QED BY <1>1, <3>2 DEF Types
  <2> QED BY <1>1, <2>1 DEF Types
<1>4. HandsFull'
  BY <1>1, <1>2 DEF HandsFull
<1>5. OnePlace'
  <2>1. \A c \in Clients, v \in Workers : Serves(v, c)' <=> Serves(v, c)
    BY <1>1, <1>2 DEF Serves
  <2>2. \A c \in Clients : (Adds(c)' <=> Adds(c)) /\ (Queued(c)' <=> Queued(c))
    BY <1>1 DEF Adds, Queued
  <2> QED BY <1>1, <2>1, <2>2 DEF OnePlace
<1>6. HeldIsOpen'
  BY <1>1, <1>2 DEF HeldIsOpen
<1>7. ListenFdInv' /\ OneListening'
  BY <1>1, ListenerUntouched
<1>8. EveryNumberIsHeld'
  <2>1. \A v \in Workers : worker'[v].fd = worker[v].fd /\ worker'[v].file = worker[v].file
    BY <1>2
  <2> QED BY <1>1, <2>1 DEF EveryNumberIsHeld
<1> QED BY <1>3, <1>4, <1>5, <1>6, <1>7, <1>8

\* A client that connects has no connection yet.
LEMMA ConnectKeeps ==
  ASSUME LifecycleInv, NEW c \in Clients, Connect(c)
  PROVE  LifecycleInv'
<1> USE DEF LifecycleInv
<1>1. /\ backlog' = backlog \cup {c} /\ \A n \in Numbers : table[n] # Connection(c)
      /\ UNCHANGED <<table, listenFd, stop, main, worker, queue, handler, presses>>
  BY DEF Connect
<1>2. ~Adds(c) /\ ~Queued(c) /\ \A w \in Workers : ~Serves(w, c)
  BY <1>1, QueueTyped DEF Adds, Queued, Serves, HeldIsOpen, HandsFull
<1>3. Types'
  BY <1>1 DEF Types
<1>4. HandsFull' /\ HeldIsOpen'
  BY <1>1 DEF HandsFull, HeldIsOpen
<1>5. OnePlace'
  BY <1>1, <1>2 DEF OnePlace, Adds, Queued, Serves
<1>6. ListenFdInv' /\ OneListening'
  BY <1>1, ListenerUntouched
<1>7. EveryNumberIsHeld'
  BY <1>1 DEF EveryNumberIsHeld
<1> QED BY <1>3, <1>4, <1>5, <1>6, <1>7

\* The invariant is one: no step breaks it.
LEMMA LifecycleInvHolds ==
  ASSUME Signals <= 1
  PROVE  Spec => []LifecycleInv
<1>1. Init => LifecycleInv
  <2> SUFFICES ASSUME Init PROVE LifecycleInv
    OBVIOUS
  <2> USE ObjectsDiffer DEF Init
  <2>1. Types
    <3>1. table \in [Numbers -> Objects] /\ queue \in Seq(Tasks)
      BY DEF Objects
    <3>2. main \in [pc : MainPC, fd : MaybeFd, client : Clients \cup {Free}]
      BY DEF MainPC, MaybeFd
    <3>3. worker \in [Workers -> Hands]
      BY DEF MaybeFd, Hands
    <3>4. handler \in [Threads -> [pc : {"out", "set", "test", "read", "close", "clear"}, fd : MaybeFd]]
      BY DEF MaybeFd, Hands
    <3> QED BY <3>1, <3>2, <3>3, <3>4 DEF Types, MaybeFd
  <2>2. HandsFull /\ OnePlace /\ HeldIsOpen
    BY DEF HandsFull, OnePlace, HeldIsOpen, Serves, Adds, Queued
  <2>3. ListenFdInv /\ OneListening /\ EveryNumberIsHeld
    BY DEF ListenFdInv, OneListening, EveryNumberIsHeld, Threads
  <2> QED BY <2>1, <2>2, <2>3 DEF LifecycleInv
<1>2. LifecycleInv /\ [Next]_vars => LifecycleInv'
  <2> SUFFICES ASSUME LifecycleInv, [Next]_vars PROVE LifecycleInv'
    OBVIOUS
  <2>1. CASE MainStep
    BY <2>1, SocketInitKeeps, MainGoesOn, AcceptKeeps, AddTaskKeeps, AddTaskFailsKeeps,
       ExitCloseKeeps DEF MainStep
  <2>2. ASSUME NEW w \in Workers, WorkerStep(w) PROVE LifecycleInv'
    BY <2>2, TakeKeeps, OpenFileKeeps, CloseFileKeeps, SessionEndsKeeps, ExitKeeps DEF WorkerStep
  <2>3. ASSUME NEW t \in Threads, Sigint(t) \/ HandlerStep(t) PROVE LifecycleInv'
    BY <2>3, HandlerGoesOn, HandlerCloseKeeps DEF HandlerStep
  <2>4. ASSUME NEW c \in Clients, Connect(c) PROVE LifecycleInv'
    BY <2>4, ConnectKeeps
  <2>5. CASE UNCHANGED vars
    <3>1. UNCHANGED <<table, listenFd, stop, main, worker, queue, handler, presses, backlog>>
      BY <2>5 DEF vars
    <3>2. HandsFull' /\ HeldIsOpen' /\ OnePlace'
      BY <3>1, HoldersUntouched
    <3>3. ListenFdInv' /\ OneListening'
      BY <3>1, ListenerUntouched
    <3>4. EveryNumberIsHeld'
      BY <3>1, NumbersUntouched
    <3>5. Types'
      BY <3>1 DEF LifecycleInv, Types
    <3> QED BY <3>2, <3>3, <3>4, <3>5 DEF LifecycleInv
  <2> QED BY <2>1, <2>2, <2>3, <2>4, <2>5 DEF Next, Terminated
<1> QED BY <1>1, <1>2, PTL DEF Spec

\* Under one SIGINT, whenever it comes and whichever handler, loop or session
\* it meets, no thread's number stands for anything but what the thread holds
\* it for (HeldIsOpen): the handler's close of a number read before never
\* hits a connection or a file (main.c:23-35).
THEOREM HeldStaysOpen ==
  ASSUME Signals <= 1
  PROVE  Spec => []HeldIsOpen
BY LifecycleInvHolds, PTL DEF LifecycleInv

\* Under one SIGINT nothing stays open that nobody holds, and the listening
\* socket is closed when main returns (EveryNumberIsHeld).
THEOREM NoNumberIsLost ==
  ASSUME Signals <= 1
  PROVE  Spec => []EveryNumberIsHeld
BY LifecycleInvHolds, PTL DEF LifecycleInv
=============================================================================
