----------------------------- MODULE TaskQueue -----------------------------
(***************************************************************************)
(* The task queue as it lies in memory: a singly linked list of allocated  *)
(* nodes with pointers to both ends and a counter.                         *)
(*                                                                         *)
(*   src/src/server/queue.c     queue_init, queue_push, queue_pop          *)
(*   src/include/queue.h        queue_node_t, queue_t                      *)
(*                                                                         *)
(* Callers hold the pool's mutex, or are the only thread left, so each     *)
(* operation is one step.  ThreadPool uses the sequence that Fifo          *)
(* describes in place of this list; PoolQueue puts the two together.       *)
(***************************************************************************)
EXTENDS Naturals, Sequences

CONSTANTS Nodes,  \* the addresses calloc may return
          Fds,    \* client descriptors
          NoFd,   \* -1
          NULL

ASSUME AddressAssumption == NULL \notin Nodes /\ NoFd \notin Fds

VARIABLES
  head, tail, size,  \* queue_t
  cell,              \* the content of memory at each address
  live,              \* the addresses that are allocated
  got,               \* what the last successful queue_pop stored
  order              \* history: the nodes pushed and not yet popped

queueVars == <<head, tail, size, cell, live>>
listVars == <<queueVars, got, order>>

Node == [client_fd : Fds \cup {NoFd}, next : Nodes \cup {NULL}]

QueueInit ==
  /\ head = NULL /\ tail = NULL /\ size = 0
  /\ cell = [a \in Nodes |-> [client_fd |-> NoFd, next |-> NULL]]
  /\ live = {}
  /\ got = NoFd
  /\ order = <<>>

-----------------------------------------------------------------------------
(* Faulty variants of the operations, for the properties to find.          *)

\* The last node leaves the tail pointing at freed memory.
PopKeepsTail ==
  /\ size # 0
  /\ got' = cell[head].client_fd
  /\ head' = cell[head].next
  /\ size' = size - 1
  /\ live' = live \ {head}
  /\ order' = Tail(order)
  /\ UNCHANGED <<tail, cell>>

\* The descriptor of the other end is returned.
PopNewest ==
  /\ size # 0
  /\ got' = cell[tail].client_fd
  /\ head' = cell[head].next
  /\ tail' = IF head' = NULL THEN NULL ELSE tail
  /\ size' = size - 1
  /\ live' = live \ {head}
  /\ order' = Tail(order)
  /\ cell' = cell

-----------------------------------------------------------------------------
\* queue_push when calloc finds memory.
Push(fd) ==
  \E n \in Nodes \ live :
    /\ live' = live \cup {n}
    /\ cell' = [a \in Nodes |->
                  CASE a = n -> [client_fd |-> fd, next |-> NULL]
                    [] a # n /\ a = tail /\ size # 0 -> [cell[a] EXCEPT !.next = n]
                    [] OTHER -> cell[a]]
    /\ head' = IF size = 0 THEN n ELSE head
    /\ tail' = n
    /\ size' = size + 1
    /\ order' = Append(order, n)
    /\ got' = got

\* queue_push when it does not: nothing is touched.
PushFails == UNCHANGED listVars

\* queue_pop; on an empty queue it returns -1 and stores nothing.
Pop ==
  /\ size # 0
  /\ got' = cell[head].client_fd
  /\ head' = cell[head].next
  /\ tail' = IF head' = NULL THEN NULL ELSE tail
  /\ size' = size - 1
  /\ live' = live \ {head}
  /\ order' = Tail(order)
  /\ cell' = cell

PopEmpty == size = 0 /\ UNCHANGED listVars

QueueNext == Pop \/ PopEmpty \/ PushFails \/ \E fd \in Fds : Push(fd)

QueueSpec == QueueInit /\ [][QueueNext]_listVars

-----------------------------------------------------------------------------
ListTypeOK ==
  /\ head \in Nodes \cup {NULL} /\ tail \in Nodes \cup {NULL}
  /\ size \in Nat
  /\ cell \in [Nodes -> Node]
  /\ live \subseteq Nodes
  /\ got \in Fds \cup {NoFd}
  /\ order \in Seq(Nodes)

\* The pointers and the counter describe one list: from head to tail through
\* `next`, as long as `size` says, of exactly the nodes that are allocated.
\* So no node is leaked, reached after it was freed, or in the list twice, and
\* an empty list has no dangling end (queue.c:40-48 and 70-82).
ListIsWhole ==
  /\ size = Len(order)
  /\ live = {order[i] : i \in 1 .. Len(order)}
  /\ \A i, j \in 1 .. Len(order) : order[i] = order[j] => i = j
  /\ IF order = <<>>
       THEN head = NULL /\ tail = NULL
       ELSE head = order[1] /\ tail = order[Len(order)]
  /\ \A i \in 1 .. Len(order) :
       cell[order[i]].next = IF i = Len(order) THEN NULL ELSE order[i + 1]

\* The list is a queue: descriptors come out in the order they went in, each
\* once, whatever addresses calloc hands out again (queue.c:25-84).
Contents == [i \in 1 .. Len(order) |-> cell[order[i]].client_fd]
Line == INSTANCE Fifo WITH line <- Contents
FifoSpec == Line!Spec
=============================================================================
