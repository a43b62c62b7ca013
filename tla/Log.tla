--------------------------------- MODULE Log ---------------------------------
(***************************************************************************)
(* src/src/common/log.c as the server's threads use it (src/src/server/    *)
(* main.c): every thread writes through the same two streams, with no lock *)
(* but stdio's own around each call.                                       *)
(*                                                                         *)
(* A message is who wrote it and its number; a stream holds its pieces, the*)
(* prefix, the text and the newline.  The time in the prefix is not        *)
(* modelled.                                                               *)
(***************************************************************************)
EXTENDS Integers, FiniteSets

CONSTANTS Workers,
          Main,        \* the main thread
          Levels,      \* the levels of the messages there are
          MaxMessages  \* bound: messages of one thread

ASSUME LogAssumption ==
  Main \notin Workers /\ Levels \subseteq 0 .. 2 /\ MaxMessages \in Nat

Threads == Workers \cup {Main}
Streams == {"terminal", "file"}

VARIABLES
  level,   \* g_log_level
  fp,      \* g_log_fp: "NULL", "open" or, the pointer a thread may still hold, "closed"
  server,  \* "starting", "serving", "joined", "ended" or "killed"
  thread,  \* of each thread: where it is in log_write, and its latest message
  buffer,  \* of each stream: pieces in memory
  written  \* of each stream: pieces the kernel has

vars == <<level, fp, server, thread, buffer, written>>

Init ==
  /\ level \in Levels
  /\ fp = "NULL" /\ server = "starting"
  /\ thread = [t \in Threads |-> [pc |-> "idle", n |-> 0]]
  /\ buffer = [s \in Streams |-> {}] /\ written = [s \in Streams |-> {}]

Up == server \notin {"ended", "killed"}

\* log_init: without its directory or its file the server does not start.
LogInit ==
  /\ server = "starting"
  /\ \/ fp' = "open" /\ server' = "serving"
     \/ fp' = fp /\ server' = "ended"
  /\ UNCHANGED <<level, thread, buffer, written>>

Goes(t, pc) == thread' = [thread EXCEPT ![t].pc = pc]

\* log_write is called; what is below the level is dropped.
Write(t, l) ==
  /\ server \in {"serving", "joined"} /\ thread[t].pc = "idle"
  /\ t \in Workers => server = "serving"
  /\ thread[t].n < MaxMessages
  /\ thread' = IF l < level THEN thread
               ELSE [thread EXCEPT ![t] = [pc |-> "terminal1", n |-> @.n + 1]]
  /\ UNCHANGED <<level, fp, server, buffer, written>>

\* One stdio call: the piece goes behind what other threads have put there.
Piece(t, k) == <<t, thread[t].n, k>>
Places == [terminal1 |-> <<"terminal", 1, "terminal2">>,
           terminal2 |-> <<"terminal", 2, "terminal3">>,
           terminal3 |-> <<"terminal", 3, "flush terminal">>,
           file1     |-> <<"file", 1, "file2">>,
           file2     |-> <<"file", 2, "file3">>,
           file3     |-> <<"file", 3, "flush file">>]

Printf(t) ==
  /\ Up /\ thread[t].pc \in DOMAIN Places
  /\ LET place == Places[thread[t].pc]
     IN  /\ buffer' = [buffer EXCEPT ![place[1]] = @ \cup {Piece(t, place[2])}]
         /\ Goes(t, place[3])
  /\ UNCHANGED <<level, fp, server, written>>

\* fflush: all that is in the buffer; and what a call without it would leave.
Left(s) == UNCHANGED <<buffer, written>>
Flushed(s) ==
  /\ written' = [written EXCEPT ![s] = @ \cup buffer[s]]
  /\ buffer' = [buffer EXCEPT ![s] = {}]

FlushTerminal(t) ==
  /\ Up /\ thread[t].pc = "flush terminal"
  /\ Flushed("terminal")
  /\ Goes(t, IF fp = "NULL" THEN "idle" ELSE "file1")
  /\ UNCHANGED <<level, fp, server>>

FlushFile(t) ==
  /\ Up /\ thread[t].pc = "flush file"
  /\ Flushed("file")
  /\ Goes(t, "idle")
  /\ UNCHANGED <<level, fp, server>>

\* thread_pool_destroy returns when the workers are through; and one that does
\* not wait for them (faulty).
Unjoined == TRUE
Joined == \A w \in Workers : thread[w].pc = "idle"
Join ==
  /\ server = "serving" /\ thread[Main].pc = "idle" /\ Joined
  /\ server' = "joined"
  /\ UNCHANGED <<level, fp, thread, buffer, written>>

\* log_close: fclose writes what is left.
LogClose ==
  /\ server = "joined" /\ thread[Main].pc = "idle"
  /\ Flushed("file")
  /\ fp' = "closed" /\ server' = "ended"
  /\ UNCHANGED <<level, thread>>

\* The process is killed: what is in memory is gone.
Killed ==
  /\ Up
  /\ server' = "killed"
  /\ UNCHANGED <<level, fp, thread, buffer, written>>

Next ==
  \/ LogInit \/ Join \/ LogClose \/ Killed
  \/ \E t \in Threads :
       \/ \E l \in Levels : Write(t, l)
       \/ Printf(t) \/ FlushTerminal(t) \/ FlushFile(t)

Spec == Init /\ [][Next]_vars
-----------------------------------------------------------------------------
Pieces(t, n) == {<<t, n, k>> : k \in 1 .. 3}
Returned(t) == IF thread[t].pc = "idle" THEN 1 .. thread[t].n ELSE 1 .. thread[t].n - 1

\* The kernel has every message whose log_write returned, in both streams, so
\* that it outlives the process, and the file has no message, nor a part of
\* one, that the terminal was not sent before (log.c:113-128).
WrittenOnReturn ==
  /\ \A t \in Threads : \A n \in Returned(t) : \A s \in Streams :
       Pieces(t, n) \subseteq written[s]
  /\ \A piece \in buffer["file"] \cup written["file"] : piece \in written["terminal"]

\* No thread goes through the file's pointer after log_close, though none tests
\* it again once it is past line 123 (log.c:123-128, main.c:189-191).
NeverAfterClose ==
  server # "killed" =>
    \A t \in Threads : thread[t].pc \in {"file1", "file2", "file3", "flush file"} => fp = "open"
=============================================================================
