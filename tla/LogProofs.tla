------------------------------- MODULE LogProofs -------------------------------
(* What Log guarantees for any workers, levels and number of messages.     *)
EXTENDS Log, TLAPS

PCs == {"idle", "terminal1", "terminal2", "terminal3", "flush terminal",
        "file1", "file2", "file3", "flush file"}

Types ==
  /\ thread \in [Threads -> [pc : PCs, n : Nat]]
  /\ fp \in {"NULL", "open", "closed"}
  /\ server \in {"starting", "serving", "joined", "ended", "killed"}
  /\ buffer \in [Streams -> SUBSET (Threads \X Nat \X Nat)]
  /\ written \in [Streams -> SUBSET (Threads \X Nat \X Nat)]

\* Who may be in log_write, and what the pointer is then.
WhoWrites ==
  /\ server \in {"serving", "joined"} => fp = "open"
  /\ server = "starting" => \A t \in Threads : thread[t].pc = "idle"
  /\ server \in {"joined", "ended"} => \A w \in Workers : thread[w].pc = "idle"
  /\ server = "ended" => thread[Main].pc = "idle"

At(t, pcs) == thread[t].pc \in pcs
Sent(s) == buffer[s] \cup written[s]

\* Which pieces of a thread's latest message are where.
PiecesOf(t) ==
  /\ At(t, {"terminal2", "terminal3", "flush terminal"}) => Piece(t, 1) \in Sent("terminal")
  /\ At(t, {"terminal3", "flush terminal"}) => Piece(t, 2) \in Sent("terminal")
  /\ At(t, {"flush terminal"}) => Piece(t, 3) \in Sent("terminal")
  /\ At(t, {"file1", "file2", "file3", "flush file"}) =>
       \A k \in 1 .. 3 : Piece(t, k) \in written["terminal"]
  /\ At(t, {"file2", "file3", "flush file"}) => Piece(t, 1) \in Sent("file")
  /\ At(t, {"file3", "flush file"}) => Piece(t, 2) \in Sent("file")
  /\ At(t, {"flush file"}) => Piece(t, 3) \in Sent("file")

PiecesOnTheWay == \A t \in Threads : PiecesOf(t)

LogInv == Types /\ WhoWrites /\ PiecesOnTheWay /\ WrittenOnReturn

\* A thread's pieces are where they were, or further, after another's step.
LEMMA OtherThread ==
  ASSUME NEW t \in Threads, PiecesOf(t), thread'[t] = thread[t],
         \A s \in Streams : Sent(s) \subseteq Sent(s)' /\ written[s] \subseteq written'[s]
  PROVE  PiecesOf(t)'
<1>1. /\ Sent("terminal") \subseteq Sent("terminal")' /\ Sent("file") \subseteq Sent("file")'
      /\ written["terminal"] \subseteq written'["terminal"]
  BY DEF Streams
<1> QED BY <1>1 DEF PiecesOf, At, Piece, Sent

Leads(pc, stream, k, next) ==
  \/ pc = "terminal1" /\ stream = "terminal" /\ k = 1 /\ next = "terminal2"
  \/ pc = "terminal2" /\ stream = "terminal" /\ k = 2 /\ next = "terminal3"
  \/ pc = "terminal3" /\ stream = "terminal" /\ k = 3 /\ next = "flush terminal"
  \/ pc = "file1" /\ stream = "file" /\ k = 1 /\ next = "file2"
  \/ pc = "file2" /\ stream = "file" /\ k = 2 /\ next = "file3"
  \/ pc = "file3" /\ stream = "file" /\ k = 3 /\ next = "flush file"

\* Where each printf puts its piece, and where the thread goes on.
LEMMA PlacesAre ==
  ASSUME NEW pc \in DOMAIN Places
  PROVE  Leads(pc, Places[pc][1], Places[pc][2], Places[pc][3])
<1>1. pc \in {"terminal1", "terminal2", "terminal3", "file1", "file2", "file3"}
  BY DEF Places
<1>2. CASE pc = "terminal1"
  BY <1>2 DEF Places, Leads
<1>3. CASE pc = "terminal2"
  BY <1>3 DEF Places, Leads
<1>4. CASE pc = "terminal3"
  BY <1>4 DEF Places, Leads
<1>5. CASE pc = "file1"
  BY <1>5 DEF Places, Leads
<1>6. CASE pc = "file2"
  BY <1>6 DEF Places, Leads
<1>7. CASE pc = "file3"
  BY <1>7 DEF Places, Leads
<1> QED BY <1>1, <1>2, <1>3, <1>4, <1>5, <1>6, <1>7

\* Before the first message nothing is written.
LEMMA InitLog == Init => LogInv
<1> SUFFICES ASSUME Init PROVE LogInv
  OBVIOUS
<1>1. Types
  BY DEF Init, Types, PCs
<1>2. \A t \in Threads : thread[t].pc = "idle" /\ thread[t].n = 0
  BY DEF Init
<1>3. WhoWrites /\ PiecesOnTheWay
  BY <1>2 DEF Init, WhoWrites, PiecesOnTheWay, PiecesOf, At, Threads
<1>4. WrittenOnReturn
  <2>1. \A t \in Threads : Returned(t) = {}
    BY <1>2 DEF Returned
  <2> QED BY <2>1 DEF Init, WrittenOnReturn, Streams
<1> QED BY <1>1, <1>3, <1>4 DEF LogInv

\* A thread that is not idle finds the file open.
LEMMA WritersFindItOpen ==
  ASSUME LogInv, Up, NEW t \in Threads, thread[t].pc # "idle"
  PROVE  fp = "open" /\ server \in {"serving", "joined"} /\ (t \in Workers => server = "serving")
BY DEF LogInv, Types, WhoWrites, Up, Threads

\* Steps that write nothing and move no thread.
LEMMA ServerKeeps ==
  ASSUME LogInv, LogInit \/ Join \/ Killed
  PROVE  LogInv'
<1> USE DEF LogInv
<1>1. UNCHANGED <<level, thread, buffer, written>>
  BY DEF LogInit, Join, Killed
<1>2. Types'
  BY <1>1 DEF Types, LogInit, Join, Killed
<1>3. WhoWrites'
  <2>1. CASE LogInit
    BY <1>1, <2>1 DEF WhoWrites, LogInit, Threads
  <2>2. CASE Join
    BY <1>1, <2>2 DEF WhoWrites, Join, Joined
  <2>3. CASE Killed
    BY <1>1, <2>3 DEF WhoWrites, Killed
  <2> QED BY <2>1, <2>2, <2>3
<1>4. PiecesOnTheWay' /\ WrittenOnReturn'
  BY <1>1 DEF PiecesOnTheWay, PiecesOf, WrittenOnReturn, At, Sent, Piece, Returned
<1> QED BY <1>2, <1>3, <1>4

\* log_close: the kernel has all that was in memory, and nobody is writing.
LEMMA CloseKeeps ==
  ASSUME LogInv, LogClose
  PROVE  LogInv'
<1> USE DEF LogInv
<1>1. /\ UNCHANGED thread /\ fp' = "closed" /\ server' = "ended"
      /\ \A t \in Threads : thread[t].pc = "idle"
      /\ written' = [written EXCEPT !["file"] = @ \cup buffer["file"]]
      /\ buffer' = [buffer EXCEPT !["file"] = {}]
  BY DEF LogClose, Flushed, WhoWrites, Threads
<1>2. Types'
  BY <1>1 DEF Types
<1>3. WhoWrites'
  BY <1>1 DEF WhoWrites, Threads
<1>4. PiecesOnTheWay'
  BY <1>1 DEF PiecesOnTheWay, PiecesOf, At
<1>5. WrittenOnReturn'
  BY <1>1 DEF WrittenOnReturn, Types, Streams, Returned
<1> QED BY <1>2, <1>3, <1>4, <1>5

\* A thread enters log_write.
LEMMA WriteKeeps ==
  ASSUME LogInv, NEW t \in Threads, NEW l \in Levels, Write(t, l)
  PROVE  LogInv'
<1> USE DEF LogInv
<1>1. /\ UNCHANGED <<fp, server, buffer, written>> /\ thread[t].pc = "idle"
      /\ server \in {"serving", "joined"} /\ (t \in Workers => server = "serving")
  BY DEF Write
<1>2. CASE thread' = thread
  BY <1>1, <1>2 DEF Types, WhoWrites, PiecesOnTheWay, PiecesOf, WrittenOnReturn, At, Sent, Piece, Returned
<1>3. CASE thread' = [thread EXCEPT ![t] = [pc |-> "terminal1", n |-> @.n + 1]]
  <2>1. /\ thread[t].n \in Nat
        /\ thread'[t].pc = "terminal1" /\ thread'[t].n = thread[t].n + 1
        /\ \A u \in Threads : u # t => thread'[u] = thread[u]
    BY <1>3 DEF Types
  <2>2. Types'
    <3>1. thread'[t] \in [pc : PCs, n : Nat]
      <4>1. thread'[t] = [pc |-> "terminal1", n |-> thread[t].n + 1]
        BY <1>3 DEF Types
      <4> QED BY <4>1, <2>1 DEF PCs
    <3> QED BY <1>1, <1>3, <3>1 DEF Types
  <2>3. WhoWrites'
    BY <1>1, <2>1 DEF WhoWrites, Threads
  <2>4. PiecesOnTheWay'
    BY <1>1, <2>1 DEF PiecesOnTheWay, PiecesOf, At, Sent, Piece
  <2>5. \A u \in Threads : Returned(u)' = Returned(u)
    BY <1>1, <2>1 DEF Returned
  <2>6. WrittenOnReturn'
    BY <1>1, <2>5 DEF WrittenOnReturn
  <2> QED BY <2>2, <2>3, <2>4, <2>6
<1> QED BY <1>2, <1>3 DEF Write

\* One piece is put behind the others.
LEMMA PrintfKeeps ==
  ASSUME LogInv, NEW t \in Threads, Printf(t)
  PROVE  LogInv'
<1> USE DEF LogInv
<1>1. /\ UNCHANGED <<fp, server, written>> /\ Up /\ thread[t].pc # "idle"
      /\ \E stream, k, next :
           /\ Leads(thread[t].pc, stream, k, next)
           /\ buffer' = [buffer EXCEPT ![stream] = @ \cup {Piece(t, k)}]
           /\ thread' = [thread EXCEPT ![t].pc = next]
  <2>1. thread[t].pc \in DOMAIN Places /\ thread[t].pc # "idle"
    BY DEF Printf, Places
  <2> QED BY <2>1, PlacesAre DEF Printf, Goes
<1>2. PICK stream, k, next :
        /\ Leads(thread[t].pc, stream, k, next)
        /\ buffer' = [buffer EXCEPT ![stream] = @ \cup {Piece(t, k)}]
        /\ thread' = [thread EXCEPT ![t].pc = next]
  BY <1>1
<1>3. stream \in Streams /\ k \in 1 .. 3 /\ next \in PCs /\ next # "idle"
  <2>1. Leads(thread[t].pc, stream, k, next)
    BY <1>2
  <2>2. stream = "terminal" \/ stream = "file"
    BY <2>1, Zenon DEF Leads
  <2>3. k = 1 \/ k = 2 \/ k = 3
    BY <2>1, Zenon DEF Leads
  <2>4. next \in PCs /\ next # "idle"
    BY <2>1 DEF Leads, PCs
  <2> QED BY <2>2, <2>3, <2>4 DEF Streams
<1>4. /\ thread'[t].pc = next /\ thread'[t].n = thread[t].n /\ thread[t].n \in Nat
      /\ \A u \in Threads : u # t => thread'[u] = thread[u]
  BY <1>2 DEF Types
<1>5. /\ buffer'[stream] = buffer[stream] \cup {Piece(t, k)}
      /\ \A s \in Streams : s # stream => buffer'[s] = buffer[s]
      /\ \A s \in Streams : Sent(s) \subseteq Sent(s)'
  BY <1>1, <1>2, <1>3 DEF Types, Sent
<1>6. Types'
  <2>1. thread' \in [Threads -> [pc : PCs, n : Nat]]
    BY <1>2, <1>3 DEF Types
  <2>2. Piece(t, k) \in Threads \X Nat \X Nat
    BY <1>3, <1>4 DEF Piece
  <2>3. buffer' \in [Streams -> SUBSET (Threads \X Nat \X Nat)]
    BY <1>2, <1>3, <2>2 DEF Types
  <2> QED BY <1>1, <2>1, <2>3 DEF Types
<1>7. WhoWrites'
  <2>1. /\ fp = "open" /\ server \in {"serving", "joined"}
        /\ t \in Workers => server = "serving"
    BY <1>1, WritersFindItOpen
  <2> QED BY <1>1, <1>4, <2>1 DEF WhoWrites, Threads
<1>8. PiecesOnTheWay'
  <2> SUFFICES ASSUME NEW u \in Threads
               PROVE  PiecesOf(u)'
    BY DEF PiecesOnTheWay
  <2>1. CASE u # t
    BY <2>1, <1>1, <1>4, <1>5, OtherThread DEF PiecesOnTheWay
  <2>2. CASE u = t
    <3>1. PiecesOf(t)
      BY DEF PiecesOnTheWay
    <3>2. /\ Sent("terminal") \subseteq Sent("terminal")' /\ Sent("file") \subseteq Sent("file")'
          /\ written' = written
      BY <1>1, <1>5 DEF Streams
    <3>3. Piece(t, k) \in Sent(stream)'
      BY <1>5 DEF Sent
    <3>4. Piece(t, 1)' = Piece(t, 1) /\ Piece(t, 2)' = Piece(t, 2) /\ Piece(t, 3)' = Piece(t, 3)
      BY <1>4 DEF Piece
    <3>5. \/ At(t, {"terminal1"}) /\ At(t, {"terminal2"})' /\ Piece(t, 1) \in Sent("terminal")'
          \/ At(t, {"terminal2"}) /\ At(t, {"terminal3"})' /\ Piece(t, 2) \in Sent("terminal")'
          \/ At(t, {"terminal3"}) /\ At(t, {"flush terminal"})' /\ Piece(t, 3) \in Sent("terminal")'
          \/ At(t, {"file1"}) /\ At(t, {"file2"})' /\ Piece(t, 1) \in Sent("file")'
          \/ At(t, {"file2"}) /\ At(t, {"file3"})' /\ Piece(t, 2) \in Sent("file")'
          \/ At(t, {"file3"}) /\ At(t, {"flush file"})' /\ Piece(t, 3) \in Sent("file")'
      BY <1>2, <1>4, <3>3, Zenon DEF Leads, At
    <3>6. \A j \in 1 .. 3 : j = 1 \/ j = 2 \/ j = 3
      OBVIOUS
    <3> HIDE DEF LogInv
    <3> QED BY ONLY <2>2, <3>1, <3>2, <3>4, <3>5, <3>6 DEF PiecesOf, At
  <2> QED BY <2>1, <2>2
<1>9. WrittenOnReturn'
  <2>1. \A u \in Threads : Returned(u)' = Returned(u)
    BY <1>1, <1>3, <1>4 DEF Returned
  <2>2. \A piece \in buffer'["file"] : piece \in buffer["file"] \/ piece \in written["terminal"]
    <3>1. CASE stream = "terminal"
      BY <3>1, <1>5 DEF Streams
    <3>2. CASE stream = "file"
      <4>1. thread[t].pc \in {"file1", "file2", "file3"}
        BY <3>2, <1>2 DEF Leads
      <4>2. Piece(t, k) \in written["terminal"]
        BY <4>1, <1>3 DEF PiecesOnTheWay, PiecesOf, At
      <4> QED BY <3>2, <4>2, <1>5
    <3> QED BY <3>1, <3>2, <1>3 DEF Streams
  <2> QED BY <1>1, <2>1, <2>2 DEF WrittenOnReturn
<1> QED BY <1>6, <1>7, <1>8, <1>9

\* fflush hands over what every thread has put there.
LEMMA FlushKeeps ==
  ASSUME LogInv, NEW t \in Threads, FlushTerminal(t) \/ FlushFile(t)
  PROVE  LogInv'
<1> USE DEF LogInv
<1> DEFINE s == IF FlushTerminal(t) THEN "terminal" ELSE "file"
           next == IF FlushTerminal(t) THEN "file1" ELSE "idle"
<1>which. IF FlushTerminal(t) THEN s = "terminal" /\ next = "file1" ELSE s = "file" /\ next = "idle"
  OBVIOUS
<1> HIDE DEF s, next
<1>0. Up /\ thread[t].pc \in {"flush terminal", "flush file"} /\ UNCHANGED <<fp, server>>
  BY DEF FlushTerminal, FlushFile
<1>1. fp = "open" /\ server \in {"serving", "joined"} /\ (t \in Workers => server = "serving")
  BY <1>0, WritersFindItOpen
<1>2. /\ s \in Streams
      /\ \/ s = "terminal" /\ next = "file1" /\ thread[t].pc = "flush terminal"
         \/ s = "file" /\ next = "idle" /\ thread[t].pc = "flush file"
      /\ Flushed(s) /\ thread' = [thread EXCEPT ![t].pc = next]
  <2>1. CASE FlushTerminal(t)
    <3>1. s = "terminal" /\ next = "file1" /\ fp # "NULL"
      BY <2>1, <1>which, <1>1
    <3>2. thread[t].pc = "flush terminal" /\ Flushed("terminal")
      BY <2>1 DEF FlushTerminal
    <3>3. thread' = [thread EXCEPT ![t].pc = "file1"]
      BY <2>1, <3>1 DEF FlushTerminal, Goes
    <3> QED BY <3>1, <3>2, <3>3 DEF Streams
  <2>2. CASE ~FlushTerminal(t)
    <3>1. FlushFile(t)
      BY <2>2
    <3>2. s = "file" /\ next = "idle"
      BY <2>2, <1>which
    <3> QED BY <3>1, <3>2 DEF FlushFile, Goes, Streams
  <2> QED BY <2>1, <2>2
<1>3. /\ thread'[t].pc = next /\ thread'[t].n = thread[t].n /\ thread[t].n \in Nat
      /\ \A u \in Threads : u # t => thread'[u] = thread[u]
      /\ \A u \in Threads, k \in 1 .. 3 : Piece(u, k)' = Piece(u, k)
  BY <1>2 DEF Types, Piece
<1>4. /\ written'[s] = Sent(s)
      /\ \A r \in Streams : Sent(r)' = Sent(r) /\ written[r] \subseteq written'[r]
      /\ \A r \in Streams : r # s => written'[r] = written[r]
  BY <1>2 DEF Flushed, Types, Sent
<1>5. Types'
  BY <1>0, <1>2 DEF Types, Flushed, PCs
<1>6. WhoWrites'
  BY <1>0, <1>1, <1>3 DEF WhoWrites, Threads
<1>7. PiecesOnTheWay'
  <2> SUFFICES ASSUME NEW u \in Threads
               PROVE  PiecesOf(u)'
    BY DEF PiecesOnTheWay
  <2>1. CASE u # t
    BY <2>1, <1>3, <1>4, OtherThread DEF PiecesOnTheWay
  <2>2. CASE u = t
    <3>1. CASE next = "idle"
      BY <2>2, <3>1, <1>3 DEF PiecesOf, At
    <3>2. CASE s = "terminal" /\ next = "file1"
      <4>1. \A k \in 1 .. 3 : k = 1 \/ k = 2 \/ k = 3
        OBVIOUS
      <4>2. \A k \in 1 .. 3 : Piece(t, k) \in Sent("terminal")
        BY <3>2, <4>1, <1>2 DEF PiecesOnTheWay, PiecesOf, At
      <4>3. \A k \in 1 .. 3 : Piece(t, k)' \in written'["terminal"]
        BY <3>2, <4>2, <1>3, <1>4
      <4> QED BY <2>2, <3>2, <4>3, <1>3 DEF PiecesOf, At
    <3> QED BY <3>1, <3>2, <1>2
  <2> QED BY <2>1, <2>2
<1>8. WrittenOnReturn'
  <2>1. \A piece \in Sent("file") : piece \in written["terminal"]
    BY DEF WrittenOnReturn, Sent
  <2>2. \A piece \in Sent("file")' : piece \in written'["terminal"]
    BY <2>1, <1>4 DEF Streams
  <2>3. \A u \in Threads : \A n \in Returned(u)' : \A r \in Streams : Pieces(u, n) \subseteq written'[r]
    <3> TAKE u \in Threads
    <3>1. CASE Returned(u)' = Returned(u)
      BY <3>1, <1>4 DEF WrittenOnReturn
    <3>2. CASE u = t /\ s = "file"
      <4>1. \A n \in Returned(u)' : n \in Returned(u) \/ n = thread[t].n
        <5>1. thread'[t].pc = "idle" /\ thread[t].pc # "idle" /\ thread'[t].n = thread[t].n
          BY <3>2, <1>2, <1>3
        <5>2. Returned(t)' = 1 .. thread[t].n /\ Returned(t) = 1 .. thread[t].n - 1
          BY <5>1 DEF Returned
        <5> QED BY <3>2, <5>2, <1>3
      <4>2. \A k \in 1 .. 3 : Piece(t, k) \in written'["terminal"] /\ Piece(t, k) \in written'["file"]
        <5>1. \A k \in 1 .. 3 : k = 1 \/ k = 2 \/ k = 3
          OBVIOUS
        <5>2. thread[t].pc = "flush file" /\ written'["file"] = Sent("file")
          BY <3>2, <1>2, <1>4
        <5>3. \A k \in 1 .. 3 : Piece(t, k) \in written["terminal"] /\ Piece(t, k) \in Sent("file")
          BY <5>1, <5>2 DEF PiecesOnTheWay, PiecesOf, At
        <5> QED BY <5>2, <5>3, <1>4 DEF Streams
      <4>3. \A r \in Streams : Pieces(t, thread[t].n) \subseteq written'[r]
        BY <4>2 DEF Pieces, Piece, Streams
      <4> QED BY <3>2, <4>1, <4>3, <1>4 DEF WrittenOnReturn
    <3>3. CASE u # t \/ s = "terminal"
      BY <3>1, <3>3, <1>2, <1>3 DEF Returned
    <3> QED BY <3>1, <3>2, <3>3, <1>2
  <2> QED BY <2>2, <2>3 DEF WrittenOnReturn, Sent
<1> QED BY <1>5, <1>6, <1>7, <1>8

\* The invariant is one: no step breaks it.
LEMMA LogInvHolds == Spec => []LogInv
<1>1. LogInv /\ [Next]_vars => LogInv'
  <2> SUFFICES ASSUME LogInv, [Next]_vars PROVE LogInv'
    OBVIOUS
  <2>1. CASE UNCHANGED vars
    BY <2>1 DEF vars, LogInv, Types, WhoWrites, PiecesOnTheWay, PiecesOf, WrittenOnReturn, At, Sent, Piece, Returned
  <2> QED BY <2>1, ServerKeeps, CloseKeeps, WriteKeeps, PrintfKeeps, FlushKeeps DEF Next
<1> QED BY <1>1, InitLog, PTL DEF Spec

\* What log_write has returned from is in the terminal and in the file, and
\* outlives the process; the file has nothing the terminal was not sent
\* first (WrittenOnReturn).
THEOREM ReturnedIsWritten == Spec => []WrittenOnReturn
BY LogInvHolds, PTL DEF LogInv

\* No thread goes on through the pointer that log_close closed: the pool is
\* joined before (NeverAfterClose).
THEOREM ClosedIsNotWritten == Spec => []NeverAfterClose
<1>1. LogInv => NeverAfterClose
  BY WritersFindItOpen DEF NeverAfterClose, Up, LogInv, WhoWrites, Threads, Types
<1> QED BY <1>1, LogInvHolds, PTL
=============================================================================
