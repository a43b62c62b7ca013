----------------------------- MODULE Conversation -----------------------------
(***************************************************************************)
(* Clients talking to the workers that serve them, over one byte stream    *)
(* each way, about the files of one user directory.                        *)
(*                                                                         *)
(*   src/src/client/client.c         client_login, client_run_loop         *)
(*   src/src/client/file_transfer.c  client_send_file, client_recv_file    *)
(*   src/src/server/handle.c         handle_request and the handlers       *)
(*   src/src/server/file_transfer.c  server_recv_file, server_send_file    *)
(*                                                                         *)
(* A stream is a sequence of tokens: a command line, a text reply, a file  *)
(* size, a unit of file content.  Nothing on the wire says which of them   *)
(* comes next; the two ends must agree.  A session is a client process and *)
(* the worker that has its connection.  All sessions are of one user, in   *)
(* the root of the user's directory.                                       *)
(*                                                                         *)
(* A step is one system call that another party can observe: a command is  *)
(* received, checked and answered in one step, while stat, open, fstat,    *)
(* each recv, write, read and send of a transfer, and the unlink of rm     *)
(* after its stat, are steps of their own.                                 *)
(***************************************************************************)
EXTENDS Naturals, Sequences, FiniteSets

CONSTANTS Sessions,
          Names,      \* names of files and directories
          BadNames,   \* names is_valid_name refuses
          Ops,        \* the commands the users type
          FileLens,   \* lengths of local files, in units
          BufLen,     \* FILE_BUFFER_SIZE, in units
          Backlog,    \* bound: tokens left unread when a client sends a command
          DiskFails,  \* whether open and write may fail for lack of space
          LocalChanges, \* whether a local file may change while it is sent
          None        \* no name

NamedOps == {"mkdir", "rm", "puts", "gets"}

ASSUME BoundsAssumption ==
  /\ IsFiniteSet(Sessions) /\ IsFiniteSet(Names)
  /\ FileLens \subseteq Nat
  /\ BufLen \in Nat \ {0}
  /\ Backlog \in Nat
  /\ {DiskFails, LocalChanges} \subseteq BOOLEAN
  /\ Ops \subseteq NamedOps \cup {"list", "quit"}
  /\ None \notin Names \cup BadNames
  /\ Names \cap BadNames = {}

VARIABLES
  client,  \* each client process: where it is, and the variables of its loop
  worker,  \* each worker: where it is in handle_request, and its session
  up,      \* the stream from each client to its worker
  down,    \* the stream back
  entry,   \* the user directory: an inode, 0 for nothing, Dir
  data     \* the content of each inode

disk == <<entry, data>>
vars == <<client, worker, up, down, disk>>

\* An inode for every name and for every file that is open but unlinked.
Inodes == 1 .. (Cardinality(Names) + Cardinality(Sessions))
Dir == Cardinality(Names) + Cardinality(Sessions) + 1

Command(op, name) == [tag |-> "cmd", op |-> op, name |-> name]
Text(ok, op) == [tag |-> "text", ok |-> ok, op |-> op]
Size(n) == [tag |-> "size", n |-> n]
Stream(units) == [i \in DOMAIN units |-> [tag |-> "data", unit |-> units[i]]]
Payload(tokens) ==
  [i \in DOMAIN tokens |-> IF tokens[i].tag = "data" THEN tokens[i].unit ELSE "junk"]

\* What the users can ask for.
LoginCommands == {Command("login", u) : u \in {"known", "unknown"}}
LoopCommands ==
  {Command(op, n) : op \in Ops \cap NamedOps, n \in Names \cup BadNames}
    \cup {Command(op, None) : op \in Ops \ NamedOps}

\* The first k tokens, and the rest.
First(q, k) == SubSeq(q, 1, k)
Rest(q, k) == SubSeq(q, k + 1, Len(q))
NextIs(q, tag) == q # <<>> /\ q[1].tag = tag

\* The end of a piece of at most BufLen units that starts after `from`.
PieceEnd(from, len) == IF from + BufLen < len THEN from + BufLen ELSE len

\* How much one recv for `need` units may return: part of what has arrived,
\* whatever it is.
Received(q, need) == {k \in 1 .. PieceEnd(0, need) : k <= Len(q)}

\* The numbers that the token at the head of a stream, taken for a size, may
\* give.
SizesRead(q) == IF q[1].tag = "size" THEN {q[1].n} ELSE {0} \cup FileLens

\* What each end is about to take from its stream.
ServerExpects(s) ==
  CASE worker[s].pc = "recv" -> {"cmd"}
    [] worker[s].pc = "upsize" -> {"size"}
    [] worker[s].pc = "updata" /\ worker[s].off < worker[s].size -> {"data"}
    [] OTHER -> {}

ClientExpects(s) ==
  CASE client[s].pc \in {"reply", "result"} -> {"text"}
    [] client[s].pc = "recvsize" -> {"size"}
    [] client[s].pc = "recvdata" /\ Len(client[s].file) < client[s].want -> {"data"}
    [] OTHER -> {}

Misfit(q, expected) == q # <<>> /\ expected # {} /\ q[1].tag \notin expected

Newcomer == [pc |-> "login", cmd |-> Command("none", None), outcome |-> "none",
             file |-> <<>>, moved |-> 0, want |-> 0]
Gone == [Newcomer EXCEPT !.pc = "gone"]

\* session_init, in a worker that has nothing open.
Fresh == [pc |-> "recv", req |-> None, login |-> FALSE, fd |-> 0,
          off |-> 0, size |-> 0, disturbed |-> FALSE, shared |-> FALSE]

Init ==
  /\ client = [s \in Sessions |-> Newcomer]
  /\ worker = [s \in Sessions |-> Fresh]
  /\ up = [s \in Sessions |-> <<>>]
  /\ down = [s \in Sessions |-> <<>>]
  /\ entry = [n \in Names |-> 0]
  /\ data = [i \in Inodes |-> <<>>]

-----------------------------------------------------------------------------
(* The client.  `file` is the local file of the current transfer, `moved`  *)
(* how many units of it client_send_file has sent, `want` the size that    *)
(* was announced.                                                          *)

At(s, where) == client[s].pc = where

\* What is sent to a peer that has closed its socket is lost.
ToServer(s, tokens) ==
  up' = [up EXCEPT ![s] = IF worker[s].pc = "closed" THEN @ ELSE @ \o tokens]

\* The client sends a command line and waits for the text reply.
Ask(s, c) ==
  /\ Len(up[s]) <= Backlog /\ Len(down[s]) <= Backlog
  /\ \E n \in IF c.op = "puts" THEN FileLens ELSE {0} :
       client' = [client EXCEPT ![s] =
         [Newcomer EXCEPT !.pc = "reply", !.cmd = c, !.file = [i \in 1 .. n |-> s]]]
  /\ ToServer(s, <<c>>)
  /\ UNCHANGED <<worker, down, disk>>

AskLogin(s) == At(s, "login") /\ \E c \in LoginCommands : Ask(s, c)
AskCommand(s) == At(s, "idle") /\ \E c \in LoopCommands : Ask(s, c)

\* Where the client goes after the first text reply to a command.
AfterReply(op, ok) ==
  CASE op = "login" -> IF ok THEN "idle" ELSE "login"
    [] op = "puts" /\ ok -> "sendsize"
    [] op = "gets" /\ ok -> "recvsize"
    [] OTHER -> "idle"

ReadReply(s) ==
  /\ At(s, "reply")
  /\ NextIs(down[s], "text")
  /\ LET op == client[s].cmd.op
     IN  client' = [client EXCEPT ![s] =
           IF op = "quit" THEN Gone ELSE [@ EXCEPT !.pc = AfterReply(op, down[s][1].ok)]]
  /\ down' = [down EXCEPT ![s] = IF client[s].cmd.op = "quit" THEN <<>> ELSE Rest(@, 1)]
  /\ UNCHANGED <<worker, up, disk>>

\* client_send_file: open, fstat, and the size goes out first.
SendSize(s) ==
  /\ At(s, "sendsize")
  /\ client' = [client EXCEPT ![s].pc = "senddata", ![s].want = Len(client[s].file)]
  /\ ToServer(s, <<Size(Len(client[s].file))>>)
  /\ UNCHANGED <<worker, down, disk>>

\* read fills the buffer from what the local file holds now.
SendData(s) ==
  /\ At(s, "senddata")
  /\ client[s].moved < client[s].want
  /\ client[s].moved < Len(client[s].file)
  /\ LET file == client[s].file
         end == PieceEnd(client[s].moved, Len(file))
     IN  /\ ToServer(s, Stream(SubSeq(file, client[s].moved + 1, end)))
         /\ client' = [client EXCEPT ![s].moved = end]
         /\ worker' = [worker EXCEPT ![s].disturbed = @ \/ end > client[s].want]
  /\ UNCHANGED <<down, disk>>

\* All sent, or end of file: success either way.
SendFileReturns(s) ==
  /\ At(s, "senddata")
  /\ client[s].moved >= client[s].want \/ client[s].moved >= Len(client[s].file)
  /\ client' = [client EXCEPT ![s].pc = "result", ![s].moved = 0]
  /\ worker' = [worker EXCEPT ![s].disturbed = @ \/ client[s].moved < client[s].want]
  /\ UNCHANGED <<up, down, disk>>

\* Another program cuts or extends the file that is being sent.
LocalFileChanges(s) ==
  /\ LocalChanges
  /\ At(s, "senddata")
  /\ client[s].moved < client[s].want
  /\ \E n \in FileLens : client' = [client EXCEPT ![s].file = [i \in 1 .. n |-> s]]
  /\ UNCHANGED <<worker, up, down, disk>>

\* The second text reply of an upload.
ReadResult(s) ==
  /\ At(s, "result")
  /\ NextIs(down[s], "text")
  /\ client' = [client EXCEPT ![s].pc = "idle",
                              ![s].outcome = IF down[s][1].ok THEN "ok" ELSE "error"]
  /\ down' = [down EXCEPT ![s] = Rest(@, 1)]
  /\ UNCHANGED <<worker, up, disk>>

\* client_recv_file: the size, then exactly that many bytes.
RecvSize(s) ==
  /\ At(s, "recvsize")
  /\ down[s] # <<>>
  /\ \E n \in SizesRead(down[s]) :
       client' = [client EXCEPT ![s].pc = "recvdata", ![s].want = n]
  /\ down' = [down EXCEPT ![s] = Rest(@, 1)]
  /\ UNCHANGED <<worker, up, disk>>

RecvData(s) ==
  /\ At(s, "recvdata")
  /\ \E k \in Received(down[s], client[s].want - Len(client[s].file)) :
       /\ client' = [client EXCEPT ![s].file = @ \o Payload(First(down[s], k))]
       /\ down' = [down EXCEPT ![s] = Rest(@, k)]
  /\ UNCHANGED <<worker, up, disk>>

RecvFileReturns(s) ==
  /\ At(s, "recvdata")
  /\ Len(client[s].file) >= client[s].want
  /\ client' = [client EXCEPT ![s].pc = "idle", ![s].outcome = "ok", ![s].want = 0]
  /\ UNCHANGED <<worker, up, down, disk>>

\* The process ends and its socket is closed.
Leave(s) ==
  /\ client' = [client EXCEPT ![s] = Gone]
  /\ down' = [down EXCEPT ![s] = <<>>]
  /\ UNCHANGED <<worker, up, disk>>

\* Bytes of another kind are taken for the length of a reply.  A negative one
\* makes the client leave; another swallows what follows, until the client
\* has had enough and goes back to its loop.
MisreadReply(s) ==
  /\ \/ (At(s, "reply") \/ At(s, "result")) /\ Misfit(down[s], ClientExpects(s))
     \/ At(s, "astray")
  /\ \/ Leave(s)
     \/ \E k \in 0 .. Len(down[s]), where \in {"astray", "idle"} :
          /\ client' = [client EXCEPT ![s].pc = where, ![s].outcome = "error"]
          /\ down' = [down EXCEPT ![s] = Rest(@, k)]
          /\ UNCHANGED <<worker, up, disk>>

\* The connection is closed under a client that waits for bytes.
LoseServer(s) ==
  /\ client[s].pc \in {"reply", "result", "recvsize", "recvdata", "astray"}
  /\ worker[s].pc = "closed"
  /\ down[s] = <<>>
  /\ Leave(s)

\* End of input, a local file that cannot be opened, a kill: at any time.
GoAway(s) == ~At(s, "gone") /\ Leave(s)

-----------------------------------------------------------------------------
(* The worker: handle_request.                                             *)

ToClient(s, tokens) ==
  down' = [down EXCEPT ![s] = IF At(s, "gone") THEN @ ELSE @ \o tokens]

\* A handler returns 0 and the loop reads the next command.
Back(s) == [worker[s] EXCEPT !.pc = "recv", !.req = None, !.fd = 0, !.off = 0, !.size = 0,
                               !.shared = FALSE]

\* handle_request returns and thread_worker closes the socket.
Closed(s) == [Back(s) EXCEPT !.pc = "closed", !.login = FALSE]
Hangup(s) ==
  /\ worker' = [worker EXCEPT ![s] = Closed(s)]
  /\ up' = [up EXCEPT ![s] = <<>>]

\* The inodes that a name or a descriptor still holds.
Held(e, w) == {e[n] : n \in Names} \cup {w[s].fd : s \in Sessions}

\* The directory becomes e and the session of s becomes me; the kernel frees
\* a file that has neither a name nor a descriptor left.
Settle(e, s, me) ==
  LET w == [worker EXCEPT ![s] = me]
  IN  /\ entry' = e
      /\ worker' = w
      /\ data' = [i \in Inodes |-> IF i \in Held(e, w) THEN data[i] ELSE <<>>]

\* The worker finds the command `op` where it reads one.
Reads(s, op) ==
  /\ worker[s].pc = "recv"
  /\ NextIs(up[s], "cmd")
  /\ up[s][1].op = op

Arg(s) == up[s][1].name
Drop(s, k) == up' = [up EXCEPT ![s] = Rest(@, k)]

Quit(s) ==
  /\ Reads(s, "quit")
  /\ ToClient(s, <<Text(TRUE, "quit")>>)
  /\ Hangup(s)
  /\ UNCHANGED <<client, disk>>

Login(s) ==
  /\ Reads(s, "login")
  /\ LET ok == ~worker[s].login /\ Arg(s) = "known"
     IN  /\ worker' = [worker EXCEPT ![s].login = @ \/ ok]
         /\ ToClient(s, <<Text(ok, "login")>>)
  /\ Drop(s, 1)
  /\ UNCHANGED <<client, disk>>

\* pwd, ls and cd: one text reply, and nothing outside the session changes.
List(s) ==
  /\ Reads(s, "list")
  /\ \E ok \in BOOLEAN : ToClient(s, <<Text(ok /\ worker[s].login, "list")>>)
  /\ Drop(s, 1)
  /\ UNCHANGED <<client, worker, disk>>

\* A faulty Refuse: the check fails and nothing is sent.
RefuseSilently(s, op) ==
  /\ Reads(s, op)
  /\ ~worker[s].login \/ Arg(s) \notin Names
  /\ Drop(s, 1)
  /\ UNCHANGED <<client, worker, down, disk>>

\* Before login, or with an invalid name, a command on a name is an ERROR.
Refuse(s, op) ==
  /\ Reads(s, op)
  /\ ~worker[s].login \/ Arg(s) \notin Names
  /\ ToClient(s, <<Text(FALSE, op)>>)
  /\ Drop(s, 1)
  /\ UNCHANGED <<client, worker, disk>>

Accepts(s, op) ==
  /\ Reads(s, op)
  /\ worker[s].login /\ Arg(s) \in Names
  /\ Drop(s, 1)
  /\ UNCHANGED client

Mkdir(s) ==
  /\ Accepts(s, "mkdir")
  /\ LET ok == entry[Arg(s)] = 0
     IN  /\ entry' = IF ok THEN [entry EXCEPT ![Arg(s)] = Dir] ELSE entry
         /\ ToClient(s, <<Text(ok, "mkdir")>>)
  /\ UNCHANGED <<worker, data>>

\* A command that goes on in further steps if its target is a file now, and
\* is an ERROR if there is nothing or a directory.
StatFile(s, op, where) ==
  /\ Accepts(s, op)
  /\ IF entry[Arg(s)] \in Inodes
       THEN worker' = [worker EXCEPT ![s].pc = where, ![s].req = Arg(s)]
       ELSE worker' = worker
  /\ UNCHANGED disk

RmStat(s) ==
  /\ StatFile(s, "rm", "unlink")
  /\ IF entry[Arg(s)] \in Inodes THEN down' = down ELSE ToClient(s, <<Text(FALSE, "rm")>>)

\* unlink fails if the file went away, or became a directory, since the stat.
RmUnlink(s) ==
  /\ worker[s].pc = "unlink"
  /\ LET name == worker[s].req
         ok == entry[name] \in Inodes
     IN  /\ Settle(IF ok THEN [entry EXCEPT ![name] = 0] ELSE entry, s, Back(s))
         /\ ToClient(s, <<Text(ok, "rm")>>)
  /\ UNCHANGED <<client, up>>

-----------------------------------------------------------------------------
(* puts: handle_puts and server_recv_file.                                 *)

\* The target is not looked at before the client is told to go ahead.
PutsReady(s) ==
  /\ Accepts(s, "puts")
  /\ ToClient(s, <<Text(TRUE, "puts")>>)
  /\ worker' = [worker EXCEPT ![s].pc = "upsize", ![s].req = Arg(s)]
  /\ UNCHANGED disk

UploadSize(s) ==
  /\ worker[s].pc = "upsize"
  /\ up[s] # <<>>
  /\ \E n \in SizesRead(up[s]) :
       worker' = [worker EXCEPT ![s].pc = "upopen", ![s].size = n]
  /\ Drop(s, 1)
  /\ UNCHANGED <<client, down, disk>>

FreeInode ==
  CHOOSE i \in Inodes : i \notin Held(entry, worker)

\* The worker opens the inode for writing; `shared` remembers that another
\* upload has it open at the same time.
Writers(inode) == {t \in Sessions : worker[t].pc = "updata" /\ worker[t].fd = inode}
Opened(s, inode) ==
  [t \in Sessions |->
     IF t = s THEN [worker[s] EXCEPT !.pc = "updata", !.fd = inode,
                                     !.shared = Writers(inode) # {}]
     ELSE [worker[t] EXCEPT !.shared = @ \/ t \in Writers(inode)]]

\* Faulty UploadOpens: without O_TRUNC; and with its result not looked at.
UploadOpenKeeps(s) ==
  /\ worker[s].pc = "upopen"
  /\ entry[worker[s].req] # Dir
  /\ LET name == worker[s].req
         inode == IF entry[name] = 0 THEN FreeInode ELSE entry[name]
     IN  /\ entry' = [entry EXCEPT ![name] = inode]
         /\ worker' = Opened(s, inode)
  /\ UNCHANGED <<client, up, down, data>>

\* open with O_CREAT and O_TRUNC: a new inode, or an old one cut to nothing.
UploadOpen(s) ==
  /\ worker[s].pc = "upopen"
  /\ entry[worker[s].req] # Dir
  /\ LET name == worker[s].req
         inode == IF entry[name] = 0 THEN FreeInode ELSE entry[name]
     IN  /\ entry' = [entry EXCEPT ![name] = inode]
         /\ data' = [data EXCEPT ![inode] = <<>>]
         /\ worker' = Opened(s, inode)
  /\ UNCHANGED <<client, up, down>>

\* An upload ends in an ERROR, and the worker goes back to reading commands
\* with `left` units of the content still to come.
UploadGivesUp(s, left) ==
  /\ Settle(entry, s, [Back(s) EXCEPT !.disturbed = @ \/ left > 0])
  /\ ToClient(s, <<Text(FALSE, "puts")>>)
  /\ UNCHANGED client

\* open fails, at least when the target is a directory.
UploadOpenFails(s) ==
  /\ worker[s].pc = "upopen"
  /\ entry[worker[s].req] = Dir \/ DiskFails
  /\ UploadGivesUp(s, worker[s].size)
  /\ up' = up

\* write() at the descriptor's own offset; a gap before it reads as zeros.
Written(old, at, units) ==
  LET end == at + Len(units)
  IN  [i \in 1 .. (IF Len(old) > end THEN Len(old) ELSE end) |->
         IF i \in (at + 1) .. end THEN units[i - at]
         ELSE IF i <= Len(old) THEN old[i] ELSE "zero"]

UploadData(s) ==
  /\ worker[s].pc = "updata"
  /\ \E k \in Received(up[s], worker[s].size - worker[s].off) :
       /\ data' = [data EXCEPT ![worker[s].fd] =
                     Written(@, worker[s].off, Payload(First(up[s], k)))]
       /\ worker' = [worker EXCEPT ![s].off = @ + k]
       /\ Drop(s, k)
  /\ UNCHANGED <<client, down, entry>>

\* write fails: the piece just received is lost, the rest stays unread.
UploadWriteFails(s) ==
  /\ DiskFails
  /\ worker[s].pc = "updata"
  /\ \E k \in Received(up[s], worker[s].size - worker[s].off) :
       /\ UploadGivesUp(s, worker[s].size - worker[s].off - k)
       /\ Drop(s, k)

\* A faulty UploadDone: the result of the upload is not reported.
UploadDoneSilently(s) ==
  /\ worker[s].pc = "updata"
  /\ worker[s].off >= worker[s].size
  /\ Settle(entry, s, Back(s))
  /\ UNCHANGED <<client, up, down>>

\* Another: the answer goes out before the last piece is there.
UploadDoneEarly(s) ==
  /\ worker[s].pc = "updata"
  /\ worker[s].off + BufLen >= worker[s].size
  /\ ToClient(s, <<Text(TRUE, "puts")>>)
  /\ Settle(entry, s, Back(s))
  /\ UNCHANGED <<client, up>>

UploadDone(s) ==
  /\ worker[s].pc = "updata"
  /\ worker[s].off >= worker[s].size
  /\ ToClient(s, <<Text(TRUE, "puts")>>)
  /\ Settle(entry, s, Back(s))
  /\ UNCHANGED <<client, up>>

-----------------------------------------------------------------------------
(* gets: handle_gets and server_send_file.                                 *)

GetsStat(s) ==
  /\ StatFile(s, "gets", "dlopen")
  /\ ToClient(s, <<Text(entry[Arg(s)] \in Inodes, "gets")>>)

DownloadOpen(s) ==
  /\ worker[s].pc = "dlopen"
  /\ entry[worker[s].req] \in Inodes
  /\ worker' = [worker EXCEPT ![s].pc = "dlsize", ![s].fd = entry[worker[s].req]]
  /\ UNCHANGED <<client, up, down, disk>>

\* A faulty DownloadOpenFails: handle_gets returns 0, and the loop goes on.
DownloadOpenFailsQuietly(s) ==
  /\ worker[s].pc = "dlopen"
  /\ entry[worker[s].req] \notin Inodes
  /\ Settle(entry, s, Back(s))
  /\ UNCHANGED <<client, up, down>>

\* The file is gone since the stat, and the worker gives the session up.  If
\* a directory took its place, that opens, its size goes out, and read fails.
DownloadOpenFails(s) ==
  /\ worker[s].pc = "dlopen"
  /\ entry[worker[s].req] \notin Inodes
  /\ ToClient(s, IF entry[worker[s].req] = Dir THEN <<Size(1)>> ELSE <<>>)
  /\ Hangup(s)
  /\ UNCHANGED <<client, disk>>

\* fstat, and the size goes out.
DownloadSize(s) ==
  /\ worker[s].pc = "dlsize"
  /\ LET size == Len(data[worker[s].fd])
     IN  /\ worker' = [worker EXCEPT ![s].pc = "dldata", ![s].size = size]
         /\ ToClient(s, <<Size(size)>>)
  /\ UNCHANGED <<client, up, disk>>

\* read fills the buffer from what the file holds now, not what was announced.
DownloadData(s) ==
  /\ worker[s].pc = "dldata"
  /\ worker[s].off < worker[s].size
  /\ worker[s].off < Len(data[worker[s].fd])
  /\ LET file == data[worker[s].fd]
         end == PieceEnd(worker[s].off, Len(file))
     IN  /\ ToClient(s, Stream(SubSeq(file, worker[s].off + 1, end)))
         /\ worker' = [worker EXCEPT ![s].off = end,
                                     ![s].disturbed = @ \/ end > worker[s].size]
  /\ UNCHANGED <<client, up, disk>>

\* All sent, or end of file: success either way, and back to reading commands.
DownloadDone(s) ==
  /\ worker[s].pc = "dldata"
  /\ worker[s].off >= worker[s].size \/ worker[s].off >= Len(data[worker[s].fd])
  /\ Settle(entry, s,
            [Back(s) EXCEPT !.disturbed = @ \/ worker[s].off < worker[s].size])
  /\ UNCHANGED <<client, up, down>>

-----------------------------------------------------------------------------
(* Streams out of step, and clients that are gone.                         *)

\* Bytes of another kind are taken for the length of a command.  A negative
\* one ends the session; another swallows what follows, until the worker has had enough,
\* refuses it as no command, and reads the next.  (Content that spells a
\* framed command is left out.)
MisreadCommand(s) ==
  /\ \/ worker[s].pc = "recv" /\ Misfit(up[s], ServerExpects(s))
     \/ worker[s].pc = "astray"
  /\ \/ Hangup(s) /\ down' = down
     \/ \E k \in 1 .. Len(up[s]) :
          /\ Drop(s, k)
          /\ \/ worker' = [worker EXCEPT ![s].pc = "astray"] /\ down' = down
             \/ worker' = [worker EXCEPT ![s].pc = "recv"] /\ ToClient(s, <<Text(FALSE, "none")>>)
  /\ UNCHANGED <<client, disk>>

\* A faulty LoseClient: in an upload, recv returning 0 does not end the loop.
LoseClientUnnoticed(s) ==
  /\ At(s, "gone")
  /\ worker[s].pc \in {"recv", "astray", "upsize"}
  /\ Settle(entry, s, IF worker[s].pc = "upsize" THEN Back(s) ELSE Closed(s))
  /\ up' = [up EXCEPT ![s] = <<>>]
  /\ UNCHANGED <<client, down>>

\* recv fails once the stream of a client that is gone is read, or at once,
\* losing the rest of it.  An upload reports that (to nobody) and goes back
\* to the loop, where the next recv fails too.
LoseClient(s) ==
  /\ At(s, "gone")
  /\ \/ /\ worker[s].pc \in {"recv", "astray"}
        /\ Settle(entry, s, Closed(s))
     \/ /\ \/ worker[s].pc = "upsize"
           \/ worker[s].pc = "updata" /\ worker[s].off < worker[s].size
        /\ Settle(entry, s, Back(s))
  /\ up' = [up EXCEPT ![s] = <<>>]
  /\ UNCHANGED <<client, down>>

\* send fails in a download to a client that is gone.
SendFails(s) ==
  /\ At(s, "gone")
  /\ worker[s].pc \in {"dlsize", "dldata"}
  /\ Settle(entry, s, Closed(s))
  /\ up' = [up EXCEPT ![s] = <<>>]
  /\ UNCHANGED <<client, down>>

-----------------------------------------------------------------------------
ClientAnswers(s) ==
  \/ ReadReply(s) \/ SendSize(s) \/ SendData(s) \/ SendFileReturns(s) \/ ReadResult(s)
  \/ RecvSize(s) \/ RecvData(s) \/ RecvFileReturns(s) \/ MisreadReply(s) \/ LoseServer(s)

ServerAnswers(s) ==
  \/ Quit(s) \/ Login(s) \/ List(s) \/ Mkdir(s) \/ RmStat(s) \/ RmUnlink(s)
  \/ \E op \in NamedOps : Refuse(s, op)
  \/ PutsReady(s) \/ UploadSize(s) \/ UploadOpen(s) \/ UploadOpenFails(s)
  \/ UploadData(s) \/ UploadWriteFails(s) \/ UploadDone(s)
  \/ GetsStat(s) \/ DownloadOpen(s) \/ DownloadOpenFails(s)
  \/ DownloadSize(s) \/ DownloadData(s) \/ DownloadDone(s)
  \/ MisreadCommand(s) \/ LoseClient(s) \/ SendFails(s)

Terminated ==
  /\ \A s \in Sessions : At(s, "gone") /\ worker[s].pc = "closed"
  /\ UNCHANGED vars

Next ==
  \/ \E s \in Sessions :
       \/ AskLogin(s) \/ AskCommand(s) \/ ClientAnswers(s)
       \/ LocalFileChanges(s) \/ GoAway(s) \/ ServerAnswers(s)
  \/ Terminated

Spec == Init /\ [][Next]_vars

\* Both programs run on; nothing makes a user type a command or go away.
FairSpec ==
  Spec /\ \A s \in Sessions : WF_vars(ClientAnswers(s)) /\ WF_vars(ServerAnswers(s))

-----------------------------------------------------------------------------
(* Safety.                                                                 *)

\* Nobody takes file content for a length or a length for file content, a
\* reply is the reply to the command that waits for it, and nothing lies
\* unread when the user is asked for the next command.
InStep(s) ==
  /\ ~Misfit(up[s], ServerExpects(s)) /\ ~Misfit(down[s], ClientExpects(s))
  /\ NextIs(down[s], "text") => down[s][1].op = client[s].cmd.op
  /\ At(s, "login") \/ At(s, "idle") => up[s] = <<>> /\ down[s] = <<>>

\* Each end waits for bytes that only the other can send.
MutualWait(s) ==
  /\ up[s] = <<>> /\ ServerExpects(s) # {}
  /\ down[s] = <<>> /\ ClientExpects(s) # {}

\* A session stays in step and never locks up, whatever the other sessions do
\* and whenever files and clients vanish, until its worker has moved another
\* number of bytes than the size that was announced (handle.c:65-142,
\* client.c:209-252, both file_transfer.c).
InStepUnlessDisturbed ==
  \A s \in Sessions : ~worker[s].disturbed => InStep(s) /\ ~MutualWait(s)

\* Only one of the ends has bytes under way to the other, so that neither can
\* block in send on a full buffer while the other does: a client that sends a
\* file reads no reply meanwhile (client/file_transfer.c:36-52, handle.c:399-409).
HalfDuplexUnlessDisturbed ==
  \A s \in Sessions : ~worker[s].disturbed => up[s] = <<>> \/ down[s] = <<>>

\* Whatever happens to the name meanwhile, and wherever the upload breaks off,
\* the file a worker writes is the content it has received so far and nothing
\* else, unless another upload has the same file open (server/file_transfer.c:
\* 27-56).
WrittenAsReceived ==
  \A s \in Sessions :
    worker[s].pc = "updata" /\ ~worker[s].disturbed /\ ~worker[s].shared =>
      data[worker[s].fd] = [i \in 1 .. worker[s].off |-> s]

FileContent(n) == IF entry[n] \in Inodes THEN data[entry[n]] ELSE <<"none">>

\* What the local file of a transfer should hold: what was announced of it,
\* or all that was received.
Moved(s) ==
  IF client[s].cmd.op = "puts" THEN First(client[s].file, client[s].want) ELSE client[s].file

\* No other session has ever been logged in: one that was is logged in still, or
\* closed.
Alone(s) == \A t \in Sessions \ {s} : ~worker[t].login /\ worker[t].pc # "closed"

\* With nobody else at work on the server's files, a file the client was told
\* is uploaded is the local file as it was announced, and a download that
\* succeeded is the server's file (handle.c:403-409 and 448-454).
TransferIsExact ==
  \A s \in Sessions :
    Alone(s) /\ At(s, "idle") /\ client[s].outcome = "ok" /\ ~worker[s].disturbed =>
      FileContent(client[s].cmd.name) = Moved(s)

-----------------------------------------------------------------------------
(* What the documents say and the code does not do.                        *)

\* The design says the server checks the target of an upload and answers
\* whether the upload is allowed; the client sends its file only after OK.
\* So where the worker reads a command there is one, and not file content.
CommandsAreCommands ==
  \A s \in Sessions : worker[s].pc = "recv" /\ up[s] # <<>> => up[s][1].tag = "cmd"

-----------------------------------------------------------------------------
(* Liveness.                                                               *)

Resting(s) == client[s].pc \in {"login", "idle", "gone"}

\* Every command comes to its end, or the connection does, unless the session
\* was disturbed.
EveryCommandEnds ==
  \A s \in Sessions : ~Resting(s) ~> Resting(s) \/ worker[s].disturbed

\* A worker whose client has gone comes out of handle_request.
AbandonedSessionEnds ==
  \A s \in Sessions : At(s, "gone") ~> worker[s].pc = "closed"
=============================================================================
