-------------------------- MODULE ConversationProofs --------------------------
(***************************************************************************)
(* What Conversation guarantees for any sessions, names and files.         *)
(*                                                                         *)
(* A session that was not disturbed goes through a few phases; each says   *)
(* where the two programs are, and what is under way between them then.    *)
(* Other sessions never change any of that: they only change the files,    *)
(* and a phase depends on no file.                                         *)
(***************************************************************************)
EXTENDS Conversation, FiniteSetTheorems, FunctionTheorems, TLAPS

\* The units files are made of, the commands, and what goes over a stream.
Unit == Sessions \cup {"zero", "junk"}
Requests == LoginCommands \cup LoopCommands
Replies == [tag : {"text"}, ok : BOOLEAN, op : Ops \cup NamedOps \cup {"login", "list", "quit", "none"}]
Sizes == [tag : {"size"}, n : Nat]
Units == [tag : {"data"}, unit : Unit]
Token == Requests \cup Replies \cup Sizes \cup Units

Clients == [pc : {"login", "idle", "reply", "sendsize", "senddata", "result", "recvsize",
                  "recvdata", "astray", "gone"},
            cmd : Requests \cup {Command("none", None)}, outcome : {"none", "ok", "error"},
            file : Seq(Unit), moved : Nat, want : Nat]
Servers == [pc : {"recv", "astray", "closed", "unlink", "upsize", "upopen", "updata",
                  "dlopen", "dlsize", "dldata"},
            req : Names \cup {None}, login : BOOLEAN, fd : Inodes \cup {0},
            off : Nat, size : Nat, disturbed : BOOLEAN, shared : BOOLEAN]

\* What a worker has open and where it is in it.
Opens(w) ==
  /\ w.pc \in {"upsize", "upopen", "unlink", "dlopen"} => w.req \in Names
  /\ w.fd \in Inodes <=> w.pc \in {"updata", "dlsize", "dldata"}
  /\ w.pc \notin {"updata", "dldata"} => w.off = 0

Types ==
  /\ client \in [Sessions -> Clients]
  /\ worker \in [Sessions -> Servers]
  /\ \A s \in Sessions : Opens(worker[s])
  /\ up \in [Sessions -> Seq(Token)]
  /\ down \in [Sessions -> Seq(Token)]
  /\ entry \in [Names -> Inodes \cup {0, Dir}]
  /\ data \in [Inodes -> Seq(Unit)]

-----------------------------------------------------------------------------
(* The phases.                                                             *)

Quiet(s) == up[s] = <<>> /\ down[s] = <<>>
InCommand(s, op) == client[s].cmd \in Requests /\ client[s].cmd.op = op

\* Everything after the first k tokens is file content.
ContentAfter(q, k) == \A i \in k + 1 .. Len(q) : q[i].tag = "data"

\* The worker will next read a command: it does, or it has sent all of a file.
AtCommands(w) == w.pc = "recv" \/ (w.pc = "dldata" /\ w.off = w.size)

Between(s) == client[s].pc \in {"login", "idle"} /\ Quiet(s) /\ AtCommands(worker[s])

\* What a transfer starts from.
Unmoved(c) == c.moved = 0 /\ (c.cmd.op # "puts" => c.file = <<>>)

Asked(s) ==
  /\ client[s].pc = "reply" /\ client[s].cmd \in Requests /\ Unmoved(client[s])
  /\ Len(up[s]) = 1 /\ up[s][1] = client[s].cmd /\ down[s] = <<>>
  /\ AtCommands(worker[s])

OneReply(s) ==
  /\ up[s] = <<>>
  /\ Len(down[s]) = 1 /\ down[s][1].tag = "text" /\ down[s][1].op = client[s].cmd.op

\* The reply that ends a command, or the first part of an upload.
Answered(s) ==
  /\ client[s].pc = "reply" /\ client[s].cmd \in Requests
  /\ OneReply(s)
  /\ worker[s].pc = IF client[s].cmd.op = "quit" THEN "closed" ELSE "recv"
  /\ client[s].cmd.op \in {"puts", "gets"} => ~down[s][1].ok

Removing(s) ==
  /\ client[s].pc = "reply" /\ InCommand(s, "rm")
  /\ Quiet(s) /\ worker[s].pc = "unlink"

Invited(s) ==
  /\ InCommand(s, "puts") /\ client[s].moved = 0
  /\ \/ client[s].pc = "reply" /\ OneReply(s) /\ down[s][1].ok
     \/ client[s].pc = "sendsize" /\ Quiet(s)
  /\ worker[s].pc = "upsize"

\* How much of the file the client has sent.
Sent(c) == IF c.pc = "senddata" THEN c.moved ELSE c.want

Uploading(s) ==
  /\ client[s].pc \in {"senddata", "result"} /\ InCommand(s, "puts")
  /\ Sent(client[s]) <= client[s].want

UploadStarts(s) ==
  /\ Uploading(s) /\ down[s] = <<>>
  /\ worker[s].pc = "upsize"
  /\ Len(up[s]) = 1 + Sent(client[s])
  /\ up[s][1].tag = "size" /\ up[s][1].n = client[s].want
  /\ ContentAfter(up[s], 1)

UploadRuns(s) ==
  /\ Uploading(s) /\ down[s] = <<>>
  /\ worker[s].pc \in {"upopen", "updata"} /\ worker[s].size = client[s].want
  /\ worker[s].off + Len(up[s]) = Sent(client[s])
  /\ ContentAfter(up[s], 0)

UploadAnswered(s) ==
  /\ Uploading(s) /\ Sent(client[s]) = client[s].want
  /\ OneReply(s) /\ worker[s].pc = "recv"

\* The tokens before the size of a download.
Lead(c) == IF c.pc = "reply" THEN 1 ELSE 0

Fetching(s) ==
  /\ client[s].pc \in {"reply", "recvsize"} /\ InCommand(s, "gets")
  /\ client[s].file = <<>> /\ up[s] = <<>>
  /\ client[s].pc = "reply" =>
       /\ Len(down[s]) >= 1
       /\ down[s][1].tag = "text" /\ down[s][1].ok /\ down[s][1].op = "gets"

DownloadOpens(s) ==
  /\ Fetching(s) /\ Len(down[s]) = Lead(client[s])
  /\ worker[s].pc \in {"dlopen", "dlsize", "closed"}

\* The size, and content behind it.
Announced(s) ==
  LET k == Lead(client[s]) + 1
  IN  /\ Fetching(s)
      /\ Len(down[s]) >= k /\ down[s][k].tag = "size"
      /\ ContentAfter(down[s], k)

DownloadStarts(s) ==
  LET k == Lead(client[s]) + 1
      n == down[s][k].n
      more == Len(down[s]) - k
  IN  /\ Announced(s)
      /\ \/ worker[s].pc = "dldata" /\ worker[s].size = n /\ worker[s].off = more /\ more <= n
         \/ worker[s].pc = "recv" /\ more = n
         \/ worker[s].pc = "closed" /\ more = 0 /\ n = 1

DownloadRuns(s) ==
  LET sofar == Len(client[s].file) + Len(down[s])
  IN  /\ client[s].pc = "recvdata" /\ InCommand(s, "gets") /\ up[s] = <<>>
      /\ ContentAfter(down[s], 0)
      /\ \/ worker[s].pc = "dldata" /\ worker[s].size = client[s].want
              /\ worker[s].off = sofar /\ sofar <= client[s].want
         \/ worker[s].pc = "recv" /\ sofar = client[s].want
         \/ worker[s].pc = "closed" /\ sofar < client[s].want /\ down[s] = <<>>

\* The client is gone, and what it sent before may still be read.
Abandoned(s) ==
  LET n == up[s][1].n
  IN  /\ client[s].pc = "gone" /\ down[s] = <<>>
      /\ \/ worker[s].pc \in {"recv", "dldata"}
              /\ (up[s] = <<>> \/ (Len(up[s]) = 1 /\ up[s][1] \in Requests))
         \/ worker[s].pc = "upsize"
              /\ (up[s] = <<>> \/ (up[s][1].tag = "size" /\ Len(up[s]) <= 1 + n
                                     /\ ContentAfter(up[s], 1)))
         \/ worker[s].pc \in {"upopen", "updata"}
              /\ ContentAfter(up[s], 0) /\ worker[s].off + Len(up[s]) <= worker[s].size
         \/ worker[s].pc \in {"unlink", "dlopen", "dlsize", "closed"} /\ up[s] = <<>>

Phase(s) ==
  \/ Between(s) \/ Asked(s) \/ Answered(s) \/ Removing(s) \/ Invited(s)
  \/ UploadStarts(s) \/ UploadRuns(s) \/ UploadAnswered(s)
  \/ DownloadOpens(s) \/ DownloadStarts(s) \/ DownloadRuns(s)
  \/ Abandoned(s)

Phases == \A s \in Sessions : ~worker[s].disturbed => Phase(s)
IInv == Types /\ Phases

-----------------------------------------------------------------------------
(* Streams.                                                                *)

LEMMA Joined ==
  ASSUME NEW S, NEW x \in Seq(S), NEW y \in Seq(S)
  PROVE  /\ x \o y \in Seq(S) /\ Len(x \o y) = Len(x) + Len(y)
         /\ \A j \in 1 .. Len(x) : (x \o y)[j] = x[j]
         /\ \A j \in 1 .. Len(y) : (x \o y)[Len(x) + j] = y[j]
<1>1. /\ x \o y \in Seq(S) /\ Len(x \o y) = Len(x) + Len(y)
      /\ Len(x) \in Nat /\ Len(y) \in Nat
  OBVIOUS
<1>2. ASSUME NEW j \in 1 .. Len(x) PROVE (x \o y)[j] = x[j]
  BY <1>1
<1>3. ASSUME NEW j \in 1 .. Len(y) PROVE (x \o y)[Len(x) + j] = y[j]
  BY <1>1
<1> QED BY <1>1, <1>2, <1>3

\* What is left when the first k are taken.
LEMMA RestIs ==
  ASSUME NEW S, NEW q \in Seq(S), NEW k \in Nat, k <= Len(q)
  PROVE  /\ Rest(q, k) \in Seq(S) /\ Len(Rest(q, k)) = Len(q) - k
         /\ \A j \in 1 .. Len(q) - k : Rest(q, k)[j] = q[k + j]
         /\ Rest(q, k) = <<>> <=> Len(q) = k
<1>1. Len(q) \in Nat
  OBVIOUS
<1>2. Rest(q, k) \in Seq(S) /\ Len(Rest(q, k)) = Len(q) - k
  BY <1>1 DEF Rest
<1>3. ASSUME NEW j \in 1 .. Len(q) - k PROVE Rest(q, k)[j] = q[k + j]
  BY <1>1 DEF Rest
<1> QED BY <1>1, <1>2, <1>3

\* Content stays content.
LEMMA RestContent ==
  ASSUME NEW q \in Seq(Token), NEW k \in Nat, k <= Len(q), NEW m \in Nat, NEW n \in Nat,
         ContentAfter(q, m), m <= k + n
  PROVE  ContentAfter(Rest(q, k), n)
<1>1. Len(q) \in Nat /\ Len(Rest(q, k)) = Len(q) - k
  BY RestIs
<1>2. \A j \in 1 .. Len(q) - k : Rest(q, k)[j] = q[k + j]
  BY RestIs
<1>3. ASSUME NEW j \in n + 1 .. Len(Rest(q, k)) PROVE Rest(q, k)[j].tag = "data"
  <2>1. j \in 1 .. Len(q) - k /\ k + j \in m + 1 .. Len(q)
    BY <1>1
  <2>2. q[k + j].tag = "data"
    BY <2>1 DEF ContentAfter
  <2> QED BY <1>2, <2>1, <2>2
<1> QED BY <1>3 DEF ContentAfter

LEMMA RestOne ==
  ASSUME NEW q \in Seq(Token), Len(q) >= 1
  PROVE  /\ Rest(q, 1) \in Seq(Token) /\ Len(Rest(q, 1)) = Len(q) - 1
         /\ \A j \in 1 .. Len(q) - 1 : Rest(q, 1)[j] = q[1 + j]
         /\ Rest(q, 1) = <<>> <=> Len(q) = 1
<1>1. 1 \in Nat /\ 1 <= Len(q)
  OBVIOUS
<1> QED BY <1>1, RestIs

LEMMA FirstIs ==
  ASSUME NEW S, NEW q \in Seq(S), NEW k \in Nat, k <= Len(q)
  PROVE  First(q, k) \in Seq(S) /\ Len(First(q, k)) = k
<1>1. Len(q) \in Nat
  OBVIOUS
<1> QED BY <1>1 DEF First

\* One more token.
LEMMA OneMore ==
  ASSUME NEW S, NEW q \in Seq(S), NEW x \in S
  PROVE  /\ q \o <<x>> \in Seq(S) /\ Len(q \o <<x>>) = Len(q) + 1
         /\ \A j \in 1 .. Len(q) : (q \o <<x>>)[j] = q[j]
         /\ (q \o <<x>>)[Len(q) + 1] = x
         /\ q = <<>> => q \o <<x>> = <<x>>
<1>1. <<x>> \in Seq(S) /\ Len(<<x>>) = 1 /\ 1 \in 1 .. Len(<<x>>) /\ <<x>>[1] = x
  OBVIOUS
<1>2. Len(q) \in Nat
  OBVIOUS
<1>3. q = <<>> => q \o <<x>> = <<x>>
  OBVIOUS
<1> QED BY <1>1, <1>2, <1>3, Joined

\* Tokens are of the kind their tag says.
LEMMA Tokens ==
  /\ \A c \in Requests : c.tag = "cmd" /\ c \in Token
  /\ \A ok \in BOOLEAN, op \in NamedOps \cup {"login", "list", "quit", "none"} :
       Text(ok, op) \in Token /\ Text(ok, op).tag = "text" /\ Text(ok, op).ok = ok /\ Text(ok, op).op = op
  /\ \A n \in Nat : Size(n) \in Token /\ Size(n).tag = "size" /\ Size(n).n = n
  /\ \A t \in Token : t.tag = "size" => t.n \in Nat
  /\ \A t \in Token : t.tag = "data" => t.unit \in Unit
  /\ \A t \in Token : t.tag = "text" => t.ok \in BOOLEAN
<1>1. \A c \in Requests : c.tag = "cmd" /\ c \in Token
  BY DEF Requests, LoginCommands, LoopCommands, Command, Token
<1>2. \A ok \in BOOLEAN, op \in NamedOps \cup {"login", "list", "quit", "none"} :
       Text(ok, op) \in Token /\ Text(ok, op).tag = "text" /\ Text(ok, op).ok = ok /\ Text(ok, op).op = op
  BY DEF Text, Token, Replies
<1>3. \A n \in Nat : Size(n) \in Token /\ Size(n).tag = "size" /\ Size(n).n = n
  BY DEF Size, Token, Sizes
<1>4. ASSUME NEW t \in Token
      PROVE  /\ t.tag = "size" => t.n \in Nat
             /\ t.tag = "data" => t.unit \in Unit
             /\ t.tag = "text" => t.ok \in BOOLEAN
  <2>1. t \in Requests => t.tag = "cmd"
    BY <1>1
  <2> QED BY <2>1 DEF Token, Replies, Sizes, Units
<1> QED BY <1>1, <1>2, <1>3, <1>4

LEMMA OneToken ==
  ASSUME NEW x \in Token
  PROVE  <<x>> \in Seq(Token)
OBVIOUS

\* File content as tokens, and tokens as file content.
LEMMA StreamIs ==
  ASSUME NEW units \in Seq(Unit)
  PROVE  /\ Stream(units) \in Seq(Token) /\ Len(Stream(units)) = Len(units)
         /\ \A j \in 1 .. Len(units) : Stream(units)[j].tag = "data"
<1>1. Stream(units) = [i \in 1 .. Len(units) |-> [tag |-> "data", unit |-> units[i]]]
  BY DEF Stream
<1>2. \A i \in 1 .. Len(units) : [tag |-> "data", unit |-> units[i]] \in Token
  BY DEF Token, Units
<1> QED BY <1>1, <1>2

LEMMA PayloadIs ==
  ASSUME NEW q \in Seq(Token)
  PROVE  Payload(q) \in Seq(Unit) /\ Len(Payload(q)) = Len(q)
<1>1. Payload(q) = [i \in 1 .. Len(q) |-> IF q[i].tag = "data" THEN q[i].unit ELSE "junk"]
  BY DEF Payload
<1>2. \A i \in 1 .. Len(q) : (IF q[i].tag = "data" THEN q[i].unit ELSE "junk") \in Unit
  BY Tokens DEF Unit
<1> QED BY <1>1, <1>2

LEMMA MoreContent ==
  ASSUME NEW q \in Seq(Token), NEW units \in Seq(Unit), NEW m \in Nat,
         ContentAfter(q, m)
  PROVE  ContentAfter(q \o Stream(units), m)
<1> DEFINE tail == Stream(units)
<1>1. /\ tail \in Seq(Token) /\ Len(tail) = Len(units) /\ Len(tail) \in Nat /\ Len(q) \in Nat
      /\ \A j \in 1 .. Len(tail) : tail[j].tag = "data"
  BY StreamIs
<1> HIDE DEF tail
<1>2. /\ Len(q \o tail) = Len(q) + Len(tail)
      /\ \A j \in 1 .. Len(q) : (q \o tail)[j] = q[j]
      /\ \A j \in 1 .. Len(tail) : (q \o tail)[Len(q) + j] = tail[j]
  BY <1>1, Joined
<1>3. ASSUME NEW j \in m + 1 .. Len(q \o tail) PROVE (q \o tail)[j].tag = "data"
  <2>1. CASE j <= Len(q)
    <3>1. j \in 1 .. Len(q) /\ j \in m + 1 .. Len(q)
      BY <1>1, <1>2, <2>1
    <3> QED BY <1>2, <3>1 DEF ContentAfter
  <2>2. CASE j > Len(q)
    <3>1. PICK i \in 1 .. Len(tail) : j = Len(q) + i
      <4>1. j - Len(q) \in 1 .. Len(tail) /\ j = Len(q) + (j - Len(q))
        BY <1>1, <1>2, <2>2
      <4> QED BY <4>1
    <3> QED BY <1>1, <1>2, <3>1
  <2> QED BY <1>1, <1>2, <2>1, <2>2
<1> QED BY <1>3 DEF ContentAfter, tail

LEMMA PieceEnds ==
  ASSUME NEW from \in Nat, NEW len \in Nat, from < len
  PROVE  PieceEnd(from, len) \in Nat /\ from < PieceEnd(from, len) /\ PieceEnd(from, len) <= len
BY BoundsAssumption DEF PieceEnd

\* Writing keeps a file a file.
LEMMA WrittenIs ==
  ASSUME NEW old \in Seq(Unit), NEW at \in Nat, NEW units \in Seq(Unit)
  PROVE  Written(old, at, units) \in Seq(Unit)
<1> DEFINE end == at + Len(units)
           n == IF Len(old) > end THEN Len(old) ELSE end
<1>1. end \in Nat /\ n \in Nat /\ Len(old) \in Nat /\ Len(units) \in Nat
  OBVIOUS
<1>2. ASSUME NEW i \in 1 .. n
      PROVE  (IF i \in (at + 1) .. end THEN units[i - at]
              ELSE IF i <= Len(old) THEN old[i] ELSE "zero") \in Unit
  <2>1. i \in (at + 1) .. end => i - at \in 1 .. Len(units)
    BY <1>1
  <2>2. i <= Len(old) => i \in 1 .. Len(old)
    BY <1>1
  <2>3. "zero" \in Unit
    BY DEF Unit
  <2> HIDE DEF end
  <2> QED BY <2>1, <2>2, <2>3
<1>3. Written(old, at, units) =
        [i \in 1 .. n |-> IF i \in (at + 1) .. end THEN units[i - at]
                          ELSE IF i <= Len(old) THEN old[i] ELSE "zero"]
  BY DEF Written
<1> HIDE DEF n, end
<1> QED BY <1>1, <1>2, <1>3

\* What one recv returns is part of what has arrived and of what is needed.
LEMMA ReceivedIs ==
  ASSUME NEW q \in Seq(Token), NEW need \in Int, NEW k \in Received(q, need)
  PROVE  k \in Nat /\ k >= 1 /\ k <= Len(q) /\ k <= need
BY BoundsAssumption DEF Received, PieceEnd

LEMMA SizesReadAre ==
  ASSUME NEW q \in Seq(Token), q # <<>>, NEW n \in SizesRead(q)
  PROVE  n \in Nat /\ (q[1].tag = "size" => n = q[1].n)
<1>1. q[1].tag = "size" => q[1].n \in Nat
  BY Tokens
<1>2. \A m \in {0} \cup FileLens : m \in Nat
  BY BoundsAssumption
<1>3. CASE q[1].tag = "size"
  <2>1. n = q[1].n
    BY <1>3 DEF SizesRead
  <2> QED BY <1>1, <1>3, <2>1
<1>4. CASE q[1].tag # "size"
  <2>1. n \in {0} \cup FileLens
    BY <1>4 DEF SizesRead
  <2> QED BY <1>2, <1>4, <2>1
<1> QED BY <1>3, <1>4
-----------------------------------------------------------------------------
(* Phases and places.                                                      *)

\* Where the client is tells the phase,
LEMMA ByClient ==
  ASSUME NEW s \in Sessions, Phase(s)
  PROVE  LET at == client[s].pc
         IN  /\ at \in {"login", "idle"} => Between(s)
             /\ at = "reply" =>
                  \/ Asked(s) \/ Answered(s) \/ Removing(s) \/ Invited(s)
                  \/ DownloadOpens(s) \/ DownloadStarts(s)
             /\ at = "sendsize" => Invited(s)
             /\ at \in {"senddata", "result"} =>
                  UploadStarts(s) \/ UploadRuns(s) \/ UploadAnswered(s)
             /\ at = "recvsize" => DownloadOpens(s) \/ DownloadStarts(s)
             /\ at = "recvdata" => DownloadRuns(s)
             /\ at = "gone" => Abandoned(s)
             /\ at # "astray"
BY DEF Phase, Between, Asked, Answered, Removing, Invited, Uploading, UploadStarts, UploadRuns,
       UploadAnswered, Fetching, DownloadOpens, Announced, DownloadStarts, DownloadRuns, Abandoned

\* and so does where the worker is.
LEMMA ByWorker ==
  ASSUME NEW s \in Sessions, Phase(s)
  PROVE  LET at == worker[s].pc
         IN  /\ at = "recv" /\ up[s] # <<>> => Asked(s) \/ Abandoned(s)
             /\ at = "unlink" => Removing(s) \/ Abandoned(s)
             /\ at = "upsize" => Invited(s) \/ UploadStarts(s) \/ Abandoned(s)
             /\ at \in {"upopen", "updata"} => UploadRuns(s) \/ Abandoned(s)
             /\ at \in {"dlopen", "dlsize"} => DownloadOpens(s) \/ Abandoned(s)
             /\ at = "dldata" =>
                  Between(s) \/ Asked(s) \/ DownloadStarts(s) \/ DownloadRuns(s) \/ Abandoned(s)
             /\ at # "astray"
BY DEF Phase, Between, Quiet, Asked, AtCommands, Answered, OneReply, Removing, Invited, Uploading,
       UploadStarts, UploadRuns, UploadAnswered, Fetching, DownloadOpens, Announced, DownloadStarts,
       DownloadRuns, Abandoned

\* A phase depends on nothing but the session's own two programs and streams.
LEMMA PhaseIsLocal ==
  ASSUME NEW s \in Sessions, Phase(s),
         client'[s] = client[s], up'[s] = up[s], down'[s] = down[s],
         worker'[s].pc = worker[s].pc, worker'[s].off = worker[s].off,
         worker'[s].size = worker[s].size
  PROVE  Phase(s)'
<1> USE DEF Quiet, AtCommands, OneReply, InCommand, ContentAfter
<1>1. Between(s) => Between(s)'
  BY DEF Between
<1>2. Asked(s) => Asked(s)'
  BY DEF Asked
<1>3. Answered(s) => Answered(s)'
  BY DEF Answered
<1>4. Removing(s) \/ Invited(s) => Removing(s)' \/ Invited(s)'
  BY DEF Removing, Invited
<1>5. UploadStarts(s) => UploadStarts(s)'
  BY DEF Uploading, UploadStarts
<1>6. UploadRuns(s) => UploadRuns(s)'
  BY DEF Uploading, UploadRuns
<1>7. UploadAnswered(s) => UploadAnswered(s)'
  BY DEF Uploading, UploadAnswered
<1>8. DownloadOpens(s) => DownloadOpens(s)'
  BY DEF Fetching, DownloadOpens
<1>9. DownloadStarts(s) => DownloadStarts(s)'
  BY DEF Fetching, Announced, DownloadStarts
<1>10. DownloadRuns(s) => DownloadRuns(s)'
  BY DEF DownloadRuns
<1>11. Abandoned(s) => Abandoned(s)'
  BY DEF Abandoned
<1> QED BY <1>1, <1>2, <1>3, <1>4, <1>5, <1>6, <1>7, <1>8, <1>9, <1>10, <1>11 DEF Phase

\* What a step of session s leaves alone.
Apart(s) ==
  \A t \in Sessions \ {s} :
    /\ client'[t] = client[t] /\ up'[t] = up[t] /\ down'[t] = down[t]
    /\ worker'[t].pc = worker[t].pc /\ worker'[t].req = worker[t].req
    /\ worker'[t].fd = worker[t].fd /\ worker'[t].off = worker[t].off
    /\ worker'[t].size = worker[t].size /\ worker'[t].disturbed = worker[t].disturbed

LEMMA StepKeeps ==
  ASSUME IInv, NEW s \in Sessions, Apart(s),
         client' \in [Sessions -> Clients], worker' \in [Sessions -> Servers],
         up' \in [Sessions -> Seq(Token)], down' \in [Sessions -> Seq(Token)],
         entry' \in [Names -> Inodes \cup {0, Dir}], data' \in [Inodes -> Seq(Unit)],
         Opens(worker'[s]), ~worker'[s].disturbed => Phase(s)'
  PROVE  IInv'
<1>1. ASSUME NEW t \in Sessions PROVE Opens(worker'[t])
  <2>1. CASE t = s
    BY <2>1
  <2>2. CASE t # s
    BY <2>2 DEF Apart, IInv, Types, Opens
  <2> QED BY <2>1, <2>2
<1>2. ASSUME NEW t \in Sessions, ~worker'[t].disturbed PROVE Phase(t)'
  <2>1. CASE t = s
    BY <1>2, <2>1
  <2>2. CASE t # s
    <3>1. Phase(t)
      BY <1>2, <2>2 DEF Apart, IInv, Phases
    <3> QED BY <2>2, <3>1, PhaseIsLocal DEF Apart
  <2> QED BY <2>1, <2>2
<1> QED BY <1>1, <1>2 DEF IInv, Types, Phases

LEMMA Moves ==
  ASSUME IInv, NEW s \in Sessions, NEW c \in Clients, NEW w \in Servers,
         NEW u \in Seq(Token), NEW d \in Seq(Token),
         client' = [client EXCEPT ![s] = c], worker' = [worker EXCEPT ![s] = w],
         up' = [up EXCEPT ![s] = u], down' = [down EXCEPT ![s] = d],
         entry' \in [Names -> Inodes \cup {0, Dir}], data' \in [Inodes -> Seq(Unit)],
         Opens(w),
         client'[s] = c /\ worker'[s] = w /\ up'[s] = u /\ down'[s] = d /\ ~w.disturbed => Phase(s)'
  PROVE  IInv'
<1>1. /\ client' \in [Sessions -> Clients] /\ client'[s] = c
      /\ \A t \in Sessions \ {s} : client'[t] = client[t]
  BY DEF IInv, Types
<1>2. /\ worker' \in [Sessions -> Servers] /\ worker'[s] = w
      /\ \A t \in Sessions \ {s} : worker'[t] = worker[t]
  BY DEF IInv, Types
<1>3. /\ up' \in [Sessions -> Seq(Token)] /\ up'[s] = u
      /\ \A t \in Sessions \ {s} : up'[t] = up[t]
  BY DEF IInv, Types
<1>4. /\ down' \in [Sessions -> Seq(Token)] /\ down'[s] = d
      /\ \A t \in Sessions \ {s} : down'[t] = down[t]
  BY DEF IInv, Types
<1>5. Apart(s)
  BY <1>1, <1>2, <1>3, <1>4 DEF Apart
<1> QED BY <1>1, <1>2, <1>3, <1>4, <1>5, StepKeeps

LEMMA Stays ==
  ASSUME Types, NEW s \in Sessions
  PROVE  /\ client[s] \in Clients /\ worker[s] \in Servers
         /\ up[s] \in Seq(Token) /\ down[s] \in Seq(Token) /\ Opens(worker[s])
         /\ client' = client => client' = [client EXCEPT ![s] = client[s]]
         /\ worker' = worker => worker' = [worker EXCEPT ![s] = worker[s]]
         /\ up' = up => up' = [up EXCEPT ![s] = up[s]]
         /\ down' = down => down' = [down EXCEPT ![s] = down[s]]
BY DEF Types

\* What is sent arrives at the end of the stream, unless nobody reads it.
LEMMA ToServerIs ==
  ASSUME Types, NEW s \in Sessions, NEW tokens \in Seq(Token), ToServer(s, tokens)
  PROVE  \E u \in Seq(Token) :
           /\ up' = [up EXCEPT ![s] = u]
           /\ worker[s].pc # "closed" => u = up[s] \o tokens
BY Joined DEF Types, ToServer

LEMMA ToClientIs ==
  ASSUME Types, NEW s \in Sessions, NEW tokens \in Seq(Token), ToClient(s, tokens)
  PROVE  \E d \in Seq(Token) :
           /\ down' = [down EXCEPT ![s] = d]
           /\ d = IF client[s].pc = "gone" THEN down[s] ELSE down[s] \o tokens
BY Joined DEF Types, ToClient, At

-----------------------------------------------------------------------------
(* Steps of the client.                                                    *)

LEMMA AskKeeps ==
  ASSUME IInv, NEW s \in Sessions, NEW r \in Requests,
         client[s].pc \in {"login", "idle"}, Ask(s, r)
  PROVE  IInv'
<1>1. PICK n \in Nat :
        /\ r.op # "puts" => n = 0
        /\ client' = [client EXCEPT ![s] =
             [Newcomer EXCEPT !.pc = "reply", !.cmd = r, !.file = [i \in 1 .. n |-> s]]]
  BY BoundsAssumption DEF Ask
<1> DEFINE file == [i \in 1 .. n |-> s]
           c == [Newcomer EXCEPT !.pc = "reply", !.cmd = r, !.file = file]
<1>2. file \in Seq(Unit) /\ (n = 0 => file = <<>>)
  BY DEF Unit
<1>3. c \in Clients
  BY <1>2 DEF Newcomer, Clients
<1>4. r \in Token /\ <<r>> \in Seq(Token)
  BY Tokens
<1>5. PICK u \in Seq(Token) :
        up' = [up EXCEPT ![s] = u] /\ (worker[s].pc # "closed" => u = up[s] \o <<r>>)
  BY <1>4, ToServerIs DEF Ask, IInv
<1>6. ASSUME client'[s] = c, worker'[s] = worker[s], up'[s] = u, down'[s] = down[s],
             ~worker[s].disturbed
      PROVE  Phase(s)'
  <2>1. Between(s)
    BY <1>6, ByClient DEF IInv, Phases
  <2>2. u = <<r>> /\ Len(u) = 1 /\ u[1] = r
    BY <1>4, <1>5, <2>1, OneMore DEF Between, Quiet, AtCommands
  <2>3. c.pc = "reply" /\ c.cmd = r /\ Unmoved(c)
    BY <1>1, <1>2 DEF Newcomer, Unmoved
  <2>4. Asked(s)'
    BY <1>6, <2>1, <2>2, <2>3 DEF Asked, Between, Quiet, AtCommands, Unmoved
  <2> QED BY <2>4 DEF Phase
<1> HIDE DEF c
<1>7. /\ client' = [client EXCEPT ![s] = c]
      /\ worker' = worker /\ down' = down /\ entry' = entry /\ data' = data
  BY <1>1 DEF Ask, disk, c
<1> QED BY <1>3, <1>5, <1>6, <1>7, Stays, Moves DEF IInv, Types

\* Of one session.
LEMMA Typed ==
  ASSUME Types, NEW s \in Sessions
  PROVE  /\ client[s] \in Clients /\ worker[s] \in Servers /\ Opens(worker[s])
         /\ up[s] \in Seq(Token) /\ down[s] \in Seq(Token)
         /\ Len(up[s]) \in Nat /\ Len(down[s]) \in Nat
         /\ up[s] # <<>> <=> Len(up[s]) >= 1
         /\ down[s] # <<>> <=> Len(down[s]) >= 1
         /\ client[s].file \in Seq(Unit) /\ Len(client[s].file) \in Nat
         /\ client[s].moved \in Nat /\ client[s].want \in Nat
         /\ worker[s].off \in Nat /\ worker[s].size \in Nat
         /\ worker[s].disturbed \in BOOLEAN
<1>1. /\ client[s] \in Clients /\ worker[s] \in Servers /\ Opens(worker[s])
      /\ up[s] \in Seq(Token) /\ down[s] \in Seq(Token)
  BY DEF Types
<1>2. /\ client[s].file \in Seq(Unit) /\ client[s].moved \in Nat /\ client[s].want \in Nat
      /\ worker[s].off \in Nat /\ worker[s].size \in Nat /\ worker[s].disturbed \in BOOLEAN
  BY <1>1 DEF Clients, Servers
<1>3. ASSUME NEW S, NEW q \in Seq(S) PROVE Len(q) \in Nat /\ (q # <<>> <=> Len(q) >= 1)
  OBVIOUS
<1> QED BY <1>1, <1>2, <1>3

LEMMA GoneIs == Gone \in Clients /\ Gone.pc = "gone" /\ <<>> \in Seq(Token)
<1>1. Gone = [pc |-> "gone", cmd |-> Command("none", None), outcome |-> "none",
              file |-> <<>>, moved |-> 0, want |-> 0]
  BY DEF Gone, Newcomer
<1>2. <<>> \in Seq(Unit) /\ <<>> \in Seq(Token)
  OBVIOUS
<1>3. Gone \in Clients
  BY <1>1, <1>2 DEF Clients
<1> QED BY <1>1, <1>2, <1>3

\* The client goes away, from wherever it is.
LEMMA LeaveKeeps ==
  ASSUME IInv, NEW s \in Sessions, Leave(s)
  PROVE  IInv'
<1>1. Gone \in Clients /\ Gone.pc = "gone" /\ <<>> \in Seq(Token)
  BY GoneIs
<1>2. ASSUME client'[s] = Gone, worker'[s] = worker[s], up'[s] = up[s], down'[s] = <<>>,
             ~worker[s].disturbed
      PROVE  Phase(s)'
  <2> USE DEF Quiet, AtCommands, OneReply, ContentAfter
  <2>0. Phase(s)
    BY <1>2 DEF IInv, Phases
  <2>1. /\ worker[s] \in Servers /\ Opens(worker[s]) /\ up[s] \in Seq(Token)
        /\ client[s] \in Clients
    BY Stays DEF IInv
  <2>2. /\ worker[s].off \in Nat /\ worker[s].size \in Nat /\ Len(up[s]) \in Nat
        /\ client[s].want \in Nat /\ client[s].moved \in Nat
    BY <2>1 DEF Servers, Clients
  <2>3. CASE Between(s) \/ Asked(s)
    BY <1>1, <1>2, <2>3 DEF Between, Asked, Abandoned, Phase
  <2>4. CASE Answered(s) \/ Removing(s) \/ Invited(s) \/ UploadAnswered(s)
    BY <1>1, <1>2, <2>4 DEF Answered, Removing, Invited, UploadAnswered, Abandoned, Phase
  <2>5. CASE UploadStarts(s)
    <3>1. Len(up[s]) <= 1 + up[s][1].n
      BY <2>2, <2>5 DEF UploadStarts, Uploading, Sent
    <3> QED BY <1>1, <1>2, <2>5, <3>1 DEF UploadStarts, Abandoned, Phase
  <2>6. CASE UploadRuns(s)
    <3>1. worker[s].off + Len(up[s]) <= worker[s].size
      BY <2>2, <2>6 DEF UploadRuns, Uploading, Sent
    <3> QED BY <1>1, <1>2, <2>6, <3>1 DEF UploadRuns, Abandoned, Phase
  <2>7. CASE DownloadOpens(s)
    BY <1>1, <1>2, <2>7 DEF DownloadOpens, Fetching, Abandoned, Phase
  <2>8. CASE DownloadStarts(s)
    BY <1>1, <1>2, <2>8 DEF DownloadStarts, Announced, Fetching, Abandoned, Phase
  <2>9. CASE DownloadRuns(s)
    BY <1>1, <1>2, <2>9 DEF DownloadRuns, Abandoned, Phase
  <2>10. CASE Abandoned(s)
    BY <1>1, <1>2, <2>10 DEF Abandoned, Phase
  <2> QED BY <2>0, <2>3, <2>4, <2>5, <2>6, <2>7, <2>8, <2>9, <2>10 DEF Phase
<1>3. /\ client' = [client EXCEPT ![s] = Gone] /\ down' = [down EXCEPT ![s] = <<>>]
      /\ worker' = worker /\ up' = up /\ entry' = entry /\ data' = data
  BY DEF Leave, disk
<1> QED BY <1>1, <1>2, <1>3, Stays, Moves DEF IInv, Types

\* A client that waits for a text reply finds the right one or none.
LEMMA RepliesFit ==
  ASSUME Types, NEW s \in Sessions, Phase(s), client[s].pc \in {"reply", "result"}, down[s] # <<>>
  PROVE  down[s][1].tag = "text" /\ down[s][1].op = client[s].cmd.op
<1>1. client[s].pc = "result" => UploadAnswered(s)
  BY ByClient DEF UploadStarts, UploadRuns
<1>2. client[s].pc = "reply" => Answered(s) \/ Invited(s) \/ DownloadOpens(s) \/ DownloadStarts(s)
  BY ByClient DEF Asked, Removing, Quiet
<1> QED BY <1>1, <1>2 DEF UploadAnswered, Answered, Invited, Quiet, OneReply, DownloadOpens, DownloadStarts,
        Announced, Fetching, InCommand

LEMMA ReadReplyKeeps ==
  ASSUME IInv, NEW s \in Sessions, ReadReply(s)
  PROVE  IInv'
<1> DEFINE op == client[s].cmd.op
           to == AfterReply(op, down[s][1].ok)
           c == IF op = "quit" THEN Gone ELSE [client[s] EXCEPT !.pc = to]
           d == IF op = "quit" THEN <<>> ELSE Rest(down[s], 1)
<1>1. /\ client[s] \in Clients /\ down[s] \in Seq(Token) /\ Len(down[s]) \in Nat
      /\ client[s].pc = "reply" /\ down[s] # <<>> /\ down[s][1].tag = "text"
      /\ Len(down[s]) >= 1
  BY Typed DEF IInv, ReadReply, At, NextIs
<1>2. /\ Rest(down[s], 1) \in Seq(Token) /\ Len(Rest(down[s], 1)) = Len(down[s]) - 1
      /\ \A j \in 1 .. Len(down[s]) - 1 : Rest(down[s], 1)[j] = down[s][1 + j]
      /\ Rest(down[s], 1) = <<>> <=> Len(down[s]) = 1
  BY <1>1, RestOne
<1>3. /\ to \in {"idle", "login", "sendsize", "recvsize"}
      /\ to = "sendsize" <=> op = "puts" /\ down[s][1].ok
      /\ to = "recvsize" <=> op = "gets" /\ down[s][1].ok
  BY DEF AfterReply
<1>4. [client[s] EXCEPT !.pc = to] \in Clients
  BY <1>1, <1>3 DEF Clients
<1>5. c \in Clients /\ d \in Seq(Token)
  BY <1>2, <1>4, GoneIs
<1>6. ASSUME client'[s] = c, worker'[s] = worker[s], up'[s] = up[s], down'[s] = d,
             ~worker[s].disturbed
      PROVE  Phase(s)'
  <2>0. Phase(s)
    BY <1>6 DEF IInv, Phases
  <2>1. CASE Answered(s)
    <3>1. CASE op = "quit"
      BY <1>6, <2>1, <3>1, GoneIs DEF Answered, OneReply, Abandoned, Phase
    <3>2. CASE op # "quit"
      <4>1. c.pc \in {"idle", "login"}
        BY <1>1, <1>3, <2>1, <3>2 DEF Answered, Clients
      <4>2. Rest(down[s], 1) = <<>>
        BY <1>2, <2>1 DEF Answered, OneReply
      <4> QED BY <1>6, <2>1, <3>2, <4>1, <4>2 DEF Answered, OneReply, Between, Quiet, AtCommands, Phase
    <3> QED BY <3>1, <3>2
  <2>2. CASE Invited(s)
    <3>1. /\ c.pc = "sendsize" /\ c.moved = 0 /\ c.cmd = client[s].cmd
      BY <1>1, <1>3, <2>2 DEF Invited, InCommand, OneReply, Clients
    <3>2. d = <<>>
      BY <1>1, <1>2, <2>2 DEF Invited, InCommand, OneReply
    <3> QED BY <1>1, <1>6, <2>2, <3>1, <3>2 DEF Invited, InCommand, OneReply, Quiet, Phase
  <2>3. ASSUME Fetching(s)
        PROVE  /\ c.pc = "recvsize" /\ c.cmd = client[s].cmd /\ c.file = <<>>
               /\ d = Rest(down[s], 1) /\ Fetching(s)'
    <3>1. /\ c.pc = "recvsize" /\ c.cmd = client[s].cmd /\ c.file = <<>>
          /\ d = Rest(down[s], 1)
      BY <1>1, <1>3, <2>3 DEF Fetching, InCommand, Clients
    <3> QED BY <1>6, <2>3, <3>1 DEF Fetching, InCommand
  <2>4. CASE DownloadOpens(s)
    BY <1>1, <1>2, <1>6, <2>3, <2>4 DEF DownloadOpens, Lead, Phase
  <2>5. CASE DownloadStarts(s)
    <3>1. Fetching(s) /\ Len(down[s]) >= 2 /\ down[s][2].tag = "size"
      BY <1>1, <2>5 DEF DownloadStarts, Announced, Lead
    <3>2. d[1] = down[s][2] /\ Len(d) = Len(down[s]) - 1
      BY <1>1, <1>2, <2>3, <3>1
    <3>3. ContentAfter(Rest(down[s], 1), 1)
      <4>1. ContentAfter(down[s], 2) /\ 2 \in Nat /\ 1 \in Nat /\ 2 <= 1 + 1
        BY <1>1, <2>5 DEF DownloadStarts, Announced, Lead
      <4> QED BY <1>1, <4>1, RestContent
    <3>4. Lead(client[s]) = 1 /\ Lead(client'[s]) = 0 /\ Fetching(s)' /\ ContentAfter(down'[s], 1)
      BY <1>1, <1>6, <2>3, <3>1, <3>3 DEF Lead
    <3> HIDE DEF c, d
    <3>5. Announced(s)'
      BY <1>1, <1>6, <3>1, <3>2, <3>4 DEF Announced
    <3> QED BY <1>1, <1>6, <2>5, <3>1, <3>2, <3>4, <3>5 DEF DownloadStarts, Phase
  <2> QED BY <1>1, <2>0, <2>1, <2>2, <2>4, <2>5, ByClient DEF Asked, Removing, Quiet
<1>7. /\ client' = [client EXCEPT ![s] = c] /\ down' = [down EXCEPT ![s] = d]
      /\ worker' = worker /\ up' = up /\ entry' = entry /\ data' = data
  BY DEF ReadReply, disk
<1> HIDE DEF c, d
<1> QED BY <1>5, <1>6, <1>7, Stays, Moves DEF IInv, Types

LEMMA SendSizeKeeps ==
  ASSUME IInv, NEW s \in Sessions, SendSize(s)
  PROVE  IInv'
<1> DEFINE n == Len(client[s].file)
           c == [client[s] EXCEPT !.pc = "senddata", !.want = n]
<1>1. client[s] \in Clients /\ n \in Nat /\ client[s].pc = "sendsize" /\ up[s] \in Seq(Token)
  BY Typed DEF IInv, SendSize, At
<1>2. /\ c \in Clients /\ c.pc = "senddata" /\ c.want = n
      /\ c.cmd = client[s].cmd /\ c.moved = client[s].moved
  BY <1>1 DEF Clients
<1>3. Size(n) \in Token /\ Size(n).tag = "size" /\ Size(n).n = n /\ <<Size(n)>> \in Seq(Token)
  BY <1>1, Tokens
<1>4. PICK u \in Seq(Token) :
        up' = [up EXCEPT ![s] = u] /\ (worker[s].pc # "closed" => u = up[s] \o <<Size(n)>>)
  BY <1>3, ToServerIs DEF SendSize, IInv
<1>5. ASSUME client'[s] = c, worker'[s] = worker[s], up'[s] = u, down'[s] = down[s],
             ~worker[s].disturbed
      PROVE  Phase(s)'
  <2>1. Invited(s)
    BY <1>1, <1>5, ByClient DEF IInv, Phases
  <2>2. Len(u) = 1 /\ u[1] = Size(n)
    BY <1>1, <1>3, <1>4, <2>1, OneMore DEF Invited, Quiet
  <2>3. Sent(c) = 0
    BY <1>1, <1>2, <2>1 DEF Sent, Invited
  <2>4. UploadStarts(s)'
    BY <1>1, <1>2, <1>3, <1>5, <2>1, <2>2, <2>3
       DEF Invited, UploadStarts, Uploading, InCommand, Quiet, ContentAfter
  <2> QED BY <2>4 DEF Phase
<1>6. /\ client' = [client EXCEPT ![s] = c]
      /\ worker' = worker /\ down' = down /\ entry' = entry /\ data' = data
  BY DEF SendSize, disk
<1> HIDE DEF c
<1> QED BY <1>2, <1>4, <1>5, <1>6, Stays, Moves DEF IInv, Types

LEMMA SendDataKeeps ==
  ASSUME IInv, NEW s \in Sessions, SendData(s)
  PROVE  IInv'
<1> DEFINE file == client[s].file
           from == client[s].moved
           end == PieceEnd(from, Len(file))
           units == SubSeq(file, from + 1, end)
           c == [client[s] EXCEPT !.moved = end]
           w == [worker[s] EXCEPT !.disturbed = @ \/ end > client[s].want]
<1>1. /\ client[s] \in Clients /\ worker[s] \in Servers /\ Opens(worker[s])
      /\ file \in Seq(Unit) /\ Len(file) \in Nat /\ from \in Nat /\ client[s].want \in Nat
      /\ worker[s].off \in Nat
      /\ up[s] \in Seq(Token) /\ Len(up[s]) \in Nat
      /\ client[s].pc = "senddata" /\ from < client[s].want /\ from < Len(file)
  BY Typed DEF IInv, SendData, At
<1>2. end \in Nat /\ from < end /\ end <= Len(file)
  BY <1>1, PieceEnds
<1>3. units \in Seq(Unit) /\ Len(units) = end - from
  BY <1>1, <1>2
<1>4. /\ c \in Clients /\ c.pc = "senddata" /\ c.moved = end /\ c.want = client[s].want
      /\ c.cmd = client[s].cmd
  BY <1>1, <1>2 DEF Clients
<1>5. /\ w \in Servers /\ w.pc = worker[s].pc /\ w.off = worker[s].off /\ w.size = worker[s].size
      /\ w.req = worker[s].req /\ w.fd = worker[s].fd
      /\ ~w.disturbed => ~worker[s].disturbed /\ ~(end > client[s].want)
  <2>1. (worker[s].disturbed \/ end > client[s].want) \in BOOLEAN
    OBVIOUS
  <2> QED BY <1>1, <2>1 DEF Servers
<1>6. Stream(units) \in Seq(Token) /\ Len(Stream(units)) = end - from
  BY <1>3, StreamIs
<1>7. PICK u \in Seq(Token) :
        up' = [up EXCEPT ![s] = u] /\ (worker[s].pc # "closed" => u = up[s] \o Stream(units))
  BY <1>6, ToServerIs DEF SendData, IInv
<1>8. /\ client' = [client EXCEPT ![s] = c] /\ worker' = [worker EXCEPT ![s] = w]
      /\ down' = down /\ entry' = entry /\ data' = data
  BY DEF SendData, disk
<1>9. Opens(w)
  BY <1>1, <1>5 DEF Opens
<1> HIDE DEF c, w, units, end
<1>10. ASSUME client'[s] = c, worker'[s] = w, up'[s] = u, down'[s] = down[s], ~w.disturbed
       PROVE  Phase(s)'
  <2>1. /\ UploadStarts(s) \/ UploadRuns(s) \/ UploadAnswered(s)
        /\ end <= client[s].want
    BY <1>1, <1>2, <1>5, <1>10, ByClient DEF IInv, Phases
  <2>2. ~UploadAnswered(s)
    BY <1>1 DEF UploadAnswered, Sent
  <2>3. u = up[s] \o Stream(units)
    BY <1>7, <2>1, <2>2 DEF UploadStarts, UploadRuns
  <2>4. Len(u) = Len(up[s]) + (end - from) /\ (Len(up[s]) >= 1 => u[1] = up[s][1])
    <3>1. /\ Len(up[s] \o Stream(units)) = Len(up[s]) + Len(Stream(units))
          /\ \A j \in 1 .. Len(up[s]) : (up[s] \o Stream(units))[j] = up[s][j]
      BY <1>1, <1>6, Joined
    <3>2. Len(up[s]) >= 1 => 1 \in 1 .. Len(up[s])
      BY <1>1
    <3> QED BY <1>6, <2>3, <3>1, <3>2
  <2>5. Sent(client[s]) = from /\ Sent(c) = end
    BY <1>1, <1>4 DEF Sent
  <2>6. Uploading(s) => Uploading(s)'
    BY <1>4, <1>10, <2>1, <2>5 DEF Uploading, InCommand
  <2>7. CASE UploadStarts(s)
    <3>1. ContentAfter(u, 1)
      BY <1>1, <1>3, <2>3, <2>7, MoreContent DEF UploadStarts
    <3>2. Len(u) = 1 + end /\ u[1] = up[s][1]
      BY <1>1, <1>2, <2>4, <2>5, <2>7 DEF UploadStarts
    <3> QED BY <1>4, <1>5, <1>10, <2>5, <2>6, <2>7, <3>1, <3>2 DEF UploadStarts, Phase
  <2>8. CASE UploadRuns(s)
    <3>1. ContentAfter(u, 0)
      BY <1>1, <1>3, <2>3, <2>8, MoreContent DEF UploadRuns
    <3>2. worker[s].off + Len(u) = end
      <4>1. worker[s].off + Len(up[s]) = Sent(client[s])
        BY <2>8 DEF UploadRuns
      <4>2. /\ worker[s].off \in Nat /\ Len(up[s]) \in Nat /\ from \in Nat /\ end \in Nat
            /\ worker[s].off + Len(up[s]) = from /\ Len(u) = Len(up[s]) + (end - from)
        BY <1>1, <1>2, <2>4, <2>5, <4>1
      <4> HIDE DEF from
      <4> QED BY <4>2
    <3> QED BY <1>4, <1>5, <1>10, <2>5, <2>6, <2>8, <3>1, <3>2 DEF UploadRuns, Phase
  <2> QED BY <2>1, <2>2, <2>7, <2>8
<1> QED BY <1>4, <1>5, <1>7, <1>8, <1>9, <1>10, Stays, Moves DEF IInv, Types

\* Nothing in an upload depends on more of the client than this.
LEMMA UploadKeepsOn ==
  ASSUME NEW s \in Sessions,
         UploadStarts(s) \/ UploadRuns(s) \/ UploadAnswered(s),
         client'[s].pc \in {"senddata", "result"}, client'[s].cmd = client[s].cmd,
         client'[s].want = client[s].want, Sent(client'[s]) = Sent(client[s]),
         worker'[s].pc = worker[s].pc, worker'[s].off = worker[s].off,
         worker'[s].size = worker[s].size, up'[s] = up[s], down'[s] = down[s]
  PROVE  Phase(s)'
<1> USE DEF ContentAfter, OneReply, InCommand
<1>1. Uploading(s)'
  BY DEF UploadStarts, UploadRuns, UploadAnswered, Uploading
<1>2. UploadStarts(s) => UploadStarts(s)'
  BY <1>1 DEF UploadStarts
<1>3. UploadRuns(s) => UploadRuns(s)'
  BY <1>1 DEF UploadRuns
<1>4. UploadAnswered(s) => UploadAnswered(s)'
  BY <1>1 DEF UploadAnswered
<1> QED BY <1>2, <1>3, <1>4 DEF Phase

LEMMA SendFileReturnsKeeps ==
  ASSUME IInv, NEW s \in Sessions, SendFileReturns(s)
  PROVE  IInv'
<1> DEFINE c == [client[s] EXCEPT !.pc = "result", !.moved = 0]
           w == [worker[s] EXCEPT !.disturbed = @ \/ client[s].moved < client[s].want]
<1>1. /\ client[s] \in Clients /\ worker[s] \in Servers /\ Opens(worker[s])
      /\ client[s].moved \in Nat /\ client[s].want \in Nat
      /\ client[s].pc = "senddata"
  BY Typed DEF IInv, SendFileReturns, At
<1>2. c \in Clients /\ c.pc = "result" /\ c.want = client[s].want /\ c.cmd = client[s].cmd
  BY <1>1 DEF Clients
<1>3. /\ w \in Servers /\ w.pc = worker[s].pc /\ w.off = worker[s].off /\ w.size = worker[s].size
      /\ w.req = worker[s].req /\ w.fd = worker[s].fd
      /\ ~w.disturbed => ~worker[s].disturbed /\ ~(client[s].moved < client[s].want)
  <2>1. (worker[s].disturbed \/ client[s].moved < client[s].want) \in BOOLEAN
    OBVIOUS
  <2> QED BY <1>1, <2>1 DEF Servers
<1>4. /\ client' = [client EXCEPT ![s] = c] /\ worker' = [worker EXCEPT ![s] = w]
      /\ up' = up /\ down' = down /\ entry' = entry /\ data' = data
  BY DEF SendFileReturns, disk
<1>5. Opens(w)
  BY <1>1, <1>3 DEF Opens
<1> HIDE DEF c, w
<1>6. ASSUME client'[s] = c, worker'[s] = w, up'[s] = up[s], down'[s] = down[s], ~w.disturbed
      PROVE  Phase(s)'
  <2>1. UploadStarts(s) \/ UploadRuns(s) \/ UploadAnswered(s)
    BY <1>1, <1>3, <1>6, ByClient DEF IInv, Phases
  <2>2. Sent(client[s]) = client[s].moved /\ client[s].moved <= client[s].want
    BY <1>1, <2>1 DEF UploadStarts, UploadRuns, UploadAnswered, Uploading, Sent
  <2>3. Sent(c) = Sent(client[s])
    BY <1>1, <1>2, <1>3, <1>6, <2>2 DEF Sent
  <2> QED BY <1>2, <1>3, <1>6, <2>1, <2>3, UploadKeepsOn
<1> QED BY <1>2, <1>3, <1>4, <1>5, <1>6, Stays, Moves DEF IInv, Types

LEMMA LocalFileChangesKeeps ==
  ASSUME IInv, NEW s \in Sessions, LocalFileChanges(s)
  PROVE  IInv'
<1>1. PICK n \in Nat : client' = [client EXCEPT ![s].file = [i \in 1 .. n |-> s]]
  BY BoundsAssumption DEF LocalFileChanges
<1> DEFINE c == [client[s] EXCEPT !.file = [i \in 1 .. n |-> s]]
<1>2. client[s] \in Clients /\ client[s].pc = "senddata" /\ [i \in 1 .. n |-> s] \in Seq(Unit)
  BY Typed DEF IInv, LocalFileChanges, At, Unit
<1>3. /\ c \in Clients /\ c.pc = client[s].pc /\ c.want = client[s].want
      /\ c.cmd = client[s].cmd /\ c.moved = client[s].moved
  BY <1>2 DEF Clients
<1>4. /\ client' = [client EXCEPT ![s] = c] /\ worker' = worker
      /\ up' = up /\ down' = down /\ entry' = entry /\ data' = data
  BY <1>1 DEF LocalFileChanges, disk
<1> HIDE DEF c
<1>5. ASSUME client'[s] = c, worker'[s] = worker[s], up'[s] = up[s], down'[s] = down[s],
             ~worker[s].disturbed
      PROVE  Phase(s)'
  <2>1. UploadStarts(s) \/ UploadRuns(s) \/ UploadAnswered(s)
    BY <1>2, <1>5, ByClient DEF IInv, Phases
  <2>2. Sent(c) = Sent(client[s])
    BY <1>3 DEF Sent
  <2> QED BY <1>2, <1>3, <1>5, <2>1, <2>2, UploadKeepsOn
<1> QED BY <1>3, <1>4, <1>5, Stays, Moves DEF IInv, Types

LEMMA ReadResultKeeps ==
  ASSUME IInv, NEW s \in Sessions, ReadResult(s)
  PROVE  IInv'
<1> DEFINE told == IF down[s][1].ok THEN "ok" ELSE "error"
           c == [client[s] EXCEPT !.pc = "idle", !.outcome = told]
           d == Rest(down[s], 1)
<1>1. /\ client[s] \in Clients /\ client[s].pc = "result"
      /\ down[s] \in Seq(Token) /\ down[s] # <<>> /\ Len(down[s]) >= 1
  BY Typed DEF IInv, ReadResult, At, NextIs
<1>2. c \in Clients /\ c.pc = "idle"
  BY <1>1 DEF Clients
<1>3. d \in Seq(Token) /\ (d = <<>> <=> Len(down[s]) = 1)
  BY <1>1, RestOne
<1>4. /\ client' = [client EXCEPT ![s] = c] /\ down' = [down EXCEPT ![s] = d]
      /\ worker' = worker /\ up' = up /\ entry' = entry /\ data' = data
  BY DEF ReadResult, disk
<1> HIDE DEF c, d
<1>5. ASSUME client'[s] = c, worker'[s] = worker[s], up'[s] = up[s], down'[s] = d,
             ~worker[s].disturbed
      PROVE  Phase(s)'
  <2>1. UploadAnswered(s)
    BY <1>1, <1>5, ByClient DEF IInv, Phases, UploadStarts, UploadRuns
  <2> QED BY <1>2, <1>3, <1>5, <2>1 DEF UploadAnswered, OneReply, Between, Quiet, AtCommands, Phase
<1> QED BY <1>2, <1>3, <1>4, <1>5, Stays, Moves DEF IInv, Types

LEMMA RecvSizeKeeps ==
  ASSUME IInv, NEW s \in Sessions, RecvSize(s)
  PROVE  IInv'
<1>1. /\ client[s] \in Clients /\ client[s].pc = "recvsize"
      /\ down[s] \in Seq(Token) /\ down[s] # <<>> /\ Len(down[s]) >= 1 /\ Len(down[s]) \in Nat
      /\ worker[s].off \in Nat /\ worker[s].size \in Nat
  BY Typed DEF IInv, RecvSize, At
<1>2. PICK n \in SizesRead(down[s]) :
        client' = [client EXCEPT ![s].pc = "recvdata", ![s].want = n]
  BY DEF RecvSize
<1>3. n \in Nat /\ (down[s][1].tag = "size" => n = down[s][1].n)
  BY <1>1, SizesReadAre
<1> DEFINE c == [client[s] EXCEPT !.pc = "recvdata", !.want = n]
<1>4. /\ c \in Clients /\ c.pc = "recvdata" /\ c.want = n /\ c.cmd = client[s].cmd
      /\ c.file = client[s].file
  BY <1>1, <1>3 DEF Clients
<1> DEFINE d == Rest(down[s], 1)
<1>5. /\ d \in Seq(Token) /\ Len(d) = Len(down[s]) - 1
      /\ d = <<>> <=> Len(down[s]) = 1
      /\ ContentAfter(down[s], 1) => ContentAfter(d, 0)
  <2>1. 0 \in Nat /\ 1 \in Nat /\ 1 <= 1 + 0
    OBVIOUS
  <2> QED BY <1>1, <2>1, RestOne, RestContent
<1>6. /\ client' = [client EXCEPT ![s] = c] /\ down' = [down EXCEPT ![s] = d]
      /\ worker' = worker /\ up' = up /\ entry' = entry /\ data' = data
  BY <1>2 DEF RecvSize, disk
<1> HIDE DEF c, d
<1>7. ASSUME client'[s] = c, worker'[s] = worker[s], up'[s] = up[s], down'[s] = d,
             ~worker[s].disturbed
      PROVE  Phase(s)'
  <2>1. Lead(client[s]) = 0
    BY <1>1 DEF Lead
  <2>2. DownloadStarts(s)
    BY <1>1, <1>7, <2>1, ByClient DEF IInv, Phases, DownloadOpens
  <2>3. /\ client[s].file = <<>> /\ Len(client[s].file) = 0 /\ InCommand(s, "gets")
        /\ n = down[s][1].n /\ ContentAfter(down[s], 1) /\ up[s] = <<>>
    BY <1>3, <2>1, <2>2 DEF DownloadStarts, Announced, Fetching
  <2>4. LET more == Len(d)
        IN  \/ worker[s].pc = "dldata" /\ worker[s].size = n /\ worker[s].off = more /\ more <= n
            \/ worker[s].pc = "recv" /\ more = n
            \/ worker[s].pc = "closed" /\ d = <<>> /\ n = 1
    <3>1. Len(d) = Len(down[s]) - (0 + 1) /\ n = down[s][0 + 1].n
      BY <1>5, <2>3
    <3>2. d = <<>> <=> Len(down[s]) - (0 + 1) = 0
      BY <1>1, <1>5
    <3> QED BY <2>1, <2>2, <3>1, <3>2 DEF DownloadStarts
  <2>5. /\ c.pc = "recvdata" /\ InCommand(s, "gets")' /\ up'[s] = <<>> /\ ContentAfter(d, 0)
        /\ Len(c.file) = 0 /\ Len(d) \in Nat
    BY <1>1, <1>4, <1>5, <1>7, <2>3 DEF InCommand
  <2>6. PICK more \in Nat : more = Len(d) /\ Len(c.file) + Len(d) = more
    BY <2>5
  <2>7. ContentAfter(down'[s], 0)
    BY <1>7, <2>5
  <2>8. LET sofar == Len(client'[s].file) + Len(down'[s])
        IN  \/ worker'[s].pc = "dldata" /\ worker'[s].size = client'[s].want
                 /\ worker'[s].off = sofar /\ sofar <= client'[s].want
            \/ worker'[s].pc = "recv" /\ sofar = client'[s].want
            \/ worker'[s].pc = "closed" /\ sofar < client'[s].want /\ down'[s] = <<>>
    <3>1. d = <<>> => more = 0
      BY <2>6
    <3> QED BY <1>3, <1>4, <1>7, <2>4, <2>6, <3>1
  <2>9. DownloadRuns(s)'
    BY <1>7, <2>5, <2>7, <2>8 DEF DownloadRuns, ContentAfter
  <2> QED BY <2>9 DEF Phase
<1>8. c \in Clients /\ d \in Seq(Token)
  BY <1>4, <1>5
<1> QED BY <1>6, <1>7, <1>8, Stays, Moves DEF IInv, Types

LEMMA RecvDataKeeps ==
  ASSUME IInv, NEW s \in Sessions, RecvData(s)
  PROVE  IInv'
<1>1. /\ client[s] \in Clients /\ client[s].pc = "recvdata"
      /\ down[s] \in Seq(Token) /\ Len(down[s]) \in Nat
      /\ client[s].file \in Seq(Unit) /\ Len(client[s].file) \in Nat /\ client[s].want \in Nat
  BY Typed DEF IInv, RecvData, At
<1> DEFINE got(k) == Payload(First(down[s], k))
<1>2. PICK k \in Received(down[s], client[s].want - Len(client[s].file)) :
        /\ client' = [client EXCEPT ![s].file = client[s].file \o got(k)]
        /\ down' = [down EXCEPT ![s] = Rest(down[s], k)]
  BY DEF RecvData
<1>3. k \in Nat /\ k >= 1 /\ k <= Len(down[s]) /\ k <= client[s].want - Len(client[s].file)
  BY <1>1, ReceivedIs
<1>4. got(k) \in Seq(Unit) /\ Len(got(k)) = k
  BY <1>1, <1>3, FirstIs, PayloadIs
<1> DEFINE file == client[s].file \o got(k)
           c == [client[s] EXCEPT !.file = file]
           d == Rest(down[s], k)
<1>5. file \in Seq(Unit) /\ Len(file) = Len(client[s].file) + k
  <2> HIDE DEF got
  <2>1. /\ client[s].file \o got(k) \in Seq(Unit)
        /\ Len(client[s].file \o got(k)) = Len(client[s].file) + Len(got(k))
    BY <1>1, <1>4, Joined
  <2> QED BY <1>4, <2>1
<1>6. /\ c \in Clients /\ c.pc = "recvdata" /\ c.want = client[s].want /\ c.cmd = client[s].cmd
      /\ c.file = file
  BY <1>1, <1>5 DEF Clients
<1>7. /\ d \in Seq(Token) /\ Len(d) = Len(down[s]) - k
      /\ d = <<>> <=> Len(d) = 0
      /\ ContentAfter(down[s], 0) => ContentAfter(d, 0)
  <2>1. Rest(down[s], k) \in Seq(Token) /\ Len(Rest(down[s], k)) = Len(down[s]) - k
    BY <1>1, <1>3, RestIs
  <2>2. ContentAfter(down[s], 0) => ContentAfter(Rest(down[s], k), 0)
    <3>1. 0 \in Nat /\ 0 <= k + 0
      BY <1>3
    <3> QED BY <1>1, <1>3, <3>1, RestContent
  <2>3. d \in Seq(Token) => (d = <<>> <=> Len(d) = 0)
    <3> HIDE DEF d
    <3> QED OBVIOUS
  <2> QED BY <2>1, <2>2, <2>3
<1>8. /\ client' = [client EXCEPT ![s] = c] /\ down' = [down EXCEPT ![s] = d]
      /\ worker' = worker /\ up' = up /\ entry' = entry /\ data' = data
  BY <1>2 DEF RecvData, disk
<1> HIDE DEF c, file, d
<1>9. ASSUME client'[s] = c, worker'[s] = worker[s], up'[s] = up[s], down'[s] = d,
             ~worker[s].disturbed
      PROVE  Phase(s)'
  <2>1. DownloadRuns(s) /\ down[s] # <<>>
    BY <1>1, <1>3, <1>9, ByClient DEF IInv, Phases
  <2>2. Len(c.file) + Len(d) = Len(client[s].file) + Len(down[s])
    <3>1. Len(c.file) = Len(client[s].file) + k /\ Len(d) = Len(down[s]) - k
      BY <1>5, <1>6, <1>7
    <3>2. PICK m \in Nat, n \in Nat : m = Len(client[s].file) /\ n = Len(down[s])
      BY <1>1
    <3>3. (m + k) + (n - k) = m + n
      BY <1>3
    <3> QED BY <3>1, <3>2, <3>3
  <2>3. InCommand(s, "gets")' /\ up'[s] = <<>> /\ ContentAfter(d, 0)
    BY <1>6, <1>7, <1>9, <2>1 DEF DownloadRuns, InCommand
  <2>4. DownloadRuns(s)'
    BY <1>6, <1>9, <2>1, <2>2, <2>3 DEF DownloadRuns, ContentAfter
  <2> QED BY <2>4 DEF Phase
<1> QED BY <1>6, <1>7, <1>8, <1>9, Stays, Moves DEF IInv, Types

LEMMA RecvFileReturnsKeeps ==
  ASSUME IInv, NEW s \in Sessions, RecvFileReturns(s)
  PROVE  IInv'
<1> DEFINE c == [client[s] EXCEPT !.pc = "idle", !.outcome = "ok", !.want = 0]
<1>1. /\ client[s] \in Clients /\ client[s].pc = "recvdata"
      /\ down[s] \in Seq(Token) /\ Len(down[s]) \in Nat /\ (down[s] # <<>> <=> Len(down[s]) >= 1)
      /\ Len(client[s].file) \in Nat /\ client[s].want \in Nat
      /\ Len(client[s].file) >= client[s].want
      /\ worker[s].off \in Nat /\ worker[s].size \in Nat
  BY Typed DEF IInv, RecvFileReturns, At
<1>2. c \in Clients /\ c.pc = "idle"
  BY <1>1 DEF Clients
<1>3. /\ client' = [client EXCEPT ![s] = c] /\ down' = down
      /\ worker' = worker /\ up' = up /\ entry' = entry /\ data' = data
  BY DEF RecvFileReturns, disk
<1> HIDE DEF c
<1>4. ASSUME client'[s] = c, worker'[s] = worker[s], up'[s] = up[s], down'[s] = down[s],
             ~worker[s].disturbed
      PROVE  Phase(s)'
  <2>1. DownloadRuns(s)
    BY <1>1, <1>4, ByClient DEF IInv, Phases
  <2>2. PICK m \in Nat, n \in Nat, want \in Nat :
          m = Len(client[s].file) /\ n = Len(down[s]) /\ want = client[s].want
    BY <1>1
  <2>3. m >= want /\ (down[s] # <<>> <=> n >= 1)
    BY <1>1, <2>2
  <2>4. /\ worker[s].pc # "closed" /\ m + n <= want
        /\ worker[s].pc = "dldata" => worker[s].size = want /\ worker[s].off = m + n
        /\ worker[s].pc \in {"dldata", "recv"} /\ up[s] = <<>>
    <3>1. /\ up[s] = <<>>
          /\ \/ worker[s].pc = "dldata" /\ worker[s].size = want /\ worker[s].off = m + n /\ m + n <= want
             \/ worker[s].pc = "recv" /\ m + n = want
             \/ worker[s].pc = "closed" /\ m + n < want
      BY <2>1, <2>2 DEF DownloadRuns
    <3>2. ~(m + n < want)
      BY <2>3
    <3> QED BY <3>1, <3>2
  <2>5. down[s] = <<>> /\ m + n = want
    BY <2>3, <2>4
  <2>6. AtCommands(worker[s])
    BY <2>4, <2>5 DEF AtCommands
  <2> QED BY <1>2, <1>4, <2>4, <2>5, <2>6 DEF Between, Quiet, Phase
<1> QED BY <1>2, <1>3, <1>4, Stays, Moves DEF IInv, Types

LEMMA MisreadReplyKeeps ==
  ASSUME IInv, NEW s \in Sessions, MisreadReply(s)
  PROVE  IInv'
<1>1. CASE Leave(s)
  BY <1>1, LeaveKeeps
<1>2. CASE ~Leave(s)
  <2>1. worker[s].disturbed
    <3>1. SUFFICES ASSUME ~worker[s].disturbed PROVE FALSE
      OBVIOUS
    <3>2. Phase(s) /\ ~At(s, "astray")
      BY <3>1, ByClient DEF IInv, Phases, At
    <3> QED BY <3>2, RepliesFit DEF MisreadReply, Misfit, ClientExpects, At, IInv
  <2>2. /\ client[s] \in Clients /\ down[s] \in Seq(Token) /\ Len(down[s]) \in Nat
    BY Typed DEF IInv
  <2>3. PICK k \in 0 .. Len(down[s]), where \in {"astray", "idle"} :
          /\ client' = [client EXCEPT ![s].pc = where, ![s].outcome = "error"]
          /\ down' = [down EXCEPT ![s] = Rest(down[s], k)]
          /\ UNCHANGED <<worker, up, disk>>
    BY <1>2 DEF MisreadReply
  <2> DEFINE c == [client[s] EXCEPT !.pc = where, !.outcome = "error"]
  <2>4. c \in Clients
    BY <2>2 DEF Clients
  <2>5. Rest(down[s], k) \in Seq(Token)
    BY <2>2, RestIs
  <2>6. /\ client' = [client EXCEPT ![s] = c] /\ down' = [down EXCEPT ![s] = Rest(down[s], k)]
        /\ worker' = worker /\ up' = up /\ entry' = entry /\ data' = data
    BY <2>3 DEF disk
  <2> HIDE DEF c
  <2> QED BY <2>1, <2>4, <2>5, <2>6, Stays, Moves DEF IInv, Types
<1> QED BY <1>1, <1>2

LEMMA ClientKeeps ==
  ASSUME IInv, NEW s \in Sessions,
         AskLogin(s) \/ AskCommand(s) \/ ClientAnswers(s) \/ LocalFileChanges(s) \/ GoAway(s)
  PROVE  IInv'
<1>1. CASE AskLogin(s) \/ AskCommand(s)
  BY <1>1, AskKeeps DEF AskLogin, AskCommand, At, Requests
<1>2. CASE LoseServer(s) \/ GoAway(s)
  BY <1>2, LeaveKeeps DEF LoseServer, GoAway
<1>3. CASE LocalFileChanges(s)
  BY <1>3, LocalFileChangesKeeps
<1>4. CASE ClientAnswers(s) /\ ~LoseServer(s)
  BY <1>4, ReadReplyKeeps, SendSizeKeeps, SendDataKeeps, SendFileReturnsKeeps, ReadResultKeeps,
     RecvSizeKeeps, RecvDataKeeps, RecvFileReturnsKeeps, MisreadReplyKeeps DEF ClientAnswers
<1> QED BY <1>1, <1>2, <1>3, <1>4

-----------------------------------------------------------------------------
(* Steps of the worker.                                                    *)

\* There are finitely many inodes, and neither 0 nor Dir is one.
LEMMA InodesAre ==
  /\ Cardinality(Names) + Cardinality(Sessions) \in Nat
  /\ IsFiniteSet(Inodes) /\ Cardinality(Inodes) = Cardinality(Names) + Cardinality(Sessions)
  /\ 0 \notin Inodes /\ Dir \notin Inodes
<1>1. Cardinality(Names) \in Nat /\ Cardinality(Sessions) \in Nat
  BY BoundsAssumption, FS_CardinalityType
<1> DEFINE n == Cardinality(Names) + Cardinality(Sessions)
<1>2. n \in Nat /\ Inodes = 1 .. n /\ Dir = n + 1
  BY <1>1 DEF Inodes, Dir
<1> HIDE DEF n
<1>3. IsFiniteSet(1 .. n) /\ Cardinality(1 .. n) = n
  <2>1. 1 \in Int /\ n \in Int
    BY <1>2
  <2>2. IsFiniteSet(1 .. n) /\ Cardinality(1 .. n) = IF 1 > n THEN 0 ELSE n - 1 + 1
    BY <2>1, FS_Interval
  <2>3. (IF 1 > n THEN 0 ELSE n - 1 + 1) = n
    BY <1>2
  <2> QED BY <2>2, <2>3
<1>4. 0 \notin Inodes /\ Dir \notin Inodes
  BY <1>2
<1> QED BY <1>2, <1>3, <1>4 DEF n

\* The worker between two commands, and after the last.
LEMMA BackIs ==
  ASSUME Types, NEW s \in Sessions, NEW b \in BOOLEAN
  PROVE  /\ LET w == [Back(s) EXCEPT !.disturbed = b]
            IN  w \in Servers /\ Opens(w) /\ w.pc = "recv" /\ w.disturbed = b
         /\ Back(s) \in Servers /\ Opens(Back(s)) /\ Back(s).pc = "recv"
         /\ Back(s).disturbed = worker[s].disturbed
         /\ Closed(s) \in Servers /\ Opens(Closed(s)) /\ Closed(s).pc = "closed"
         /\ Closed(s).disturbed = worker[s].disturbed
<1>1. worker[s] \in Servers /\ 0 \notin Inodes
  BY Typed, InodesAre
<1>2. LET w == [Back(s) EXCEPT !.disturbed = b]
      IN  w \in Servers /\ Opens(w) /\ w.pc = "recv" /\ w.disturbed = b
  BY <1>1 DEF Back, Servers, Opens
<1>3. Back(s) \in Servers /\ Opens(Back(s)) /\ Back(s).pc = "recv"
      /\ Back(s).disturbed = worker[s].disturbed
  BY <1>1 DEF Back, Servers, Opens
<1>4. Closed(s) \in Servers /\ Opens(Closed(s)) /\ Closed(s).pc = "closed"
      /\ Closed(s).disturbed = worker[s].disturbed
  BY <1>1 DEF Back, Closed, Servers, Opens
<1> QED BY <1>2, <1>3, <1>4

LEMMA SettleIs ==
  ASSUME Types, NEW s \in Sessions, NEW e, NEW w, Settle(e, s, w)
  PROVE  /\ entry' = e /\ worker' = [worker EXCEPT ![s] = w]
         /\ data' \in [Inodes -> Seq(Unit)]
<1>1. entry' = e /\ worker' = [worker EXCEPT ![s] = w]
  BY DEF Settle
<1>2. \A i \in Inodes : data[i] \in Seq(Unit)
  BY DEF Types
<1>3. <<>> \in Seq(Unit)
  OBVIOUS
<1> DEFINE held == Held(e, [worker EXCEPT ![s] = w])
<1>4. data' = [i \in Inodes |-> IF i \in held THEN data[i] ELSE <<>>]
  BY DEF Settle
<1> HIDE DEF held
<1>5. data' \in [Inodes -> Seq(Unit)]
  BY <1>2, <1>3, <1>4
<1> QED BY <1>1, <1>5

\* A step of the worker of s.
LEMMA WorkerMoves ==
  ASSUME IInv, NEW s \in Sessions, NEW w \in Servers, NEW u \in Seq(Token), NEW d \in Seq(Token),
         client' = client, worker' = [worker EXCEPT ![s] = w],
         up' = [up EXCEPT ![s] = u], down' = [down EXCEPT ![s] = d],
         entry' \in [Names -> Inodes \cup {0, Dir}], data' \in [Inodes -> Seq(Unit)],
         Opens(w),
         client'[s] = client[s] /\ worker'[s] = w /\ up'[s] = u /\ down'[s] = d /\ ~w.disturbed
           => Phase(s)'
  PROVE  IInv'
<1>1. client[s] \in Clients /\ client' = [client EXCEPT ![s] = client[s]]
  BY Stays DEF IInv
<1> QED BY <1>1, Moves

\* A worker that finds a command has found all there is.
LEMMA CommandIs ==
  ASSUME IInv, NEW s \in Sessions, worker[s].pc = "recv", up[s] # <<>>, ~worker[s].disturbed
  PROVE  /\ Len(up[s]) = 1 /\ up[s][1] \in Requests /\ up[s][1].tag = "cmd"
         /\ down[s] = <<>>
         /\ Asked(s) \/ Abandoned(s)
         /\ Asked(s) => client[s].pc = "reply" /\ up[s][1] = client[s].cmd
         /\ Abandoned(s) => client[s].pc = "gone"
<1>1. Asked(s) \/ Abandoned(s)
  BY ByWorker DEF IInv, Phases
<1>2. Len(up[s]) = 1 /\ up[s][1] \in Requests /\ down[s] = <<>>
  BY <1>1 DEF Asked, Abandoned
<1> QED BY <1>1, <1>2, Tokens DEF Asked, Abandoned

\* The command is answered, and that is all there is to it.
LEMMA AnswerKeeps ==
  ASSUME IInv, NEW s \in Sessions, worker[s].pc = "recv", up[s] # <<>>,
         NEW op \in NamedOps \cup {"login", "list", "quit"}, up[s][1].op = op,
         NEW ok \in BOOLEAN, op \in {"puts", "gets"} => ~ok, ToClient(s, <<Text(ok, op)>>),
         NEW w \in Servers, Opens(w), worker' = [worker EXCEPT ![s] = w],
         w.disturbed = worker[s].disturbed, w.pc = IF op = "quit" THEN "closed" ELSE "recv",
         NEW u \in Seq(Token), up' = [up EXCEPT ![s] = u],
         u = <<>> \/ Len(u) = Len(up[s]) - 1,
         client' = client,
         entry' \in [Names -> Inodes \cup {0, Dir}], data' \in [Inodes -> Seq(Unit)]
  PROVE  IInv'
<1> DEFINE x == Text(ok, op)
<1>1. /\ x \in Token /\ x.tag = "text" /\ x.ok = ok /\ x.op = op
      /\ <<x>> \in Seq(Token)
  BY Tokens
<1> HIDE DEF x
<1>2. PICK d \in Seq(Token) :
        /\ down' = [down EXCEPT ![s] = d]
        /\ d = IF client[s].pc = "gone" THEN down[s] ELSE down[s] \o <<x>>
  BY <1>1, ToClientIs DEF IInv, x
<1>3. ASSUME client'[s] = client[s], worker'[s] = w, up'[s] = u, down'[s] = d, ~w.disturbed
      PROVE  Phase(s)'
  <2>1. /\ Len(up[s]) = 1 /\ down[s] = <<>>
        /\ Asked(s) \/ Abandoned(s)
        /\ Asked(s) => client[s].pc = "reply" /\ up[s][1] = client[s].cmd
        /\ Abandoned(s) => client[s].pc = "gone"
    BY <1>3, CommandIs
  <2>2. u = <<>>
    <3>1. Len(u) = 0 => u = <<>>
      OBVIOUS
    <3> QED BY <2>1, <3>1
  <2>3. CASE Asked(s)
    <3>1. d = <<x>> /\ Len(d) = 1 /\ d[1] = x
      BY <1>1, <1>2, <2>1, <2>3, OneMore
    <3> QED BY <1>1, <1>3, <2>1, <2>2, <2>3, <3>1 DEF Asked, Answered, OneReply, Phase
  <2>4. CASE Abandoned(s)
    BY <1>2, <1>3, <2>1, <2>2, <2>4 DEF Abandoned, Phase
  <2> QED BY <2>1, <2>3, <2>4
<1> QED BY <1>2, <1>3, WorkerMoves

\* A command is taken from the stream.
LEMMA ReadsIs ==
  ASSUME Types, NEW s \in Sessions, NEW op, Reads(s, op)
  PROVE  /\ worker[s].pc = "recv" /\ up[s] # <<>> /\ up[s][1].op = op
         /\ Rest(up[s], 1) \in Seq(Token) /\ Len(Rest(up[s], 1)) = Len(up[s]) - 1
         /\ worker[s] \in Servers /\ Opens(worker[s]) /\ worker[s].off = 0
         /\ entry \in [Names -> Inodes \cup {0, Dir}] /\ data \in [Inodes -> Seq(Unit)]
<1>1. /\ worker[s].pc = "recv" /\ up[s] # <<>> /\ up[s][1].op = op
  BY DEF Reads, NextIs
<1>2. up[s] \in Seq(Token) /\ Len(up[s]) >= 1 /\ worker[s] \in Servers /\ Opens(worker[s])
  BY <1>1, Typed
<1>3. Rest(up[s], 1) \in Seq(Token) /\ Len(Rest(up[s], 1)) = Len(up[s]) - 1
  BY <1>2, RestOne
<1> QED BY <1>1, <1>2, <1>3 DEF Opens, Types

LEMMA QuitKeeps ==
  ASSUME IInv, NEW s \in Sessions, Quit(s)
  PROVE  IInv'
<1>1. /\ worker[s].pc = "recv" /\ up[s] # <<>> /\ up[s][1].op = "quit"
      /\ entry \in [Names -> Inodes \cup {0, Dir}] /\ data \in [Inodes -> Seq(Unit)]
  BY ReadsIs DEF Quit, IInv
<1>2. /\ Closed(s) \in Servers /\ Opens(Closed(s)) /\ Closed(s).pc = "closed"
      /\ Closed(s).disturbed = worker[s].disturbed
  BY BackIs DEF IInv
<1>3. /\ ToClient(s, <<Text(TRUE, "quit")>>) /\ worker' = [worker EXCEPT ![s] = Closed(s)]
      /\ up' = [up EXCEPT ![s] = <<>>] /\ client' = client /\ entry' = entry /\ data' = data
  BY DEF Quit, Hangup, disk
<1>4. <<>> \in Seq(Token)
  BY GoneIs
<1> QED BY <1>1, <1>2, <1>3, <1>4, AnswerKeeps

LEMMA LoginKeeps ==
  ASSUME IInv, NEW s \in Sessions, Login(s)
  PROVE  IInv'
<1> DEFINE ok == ~worker[s].login /\ Arg(s) = "known"
           w == [worker[s] EXCEPT !.login = @ \/ ok]
<1>1. /\ worker[s].pc = "recv" /\ up[s] # <<>> /\ up[s][1].op = "login"
      /\ Rest(up[s], 1) \in Seq(Token) /\ Len(Rest(up[s], 1)) = Len(up[s]) - 1
      /\ worker[s] \in Servers /\ Opens(worker[s])
      /\ entry \in [Names -> Inodes \cup {0, Dir}] /\ data \in [Inodes -> Seq(Unit)]
  BY ReadsIs DEF Login, IInv
<1>2. /\ w \in Servers /\ w.pc = "recv" /\ w.disturbed = worker[s].disturbed
      /\ w.req = worker[s].req /\ w.fd = worker[s].fd /\ w.off = worker[s].off
  BY <1>1 DEF Servers
<1>3. Opens(w)
  BY <1>1, <1>2 DEF Opens
<1>4. /\ ToClient(s, <<Text(ok, "login")>>) /\ worker' = [worker EXCEPT ![s] = w]
      /\ up' = [up EXCEPT ![s] = Rest(up[s], 1)] /\ client' = client /\ entry' = entry /\ data' = data
  BY DEF Login, Drop, disk
<1>5. ok \in BOOLEAN
  OBVIOUS
<1> HIDE DEF ok, w
<1> QED BY <1>1, <1>2, <1>3, <1>4, <1>5, AnswerKeeps

\* A reply that changes nothing but the streams.
LEMMA PlainAnswerKeeps ==
  ASSUME IInv, NEW s \in Sessions, NEW op \in NamedOps \cup {"list"}, Reads(s, op),
         NEW ok \in BOOLEAN, op \in {"puts", "gets"} => ~ok, ToClient(s, <<Text(ok, op)>>),
         up' = [up EXCEPT ![s] = Rest(up[s], 1)], client' = client, worker' = worker,
         entry' \in [Names -> Inodes \cup {0, Dir}], data' = data
  PROVE  IInv'
<1>1. /\ worker[s].pc = "recv" /\ up[s] # <<>> /\ up[s][1].op = op
      /\ Rest(up[s], 1) \in Seq(Token) /\ Len(Rest(up[s], 1)) = Len(up[s]) - 1
      /\ worker[s] \in Servers /\ Opens(worker[s]) /\ data \in [Inodes -> Seq(Unit)]
  BY ReadsIs DEF IInv
<1>2. worker' = [worker EXCEPT ![s] = worker[s]]
  BY Stays DEF IInv
<1>3. op \in NamedOps \cup {"login", "list", "quit"} /\ op # "quit"
  BY DEF NamedOps
<1> QED BY <1>1, <1>2, <1>3, AnswerKeeps

LEMMA ListKeeps ==
  ASSUME IInv, NEW s \in Sessions, List(s)
  PROVE  IInv'
<1>1. PICK ok \in BOOLEAN : ToClient(s, <<Text(ok /\ worker[s].login, "list")>>)
  BY DEF List
<1>2. /\ Reads(s, "list") /\ up' = [up EXCEPT ![s] = Rest(up[s], 1)]
      /\ client' = client /\ worker' = worker /\ entry' = entry /\ data' = data
  BY DEF List, Drop, disk
<1>3. (ok /\ worker[s].login) \in BOOLEAN
  BY Typed DEF IInv, Servers
<1>4. entry \in [Names -> Inodes \cup {0, Dir}]
  BY DEF IInv, Types
<1> QED BY <1>1, <1>2, <1>3, <1>4, PlainAnswerKeeps

LEMMA RefuseKeeps ==
  ASSUME IInv, NEW s \in Sessions, NEW op \in NamedOps, Refuse(s, op)
  PROVE  IInv'
<1>1. /\ Reads(s, op) /\ up' = [up EXCEPT ![s] = Rest(up[s], 1)]
      /\ ToClient(s, <<Text(FALSE, op)>>)
      /\ client' = client /\ worker' = worker /\ entry' = entry /\ data' = data
  BY DEF Refuse, Drop, disk
<1>2. entry \in [Names -> Inodes \cup {0, Dir}]
  BY DEF IInv, Types
<1> QED BY <1>1, <1>2, PlainAnswerKeeps

LEMMA MkdirKeeps ==
  ASSUME IInv, NEW s \in Sessions, Mkdir(s)
  PROVE  IInv'
<1> DEFINE ok == entry[Arg(s)] = 0
<1>1. /\ Reads(s, "mkdir") /\ up' = [up EXCEPT ![s] = Rest(up[s], 1)]
      /\ ToClient(s, <<Text(ok, "mkdir")>>) /\ client' = client /\ worker' = worker /\ data' = data
      /\ entry' = IF ok THEN [entry EXCEPT ![Arg(s)] = Dir] ELSE entry
  BY DEF Mkdir, Accepts, Drop
<1>2. entry' \in [Names -> Inodes \cup {0, Dir}]
  <2>1. entry \in [Names -> Inodes \cup {0, Dir}]
    BY DEF IInv, Types
  <2> QED BY <1>1, <2>1
<1>3. ok \in BOOLEAN /\ "mkdir" \in NamedOps
  BY DEF NamedOps
<1> HIDE DEF ok
<1> QED BY <1>1, <1>2, <1>3, PlainAnswerKeeps

\* rm and gets that find no file.
LEMMA NoFileKeeps ==
  ASSUME IInv, NEW s \in Sessions, NEW op \in {"rm", "gets"}, NEW where,
         StatFile(s, op, where), entry[Arg(s)] \notin Inodes, ToClient(s, <<Text(FALSE, op)>>)
  PROVE  IInv'
<1>1. /\ Reads(s, op) /\ up' = [up EXCEPT ![s] = Rest(up[s], 1)]
      /\ client' = client /\ worker' = worker /\ entry' = entry /\ data' = data
  BY DEF StatFile, Accepts, Drop, disk
<1>2. entry \in [Names -> Inodes \cup {0, Dir}] /\ op \in NamedOps
  BY DEF IInv, Types, NamedOps
<1> QED BY <1>1, <1>2, PlainAnswerKeeps

\* A command that goes on in further steps of the worker.
LEMMA AcceptKeeps ==
  ASSUME IInv, NEW s \in Sessions,
         NEW op \in {"rm", "puts", "gets"}, Accepts(s, op),
         NEW d \in Seq(Token), down' = [down EXCEPT ![s] = d],
         NEW where \in {"unlink", "upsize", "dlopen"},
         worker' = [worker EXCEPT ![s].pc = where, ![s].req = Arg(s)],
         entry' = entry, data' = data,
         /\ op = "rm" => where = "unlink" /\ d = down[s]
         /\ op = "puts" => where = "upsize"
         /\ op = "gets" => where = "dlopen"
         /\ op \in {"puts", "gets"} =>
              d = IF client[s].pc = "gone" THEN down[s] ELSE down[s] \o <<Text(TRUE, op)>>
  PROVE  IInv'
<1> DEFINE w == [worker[s] EXCEPT !.pc = where, !.req = Arg(s)]
           u == Rest(up[s], 1)
           x == Text(TRUE, op)
<1>1. /\ worker[s].pc = "recv" /\ up[s] # <<>> /\ up[s][1].op = op
      /\ u \in Seq(Token) /\ Len(u) = Len(up[s]) - 1
      /\ worker[s] \in Servers /\ Opens(worker[s]) /\ worker[s].off = 0
      /\ entry \in [Names -> Inodes \cup {0, Dir}] /\ data \in [Inodes -> Seq(Unit)]
  BY ReadsIs DEF Accepts, IInv
<1>2. /\ Arg(s) \in Names /\ client' = client /\ up' = [up EXCEPT ![s] = u]
      /\ worker' = [worker EXCEPT ![s] = w]
  BY DEF Accepts, Drop
<1>3. /\ w \in Servers /\ w.pc = where /\ w.disturbed = worker[s].disturbed
      /\ w.req = Arg(s) /\ w.fd = worker[s].fd /\ w.off = 0
  BY <1>1, <1>2 DEF Servers
<1>4. Opens(w)
  BY <1>1, <1>2, <1>3 DEF Opens
<1>5. x \in Token /\ x.tag = "text" /\ x.ok = TRUE /\ x.op = op
  <2>1. op \in NamedOps \cup {"login", "list", "quit", "none"} /\ TRUE \in BOOLEAN
    BY DEF NamedOps
  <2> QED BY <2>1, Tokens
<1>6. op \in {"puts", "gets"} => d = IF client[s].pc = "gone" THEN down[s] ELSE down[s] \o <<x>>
  OBVIOUS
<1> HIDE DEF w, u, x
<1>7. ASSUME client'[s] = client[s], worker'[s] = w, up'[s] = u, down'[s] = d, ~w.disturbed
      PROVE  Phase(s)'
  <2>1. /\ Len(up[s]) = 1 /\ down[s] = <<>>
        /\ Asked(s) \/ Abandoned(s)
        /\ Asked(s) => client[s].pc = "reply" /\ up[s][1] = client[s].cmd
        /\ Abandoned(s) => client[s].pc = "gone"
    BY <1>1, <1>3, <1>7, CommandIs
  <2>2. u = <<>>
    <3>1. Len(u) = 0 => u = <<>>
      BY <1>1
    <3> QED BY <1>1, <2>1, <3>1
  <2>3. CASE Asked(s)
    <3>1. /\ client[s].pc = "reply" /\ InCommand(s, op) /\ Unmoved(client[s])
      BY <1>1, <2>1, <2>3 DEF Asked, InCommand
    <3>2. op # "rm" => d = <<x>> /\ Len(d) = 1 /\ d[1] = x
      BY <1>5, <1>6, <2>1, <3>1, OneMore
    <3>3. CASE op = "rm"
      BY <1>3, <1>7, <2>1, <2>2, <3>1, <3>3 DEF Removing, Quiet, InCommand, Phase
    <3>4. CASE op = "puts"
      BY <1>3, <1>5, <1>7, <2>1, <2>2, <3>1, <3>2, <3>4 DEF Invited, OneReply, InCommand, Unmoved, Phase
    <3>5. CASE op = "gets"
      BY <1>3, <1>5, <1>7, <2>1, <2>2, <3>1, <3>2, <3>5
         DEF DownloadOpens, Fetching, Lead, InCommand, Unmoved, Phase
    <3> QED BY <3>3, <3>4, <3>5
  <2>4. CASE Abandoned(s)
    BY <1>3, <1>6, <1>7, <2>1, <2>2, <2>4 DEF Abandoned, Phase
  <2> QED BY <2>1, <2>3, <2>4
<1> QED BY <1>1, <1>2, <1>3, <1>4, <1>7, WorkerMoves

LEMMA RmStatKeeps ==
  ASSUME IInv, NEW s \in Sessions, RmStat(s)
  PROVE  IInv'
<1>1. CASE entry[Arg(s)] \notin Inodes
  BY <1>1, NoFileKeeps DEF RmStat
<1>2. CASE entry[Arg(s)] \in Inodes
  <2>1. /\ Accepts(s, "rm") /\ down' = down /\ entry' = entry /\ data' = data
        /\ worker' = [worker EXCEPT ![s].pc = "unlink", ![s].req = Arg(s)]
    BY <1>2 DEF RmStat, StatFile, disk
  <2>2. down[s] \in Seq(Token) /\ down' = [down EXCEPT ![s] = down[s]]
    BY <2>1, Stays DEF IInv
  <2> QED BY <2>1, <2>2, AcceptKeeps
<1> QED BY <1>1, <1>2

LEMMA GetsStatKeeps ==
  ASSUME IInv, NEW s \in Sessions, GetsStat(s)
  PROVE  IInv'
<1>1. CASE entry[Arg(s)] \notin Inodes
  <2>1. (entry[Arg(s)] \in Inodes) = FALSE
    BY <1>1
  <2> QED BY <1>1, <2>1, NoFileKeeps DEF GetsStat
<1>2. CASE entry[Arg(s)] \in Inodes
  <2>1. (entry[Arg(s)] \in Inodes) = TRUE
    BY <1>2
  <2>2. /\ Accepts(s, "gets") /\ entry' = entry /\ data' = data
        /\ worker' = [worker EXCEPT ![s].pc = "dlopen", ![s].req = Arg(s)]
        /\ ToClient(s, <<Text(TRUE, "gets")>>)
    BY <1>2, <2>1 DEF GetsStat, StatFile, disk
  <2>3. <<Text(TRUE, "gets")>> \in Seq(Token)
    <3>1. "gets" \in NamedOps \cup {"login", "list", "quit", "none"} /\ TRUE \in BOOLEAN
      BY DEF NamedOps
    <3>2. Text(TRUE, "gets") \in Token
      BY <3>1, Tokens
    <3> QED BY <3>2, OneToken
  <2>4. PICK d \in Seq(Token) :
          /\ down' = [down EXCEPT ![s] = d]
          /\ d = IF client[s].pc = "gone" THEN down[s] ELSE down[s] \o <<Text(TRUE, "gets")>>
    BY <2>2, <2>3, ToClientIs DEF IInv
  <2> QED BY <2>2, <2>4, AcceptKeeps
<1> QED BY <1>1, <1>2

LEMMA PutsReadyKeeps ==
  ASSUME IInv, NEW s \in Sessions, PutsReady(s)
  PROVE  IInv'
<1>1. /\ Accepts(s, "puts") /\ entry' = entry /\ data' = data
      /\ worker' = [worker EXCEPT ![s].pc = "upsize", ![s].req = Arg(s)]
      /\ ToClient(s, <<Text(TRUE, "puts")>>)
  BY DEF PutsReady, disk
<1>2. <<Text(TRUE, "puts")>> \in Seq(Token)
  <2>1. "puts" \in NamedOps \cup {"login", "list", "quit", "none"} /\ TRUE \in BOOLEAN
    BY DEF NamedOps
  <2>2. Text(TRUE, "puts") \in Token
    BY <2>1, Tokens
  <2> QED BY <2>2, OneToken
<1>3. PICK d \in Seq(Token) :
        /\ down' = [down EXCEPT ![s] = d]
        /\ d = IF client[s].pc = "gone" THEN down[s] ELSE down[s] \o <<Text(TRUE, "puts")>>
  BY <1>1, <1>2, ToClientIs DEF IInv
<1> QED BY <1>1, <1>3, AcceptKeeps

\* Steps that change neither stream, between two places that look the same
\* from the client, or that do so because the client is gone.
LEMMA RmUnlinkKeeps ==
  ASSUME IInv, NEW s \in Sessions, RmUnlink(s)
  PROVE  IInv'
<1> DEFINE name == worker[s].req
           ok == entry[name] \in Inodes
           e == IF ok THEN [entry EXCEPT ![name] = 0] ELSE entry
           x == Text(ok, "rm")
<1>1. /\ worker[s].pc = "unlink" /\ Settle(e, s, Back(s)) /\ ToClient(s, <<x>>)
      /\ client' = client /\ up' = up
  BY DEF RmUnlink
<1>2. e \in [Names -> Inodes \cup {0, Dir}]
  BY DEF IInv, Types
<1>3. /\ x \in Token /\ x.tag = "text" /\ x.op = "rm"
  <2>1. ok \in BOOLEAN /\ "rm" \in NamedOps \cup {"login", "list", "quit", "none"}
    BY DEF NamedOps
  <2> HIDE DEF ok
  <2> QED BY <2>1, Tokens
<1> HIDE DEF e, x
<1>4. /\ entry' = e /\ worker' = [worker EXCEPT ![s] = Back(s)] /\ data' \in [Inodes -> Seq(Unit)]
  BY <1>1, SettleIs DEF IInv
<1>5. /\ Back(s) \in Servers /\ Opens(Back(s)) /\ Back(s).pc = "recv"
      /\ Back(s).disturbed = worker[s].disturbed
  BY BackIs DEF IInv
<1>6. PICK d \in Seq(Token) :
        /\ down' = [down EXCEPT ![s] = d]
        /\ d = IF client[s].pc = "gone" THEN down[s] ELSE down[s] \o <<x>>
  BY <1>1, <1>3, OneToken, ToClientIs DEF IInv
<1>7. up[s] \in Seq(Token) /\ down[s] \in Seq(Token) /\ up' = [up EXCEPT ![s] = up[s]]
  BY <1>1, Stays DEF IInv
<1>8. ASSUME client'[s] = client[s], worker'[s] = Back(s), up'[s] = up[s], down'[s] = d,
             ~Back(s).disturbed
      PROVE  Phase(s)'
  <2>1. Removing(s) \/ Abandoned(s)
    BY <1>1, <1>5, <1>8, ByWorker DEF IInv, Phases
  <2>2. CASE Removing(s)
    <3>1. d = <<x>> /\ Len(d) = 1 /\ d[1] = x
      BY <1>3, <1>6, <1>7, <2>2, OneMore DEF Removing, Quiet
    <3> QED BY <1>3, <1>5, <1>8, <2>2, <3>1 DEF Removing, Quiet, InCommand, Answered, OneReply, Phase
  <2>3. CASE Abandoned(s)
    BY <1>1, <1>5, <1>6, <1>8, <2>3 DEF Abandoned, Phase
  <2> QED BY <2>1, <2>2, <2>3
<1> QED BY <1>1, <1>2, <1>4, <1>5, <1>6, <1>7, <1>8, WorkerMoves

LEMMA UploadSizeKeeps ==
  ASSUME IInv, NEW s \in Sessions, UploadSize(s)
  PROVE  IInv'
<1>1. /\ worker[s] \in Servers /\ worker[s].pc = "upsize" /\ Opens(worker[s])
      /\ up[s] \in Seq(Token) /\ up[s] # <<>> /\ Len(up[s]) >= 1 /\ Len(up[s]) \in Nat
      /\ down[s] \in Seq(Token) /\ client[s].want \in Nat /\ client[s].moved \in Nat
  BY Typed DEF IInv, UploadSize
<1>2. PICK n \in SizesRead(up[s]) : worker' = [worker EXCEPT ![s].pc = "upopen", ![s].size = n]
  BY DEF UploadSize
<1>3. n \in Nat /\ (up[s][1].tag = "size" => n = up[s][1].n)
  BY <1>1, SizesReadAre
<1> DEFINE w == [worker[s] EXCEPT !.pc = "upopen", !.size = n]
           u == Rest(up[s], 1)
<1>4. /\ w \in Servers /\ w.pc = "upopen" /\ w.size = n /\ w.off = 0 /\ w.fd = worker[s].fd
      /\ w.req = worker[s].req /\ w.disturbed = worker[s].disturbed
  BY <1>1, <1>3 DEF Servers, Opens
<1>5. Opens(w)
  BY <1>1, <1>4 DEF Opens
<1>6. /\ u \in Seq(Token) /\ Len(u) = Len(up[s]) - 1
      /\ ContentAfter(up[s], 1) => ContentAfter(u, 0)
  <2>1. 0 \in Nat /\ 1 \in Nat /\ 1 <= 1 + 0
    OBVIOUS
  <2> QED BY <1>1, <2>1, RestOne, RestContent
<1>7. /\ worker' = [worker EXCEPT ![s] = w] /\ up' = [up EXCEPT ![s] = u] /\ client' = client
      /\ down' = [down EXCEPT ![s] = down[s]] /\ entry' = entry /\ data' = data
  BY <1>2, Stays DEF IInv, UploadSize, Drop, disk
<1> HIDE DEF w, u
<1>8. ASSUME client'[s] = client[s], worker'[s] = w, up'[s] = u, down'[s] = down[s], ~w.disturbed
      PROVE  Phase(s)'
  <2>1. UploadStarts(s) \/ Abandoned(s)
    BY <1>1, <1>4, <1>8, ByWorker DEF IInv, Phases, Invited, OneReply, Quiet
  <2>2. CASE UploadStarts(s)
    <3>1. n = client[s].want /\ ContentAfter(up'[s], 0) /\ 0 + Len(u) = Sent(client[s])
      <4>1. Sent(client[s]) \in Nat /\ Len(up[s]) = 1 + Sent(client[s])
        BY <1>1, <2>2 DEF UploadStarts, Sent
      <4> QED BY <1>3, <1>6, <1>8, <2>2, <4>1 DEF UploadStarts
    <3>2. UploadRuns(s)'
      BY <1>4, <1>8, <2>2, <3>1 DEF UploadStarts, UploadRuns, Uploading, InCommand
    <3> QED BY <3>2 DEF Phase
  <2>3. CASE Abandoned(s)
    <3>1. /\ client[s].pc = "gone" /\ down[s] = <<>>
          /\ up[s][1].tag = "size" /\ Len(up[s]) <= 1 + n /\ ContentAfter(up[s], 1)
      BY <1>1, <1>3, <2>3 DEF Abandoned
    <3>2. ContentAfter(up'[s], 0) /\ 0 + Len(u) <= n
      BY <1>1, <1>3, <1>6, <1>8, <3>1
    <3> QED BY <1>4, <1>8, <3>1, <3>2 DEF Abandoned, Phase
  <2> QED BY <2>1, <2>2, <2>3
<1>9. entry' \in [Names -> Inodes \cup {0, Dir}] /\ data' \in [Inodes -> Seq(Unit)]
  BY <1>7 DEF IInv, Types
<1> QED BY <1>1, <1>4, <1>5, <1>6, <1>7, <1>8, <1>9, WorkerMoves

\* An upload ends with a result: k units more are read, and if the session is
\* still in step, those are all.
LEMMA UploadEnds ==
  ASSUME IInv, NEW s \in Sessions, worker[s].pc \in {"upopen", "updata"},
         NEW ok \in BOOLEAN, ToClient(s, <<Text(ok, "puts")>>),
         NEW k \in Nat, NEW u \in Seq(Token), k <= Len(up[s]), Len(u) = Len(up[s]) - k,
         up' = [up EXCEPT ![s] = u], client' = client,
         NEW b \in BOOLEAN, Settle(entry, s, [Back(s) EXCEPT !.disturbed = b]),
         ~b => ~worker[s].disturbed /\ worker[s].off + k >= worker[s].size
  PROVE  IInv'
<1> DEFINE w == [Back(s) EXCEPT !.disturbed = b]
           x == Text(ok, "puts")
<1>1. /\ worker[s].off \in Nat /\ worker[s].size \in Nat /\ Len(up[s]) \in Nat
      /\ client[s].want \in Nat /\ client[s].moved \in Nat /\ down[s] \in Seq(Token)
  BY Typed DEF IInv
<1>2. x \in Token /\ x.tag = "text" /\ x.op = "puts"
  <2>1. "puts" \in NamedOps \cup {"login", "list", "quit", "none"}
    BY DEF NamedOps
  <2> QED BY <2>1, Tokens
<1>3. w \in Servers /\ Opens(w) /\ w.pc = "recv" /\ w.disturbed = b
  BY BackIs DEF IInv
<1> HIDE DEF x, w
<1>4. entry' = entry /\ worker' = [worker EXCEPT ![s] = w] /\ data' \in [Inodes -> Seq(Unit)]
  BY SettleIs DEF IInv, w
<1>5. PICK d \in Seq(Token) :
        /\ down' = [down EXCEPT ![s] = d]
        /\ d = IF client[s].pc = "gone" THEN down[s] ELSE down[s] \o <<x>>
  BY <1>2, OneToken, ToClientIs DEF IInv, x
<1>6. ASSUME client'[s] = client[s], worker'[s] = w, up'[s] = u, down'[s] = d, ~w.disturbed
      PROVE  Phase(s)'
  <2>1. UploadRuns(s) \/ Abandoned(s)
    BY <1>3, <1>6, ByWorker DEF IInv, Phases
  <2>2. worker[s].off + k >= worker[s].size /\ (Len(u) = 0 => u = <<>>)
    BY <1>3, <1>6
  <2>3. CASE UploadRuns(s)
    <3>1. /\ worker[s].off + Len(up[s]) = Sent(client[s]) /\ worker[s].size = client[s].want
          /\ Sent(client[s]) <= client[s].want /\ down[s] = <<>> /\ client[s].pc # "gone"
      BY <2>3 DEF UploadRuns, Uploading
    <3>2. u = <<>> /\ Sent(client[s]) = client[s].want
      <4>1. PICK off \in Nat, n \in Nat, sent \in Nat, want \in Nat :
              off = worker[s].off /\ n = Len(up[s]) /\ sent = Sent(client[s]) /\ want = client[s].want
        BY <1>1, <3>1
      <4>2. off + n = sent /\ sent <= want /\ off + k >= want /\ k <= n /\ Len(u) = n - k
        BY <2>2, <3>1, <4>1
      <4>3. Len(u) = 0 /\ sent = want
        BY <4>2
      <4> QED BY <2>2, <4>1, <4>3
    <3>3. d = <<x>> /\ Len(d) = 1 /\ d[1] = x
      BY <1>2, <1>5, <3>1, OneMore
    <3>4. UploadAnswered(s)'
      BY <1>2, <1>3, <1>6, <2>3, <3>2, <3>3
         DEF UploadRuns, Uploading, UploadAnswered, OneReply, InCommand
    <3> QED BY <3>4 DEF Phase
  <2>4. CASE Abandoned(s)
    <3>1. client[s].pc = "gone" /\ down[s] = <<>> /\ worker[s].off + Len(up[s]) <= worker[s].size
      BY <2>4 DEF Abandoned
    <3>2. u = <<>>
      BY <1>1, <2>2, <3>1
    <3> QED BY <1>3, <1>5, <1>6, <3>1, <3>2 DEF Abandoned, Phase
  <2> QED BY <2>1, <2>3, <2>4
<1>7. entry \in [Names -> Inodes \cup {0, Dir}]
  BY DEF IInv, Types
<1> QED BY <1>3, <1>4, <1>5, <1>6, <1>7, WorkerMoves

LEMMA UploadOpenFailsKeeps ==
  ASSUME IInv, NEW s \in Sessions, UploadOpenFails(s)
  PROVE  IInv'
<1> DEFINE b == worker[s].disturbed \/ worker[s].size > 0
<1>1. /\ worker[s].pc = "upopen" /\ Settle(entry, s, [Back(s) EXCEPT !.disturbed = @ \/ worker[s].size > 0])
      /\ ToClient(s, <<Text(FALSE, "puts")>>) /\ client' = client /\ up' = up
  BY DEF UploadOpenFails, UploadGivesUp
<1>2. /\ up[s] \in Seq(Token) /\ Len(up[s]) \in Nat /\ up' = [up EXCEPT ![s] = up[s]]
      /\ worker[s].off \in Nat /\ worker[s].size \in Nat
  BY <1>1, Typed, Stays DEF IInv
<1>3. Back(s).disturbed = worker[s].disturbed
  BY BackIs DEF IInv
<1>4. [Back(s) EXCEPT !.disturbed = @ \/ worker[s].size > 0] = [Back(s) EXCEPT !.disturbed = b]
  BY <1>3
<1>5. b \in BOOLEAN /\ (~b => ~worker[s].disturbed /\ worker[s].off + 0 >= worker[s].size)
  BY <1>2
<1>6. 0 \in Nat /\ 0 <= Len(up[s]) /\ Len(up[s]) = Len(up[s]) - 0
  BY <1>2
<1> HIDE DEF b
<1> QED BY <1>1, <1>2, <1>4, <1>5, <1>6, UploadEnds

LEMMA UploadWriteFailsKeeps ==
  ASSUME IInv, NEW s \in Sessions, UploadWriteFails(s)
  PROVE  IInv'
<1>1. PICK k \in Received(up[s], worker[s].size - worker[s].off) :
        /\ UploadGivesUp(s, worker[s].size - worker[s].off - k)
        /\ Drop(s, k)
  BY DEF UploadWriteFails
<1>2. /\ up[s] \in Seq(Token) /\ Len(up[s]) \in Nat
      /\ worker[s].off \in Nat /\ worker[s].size \in Nat /\ worker[s].pc = "updata"
  BY Typed DEF IInv, UploadWriteFails
<1>3. k \in Nat /\ k <= Len(up[s])
  BY <1>2, ReceivedIs
<1>4. Rest(up[s], k) \in Seq(Token) /\ Len(Rest(up[s], k)) = Len(up[s]) - k
  BY <1>2, <1>3, RestIs
<1> DEFINE left == worker[s].size - worker[s].off - k
           b == worker[s].disturbed \/ left > 0
<1>5. /\ Settle(entry, s, [Back(s) EXCEPT !.disturbed = @ \/ left > 0])
      /\ ToClient(s, <<Text(FALSE, "puts")>>) /\ client' = client
      /\ up' = [up EXCEPT ![s] = Rest(up[s], k)]
  BY <1>1 DEF UploadGivesUp, Drop
<1>6. Back(s).disturbed = worker[s].disturbed
  BY BackIs DEF IInv
<1>7. b \in BOOLEAN /\ (~b => ~worker[s].disturbed /\ worker[s].off + k >= worker[s].size)
  BY <1>2, <1>3
<1> HIDE DEF left
<1>8. [Back(s) EXCEPT !.disturbed = @ \/ left > 0] = [Back(s) EXCEPT !.disturbed = b]
  BY <1>6
<1> HIDE DEF b
<1> QED BY <1>2, <1>3, <1>4, <1>5, <1>7, <1>8, UploadEnds

LEMMA UploadDoneKeeps ==
  ASSUME IInv, NEW s \in Sessions, UploadDone(s)
  PROVE  IInv'
<1>1. /\ worker[s].pc = "updata" /\ worker[s].off >= worker[s].size /\ Settle(entry, s, Back(s))
      /\ ToClient(s, <<Text(TRUE, "puts")>>) /\ client' = client /\ up' = up
  BY DEF UploadDone
<1>2. /\ up[s] \in Seq(Token) /\ Len(up[s]) \in Nat /\ up' = [up EXCEPT ![s] = up[s]]
      /\ worker[s].off \in Nat /\ worker[s].size \in Nat /\ worker[s].disturbed \in BOOLEAN
  BY <1>1, Typed, Stays DEF IInv
<1>3. Back(s) = [Back(s) EXCEPT !.disturbed = worker[s].disturbed]
  <2>1. Back(s) \in Servers /\ Back(s).disturbed = worker[s].disturbed
    BY BackIs DEF IInv
  <2> HIDE DEF Back
  <2> QED BY <2>1 DEF Servers
<1>4. 0 \in Nat /\ 0 <= Len(up[s]) /\ Len(up[s]) = Len(up[s]) - 0
      /\ worker[s].off + 0 >= worker[s].size
  BY <1>1, <1>2
<1>5. Settle(entry, s, [Back(s) EXCEPT !.disturbed = worker[s].disturbed])
  BY <1>1, <1>3
<1> QED BY <1>1, <1>2, <1>4, <1>5, UploadEnds

LEMMA UploadDataKeeps ==
  ASSUME IInv, NEW s \in Sessions, UploadData(s)
  PROVE  IInv'
<1>1. /\ worker[s] \in Servers /\ worker[s].pc = "updata" /\ Opens(worker[s])
      /\ up[s] \in Seq(Token) /\ Len(up[s]) \in Nat /\ down[s] \in Seq(Token)
      /\ worker[s].off \in Nat /\ worker[s].size \in Nat
  BY Typed DEF IInv, UploadData
<1>2. PICK k \in Received(up[s], worker[s].size - worker[s].off) :
        /\ data' = [data EXCEPT ![worker[s].fd] =
                      Written(@, worker[s].off, Payload(First(up[s], k)))]
        /\ worker' = [worker EXCEPT ![s].off = @ + k]
        /\ Drop(s, k)
  BY DEF UploadData
<1>3. k \in Nat /\ k <= Len(up[s])
  BY <1>1, ReceivedIs
<1> DEFINE w == [worker[s] EXCEPT !.off = @ + k]
           u == Rest(up[s], k)
<1>4. /\ w \in Servers /\ w.pc = "updata" /\ w.off = worker[s].off + k /\ w.size = worker[s].size
      /\ w.req = worker[s].req /\ w.fd = worker[s].fd /\ w.disturbed = worker[s].disturbed
  BY <1>1, <1>3 DEF Servers
<1>5. Opens(w)
  BY <1>1, <1>4 DEF Opens
<1>6. /\ u \in Seq(Token) /\ Len(u) = Len(up[s]) - k
      /\ ContentAfter(up[s], 0) => ContentAfter(u, 0)
  <2>1. 0 \in Nat /\ 0 <= k + 0
    BY <1>3
  <2> QED BY <1>1, <1>3, <2>1, RestIs, RestContent
<1>7. data' \in [Inodes -> Seq(Unit)]
  <2>1. worker[s].fd \in Inodes /\ data[worker[s].fd] \in Seq(Unit)
    BY <1>1 DEF Opens, IInv, Types
  <2>2. Payload(First(up[s], k)) \in Seq(Unit)
    BY <1>1, <1>3, FirstIs, PayloadIs
  <2>3. Written(data[worker[s].fd], worker[s].off, Payload(First(up[s], k))) \in Seq(Unit)
    BY <1>1, <2>1, <2>2, WrittenIs
  <2> QED BY <1>2, <2>3 DEF IInv, Types
<1>8. /\ worker' = [worker EXCEPT ![s] = w] /\ up' = [up EXCEPT ![s] = u] /\ client' = client
      /\ down' = [down EXCEPT ![s] = down[s]] /\ entry' = entry
  BY <1>2, Stays DEF IInv, UploadData, Drop
<1> HIDE DEF w, u
<1>9. ASSUME client'[s] = client[s], worker'[s] = w, up'[s] = u, down'[s] = down[s], ~w.disturbed
      PROVE  Phase(s)'
  <2>1. UploadRuns(s) \/ Abandoned(s)
    BY <1>1, <1>4, <1>9, ByWorker DEF IInv, Phases
  <2>2. (worker[s].off + k) + Len(u) = worker[s].off + Len(up[s])
    BY <1>1, <1>3, <1>6
  <2>3. ContentAfter(up'[s], 0)
    <3>1. ContentAfter(up[s], 0)
      BY <1>1, <2>1 DEF UploadRuns, Abandoned
    <3> QED BY <1>6, <1>9, <3>1
  <2>4. CASE UploadRuns(s)
    <3>1. UploadRuns(s)'
      BY <1>4, <1>9, <2>2, <2>3, <2>4 DEF UploadRuns, Uploading, InCommand
    <3> QED BY <3>1 DEF Phase
  <2>5. CASE Abandoned(s)
    <3>1. client[s].pc = "gone" /\ down[s] = <<>> /\ worker[s].off + Len(up[s]) <= worker[s].size
      BY <1>1, <2>5 DEF Abandoned
    <3> QED BY <1>4, <1>9, <2>2, <2>3, <3>1 DEF Abandoned, Phase
  <2> QED BY <2>1, <2>4, <2>5
<1>10. entry' \in [Names -> Inodes \cup {0, Dir}]
  BY <1>8 DEF IInv, Types
<1> QED BY <1>1, <1>4, <1>5, <1>6, <1>7, <1>8, <1>9, <1>10, WorkerMoves

\* Some inode is free: an upload holds no descriptor yet when it needs one.
LEMMA FreeInodeIs ==
  ASSUME IInv, NEW s \in Sessions, worker[s].fd = 0
  PROVE  FreeInode \in Inodes /\ FreeInode \notin Held(entry, worker)
<1> DEFINE fds == {worker[t].fd : t \in Sessions \ {s}}
           named == {entry[n] : n \in Names}
           both == named \cup fds
<1>1. IsFiniteSet(Sessions \ {s}) /\ Cardinality(Sessions \ {s}) = Cardinality(Sessions) - 1
  BY BoundsAssumption, FS_RemoveElement
<1>2. IsFiniteSet(named) /\ Cardinality(named) <= Cardinality(Names)
  <2> DEFINE f == [n \in Names |-> entry[n]]
  <2>1. f \in Surjection(Names, named)
    BY DEF Surjection
  <2> QED BY <2>1, BoundsAssumption, FS_Surjection
<1>3. IsFiniteSet(fds) /\ Cardinality(fds) <= Cardinality(Sessions \ {s})
  <2> DEFINE f == [t \in Sessions \ {s} |-> worker[t].fd]
  <2>1. f \in Surjection(Sessions \ {s}, fds)
    BY DEF Surjection
  <2> QED BY <1>1, <2>1, FS_Surjection
<1>4. Cardinality(named) \in Nat /\ Cardinality(fds) \in Nat /\ Cardinality(Names) \in Nat
      /\ Cardinality(Sessions) \in Nat /\ Cardinality(both) \in Nat
      /\ IsFiniteSet(both) /\ Cardinality(named \cap fds) \in Nat
      /\ Cardinality(both) = Cardinality(named) + Cardinality(fds) - Cardinality(named \cap fds)
  <2> HIDE DEF named, fds
  <2>1. IsFiniteSet(both) /\ Cardinality(both) = Cardinality(named) + Cardinality(fds) - Cardinality(named \cap fds)
    BY <1>2, <1>3, FS_Union
  <2>2. IsFiniteSet(named \cap fds)
    BY <1>2, FS_Intersection
  <2> HIDE DEF both
  <2> QED BY <1>2, <1>3, <2>1, <2>2, BoundsAssumption, FS_CardinalityType
<1>5. Cardinality(both) < Cardinality(Inodes)
  <2>1. Cardinality(Inodes) = Cardinality(Names) + Cardinality(Sessions)
    BY InodesAre
  <2> HIDE DEF named, fds, both
  <2> QED BY <1>1, <1>2, <1>3, <1>4, <2>1
<1>6. \E i \in Inodes : i \notin both
  <2> HIDE DEF both
  <2>1. SUFFICES ASSUME Inodes \subseteq both PROVE FALSE
    OBVIOUS
  <2>2. Cardinality(Inodes) <= Cardinality(both)
    BY <1>4, <2>1, FS_Subset
  <2>3. Cardinality(Inodes) \in Nat
    BY InodesAre
  <2> QED BY <1>4, <1>5, <2>2, <2>3
<1>7. \A i \in Inodes : i \notin both => i \notin Held(entry, worker)
  BY InodesAre DEF Held
<1> HIDE DEF both
<1> QED BY <1>6, <1>7 DEF FreeInode

LEMMA UploadOpenStepKeeps ==
  ASSUME IInv, NEW s \in Sessions, UploadOpen(s)
  PROVE  IInv'
<1> DEFINE name == worker[s].req
           inode == IF entry[name] = 0 THEN FreeInode ELSE entry[name]
<1>1. /\ worker[s] \in Servers /\ worker[s].pc = "upopen" /\ Opens(worker[s])
      /\ up[s] \in Seq(Token) /\ down[s] \in Seq(Token) /\ <<>> \in Seq(Unit)
      /\ entry[worker[s].req] # Dir
  BY Typed DEF IInv, UploadOpen
<1>2. /\ entry' = [entry EXCEPT ![name] = inode] /\ data' = [data EXCEPT ![inode] = <<>>]
      /\ worker' = Opened(s, inode)
      /\ client' = client /\ up' = up /\ down' = down
  BY DEF UploadOpen
<1>3. name \in Names /\ worker[s].fd = 0 /\ worker[s].off = 0
  BY <1>1 DEF Opens, Servers
<1>4. inode \in Inodes
  BY <1>1, <1>3, FreeInodeIs DEF IInv, Types
<1>5. entry' \in [Names -> Inodes \cup {0, Dir}] /\ data' \in [Inodes -> Seq(Unit)]
  <2> HIDE DEF name, inode
  <2> QED BY <1>1, <1>2, <1>3, <1>4 DEF IInv, Types
<1> HIDE DEF inode, name
<1> DEFINE w == [worker[s] EXCEPT !.pc = "updata", !.fd = inode, !.shared = Writers(inode) # {}]
<1>6. /\ w \in Servers /\ w.pc = "updata" /\ w.fd = inode /\ w.off = 0 /\ w.size = worker[s].size
      /\ w.disturbed = worker[s].disturbed
  BY <1>1, <1>3, <1>4 DEF Servers
<1>7. Opens(w)
  BY <1>4, <1>6 DEF Opens
<1>8. /\ worker'[s] = w
      /\ \A t \in Sessions \ {s} :
           worker'[t] = [worker[t] EXCEPT !.shared = @ \/ t \in Writers(inode)]
      /\ worker' = [t \in Sessions |-> worker'[t]]
  BY <1>2 DEF Opened
<1> HIDE DEF w
<1>9. ASSUME NEW t \in Sessions \ {s}
      PROVE  /\ worker'[t] \in Servers
             /\ worker'[t].pc = worker[t].pc /\ worker'[t].req = worker[t].req
             /\ worker'[t].fd = worker[t].fd /\ worker'[t].off = worker[t].off
             /\ worker'[t].size = worker[t].size /\ worker'[t].disturbed = worker[t].disturbed
  <2>1. worker[t] \in Servers
    BY DEF IInv, Types
  <2>2. worker'[t] = [worker[t] EXCEPT !.shared = @ \/ t \in Writers(inode)]
    BY <1>8
  <2> DEFINE b == worker[t].shared \/ t \in Writers(inode)
  <2>3. b \in BOOLEAN /\ worker'[t] = [worker[t] EXCEPT !.shared = b]
    BY <2>2
  <2> HIDE DEF b
  <2> QED BY <2>1, <2>3 DEF Servers
<1>10. worker' \in [Sessions -> Servers]
  BY <1>6, <1>8, <1>9
<1>11. Apart(s)
  BY <1>2, <1>9 DEF Apart
<1>12. ASSUME ~worker'[s].disturbed PROVE Phase(s)'
  <2>1. UploadRuns(s) \/ Abandoned(s)
    BY <1>1, <1>6, <1>8, <1>12, ByWorker DEF IInv, Phases
  <2>2. /\ client'[s] = client[s] /\ up'[s] = up[s] /\ down'[s] = down[s]
        /\ worker'[s].pc = "updata" /\ worker'[s].off = worker[s].off
        /\ worker'[s].size = worker[s].size
    BY <1>2, <1>3, <1>6, <1>8
  <2>3. CASE UploadRuns(s)
    <3>1. UploadRuns(s)'
      BY <2>2, <2>3 DEF UploadRuns, Uploading, InCommand, ContentAfter
    <3> QED BY <3>1 DEF Phase
  <2>4. CASE Abandoned(s)
    BY <1>1, <2>2, <2>4 DEF Abandoned, ContentAfter, Phase
  <2> QED BY <2>1, <2>3, <2>4
<1> QED
  <2>1. /\ client' \in [Sessions -> Clients] /\ up' \in [Sessions -> Seq(Token)]
        /\ down' \in [Sessions -> Seq(Token)]
    BY <1>2 DEF IInv, Types
  <2>2. Opens(worker'[s])
    BY <1>7, <1>8
  <2> QED BY <1>5, <1>10, <1>11, <1>12, <2>1, <2>2, StepKeeps

LEMMA DownloadOpenKeeps ==
  ASSUME IInv, NEW s \in Sessions, DownloadOpen(s)
  PROVE  IInv'
<1> DEFINE w == [worker[s] EXCEPT !.pc = "dlsize", !.fd = entry[worker[s].req]]
<1>1. /\ worker[s] \in Servers /\ worker[s].pc = "dlopen" /\ Opens(worker[s])
      /\ up[s] \in Seq(Token) /\ down[s] \in Seq(Token) /\ entry[worker[s].req] \in Inodes
  BY Typed DEF IInv, DownloadOpen
<1>2. /\ w \in Servers /\ w.pc = "dlsize" /\ w.fd \in Inodes /\ w.off = worker[s].off
      /\ w.disturbed = worker[s].disturbed
  BY <1>1 DEF Servers
<1>3. Opens(w)
  BY <1>1, <1>2 DEF Opens
<1>4. /\ client' = client /\ worker' = [worker EXCEPT ![s] = w]
      /\ up' = [up EXCEPT ![s] = up[s]] /\ down' = [down EXCEPT ![s] = down[s]]
      /\ entry' = entry /\ data' = data
  BY Stays DEF IInv, DownloadOpen, disk
<1>5. entry' \in [Names -> Inodes \cup {0, Dir}] /\ data' \in [Inodes -> Seq(Unit)]
  BY <1>4 DEF IInv, Types
<1> HIDE DEF w
<1>6. ASSUME client'[s] = client[s], worker'[s] = w, up'[s] = up[s], down'[s] = down[s],
             ~w.disturbed
      PROVE  Phase(s)'
  <2>1. DownloadOpens(s) \/ Abandoned(s)
    BY <1>1, <1>2, <1>6, ByWorker DEF IInv, Phases
  <2>2. CASE DownloadOpens(s)
    BY <1>2, <1>6, <2>2 DEF DownloadOpens, Fetching, InCommand, Phase
  <2>3. CASE Abandoned(s)
    BY <1>1, <1>2, <1>6, <2>3 DEF Abandoned, Phase
  <2> QED BY <2>1, <2>2, <2>3
<1> QED BY <1>1, <1>2, <1>3, <1>4, <1>5, <1>6, WorkerMoves

\* The size is announced, and nothing has been sent behind it.
LEMMA AnnouncedIs ==
  ASSUME IInv, NEW s \in Sessions, DownloadOpens(s), NEW n \in Nat, NEW d \in Seq(Token),
         d = down[s] \o <<Size(n)>>, client'[s] = client[s], up'[s] = <<>>, down'[s] = d
  PROVE  Announced(s)' /\ Len(d) = Lead(client[s]) + 1 /\ d[Lead(client[s]) + 1].n = n
<1> DEFINE x == Size(n)
           k == Lead(client[s])
<1>1. x \in Token /\ x.tag = "size" /\ x.n = n /\ k \in Nat
  BY Tokens DEF Lead
<1>2. down[s] \in Seq(Token) /\ Len(down[s]) = k
  BY Typed DEF IInv, DownloadOpens
<1> HIDE DEF x, k
<1>3. /\ Len(d) = k + 1 /\ d[k + 1] = x
      /\ \A j \in 1 .. k : d[j] = down[s][j]
  <2>1. d = down[s] \o <<x>>
    BY DEF x
  <2>2. /\ Len(down[s] \o <<x>>) = Len(down[s]) + 1
        /\ \A j \in 1 .. Len(down[s]) : (down[s] \o <<x>>)[j] = down[s][j]
        /\ (down[s] \o <<x>>)[Len(down[s]) + 1] = x
    <3>1. x \in Token /\ down[s] \in Seq(Token)
      BY <1>1, <1>2
    <3> QED BY <3>1, OneMore
  <2> QED BY <1>2, <2>1, <2>2
<1>4. Fetching(s)'
  <2>1. client[s].pc = "reply" => 1 \in 1 .. k
    BY DEF Lead, k
  <2> QED BY <1>1, <1>2, <1>3, <2>1 DEF DownloadOpens, Fetching, InCommand
<1>5. ContentAfter(d, k + 1)
  BY <1>1, <1>3 DEF ContentAfter
<1>6. Lead(client'[s]) = k
  BY DEF k
<1>7. ContentAfter(down'[s], k + 1) /\ Len(down'[s]) >= k + 1 /\ down'[s][k + 1].tag = "size"
  <2>1. ContentAfter(down'[s], k + 1)
    BY <1>5
  <2>2. d[k + 1].tag = "size"
    BY <1>1, <1>3
  <2>3. Len(d) >= k + 1
    <3>1. k \in Nat /\ Len(d) = k + 1
      BY <1>1, <1>3
    <3> HIDE <1>1, <1>3
    <3> QED BY <3>1
  <2> QED BY <2>1, <2>2, <2>3
<1>8. Announced(s)'
  BY <1>1, <1>4, <1>6, <1>7 DEF Announced
<1> QED BY <1>1, <1>3, <1>8 DEF k

LEMMA DownloadOpenFailsKeeps ==
  ASSUME IInv, NEW s \in Sessions, DownloadOpenFails(s)
  PROVE  IInv'
<1> DEFINE w == Closed(s)
           tokens == IF entry[worker[s].req] = Dir THEN <<Size(1)>> ELSE <<>>
<1>1. /\ worker[s].pc = "dlopen" /\ up[s] \in Seq(Token) /\ down[s] \in Seq(Token)
      /\ Len(down[s]) \in Nat /\ <<>> \in Seq(Token)
  BY Typed DEF IInv, DownloadOpenFails
<1>2. w \in Servers /\ Opens(w) /\ w.pc = "closed" /\ w.disturbed = worker[s].disturbed
  BY BackIs DEF IInv
<1>3. Size(1) \in Token
  BY Tokens
<1>4. tokens \in Seq(Token)
  BY <1>1, <1>3, OneToken
<1>5. /\ client' = client /\ worker' = [worker EXCEPT ![s] = w]
      /\ up' = [up EXCEPT ![s] = <<>>] /\ ToClient(s, tokens)
      /\ entry' = entry /\ data' = data
  BY DEF DownloadOpenFails, Hangup, disk
<1>6. entry' \in [Names -> Inodes \cup {0, Dir}] /\ data' \in [Inodes -> Seq(Unit)]
  BY <1>5 DEF IInv, Types
<1>7. tokens = <<>> \/ tokens = <<Size(1)>>
  OBVIOUS
<1> HIDE DEF w, tokens
<1>8. PICK d \in Seq(Token) :
        /\ down' = [down EXCEPT ![s] = d]
        /\ d = IF client[s].pc = "gone" THEN down[s] ELSE down[s] \o tokens
  BY <1>4, <1>5, ToClientIs DEF IInv
<1>9. ASSUME client'[s] = client[s], worker'[s] = w, up'[s] = <<>>, down'[s] = d, ~w.disturbed
      PROVE  Phase(s)'
  <2>1. DownloadOpens(s) \/ Abandoned(s)
    BY <1>1, <1>2, <1>9, ByWorker DEF IInv, Phases
  <2>2. CASE DownloadOpens(s) /\ tokens = <<>>
    <3>1. down[s] \o <<>> = down[s]
      BY <1>1
    <3>2. d = down[s] /\ up[s] = <<>>
      BY <1>8, <2>2, <3>1 DEF DownloadOpens, Fetching
    <3> QED BY <1>2, <1>9, <2>2, <3>2 DEF DownloadOpens, Fetching, InCommand, Phase
  <2>3. CASE DownloadOpens(s) /\ tokens = <<Size(1)>>
    <3>1. d = down[s] \o <<Size(1)>> /\ 1 \in Nat
      BY <1>8, <2>3 DEF DownloadOpens, Fetching
    <3>2. Announced(s)' /\ Len(d) = Lead(client[s]) + 1 /\ d[Lead(client[s]) + 1].n = 1
      BY <1>9, <2>3, <3>1, AnnouncedIs
    <3>3. Lead(client[s]) \in Nat
      BY DEF Lead
    <3>4. DownloadStarts(s)'
      BY <1>2, <1>9, <3>2, <3>3 DEF DownloadStarts
    <3> QED BY <3>4 DEF Phase
  <2>4. CASE Abandoned(s)
    BY <1>2, <1>8, <1>9, <2>4 DEF Abandoned, Phase
  <2> QED BY <1>7, <2>1, <2>2, <2>3, <2>4
<1> QED BY <1>1, <1>2, <1>5, <1>6, <1>8, <1>9, WorkerMoves

LEMMA DownloadSizeKeeps ==
  ASSUME IInv, NEW s \in Sessions, DownloadSize(s)
  PROVE  IInv'
<1> DEFINE n == Len(data[worker[s].fd])
           w == [worker[s] EXCEPT !.pc = "dldata", !.size = n]
<1>1. /\ worker[s] \in Servers /\ worker[s].pc = "dlsize" /\ Opens(worker[s])
      /\ up[s] \in Seq(Token) /\ down[s] \in Seq(Token)
  BY Typed DEF IInv, DownloadSize
<1>2. worker[s].fd \in Inodes /\ worker[s].off = 0
  BY <1>1 DEF Opens
<1>3. n \in Nat
  <2>1. data[worker[s].fd] \in Seq(Unit)
    BY <1>2 DEF IInv, Types
  <2> QED BY <2>1
<1>4. /\ client' = client /\ worker' = [worker EXCEPT ![s] = w]
      /\ up' = [up EXCEPT ![s] = up[s]] /\ ToClient(s, <<Size(n)>>)
      /\ entry' = entry /\ data' = data
  BY Stays DEF IInv, DownloadSize, disk
<1> HIDE DEF n
<1>5. /\ w \in Servers /\ w.pc = "dldata" /\ w.fd = worker[s].fd /\ w.off = 0 /\ w.size = n
      /\ w.disturbed = worker[s].disturbed
  BY <1>1, <1>2, <1>3 DEF Servers
<1>6. Opens(w)
  BY <1>2, <1>5 DEF Opens
<1>7. entry' \in [Names -> Inodes \cup {0, Dir}] /\ data' \in [Inodes -> Seq(Unit)]
  BY <1>4 DEF IInv, Types
<1> HIDE DEF w
<1>8. Size(n) \in Token
  BY <1>3, Tokens
<1>9. PICK d \in Seq(Token) :
        /\ down' = [down EXCEPT ![s] = d]
        /\ d = IF client[s].pc = "gone" THEN down[s] ELSE down[s] \o <<Size(n)>>
  BY <1>4, <1>8, OneToken, ToClientIs DEF IInv
<1>10. ASSUME client'[s] = client[s], worker'[s] = w, up'[s] = up[s], down'[s] = d, ~w.disturbed
       PROVE  Phase(s)'
  <2>1. DownloadOpens(s) \/ Abandoned(s)
    BY <1>1, <1>5, <1>10, ByWorker DEF IInv, Phases
  <2>2. CASE DownloadOpens(s)
    <3>1. d = down[s] \o <<Size(n)>> /\ up[s] = <<>>
      BY <1>9, <2>2 DEF DownloadOpens, Fetching
    <3>2. Announced(s)' /\ Len(d) = Lead(client[s]) + 1 /\ d[Lead(client[s]) + 1].n = n
      BY <1>3, <1>10, <2>2, <3>1, AnnouncedIs
    <3>3. Lead(client[s]) \in Nat
      BY DEF Lead
    <3>4. DownloadStarts(s)'
      BY <1>3, <1>5, <1>10, <3>2, <3>3 DEF DownloadStarts
    <3> QED BY <3>4 DEF Phase
  <2>3. CASE Abandoned(s)
    BY <1>1, <1>5, <1>9, <1>10, <2>3 DEF Abandoned, Phase
  <2> QED BY <2>1, <2>2, <2>3
<1> QED BY <1>1, <1>4, <1>5, <1>6, <1>7, <1>9, <1>10, WorkerMoves

LEMMA DownloadDataKeeps ==
  ASSUME IInv, NEW s \in Sessions, DownloadData(s)
  PROVE  IInv'
<1> DEFINE file == data[worker[s].fd]
           from == worker[s].off
           end == PieceEnd(from, Len(file))
           units == SubSeq(file, from + 1, end)
           w == [worker[s] EXCEPT !.off = end, !.disturbed = @ \/ end > worker[s].size]
<1>1. /\ worker[s] \in Servers /\ worker[s].pc = "dldata" /\ Opens(worker[s])
      /\ up[s] \in Seq(Token) /\ down[s] \in Seq(Token) /\ Len(down[s]) \in Nat
      /\ from \in Nat /\ worker[s].size \in Nat /\ Len(client[s].file) \in Nat
      /\ from < worker[s].size /\ from < Len(file)
  BY Typed DEF IInv, DownloadData
<1>2. worker[s].fd \in Inodes
  BY <1>1 DEF Opens
<1>3. file \in Seq(Unit) /\ Len(file) \in Nat
  <2>1. file \in Seq(Unit)
    BY <1>2 DEF IInv, Types
  <2> HIDE DEF file
  <2> QED BY <2>1
<1>4. end \in Nat /\ from < end /\ end <= Len(file)
  BY <1>1, <1>3, PieceEnds
<1>5. units \in Seq(Unit) /\ Len(units) = end - from
  BY <1>1, <1>3, <1>4
<1>6. /\ client' = client /\ up' = [up EXCEPT ![s] = up[s]] /\ ToClient(s, Stream(units))
      /\ worker' = [worker EXCEPT ![s].off = end, ![s].disturbed = @ \/ end > worker[s].size]
      /\ entry' = entry /\ data' = data
  BY Stays DEF IInv, DownloadData, disk
<1>7. worker' = [worker EXCEPT ![s] = w]
  <2> HIDE DEF end
  <2> QED BY <1>6
<1> HIDE DEF end, units
<1>8. /\ w \in Servers /\ w.pc = "dldata" /\ w.fd = worker[s].fd /\ w.off = end
      /\ w.size = worker[s].size
      /\ ~w.disturbed => ~worker[s].disturbed /\ end <= worker[s].size
  <2> DEFINE b == worker[s].disturbed \/ end > worker[s].size
  <2>1. w = [worker[s] EXCEPT !.off = end, !.disturbed = b] /\ b \in BOOLEAN
    OBVIOUS
  <2>2. ~b => ~worker[s].disturbed /\ end <= worker[s].size
    BY <1>1, <1>4
  <2> HIDE DEF b, w
  <2> QED BY <1>1, <1>4, <2>1, <2>2 DEF Servers
<1>9. Opens(w)
  BY <1>2, <1>8 DEF Opens
<1>10. entry' \in [Names -> Inodes \cup {0, Dir}] /\ data' \in [Inodes -> Seq(Unit)]
  BY <1>6 DEF IInv, Types
<1> HIDE DEF w, file
<1>11. Stream(units) \in Seq(Token) /\ Len(Stream(units)) = end - from
  BY <1>5, StreamIs
<1>12. PICK d \in Seq(Token) :
         /\ down' = [down EXCEPT ![s] = d]
         /\ d = IF client[s].pc = "gone" THEN down[s] ELSE down[s] \o Stream(units)
  BY <1>6, <1>11, ToClientIs DEF IInv
<1>13. ASSUME client'[s] = client[s], worker'[s] = w, up'[s] = up[s], down'[s] = d, ~w.disturbed
       PROVE  Phase(s)'
  <2>1. DownloadStarts(s) \/ DownloadRuns(s) \/ Abandoned(s)
    <3>1. ~AtCommands(worker[s])
      BY <1>1 DEF AtCommands
    <3> QED BY <1>1, <1>8, <1>13, <3>1, ByWorker DEF IInv, Phases, Between, Asked
  <2>2. ASSUME client[s].pc # "gone"
        PROVE  /\ d = down[s] \o Stream(units) /\ Len(d) = Len(down[s]) + (end - from)
               /\ \A j \in 1 .. Len(down[s]) : d[j] = down[s][j]
    <3> DEFINE more == Stream(units)
    <3>1. more \in Seq(Token) /\ Len(more) = end - from
      BY <1>11
    <3> HIDE DEF more
    <3>2. /\ Len(down[s] \o more) = Len(down[s]) + Len(more)
          /\ \A j \in 1 .. Len(down[s]) : (down[s] \o more)[j] = down[s][j]
      BY <1>1, <3>1, Joined
    <3>3. d = down[s] \o more
      BY <1>12, <2>2 DEF more
    <3> QED BY <3>1, <3>2, <3>3 DEF more
  <2>3. CASE DownloadStarts(s)
    <3> DEFINE k == Lead(client[s]) + 1
    <3>1. /\ Fetching(s) /\ Len(down[s]) >= k /\ down[s][k].tag = "size" /\ ContentAfter(down[s], k)
          /\ client[s].pc # "gone" /\ k \in Nat /\ k >= 1
          /\ client[s].pc = "reply" => Len(down[s]) >= 1
      BY <2>3 DEF DownloadStarts, Announced, Fetching, Lead
    <3>2. d[k] = down[s][k] /\ (Len(down[s]) >= 1 => d[1] = down[s][1])
          /\ Len(d) = Len(down[s]) + (end - from)
      <4> HIDE DEF k
      <4> QED BY <1>1, <2>2, <3>1
    <3>3. worker[s].size = down[s][k].n /\ from = Len(down[s]) - k
      BY <1>1, <2>3 DEF DownloadStarts
    <3>4. ContentAfter(d, k)
      <4> HIDE DEF k
      <4>1. ContentAfter(down[s] \o Stream(units), k)
        BY <1>1, <1>5, <3>1, MoreContent
      <4> QED BY <2>2, <3>1, <4>1
    <3>5. Fetching(s)'
      BY <1>1, <1>4, <1>13, <3>1, <3>2 DEF Fetching, InCommand
    <3>6. ContentAfter(down'[s], k) /\ Lead(client'[s]) + 1 = k
      BY <1>13, <3>4
    <3> HIDE DEF k
    <3>7. Len(d) >= k /\ Len(d) - k = end
      <4>1. PICK n \in Nat, x \in Nat, y \in Nat : n = Len(down[s]) /\ x = from /\ y = end
        BY <1>1, <1>4
      <4>2. n >= k /\ x = n - k /\ Len(d) = n + (y - x)
        BY <3>1, <3>2, <3>3, <4>1
      <4>3. Len(d) >= k /\ Len(d) - k = y
        BY <3>1, <4>2
      <4> QED BY <4>1, <4>3
    <3>8. Announced(s)'
      BY <1>13, <3>1, <3>2, <3>5, <3>6, <3>7 DEF Announced
    <3>9. DownloadStarts(s)'
      BY <1>8, <1>13, <3>2, <3>3, <3>6, <3>7, <3>8 DEF DownloadStarts
    <3> QED BY <3>9 DEF Phase
  <2>4. CASE DownloadRuns(s)
    <3>1. PICK m \in Nat, n \in Nat : m = Len(client[s].file) /\ n = Len(down[s])
      BY <1>1
    <3>2. /\ client[s].pc = "recvdata" /\ InCommand(s, "gets") /\ up[s] = <<>>
          /\ ContentAfter(down[s], 0)
          /\ worker[s].size = client[s].want /\ from = m + n
      BY <1>1, <2>4, <3>1 DEF DownloadRuns
    <3>3. ContentAfter(down'[s], 0)
      <4>1. 0 \in Nat
        OBVIOUS
      <4>2. ContentAfter(down[s] \o Stream(units), 0)
        BY <1>1, <1>5, <3>2, <4>1, MoreContent
      <4>3. d = down[s] \o Stream(units)
        BY <2>2, <3>2
      <4> QED BY <1>13, <4>2, <4>3
    <3>4. m + Len(d) = end
      BY <1>1, <1>4, <2>2, <3>1, <3>2
    <3>5. DownloadRuns(s)'
      BY <1>8, <1>13, <3>1, <3>2, <3>3, <3>4 DEF DownloadRuns, InCommand
    <3> QED BY <3>5 DEF Phase
  <2>5. CASE Abandoned(s)
    BY <1>1, <1>8, <1>12, <1>13, <2>5 DEF Abandoned, Phase
  <2> QED BY <2>1, <2>3, <2>4, <2>5
<1> QED BY <1>1, <1>6, <1>7, <1>8, <1>9, <1>10, <1>12, <1>13, WorkerMoves

LEMMA DownloadDoneKeeps ==
  ASSUME IInv, NEW s \in Sessions, DownloadDone(s)
  PROVE  IInv'
<1> DEFINE b == worker[s].disturbed \/ worker[s].off < worker[s].size
           w == [Back(s) EXCEPT !.disturbed = b]
<1>1. /\ worker[s].pc = "dldata" /\ up[s] \in Seq(Token) /\ down[s] \in Seq(Token)
      /\ worker[s].off \in Nat /\ worker[s].size \in Nat /\ Len(down[s]) \in Nat
      /\ Len(client[s].file) \in Nat
  BY Typed DEF IInv, DownloadDone
<1>2. Back(s).disturbed = worker[s].disturbed
  BY BackIs DEF IInv
<1>3. [Back(s) EXCEPT !.disturbed = @ \/ worker[s].off < worker[s].size] = w
  BY <1>2
<1>4. b \in BOOLEAN
  OBVIOUS
<1>5. w \in Servers /\ Opens(w) /\ w.pc = "recv" /\ w.disturbed = b
  <2> HIDE DEF b
  <2> QED BY <1>4, BackIs DEF IInv
<1>6. /\ client' = client /\ up' = [up EXCEPT ![s] = up[s]] /\ down' = [down EXCEPT ![s] = down[s]]
      /\ Settle(entry, s, w)
  BY <1>3, Stays DEF IInv, DownloadDone
<1> HIDE DEF w
<1>7. entry' = entry /\ worker' = [worker EXCEPT ![s] = w] /\ data' \in [Inodes -> Seq(Unit)]
  BY <1>6, SettleIs DEF IInv
<1>8. entry' \in [Names -> Inodes \cup {0, Dir}]
  BY <1>7 DEF IInv, Types
<1>9. ASSUME client'[s] = client[s], worker'[s] = w, up'[s] = up[s], down'[s] = down[s], ~w.disturbed
      PROVE  Phase(s)'
  <2>1. Phase(s) /\ worker[s].off >= worker[s].size
    <3>1. ~worker[s].disturbed /\ ~(worker[s].off < worker[s].size)
      BY <1>5, <1>9
    <3> QED BY <1>1, <3>1 DEF IInv, Phases
  <2>2. CASE Between(s)
    BY <1>5, <1>9, <2>2 DEF Between, Quiet, AtCommands, Phase
  <2>3. CASE Asked(s)
    BY <1>5, <1>9, <2>3 DEF Asked, AtCommands, Phase
  <2>4. CASE DownloadStarts(s)
    <3>1. Announced(s)'
      BY <1>9, <2>4 DEF DownloadStarts, Announced, Fetching, InCommand, ContentAfter
    <3>2. PICK k \in Nat : k = Lead(client[s]) + 1
      BY DEF Lead
    <3>3. /\ worker[s].size = down[s][k].n /\ worker[s].off = Len(down[s]) - k
          /\ Len(down[s]) - k <= down[s][k].n
      BY <1>1, <2>4, <3>2 DEF DownloadStarts
    <3>4. Len(down[s]) - k = down[s][k].n
      <4>1. PICK off \in Nat, size \in Nat : off = worker[s].off /\ size = worker[s].size
        BY <1>1
      <4>2. off = Len(down[s]) - k /\ size = down[s][k].n /\ off >= size /\ off <= size
        BY <2>1, <3>3, <4>1
      <4>3. off = size
        BY <4>2
      <4> QED BY <4>2, <4>3
    <3>5. DownloadStarts(s)'
      BY <1>5, <1>9, <3>1, <3>2, <3>4 DEF DownloadStarts
    <3> QED BY <3>5 DEF Phase
  <2>5. CASE DownloadRuns(s)
    <3>1. PICK m \in Nat, n \in Nat : m = Len(client[s].file) /\ n = Len(down[s])
      BY <1>1
    <3>2. /\ worker[s].size = client[s].want /\ worker[s].off = m + n /\ m + n <= client[s].want
      BY <1>1, <2>5, <3>1 DEF DownloadRuns
    <3>3. m + n = client[s].want
      BY <1>1, <2>1, <3>2
    <3>4. DownloadRuns(s)'
      BY <1>5, <1>9, <2>5, <3>1, <3>3 DEF DownloadRuns, InCommand, ContentAfter
    <3> QED BY <3>4 DEF Phase
  <2>6. CASE Abandoned(s)
    BY <1>1, <1>5, <1>9, <2>6 DEF Abandoned, Phase
  <2> QED BY <1>1, <2>1, <2>2, <2>3, <2>4, <2>5, <2>6, ByWorker
<1> QED BY <1>1, <1>5, <1>6, <1>7, <1>8, <1>9, WorkerMoves

LEMMA MisreadCommandKeeps ==
  ASSUME IInv, NEW s \in Sessions, MisreadCommand(s)
  PROVE  IInv'
<1>1. worker[s].disturbed
  <2>1. SUFFICES ASSUME ~worker[s].disturbed PROVE FALSE
    OBVIOUS
  <2>2. Phase(s)
    BY <2>1 DEF IInv, Phases
  <2>3. worker[s].pc = "recv" /\ Misfit(up[s], ServerExpects(s))
    BY <2>2, ByWorker DEF MisreadCommand
  <2>4. up[s] # <<>> /\ up[s][1].tag # "cmd"
    BY <2>3 DEF Misfit, ServerExpects
  <2> QED BY <2>1, <2>3, <2>4, CommandIs
<1>2. /\ worker[s] \in Servers /\ Opens(worker[s]) /\ up[s] \in Seq(Token) /\ down[s] \in Seq(Token)
      /\ worker[s].pc \in {"recv", "astray"} /\ <<>> \in Seq(Token) /\ Len(up[s]) \in Nat
      /\ down' = down => down' = [down EXCEPT ![s] = down[s]]
  BY Typed, Stays DEF IInv, MisreadCommand
<1>3. client' = client /\ entry' = entry /\ data' = data
  BY DEF MisreadCommand, disk
<1>4. entry' \in [Names -> Inodes \cup {0, Dir}] /\ data' \in [Inodes -> Seq(Unit)]
  BY <1>3 DEF IInv, Types
<1>5. CASE Hangup(s) /\ down' = down
  <2>1. Closed(s) \in Servers /\ Opens(Closed(s)) /\ Closed(s).disturbed
    BY <1>1, BackIs DEF IInv
  <2>2. worker' = [worker EXCEPT ![s] = Closed(s)] /\ up' = [up EXCEPT ![s] = <<>>]
    BY <1>5 DEF Hangup
  <2> QED BY <1>2, <1>3, <1>4, <1>5, <2>1, <2>2, WorkerMoves
<1>6. ASSUME NEW k \in 1 .. Len(up[s]), Drop(s, k), NEW to \in {"astray", "recv"},
             worker' = [worker EXCEPT ![s].pc = to],
             NEW d \in Seq(Token), down' = [down EXCEPT ![s] = d]
      PROVE  IInv'
  <2> DEFINE w == [worker[s] EXCEPT !.pc = to]
  <2>1. /\ w \in Servers /\ w.pc = to /\ w.req = worker[s].req /\ w.fd = worker[s].fd
        /\ w.off = worker[s].off /\ w.disturbed
    BY <1>1, <1>2 DEF Servers
  <2>2. Opens(w)
    BY <1>2, <2>1 DEF Opens
  <2>3. Rest(up[s], k) \in Seq(Token) /\ up' = [up EXCEPT ![s] = Rest(up[s], k)]
    BY <1>2, <1>6, RestIs DEF Drop
  <2>4. worker' = [worker EXCEPT ![s] = w]
    BY <1>6
  <2> HIDE DEF w
  <2> QED BY <1>3, <1>4, <1>6, <2>1, <2>2, <2>3, <2>4, WorkerMoves
<1>7. CASE ~(Hangup(s) /\ down' = down)
  <2>1. PICK k \in 1 .. Len(up[s]) :
          /\ Drop(s, k)
          /\ \/ worker' = [worker EXCEPT ![s].pc = "astray"] /\ down' = down
             \/ worker' = [worker EXCEPT ![s].pc = "recv"] /\ ToClient(s, <<Text(FALSE, "none")>>)
    BY <1>7 DEF MisreadCommand
  <2>2. CASE worker' = [worker EXCEPT ![s].pc = "astray"] /\ down' = down
    BY <1>2, <1>6, <2>1, <2>2
  <2>3. CASE worker' = [worker EXCEPT ![s].pc = "recv"] /\ ToClient(s, <<Text(FALSE, "none")>>)
    <3>1. Text(FALSE, "none") \in Token
      BY Tokens
    <3>2. PICK d \in Seq(Token) : down' = [down EXCEPT ![s] = d]
      BY <2>3, <3>1, OneToken, ToClientIs DEF IInv
    <3> QED BY <1>6, <2>1, <2>3, <3>2
  <2> QED BY <2>1, <2>2, <2>3
<1> QED BY <1>5, <1>7

\* The worker of a client that is gone gives up.
LEMMA GivesUpKeeps ==
  ASSUME IInv, NEW s \in Sessions, client[s].pc = "gone",
         NEW w \in {Back(s), Closed(s)}, Settle(entry, s, w),
         up' = [up EXCEPT ![s] = <<>>], client' = client, down' = down
  PROVE  IInv'
<1>1. /\ w \in Servers /\ Opens(w) /\ w.pc \in {"recv", "closed"}
      /\ w.disturbed = worker[s].disturbed
  BY BackIs DEF IInv
<1>2. entry' = entry /\ worker' = [worker EXCEPT ![s] = w] /\ data' \in [Inodes -> Seq(Unit)]
  BY SettleIs DEF IInv
<1>3. entry' \in [Names -> Inodes \cup {0, Dir}] /\ <<>> \in Seq(Token)
  BY <1>2 DEF IInv, Types
<1>4. down[s] \in Seq(Token) /\ down' = [down EXCEPT ![s] = down[s]]
  BY Stays DEF IInv
<1>5. ASSUME client'[s] = client[s], worker'[s] = w, up'[s] = <<>>, down'[s] = down[s], ~w.disturbed
      PROVE  Phase(s)'
  <2>1. Abandoned(s)
    BY <1>1, <1>5, ByClient DEF IInv, Phases
  <2> QED BY <1>1, <1>5, <2>1 DEF Abandoned, Phase
<1> QED BY <1>1, <1>2, <1>3, <1>4, <1>5, WorkerMoves

LEMMA LoseClientKeeps ==
  ASSUME IInv, NEW s \in Sessions, LoseClient(s) \/ SendFails(s)
  PROVE  IInv'
<1>1. /\ client[s].pc = "gone" /\ client' = client /\ down' = down
      /\ up' = [up EXCEPT ![s] = <<>>]
      /\ Settle(entry, s, Back(s)) \/ Settle(entry, s, Closed(s))
  BY DEF LoseClient, SendFails, At
<1> QED BY <1>1, GivesUpKeeps

LEMMA ServerKeeps ==
  ASSUME IInv, NEW s \in Sessions, ServerAnswers(s)
  PROVE  IInv'
<1>1. CASE Quit(s) \/ Login(s) \/ List(s) \/ Mkdir(s) \/ RmStat(s) \/ RmUnlink(s)
             \/ (\E op \in NamedOps : Refuse(s, op))
  BY <1>1, QuitKeeps, LoginKeeps, ListKeeps, MkdirKeeps, RmStatKeeps, RmUnlinkKeeps, RefuseKeeps
<1>2. CASE PutsReady(s) \/ UploadSize(s) \/ UploadOpen(s) \/ UploadOpenFails(s)
             \/ UploadData(s) \/ UploadWriteFails(s) \/ UploadDone(s)
  BY <1>2, PutsReadyKeeps, UploadSizeKeeps, UploadOpenStepKeeps, UploadOpenFailsKeeps,
     UploadDataKeeps, UploadWriteFailsKeeps, UploadDoneKeeps
<1>3. CASE GetsStat(s) \/ DownloadOpen(s) \/ DownloadOpenFails(s)
             \/ DownloadSize(s) \/ DownloadData(s) \/ DownloadDone(s)
  BY <1>3, GetsStatKeeps, DownloadOpenKeeps, DownloadOpenFailsKeeps, DownloadSizeKeeps,
     DownloadDataKeeps, DownloadDoneKeeps
<1>4. CASE MisreadCommand(s) \/ LoseClient(s) \/ SendFails(s)
  BY <1>4, MisreadCommandKeeps, LoseClientKeeps
<1> QED BY <1>1, <1>2, <1>3, <1>4 DEF ServerAnswers

-----------------------------------------------------------------------------
(* The invariant.                                                          *)

LEMMA InitHolds == Init => IInv
<1> SUFFICES ASSUME Init PROVE IInv
  OBVIOUS
<1> USE DEF Init
<1>1. <<>> \in Seq(Unit) /\ <<>> \in Seq(Token)
  OBVIOUS
<1>2. Newcomer \in Clients /\ Newcomer.pc = "login"
  BY <1>1 DEF Newcomer, Clients
<1>3. /\ Fresh \in Servers /\ Fresh.pc = "recv" /\ Fresh.fd = 0 /\ Fresh.off = 0
  BY DEF Fresh, Servers
<1>4. Opens(Fresh)
  BY <1>3, InodesAre DEF Opens
<1>5. Types
  <2>1. client \in [Sessions -> Clients] /\ worker \in [Sessions -> Servers]
    BY <1>2, <1>3
  <2>2. \A s \in Sessions : Opens(worker[s])
    BY <1>4
  <2>3. up \in [Sessions -> Seq(Token)] /\ down \in [Sessions -> Seq(Token)]
    BY <1>1
  <2>4. entry \in [Names -> Inodes \cup {0, Dir}]
    OBVIOUS
  <2>5. data \in [Inodes -> Seq(Unit)]
    BY <1>1
  <2> QED BY <2>1, <2>2, <2>3, <2>4, <2>5 DEF Types
<1>6. \A s \in Sessions : Between(s)
  BY <1>2, <1>3 DEF Between, Quiet, AtCommands
<1> QED BY <1>5, <1>6 DEF IInv, Phases, Phase

LEMMA StutterKeeps ==
  ASSUME IInv, UNCHANGED vars
  PROVE  IInv'
<1>1. UNCHANGED <<client, worker, up, down, entry, data>>
  BY DEF vars, disk
<1>2. Types'
  BY <1>1 DEF IInv, Types, Opens
<1>3. ASSUME NEW s \in Sessions, ~worker'[s].disturbed PROVE Phase(s)'
  <2>1. Phase(s)
    BY <1>1, <1>3 DEF IInv, Phases
  <2> QED BY <1>1, <2>1, PhaseIsLocal
<1> QED BY <1>2, <1>3 DEF IInv, Phases

LEMMA NextKeeps == IInv /\ [Next]_vars => IInv'
<1> SUFFICES ASSUME IInv, [Next]_vars PROVE IInv'
  OBVIOUS
<1>1. CASE UNCHANGED vars \/ Terminated
  BY <1>1, StutterKeeps DEF Terminated
<1>2. ASSUME NEW s \in Sessions,
             \/ AskLogin(s) \/ AskCommand(s) \/ ClientAnswers(s)
             \/ LocalFileChanges(s) \/ GoAway(s) \/ ServerAnswers(s)
      PROVE  IInv'
  BY <1>2, ClientKeeps, ServerKeeps
<1> QED BY <1>1, <1>2 DEF Next

\* Every session goes through the phases, and everything has its type.
THEOREM SessionsGoThroughPhases == Spec => []IInv
<1>1. Init => IInv
  BY InitHolds
<1>2. IInv /\ [Next]_vars => IInv'
  BY NextKeeps
<1> QED BY <1>1, <1>2, PTL DEF Spec

\* A session stays in step and never locks up, for any number of sessions,
\* any files, any piece size, and whatever is lost or removed meanwhile, until
\* its worker has moved another number of bytes than was announced
\* (handle.c:65-142, client.c:209-252, both file_transfer.c).
THEOREM SessionsStayInStep == Spec => []InStepUnlessDisturbed
<1>1. IInv => InStepUnlessDisturbed
  <2> SUFFICES ASSUME IInv, NEW s \in Sessions, ~worker[s].disturbed
               PROVE  InStep(s) /\ ~MutualWait(s)
    BY DEF InStepUnlessDisturbed
  <2>1. Phase(s)
    BY DEF IInv, Phases
  <2>2. /\ Len(up[s]) \in Nat /\ Len(down[s]) \in Nat /\ up[s] \in Seq(Token) /\ down[s] \in Seq(Token)
        /\ up[s] # <<>> <=> Len(up[s]) >= 1
        /\ down[s] # <<>> <=> Len(down[s]) >= 1
        /\ client[s].want \in Nat /\ client[s].moved \in Nat /\ Len(client[s].file) \in Nat
        /\ worker[s].off \in Nat /\ worker[s].size \in Nat
    BY Typed DEF IInv
  <2>3. ASSUME NEW q \in Seq(Token), q # <<>>, ContentAfter(q, 0) PROVE q[1].tag = "data"
    <3>1. 1 \in 0 + 1 .. Len(q)
      BY <2>3
    <3> QED BY <2>3, <3>1 DEF ContentAfter
  <2>4. ~Misfit(up[s], ServerExpects(s))
    <3>1. CASE worker[s].pc = "recv"
      BY <3>1, CommandIs DEF Misfit, ServerExpects
    <3>2. CASE worker[s].pc = "upsize"
      BY <2>1, <2>2, <3>2, ByWorker
         DEF Misfit, ServerExpects, Invited, OneReply, Quiet, UploadStarts, Abandoned
    <3>3. CASE worker[s].pc = "updata"
      <4>1. ContentAfter(up[s], 0)
        BY <2>1, <3>3, ByWorker DEF UploadRuns, Abandoned
      <4> QED BY <2>2, <2>3, <3>3, <4>1 DEF Misfit, ServerExpects
    <3> QED BY <3>1, <3>2, <3>3 DEF Misfit, ServerExpects
  <2>5. ~Misfit(down[s], ClientExpects(s))
    <3>1. CASE client[s].pc \in {"reply", "result"}
      BY <2>1, <3>1, RepliesFit DEF IInv, Misfit, ClientExpects
    <3>2. CASE client[s].pc = "recvsize"
      <4>1. DownloadOpens(s) \/ DownloadStarts(s)
        BY <2>1, <3>2, ByClient
      <4>2. down[s] # <<>> => down[s][1].tag = "size"
        BY <2>2, <3>2, <4>1 DEF DownloadOpens, DownloadStarts, Announced, Lead
      <4> QED BY <3>2, <4>2 DEF Misfit, ClientExpects
    <3>3. CASE client[s].pc = "recvdata"
      <4>1. ContentAfter(down[s], 0)
        BY <2>1, <3>3, ByClient DEF DownloadRuns
      <4> QED BY <2>2, <2>3, <3>3, <4>1 DEF Misfit, ClientExpects
    <3> QED BY <3>1, <3>2, <3>3 DEF Misfit, ClientExpects
  <2>6. NextIs(down[s], "text") => down[s][1].op = client[s].cmd.op
    <3> SUFFICES ASSUME down[s] # <<>>, down[s][1].tag = "text" PROVE down[s][1].op = client[s].cmd.op
      BY DEF NextIs
    <3>1. CASE DownloadOpens(s) \/ DownloadStarts(s)
      <4>1. client[s].pc = "reply"
        <5>1. client[s].pc # "reply" => Lead(client[s]) = 0
          BY DEF Lead
        <5> QED BY <2>2, <3>1, <5>1 DEF DownloadOpens, DownloadStarts, Announced, Fetching
      <4> QED BY <2>1, <4>1, RepliesFit DEF IInv
    <3>2. CASE DownloadRuns(s)
      BY <2>2, <2>3, <3>2 DEF DownloadRuns
    <3> QED BY <2>1, <3>1, <3>2
        DEF Phase, Between, Quiet, Asked, Answered, OneReply, Removing, Invited, UploadStarts,
            UploadRuns, UploadAnswered, Abandoned
  <2>7. At(s, "login") \/ At(s, "idle") => up[s] = <<>> /\ down[s] = <<>>
    BY <2>1, ByClient DEF At, Between, Quiet
  <2>8. ~MutualWait(s)
    <3> SUFFICES ASSUME up[s] = <<>>, down[s] = <<>>, ServerExpects(s) # {}, ClientExpects(s) # {}
                 PROVE  FALSE
      BY DEF MutualWait
    <3>1. Len(up[s]) = 0 /\ Len(down[s]) = 0
      BY <2>2
    <3>2. CASE UploadRuns(s)
      <4>1. worker[s].pc = "updata" /\ worker[s].off < worker[s].size /\ client[s].pc = "result"
        BY <3>2 DEF UploadRuns, Uploading, ServerExpects, ClientExpects
      <4> QED BY <2>2, <3>1, <3>2, <4>1 DEF UploadRuns, Sent
    <3>3. CASE DownloadRuns(s)
      <4>1. worker[s].pc = "recv" /\ Len(client[s].file) < client[s].want
        BY <3>3 DEF DownloadRuns, ServerExpects, ClientExpects
      <4> QED BY <2>2, <3>1, <3>3, <4>1 DEF DownloadRuns
    <3>4. CASE Between(s) \/ Abandoned(s)
      BY <3>4 DEF Between, Abandoned, ClientExpects
    <3>5. CASE Asked(s) \/ Answered(s) \/ UploadAnswered(s)
      BY <3>1, <3>5 DEF Asked, Answered, UploadAnswered, OneReply
    <3>6. CASE Removing(s) \/ Invited(s)
      BY <3>1, <3>6 DEF Removing, Invited, OneReply, ServerExpects, ClientExpects
    <3>7. CASE UploadStarts(s)
      <4>1. Sent(client[s]) \in Nat
        BY <2>2 DEF Sent
      <4> QED BY <3>1, <3>7, <4>1 DEF UploadStarts
    <3>8. CASE DownloadOpens(s)
      BY <3>8 DEF DownloadOpens, ServerExpects
    <3>9. CASE DownloadStarts(s)
      <4>1. Lead(client[s]) \in Nat
        BY DEF Lead
      <4> QED BY <3>1, <3>9, <4>1 DEF DownloadStarts, Announced
    <3> QED BY <2>1, <3>2, <3>3, <3>4, <3>5, <3>6, <3>7, <3>8, <3>9 DEF Phase
  <2> QED BY <2>4, <2>5, <2>6, <2>7, <2>8 DEF InStep
<1> QED BY <1>1, SessionsGoThroughPhases, PTL

\* Only one end has bytes under way to the other, for any number of sessions
\* and any files (client/file_transfer.c:36-52, handle.c:399-409).
THEOREM SessionsAreHalfDuplex == Spec => []HalfDuplexUnlessDisturbed
<1>1. IInv => HalfDuplexUnlessDisturbed
  <2> SUFFICES ASSUME IInv, NEW s \in Sessions, ~worker[s].disturbed
               PROVE  up[s] = <<>> \/ down[s] = <<>>
    BY DEF HalfDuplexUnlessDisturbed
  <2>1. Phase(s)
    BY DEF IInv, Phases
  <2> QED BY <2>1 DEF Phase, Between, Quiet, Asked, Answered, OneReply, Removing, Invited,
                      UploadStarts, UploadRuns, UploadAnswered, Fetching, DownloadOpens,
                      Announced, DownloadStarts, DownloadRuns, Abandoned
<1> QED BY <1>1, SessionsGoThroughPhases, PTL

-----------------------------------------------------------------------------
(***************************************************************************)
(* What the files hold.  The phases above do not look at content; this     *)
(* adds whose content is where: what a client sends is its own, and what a *)
(* worker writes is at its own offset in an inode that nobody can take     *)
(* away or truncate unnoticed while the worker has it open.                *)
(***************************************************************************)

\* What the client of s uploads, and what of it is under way, is its own.
Sends(s, c) ==
  /\ c.cmd.op = "puts" => \A i \in 1 .. Len(c.file) : c.file[i] = s
  /\ c.pc \in {"sendsize", "senddata"} => c.cmd.op = "puts"
  /\ c.pc \in {"recvsize", "recvdata"} => c.cmd.op = "gets"
OwnedBy(s, q) == \A i \in 1 .. Len(q) : q[i].tag = "data" => q[i].unit = s

Own == \A s \in Sessions : Sends(s, client[s]) /\ OwnedBy(s, up[s])

\* Two uploads that have one inode open are marked, both.
Writes(s, inode) == worker[s].pc = "updata" /\ worker[s].fd = inode
SharedIsMarked ==
  \A s, t \in Sessions : \A i \in Inodes :
    s # t /\ Writes(s, i) /\ Writes(t, i) => worker[s].shared /\ worker[t].shared

FInv == IInv /\ Own /\ SharedIsMarked /\ WrittenAsReceived

-----------------------------------------------------------------------------
(* Whose content it is.                                                    *)

LEMMA OwnKeeps ==
  ASSUME Types, Own, NEW s \in Sessions, NEW c, NEW u,
         client' = [client EXCEPT ![s] = c], up' = [up EXCEPT ![s] = u],
         Sends(s, c), OwnedBy(s, u)
  PROVE  Own'
<1>1. ASSUME NEW t \in Sessions PROVE Sends(t, client'[t]) /\ OwnedBy(t, up'[t])
  <2>1. CASE t = s
    <3>1. client'[s] = c /\ up'[s] = u
      BY DEF Types
    <3> QED BY <2>1, <3>1
  <2>2. CASE t # s
    <3>1. client'[t] = client[t] /\ up'[t] = up[t]
      BY <2>2 DEF Types
    <3> QED BY <3>1 DEF Own
  <2> QED BY <2>1, <2>2
<1> QED BY <1>1 DEF Own

LEMMA SameOwner ==
  ASSUME Types, Own, NEW s \in Sessions
  PROVE  /\ Sends(s, client[s]) /\ OwnedBy(s, up[s])
         /\ client' = client => client' = [client EXCEPT ![s] = client[s]]
         /\ up' = up => up' = [up EXCEPT ![s] = up[s]]
BY DEF Types, Own

\* What a client that owns it adds to its stream, and what a worker leaves.
LEMMA SentIsOwned ==
  ASSUME Types, NEW s \in Sessions, OwnedBy(s, up[s]),
         NEW tokens \in Seq(Token), OwnedBy(s, tokens), ToServer(s, tokens)
  PROVE  \E u : up' = [up EXCEPT ![s] = u] /\ OwnedBy(s, u)
<1> DEFINE u == IF worker[s].pc = "closed" THEN up[s] ELSE up[s] \o tokens
<1>1. up[s] \in Seq(Token) /\ Len(up[s]) \in Nat /\ Len(tokens) \in Nat
  BY Typed
<1>2. up' = [up EXCEPT ![s] = u]
  BY DEF ToServer
<1>3. OwnedBy(s, up[s] \o tokens)
  <2> DEFINE q == up[s] \o tokens
  <2>1. /\ Len(q) = Len(up[s]) + Len(tokens)
        /\ \A j \in 1 .. Len(up[s]) : q[j] = up[s][j]
        /\ \A j \in 1 .. Len(tokens) : q[Len(up[s]) + j] = tokens[j]
    BY <1>1, Joined
  <2> HIDE DEF q
  <2>2. ASSUME NEW j \in 1 .. Len(q), q[j].tag = "data" PROVE q[j].unit = s
    <3>1. CASE j <= Len(up[s])
      <4>1. j \in 1 .. Len(up[s]) /\ q[j] = up[s][j]
        BY <1>1, <2>1, <3>1
      <4> QED BY <2>2, <4>1 DEF OwnedBy
    <3>2. CASE j > Len(up[s])
      <4>1. PICK i \in 1 .. Len(tokens) : j = Len(up[s]) + i
        <5>1. j - Len(up[s]) \in 1 .. Len(tokens) /\ j = Len(up[s]) + (j - Len(up[s]))
          BY <1>1, <2>1, <3>2
        <5> QED BY <5>1
      <4>2. q[j] = tokens[i]
        BY <2>1, <4>1
      <4> QED BY <2>2, <4>1, <4>2 DEF OwnedBy
    <3> QED BY <1>1, <2>1, <3>1, <3>2
  <2> QED BY <2>2 DEF OwnedBy, q
<1>4. OwnedBy(s, u)
  BY <1>3
<1> HIDE DEF u
<1> QED BY <1>2, <1>4

LEMMA RestIsOwned ==
  ASSUME NEW s, NEW q \in Seq(Token), NEW k \in Nat, k <= Len(q), OwnedBy(s, q)
  PROVE  OwnedBy(s, Rest(q, k))
<1>1. /\ Len(q) \in Nat /\ Len(Rest(q, k)) = Len(q) - k
      /\ \A j \in 1 .. Len(q) - k : Rest(q, k)[j] = q[k + j]
  BY RestIs
<1>2. ASSUME NEW j \in 1 .. Len(Rest(q, k)), Rest(q, k)[j].tag = "data"
      PROVE  Rest(q, k)[j].unit = s
  <2>1. j \in 1 .. Len(q) - k /\ k + j \in 1 .. Len(q)
    BY <1>1
  <2> QED BY <1>1, <1>2, <2>1 DEF OwnedBy
<1> QED BY <1>2 DEF OwnedBy

LEMMA GoneOwns ==
  ASSUME NEW s
  PROVE  Sends(s, Gone)
<1>1. Gone.pc = "gone" /\ Gone.cmd.op = "none"
  BY DEF Gone, Newcomer, Command
<1> QED BY <1>1 DEF Sends

LEMMA FilledIs ==
  ASSUME NEW s \in Sessions, NEW n \in Nat
  PROVE  /\ [i \in 1 .. n |-> s] \in Seq(Unit) /\ Len([i \in 1 .. n |-> s]) = n
         /\ \A i \in 1 .. n : [j \in 1 .. n |-> s][i] = s
BY DEF Unit

LEMMA PieceIsOwned ==
  ASSUME NEW s, NEW file \in Seq(Unit), \A i \in 1 .. Len(file) : file[i] = s,
         NEW m \in Nat, NEW n \in Nat, m <= n, n <= Len(file)
  PROVE  LET piece == SubSeq(file, m + 1, n)
         IN  piece \in Seq(Unit) /\ Len(piece) \in Nat /\ \A i \in 1 .. Len(piece) : piece[i] = s
<1> DEFINE piece == SubSeq(file, m + 1, n)
<1>1. Len(file) \in Nat
  OBVIOUS
<1>2. piece \in Seq(Unit) /\ Len(piece) = n - m
  BY <1>1
<1>3. ASSUME NEW i \in 1 .. n - m PROVE piece[i] = s
  <2>1. piece[i] = file[m + i] /\ m + i \in 1 .. Len(file)
    BY <1>1
  <2> QED BY <2>1
<1>4. n - m \in Nat
  OBVIOUS
<1> HIDE DEF piece
<1>5. piece \in Seq(Unit) /\ Len(piece) \in Nat /\ \A i \in 1 .. Len(piece) : piece[i] = s
  BY <1>2, <1>3, <1>4
<1> QED BY <1>5 DEF piece

LEMMA AskOwns ==
  ASSUME Types, Own, NEW s \in Sessions, NEW r \in Requests, Ask(s, r)
  PROVE  Own'
<1>1. PICK n \in Nat :
        client' = [client EXCEPT ![s] =
          [Newcomer EXCEPT !.pc = "reply", !.cmd = r, !.file = [i \in 1 .. n |-> s]]]
  BY BoundsAssumption DEF Ask
<1> DEFINE file == [i \in 1 .. n |-> s]
           c == [Newcomer EXCEPT !.pc = "reply", !.cmd = r, !.file = file]
<1>2. file \in Seq(Unit) /\ Len(file) = n /\ \A i \in 1 .. n : file[i] = s
  BY FilledIs
<1> HIDE DEF file
<1>3. c.pc = "reply" /\ c.file = file
  BY DEF Newcomer
<1>4. Sends(s, c)
  BY <1>2, <1>3 DEF Sends
<1>5. <<r>> \in Seq(Token) /\ OwnedBy(s, <<r>>)
  <2>1. r \in Token /\ r.tag = "cmd"
    BY Tokens
  <2>2. <<r>> \in Seq(Token)
    BY <2>1, OneToken
  <2>3. \A i \in 1 .. Len(<<r>>) : <<r>>[i] = r
    OBVIOUS
  <2> QED BY <2>1, <2>2, <2>3 DEF OwnedBy
<1>6. PICK u : up' = [up EXCEPT ![s] = u] /\ OwnedBy(s, u)
  BY <1>5, SameOwner, SentIsOwned DEF Ask
<1>7. client' = [client EXCEPT ![s] = c]
  BY <1>1 DEF file
<1> HIDE DEF c
<1> QED BY <1>4, <1>6, <1>7, OwnKeeps

\* The client moves on in its command, its file the same.
LEMMA GoesOnOwning ==
  ASSUME Types, Own, NEW s \in Sessions, NEW c \in Clients, client' = [client EXCEPT ![s] = c],
         c.cmd = client[s].cmd, c.file = client[s].file,
         c.pc \in {"sendsize", "senddata"} => client[s].cmd.op = "puts",
         c.pc \in {"recvsize", "recvdata"} => client[s].cmd.op = "gets",
         NEW u, up' = [up EXCEPT ![s] = u], OwnedBy(s, u)
  PROVE  Own'
<1>1. Sends(s, client[s])
  BY SameOwner
<1>2. Sends(s, c)
  BY <1>1 DEF Sends
<1> QED BY <1>2, OwnKeeps

LEMMA ReadReplyOwns ==
  ASSUME Types, Own, NEW s \in Sessions, ReadReply(s)
  PROVE  Own'
<1> DEFINE op == client[s].cmd.op
           to == AfterReply(op, down[s][1].ok)
           c == [client[s] EXCEPT !.pc = to]
<1>1. up' = up /\ client[s].pc = "reply" /\ client' = [client EXCEPT ![s] = IF op = "quit" THEN Gone ELSE c]
  BY DEF ReadReply, At
<1>2. OwnedBy(s, up[s]) /\ up' = [up EXCEPT ![s] = up[s]] /\ client[s] \in Clients
  BY <1>1, SameOwner, Typed
<1>3. CASE op = "quit"
  <2>1. client' = [client EXCEPT ![s] = Gone]
    BY <1>1, <1>3
  <2> QED BY <1>2, <2>1, GoneOwns, OwnKeeps
<1>4. CASE op # "quit"
  <2>1. /\ to \in {"idle", "login", "sendsize", "recvsize"}
        /\ to = "sendsize" => op = "puts"
        /\ to = "recvsize" => op = "gets"
    BY DEF AfterReply
  <2>2. c \in Clients /\ c.pc = to /\ c.cmd = client[s].cmd /\ c.file = client[s].file
    <3> HIDE DEF to
    <3> QED BY <1>2, <2>1 DEF Clients
  <2>3. client' = [client EXCEPT ![s] = c]
    BY <1>1, <1>4
  <2> HIDE DEF c, to
  <2> QED BY <1>2, <2>1, <2>2, <2>3, GoesOnOwning
<1> QED BY <1>3, <1>4

LEMMA SendsOwn ==
  ASSUME Types, Own, NEW s \in Sessions, SendSize(s) \/ SendData(s) \/ SendFileReturns(s)
  PROVE  Own'
<1>1. /\ client[s] \in Clients /\ up[s] \in Seq(Token) /\ client[s].file \in Seq(Unit)
      /\ Len(client[s].file) \in Nat /\ client[s].moved \in Nat /\ client[s].want \in Nat
      /\ Sends(s, client[s]) /\ OwnedBy(s, up[s])
  BY SameOwner, Typed
<1>2. CASE SendSize(s)
  <2> DEFINE n == Len(client[s].file)
             c == [client[s] EXCEPT !.pc = "senddata", !.want = n]
  <2>1. /\ c \in Clients /\ c.pc = "senddata" /\ c.cmd = client[s].cmd /\ c.file = client[s].file
        /\ client[s].cmd.op = "puts"
    BY <1>1, <1>2 DEF Clients, SendSize, At, Sends
  <2>2. client' = [client EXCEPT ![s] = c] /\ ToServer(s, <<Size(n)>>)
    BY <1>2 DEF SendSize
  <2>3. <<Size(n)>> \in Seq(Token) /\ OwnedBy(s, <<Size(n)>>)
    <3>1. Size(n) \in Token /\ Size(n).tag = "size"
      BY <1>1, Tokens
    <3>2. \A i \in 1 .. Len(<<Size(n)>>) : <<Size(n)>>[i] = Size(n)
      OBVIOUS
    <3> QED BY <3>1, <3>2, OneToken DEF OwnedBy
  <2>4. PICK u : up' = [up EXCEPT ![s] = u] /\ OwnedBy(s, u)
    BY <1>1, <2>2, <2>3, SentIsOwned
  <2> HIDE DEF c
  <2> QED BY <2>1, <2>2, <2>4, GoesOnOwning
<1>3. CASE SendData(s)
  <2> DEFINE from == client[s].moved
             end == PieceEnd(from, Len(client[s].file))
             units == SubSeq(client[s].file, from + 1, end)
             c == [client[s] EXCEPT !.moved = end]
  <2>1. client[s].pc = "senddata" /\ from < Len(client[s].file) /\ client[s].cmd.op = "puts"
    BY <1>1, <1>3 DEF SendData, At, Sends
  <2>2. end \in Nat /\ from < end /\ end <= Len(client[s].file)
    BY <1>1, <2>1, PieceEnds
  <2>3. client' = [client EXCEPT ![s] = c] /\ ToServer(s, Stream(units))
    BY <1>3 DEF SendData
  <2> HIDE DEF end
  <2>4. /\ c \in Clients /\ c.pc = "senddata" /\ c.cmd = client[s].cmd /\ c.file = client[s].file
    BY <1>1, <2>1, <2>2 DEF Clients
  <2>5. units \in Seq(Unit) /\ Len(units) \in Nat /\ \A i \in 1 .. Len(units) : units[i] = s
    <3>1. \A i \in 1 .. Len(client[s].file) : client[s].file[i] = s
      BY <1>1, <2>1 DEF Sends
    <3>2. /\ client[s].file \in Seq(Unit) /\ from \in Nat /\ end \in Nat
          /\ from <= end /\ end <= Len(client[s].file)
      BY <1>1, <2>2
    <3> HIDE DEF from
    <3> QED BY <3>1, <3>2, PieceIsOwned
  <2> HIDE DEF units, c
  <2>6. Stream(units) \in Seq(Token) /\ OwnedBy(s, Stream(units))
    <3>1. Stream(units) = [i \in 1 .. Len(units) |-> [tag |-> "data", unit |-> units[i]]]
      BY <2>5 DEF Stream
    <3>2. Stream(units) \in Seq(Token) /\ Len(Stream(units)) = Len(units)
      BY <2>5, StreamIs
    <3>3. \A i \in 1 .. Len(units) : Stream(units)[i].unit = s
      BY <2>5, <3>1
    <3> QED BY <3>2, <3>3 DEF OwnedBy
  <2>7. PICK u : up' = [up EXCEPT ![s] = u] /\ OwnedBy(s, u)
    BY <1>1, <2>3, <2>6, SentIsOwned
  <2> QED BY <2>1, <2>3, <2>4, <2>7, GoesOnOwning
<1>4. CASE SendFileReturns(s)
  <2> DEFINE c == [client[s] EXCEPT !.pc = "result", !.moved = 0]
  <2>1. c \in Clients /\ c.pc = "result" /\ c.cmd = client[s].cmd /\ c.file = client[s].file
    BY <1>1 DEF Clients
  <2>2. client' = [client EXCEPT ![s] = c] /\ up' = [up EXCEPT ![s] = up[s]]
    BY <1>4, SameOwner DEF SendFileReturns
  <2> HIDE DEF c
  <2> QED BY <1>1, <2>1, <2>2, GoesOnOwning
<1> QED BY <1>2, <1>3, <1>4

LEMMA ReceivesOwn ==
  ASSUME Types, Own, NEW s \in Sessions,
         ReadResult(s) \/ RecvSize(s) \/ RecvData(s) \/ RecvFileReturns(s)
  PROVE  Own'
<1>1. /\ client[s] \in Clients /\ down[s] \in Seq(Token) /\ Sends(s, client[s])
      /\ OwnedBy(s, up[s]) /\ up' = [up EXCEPT ![s] = up[s]]
  BY SameOwner, Typed DEF ReadResult, RecvSize, RecvData, RecvFileReturns
<1>2. CASE ReadResult(s)
  <2>1. PICK o \in {"ok", "error"} :
          client' = [client EXCEPT ![s].pc = "idle", ![s].outcome = o]
    BY <1>2 DEF ReadResult
  <2> DEFINE c == [client[s] EXCEPT !.pc = "idle", !.outcome = o]
  <2>2. c \in Clients /\ c.pc = "idle" /\ c.cmd = client[s].cmd /\ c.file = client[s].file
    BY <1>1 DEF Clients
  <2>3. client' = [client EXCEPT ![s] = c]
    BY <2>1
  <2> HIDE DEF c
  <2> QED BY <1>1, <2>2, <2>3, GoesOnOwning
<1>3. CASE RecvSize(s)
  <2>1. PICK n \in SizesRead(down[s]) : client' = [client EXCEPT ![s].pc = "recvdata", ![s].want = n]
    BY <1>3 DEF RecvSize
  <2>2. n \in Nat /\ client[s].cmd.op = "gets"
    BY <1>1, <1>3, SizesReadAre DEF RecvSize, At, Sends
  <2> DEFINE c == [client[s] EXCEPT !.pc = "recvdata", !.want = n]
  <2>3. c \in Clients /\ c.pc = "recvdata" /\ c.cmd = client[s].cmd /\ c.file = client[s].file
    BY <1>1, <2>2 DEF Clients
  <2>4. client' = [client EXCEPT ![s] = c]
    BY <2>1
  <2> HIDE DEF c
  <2> QED BY <1>1, <2>2, <2>3, <2>4, GoesOnOwning
<1>4. CASE RecvData(s)
  <2>1. PICK file : client' = [client EXCEPT ![s].file = file]
    BY <1>4 DEF RecvData
  <2> DEFINE c == [client[s] EXCEPT !.file = file]
  <2>2. c.pc = "recvdata" /\ c.cmd = client[s].cmd /\ c.cmd.op = "gets"
    BY <1>1, <1>4 DEF RecvData, At, Sends, Clients
  <2>3. client' = [client EXCEPT ![s] = c]
    BY <2>1
  <2>4. Sends(s, c)
    BY <2>2 DEF Sends
  <2> HIDE DEF c
  <2> QED BY <1>1, <2>3, <2>4, OwnKeeps
<1>5. CASE RecvFileReturns(s)
  <2> DEFINE c == [client[s] EXCEPT !.pc = "idle", !.outcome = "ok", !.want = 0]
  <2>1. c \in Clients /\ c.pc = "idle" /\ c.cmd = client[s].cmd /\ c.file = client[s].file
    BY <1>1 DEF Clients
  <2>2. client' = [client EXCEPT ![s] = c]
    BY <1>5 DEF RecvFileReturns
  <2> HIDE DEF c
  <2> QED BY <1>1, <2>1, <2>2, GoesOnOwning
<1> QED BY <1>2, <1>3, <1>4, <1>5

LEMMA LeavesOwning ==
  ASSUME Types, Own, NEW s \in Sessions, Leave(s) \/ MisreadReply(s) \/ LocalFileChanges(s)
  PROVE  Own'
<1>1. /\ client[s] \in Clients /\ down[s] \in Seq(Token) /\ Sends(s, client[s])
      /\ OwnedBy(s, up[s])
  BY SameOwner, Typed
<1>2. up' = [up EXCEPT ![s] = up[s]]
  BY SameOwner DEF Leave, MisreadReply, LocalFileChanges
<1>3. CASE Leave(s)
  <2>1. client' = [client EXCEPT ![s] = Gone]
    BY <1>3 DEF Leave
  <2> QED BY <1>1, <1>2, <2>1, GoneOwns, OwnKeeps
<1>4. CASE MisreadReply(s) /\ ~Leave(s)
  <2>1. PICK where \in {"astray", "idle"} :
          client' = [client EXCEPT ![s].pc = where, ![s].outcome = "error"]
    BY <1>4 DEF MisreadReply
  <2> DEFINE c == [client[s] EXCEPT !.pc = where, !.outcome = "error"]
  <2>2. c \in Clients /\ c.pc \in {"astray", "idle"} /\ c.cmd = client[s].cmd
        /\ c.file = client[s].file
    BY <1>1 DEF Clients
  <2>3. client' = [client EXCEPT ![s] = c]
    BY <2>1
  <2> HIDE DEF c
  <2> QED BY <1>1, <1>2, <2>2, <2>3, GoesOnOwning
<1>5. CASE LocalFileChanges(s)
  <2>1. PICK n \in Nat : client' = [client EXCEPT ![s].file = [i \in 1 .. n |-> s]]
    BY <1>5, BoundsAssumption DEF LocalFileChanges
  <2> DEFINE file == [i \in 1 .. n |-> s]
             c == [client[s] EXCEPT !.file = file]
  <2>2. Len(file) = n /\ \A i \in 1 .. n : file[i] = s
    BY FilledIs
  <2>3. client' = [client EXCEPT ![s] = c]
    BY <2>1
  <2> HIDE DEF file
  <2>4. c.pc = client[s].pc /\ c.cmd = client[s].cmd /\ c.file = file
    BY <1>1 DEF Clients
  <2>5. Sends(s, c)
    BY <1>1, <2>2, <2>4 DEF Sends
  <2> HIDE DEF c
  <2> QED BY <1>1, <1>2, <2>3, <2>5, OwnKeeps
<1> QED BY <1>3, <1>4, <1>5

LEMMA ClientOwns ==
  ASSUME Types, Own, NEW s \in Sessions,
         AskLogin(s) \/ AskCommand(s) \/ ClientAnswers(s) \/ LocalFileChanges(s) \/ GoAway(s)
  PROVE  Own'
<1>1. CASE AskLogin(s) \/ AskCommand(s)
  BY <1>1, AskOwns DEF AskLogin, AskCommand, Requests
<1>2. CASE LoseServer(s) \/ GoAway(s)
  BY <1>2, LeavesOwning DEF LoseServer, GoAway
<1>3. CASE LocalFileChanges(s) \/ MisreadReply(s)
  BY <1>3, LeavesOwning
<1>4. CASE ReadReply(s) \/ SendSize(s) \/ SendData(s) \/ SendFileReturns(s)
             \/ ReadResult(s) \/ RecvSize(s) \/ RecvData(s) \/ RecvFileReturns(s)
  BY <1>4, ReadReplyOwns, SendsOwn, ReceivesOwn
<1> QED BY <1>1, <1>2, <1>3, <1>4 DEF ClientAnswers

\* The worker only takes from the stream.
LEMMA ServerOwns ==
  ASSUME Types, Own, NEW s \in Sessions, ServerAnswers(s)
  PROVE  Own'
<1>1. up[s] \in Seq(Token) /\ Len(up[s]) \in Nat /\ OwnedBy(s, up[s]) /\ Sends(s, client[s])
  BY SameOwner, Typed
<1>2. client' = client
  BY DEF ServerAnswers, Quit, Login, List, Mkdir, RmStat, StatFile, Accepts, RmUnlink, Refuse,
         PutsReady, UploadSize, UploadOpen, UploadOpenFails, UploadGivesUp, UploadData,
         UploadWriteFails, UploadDone, GetsStat, DownloadOpen, DownloadOpenFails, DownloadSize,
         DownloadData, DownloadDone, MisreadCommand, LoseClient, SendFails
<1>3. \/ up' = up \/ up' = [up EXCEPT ![s] = <<>>]
      \/ \E k \in Nat : k <= Len(up[s]) /\ up' = [up EXCEPT ![s] = Rest(up[s], k)]
  <2>1. ASSUME NEW op, Reads(s, op), Drop(s, 1)
        PROVE  1 \in Nat /\ 1 <= Len(up[s]) /\ up' = [up EXCEPT ![s] = Rest(up[s], 1)]
    <3>1. Len(up[s]) >= 1
      BY <2>1, Typed DEF Reads, NextIs
    <3> QED BY <1>1, <2>1, <3>1 DEF Drop
  <2>2. CASE Quit(s) \/ DownloadOpenFails(s) \/ LoseClient(s) \/ SendFails(s)
    BY <2>2 DEF Quit, DownloadOpenFails, Hangup, LoseClient, SendFails
  <2>3. CASE Login(s) \/ List(s) \/ (\E op \in NamedOps : Refuse(s, op))
    BY <2>1, <2>3 DEF Login, List, Refuse
  <2>4. CASE Mkdir(s) \/ RmStat(s) \/ PutsReady(s) \/ GetsStat(s)
    BY <2>1, <2>4 DEF Mkdir, RmStat, PutsReady, GetsStat, StatFile, Accepts
  <2>5. CASE RmUnlink(s) \/ UploadOpen(s) \/ UploadOpenFails(s) \/ UploadDone(s) \/ DownloadOpen(s)
               \/ DownloadSize(s) \/ DownloadData(s) \/ DownloadDone(s)
    BY <2>5 DEF RmUnlink, UploadOpen, UploadOpenFails, UploadDone, DownloadOpen, DownloadSize,
                DownloadData, DownloadDone
  <2>6. CASE UploadSize(s)
    <3>1. Len(up[s]) >= 1 /\ Drop(s, 1)
      BY <2>6, Typed DEF UploadSize
    <3> QED BY <1>1, <3>1 DEF Drop
  <2>7. CASE UploadData(s) \/ UploadWriteFails(s)
    <3>1. PICK k \in Received(up[s], worker[s].size - worker[s].off) : Drop(s, k)
      BY <2>7 DEF UploadData, UploadWriteFails
    <3>2. k \in Nat /\ k <= Len(up[s])
      <4>1. worker[s].size - worker[s].off \in Int
        <5>1. worker[s].size \in Nat /\ worker[s].off \in Nat
          BY Typed
        <5> QED BY <5>1
      <4> QED BY <1>1, <4>1, ReceivedIs
    <3> QED BY <3>1, <3>2 DEF Drop
  <2>8. CASE MisreadCommand(s)
    BY <1>1, <2>8 DEF MisreadCommand, Hangup, Drop
  <2> QED BY <2>2, <2>3, <2>4, <2>5, <2>6, <2>7, <2>8 DEF ServerAnswers
<1>4. client' = [client EXCEPT ![s] = client[s]]
  BY <1>2, SameOwner
<1>5. CASE up' = up
  <2>1. up' = [up EXCEPT ![s] = up[s]]
    BY <1>5, SameOwner
  <2> QED BY <1>1, <1>4, <2>1, OwnKeeps
<1>6. CASE up' = [up EXCEPT ![s] = <<>>]
  <2>1. OwnedBy(s, <<>>)
    BY DEF OwnedBy
  <2> QED BY <1>1, <1>4, <1>6, <2>1, OwnKeeps
<1>7. ASSUME NEW k \in Nat, k <= Len(up[s]), up' = [up EXCEPT ![s] = Rest(up[s], k)]
      PROVE  Own'
  BY <1>1, <1>4, <1>7, RestIsOwned, OwnKeeps
<1> QED BY <1>3, <1>5, <1>6, <1>7

-----------------------------------------------------------------------------
(* What is in the files.                                                   *)

\* A step of s that writes nothing, and leaves what others write to alone.
LEMMA CalmKeeps ==
  ASSUME Types, SharedIsMarked, WrittenAsReceived, NEW s \in Sessions, NEW w,
         worker' = [worker EXCEPT ![s] = w],
         w.pc = "updata" =>
           /\ worker[s].pc = "updata" /\ w.fd = worker[s].fd /\ w.off = worker[s].off
           /\ w.shared = worker[s].shared /\ (~w.disturbed => ~worker[s].disturbed),
         \A t \in Sessions : worker'[t].pc = "updata" => data'[worker'[t].fd] = data[worker'[t].fd]
  PROVE  SharedIsMarked' /\ WrittenAsReceived'
<1>1. ASSUME NEW t \in Sessions, worker'[t].pc = "updata"
      PROVE  /\ worker[t].pc = "updata" /\ worker'[t].fd = worker[t].fd
             /\ worker'[t].off = worker[t].off /\ worker'[t].shared = worker[t].shared
             /\ ~worker'[t].disturbed => ~worker[t].disturbed
  <2>1. t = s => worker'[t] = w
    BY DEF Types
  <2>2. t # s => worker'[t] = worker[t]
    BY DEF Types
  <2> QED BY <1>1, <2>1, <2>2
<1>2. SharedIsMarked'
  BY <1>1 DEF SharedIsMarked, Writes
<1>3. WrittenAsReceived'
  BY <1>1 DEF WrittenAsReceived
<1> QED BY <1>2, <1>3

LEMMA SettleIsCalm ==
  ASSUME Types, SharedIsMarked, WrittenAsReceived, NEW s \in Sessions, NEW e, NEW w,
         w.pc # "updata", Settle(e, s, w)
  PROVE  SharedIsMarked' /\ WrittenAsReceived'
<1>1. worker' = [worker EXCEPT ![s] = w]
  BY DEF Settle
<1>2. ASSUME NEW t \in Sessions, worker'[t].pc = "updata"
      PROVE  data'[worker'[t].fd] = data[worker'[t].fd]
  <2>1. worker'[t].fd = worker[t].fd /\ worker[t].pc = "updata"
    <3>1. t # s
      BY <1>1, <1>2 DEF Types
    <3> QED BY <1>1, <1>2, <3>1 DEF Types
  <2>2. worker[t].fd \in Inodes
    BY <2>1, Typed DEF Opens
  <2>3. worker'[t].fd \in Held(e, worker')
    BY DEF Held
  <2>4. data' = [i \in Inodes |-> IF i \in Held(e, worker') THEN data[i] ELSE <<>>]
    BY <1>1 DEF Settle
  <2> QED BY <2>1, <2>2, <2>3, <2>4
<1> QED BY <1>1, <1>2, CalmKeeps

\* A step of the client changes no file, and of its worker's variables at most
\* the mark.
LEMMA ClientMarks ==
  ASSUME Types, NEW s \in Sessions,
         AskLogin(s) \/ AskCommand(s) \/ ClientAnswers(s) \/ LocalFileChanges(s) \/ GoAway(s)
  PROVE  /\ entry' = entry /\ data' = data
         /\ \E b \in BOOLEAN : worker' = [worker EXCEPT ![s].disturbed = b] /\ (~b => ~worker[s].disturbed)
<1>1. worker[s] \in Servers
  BY Typed
<1>2. entry' = entry /\ data' = data
  BY DEF AskLogin, AskCommand, Ask, ClientAnswers, ReadReply, SendSize, SendData, SendFileReturns,
         ReadResult, RecvSize, RecvData, RecvFileReturns, MisreadReply, LoseServer, Leave,
         LocalFileChanges, GoAway, disk
<1>3. worker' = worker \/ SendData(s) \/ SendFileReturns(s)
  BY DEF AskLogin, AskCommand, Ask, ClientAnswers, ReadReply, SendSize,
         ReadResult, RecvSize, RecvData, RecvFileReturns, MisreadReply, LoseServer, Leave,
         LocalFileChanges, GoAway
<1>4. \E b \in BOOLEAN : worker' = [worker EXCEPT ![s].disturbed = b] /\ (~b => ~worker[s].disturbed)
  <2>1. CASE worker' = worker
    <3>1. worker[s].disturbed \in BOOLEAN
      BY Typed
    <3>2. worker[s] = [worker[s] EXCEPT !.disturbed = worker[s].disturbed]
      BY <1>1 DEF Servers
    <3>3. worker' = [worker EXCEPT ![s] = worker[s]]
      BY <2>1 DEF Types
    <3> QED BY <3>1, <3>2, <3>3
  <2>2. CASE SendData(s)
    <3> DEFINE end == PieceEnd(client[s].moved, Len(client[s].file))
               b == worker[s].disturbed \/ end > client[s].want
    <3>1. worker' = [worker EXCEPT ![s].disturbed = b]
      BY <2>2 DEF SendData
    <3>2. b \in BOOLEAN /\ (~b => ~worker[s].disturbed)
      OBVIOUS
    <3> HIDE DEF b
    <3> QED BY <3>1, <3>2
  <2>3. CASE SendFileReturns(s)
    <3> DEFINE b == worker[s].disturbed \/ client[s].moved < client[s].want
    <3>1. worker' = [worker EXCEPT ![s].disturbed = b]
      BY <2>3 DEF SendFileReturns
    <3>2. b \in BOOLEAN /\ (~b => ~worker[s].disturbed)
      OBVIOUS
    <3> HIDE DEF b
    <3> QED BY <3>1, <3>2
  <2> QED BY <1>3, <2>1, <2>2, <2>3
<1> QED BY <1>2, <1>4

\* Every step of a client, and every step of a worker but two, is calm.
LEMMA ClientIsCalm ==
  ASSUME Types, SharedIsMarked, WrittenAsReceived, NEW s \in Sessions,
         AskLogin(s) \/ AskCommand(s) \/ ClientAnswers(s) \/ LocalFileChanges(s) \/ GoAway(s)
  PROVE  SharedIsMarked' /\ WrittenAsReceived'
<1>1. worker[s] \in Servers
  BY Typed
<1>2. data' = data
  BY ClientMarks
<1>3. PICK b \in BOOLEAN : worker' = [worker EXCEPT ![s].disturbed = b] /\ (~b => ~worker[s].disturbed)
  BY ClientMarks
<1> DEFINE w == [worker[s] EXCEPT !.disturbed = b]
<1>4. /\ w.pc = worker[s].pc /\ w.fd = worker[s].fd /\ w.off = worker[s].off
      /\ w.shared = worker[s].shared /\ w.disturbed = b
  BY <1>1 DEF Servers
<1>5. worker' = [worker EXCEPT ![s] = w]
  BY <1>3
<1> HIDE DEF w
<1> QED BY <1>2, <1>3, <1>4, <1>5, CalmKeeps

LEMMA ServerIsCalm ==
  ASSUME Types, SharedIsMarked, WrittenAsReceived, NEW s \in Sessions,
         ServerAnswers(s), ~UploadOpen(s), ~UploadData(s)
  PROVE  SharedIsMarked' /\ WrittenAsReceived'
<1>1. worker[s] \in Servers
  BY Typed
<1>2. ASSUME NEW w, worker' = [worker EXCEPT ![s] = w], w.pc # "updata", data' = data
      PROVE  SharedIsMarked' /\ WrittenAsReceived'
  <2>1. \A t \in Sessions : worker'[t].pc = "updata" => worker'[t].fd = worker[t].fd
    BY <1>2 DEF Types
  <2> QED BY <1>2, <2>1, CalmKeeps
<1>3. ASSUME worker' = worker, data' = data
      PROVE  SharedIsMarked' /\ WrittenAsReceived'
  BY <1>3 DEF SharedIsMarked, Writes, WrittenAsReceived
<1>4. /\ Back(s).pc = "recv" /\ Closed(s).pc = "closed"
      /\ \A b \in BOOLEAN : [Back(s) EXCEPT !.disturbed = b].pc = "recv"
  BY BackIs
<1>5. CASE Quit(s) \/ DownloadOpenFails(s)
  <2>1. worker' = [worker EXCEPT ![s] = Closed(s)] /\ data' = data
    BY <1>5 DEF Quit, DownloadOpenFails, Hangup, disk
  <2> QED BY <1>2, <1>4, <2>1
<1>6. CASE List(s) \/ (\E op \in NamedOps : Refuse(s, op)) \/ Mkdir(s)
  BY <1>3, <1>6 DEF List, Refuse, Mkdir, disk
<1>7. CASE Login(s)
  <2>1. PICK b : worker' = [worker EXCEPT ![s].login = b]
    BY <1>7 DEF Login
  <2> DEFINE w == [worker[s] EXCEPT !.login = b]
  <2>2. w.pc = "recv"
    BY <1>1, <1>7 DEF Login, Reads, Servers
  <2>3. worker' = [worker EXCEPT ![s] = w] /\ data' = data
    BY <1>7, <2>1 DEF Login, disk
  <2> HIDE DEF w
  <2> QED BY <1>2, <2>2, <2>3
<1>8. CASE RmStat(s) \/ GetsStat(s) \/ PutsReady(s)
  <2>1. PICK where \in {"unlink", "dlopen", "upsize"} :
          worker' = worker \/ worker' = [worker EXCEPT ![s].pc = where, ![s].req = Arg(s)]
    BY <1>8 DEF RmStat, GetsStat, PutsReady, StatFile
  <2>2. data' = data
    BY <1>8 DEF RmStat, GetsStat, PutsReady, StatFile, disk
  <2> DEFINE w == [worker[s] EXCEPT !.pc = where, !.req = Arg(s)]
  <2>3. w.pc = where
    BY <1>1 DEF Servers
  <2>4. worker' = worker \/ worker' = [worker EXCEPT ![s] = w]
    BY <2>1
  <2> HIDE DEF w
  <2> QED BY <1>2, <1>3, <2>2, <2>3, <2>4
<1>9. CASE UploadSize(s) \/ DownloadOpen(s) \/ DownloadSize(s)
  <2>1. /\ data' = data
        /\ \/ \E n : worker' = [worker EXCEPT ![s].pc = "upopen", ![s].size = n]
           \/ \E n : worker' = [worker EXCEPT ![s].pc = "dlsize", ![s].fd = n]
           \/ \E n : worker' = [worker EXCEPT ![s].pc = "dldata", ![s].size = n]
    BY <1>9 DEF UploadSize, DownloadOpen, DownloadSize, disk
  <2>2. PICK w : worker' = [worker EXCEPT ![s] = w] /\ w.pc \in {"upopen", "dlsize", "dldata"}
    <3>1. CASE \E n : worker' = [worker EXCEPT ![s].pc = "upopen", ![s].size = n]
      <4>1. PICK n : worker' = [worker EXCEPT ![s] = [worker[s] EXCEPT !.pc = "upopen", !.size = n]]
        BY <3>1
      <4>2. [worker[s] EXCEPT !.pc = "upopen", !.size = n].pc = "upopen"
        BY <1>1 DEF Servers
      <4> QED BY <4>1, <4>2
    <3>2. CASE \E n : worker' = [worker EXCEPT ![s].pc = "dlsize", ![s].fd = n]
      <4>1. PICK n : worker' = [worker EXCEPT ![s] = [worker[s] EXCEPT !.pc = "dlsize", !.fd = n]]
        BY <3>2
      <4>2. [worker[s] EXCEPT !.pc = "dlsize", !.fd = n].pc = "dlsize"
        BY <1>1 DEF Servers
      <4> QED BY <4>1, <4>2
    <3>3. CASE \E n : worker' = [worker EXCEPT ![s].pc = "dldata", ![s].size = n]
      <4>1. PICK n : worker' = [worker EXCEPT ![s] = [worker[s] EXCEPT !.pc = "dldata", !.size = n]]
        BY <3>3
      <4>2. [worker[s] EXCEPT !.pc = "dldata", !.size = n].pc = "dldata"
        BY <1>1 DEF Servers
      <4> QED BY <4>1, <4>2
    <3> QED BY <2>1, <3>1, <3>2, <3>3
  <2> QED BY <1>2, <2>1, <2>2
<1>10. CASE DownloadData(s)
  <2>1. PICK n, b : worker' = [worker EXCEPT ![s].off = n, ![s].disturbed = b]
    BY <1>10 DEF DownloadData
  <2> DEFINE w == [worker[s] EXCEPT !.off = n, !.disturbed = b]
  <2>2. w.pc = "dldata"
    BY <1>1, <1>10 DEF DownloadData, Servers
  <2>3. worker' = [worker EXCEPT ![s] = w] /\ data' = data
    BY <1>10, <2>1 DEF DownloadData, disk
  <2> HIDE DEF w
  <2> QED BY <1>2, <2>2, <2>3
<1>11. CASE RmUnlink(s) \/ UploadDone(s) \/ LoseClient(s) \/ SendFails(s)
  <2>1. CASE RmUnlink(s)
    <3>1. PICK e : Settle(e, s, Back(s))
      BY <2>1 DEF RmUnlink
    <3> QED BY <1>4, <3>1, SettleIsCalm
  <2>2. CASE UploadDone(s)
    <3>1. Settle(entry, s, Back(s))
      BY <2>2 DEF UploadDone
    <3> QED BY <1>4, <3>1, SettleIsCalm
  <2>3. CASE LoseClient(s)
    <3>1. CASE Settle(entry, s, Back(s))
      BY <1>4, <3>1, SettleIsCalm
    <3>2. CASE Settle(entry, s, Closed(s))
      BY <1>4, <3>2, SettleIsCalm
    <3> QED BY <2>3, <3>1, <3>2 DEF LoseClient
  <2>4. CASE SendFails(s)
    <3>1. Settle(entry, s, Closed(s))
      BY <2>4 DEF SendFails
    <3> QED BY <1>4, <3>1, SettleIsCalm
  <2> QED BY <1>11, <2>1, <2>2, <2>3, <2>4
<1>12. CASE UploadOpenFails(s) \/ UploadWriteFails(s) \/ DownloadDone(s)
  <2>1. PICK b \in BOOLEAN : Settle(entry, s, [Back(s) EXCEPT !.disturbed = b])
    <3>1. ASSUME NEW left, UploadGivesUp(s, left)
          PROVE  \E b \in BOOLEAN : Settle(entry, s, [Back(s) EXCEPT !.disturbed = b])
      <4> DEFINE b == Back(s).disturbed \/ left > 0
      <4>1. Settle(entry, s, [Back(s) EXCEPT !.disturbed = b]) /\ b \in BOOLEAN
        BY <3>1 DEF UploadGivesUp
      <4> HIDE DEF b
      <4> QED BY <4>1
    <3>2. ASSUME DownloadDone(s)
          PROVE  \E b \in BOOLEAN : Settle(entry, s, [Back(s) EXCEPT !.disturbed = b])
      <4> DEFINE b == Back(s).disturbed \/ worker[s].off < worker[s].size
      <4>1. Settle(entry, s, [Back(s) EXCEPT !.disturbed = b]) /\ b \in BOOLEAN
        BY <3>2 DEF DownloadDone
      <4> HIDE DEF b
      <4> QED BY <4>1
    <3> QED BY <1>12, <3>1, <3>2 DEF UploadOpenFails, UploadWriteFails
  <2> DEFINE w == [Back(s) EXCEPT !.disturbed = b]
  <2>2. w.pc # "updata"
    BY <1>4
  <2> HIDE DEF w
  <2> QED BY <2>1, <2>2, SettleIsCalm DEF w
<1>13. CASE MisreadCommand(s)
  <2>1. data' = data
    BY <1>13 DEF MisreadCommand, disk
  <2>2. PICK w : worker' = [worker EXCEPT ![s] = w] /\ w.pc \in {"closed", "astray", "recv"}
    <3>1. CASE Hangup(s)
      BY <1>4, <3>1 DEF Hangup
    <3>2. CASE ~Hangup(s)
      <4>1. PICK to \in {"astray", "recv"} : worker' = [worker EXCEPT ![s].pc = to]
        BY <1>13, <3>2 DEF MisreadCommand
      <4>2. worker' = [worker EXCEPT ![s] = [worker[s] EXCEPT !.pc = to]]
        BY <4>1
      <4>3. [worker[s] EXCEPT !.pc = to].pc = to
        BY <1>1 DEF Servers
      <4> QED BY <4>2, <4>3
    <3> QED BY <3>1, <3>2
  <2> QED BY <1>2, <2>1, <2>2
<1> QED BY <1>5, <1>6, <1>7, <1>8, <1>9, <1>10, <1>11, <1>12, <1>13 DEF ServerAnswers

-----------------------------------------------------------------------------
(* The two steps that write.                                               *)

LEMMA OpenKeepsContent ==
  ASSUME IInv, SharedIsMarked, WrittenAsReceived, NEW s \in Sessions, UploadOpen(s)
  PROVE  SharedIsMarked' /\ WrittenAsReceived'
<1> DEFINE name == worker[s].req
           inode == IF entry[name] = 0 THEN FreeInode ELSE entry[name]
<1>1. /\ worker[s] \in Servers /\ worker[s].pc = "upopen" /\ Opens(worker[s])
      /\ entry[worker[s].req] # Dir
  BY Typed DEF IInv, UploadOpen
<1>2. data' = [data EXCEPT ![inode] = <<>>] /\ worker' = Opened(s, inode)
  BY DEF UploadOpen
<1>3. name \in Names /\ worker[s].fd = 0 /\ worker[s].off = 0
  BY <1>1 DEF Opens, Servers
<1>4. inode \in Inodes
  BY <1>1, <1>3, FreeInodeIs DEF IInv, Types
<1> HIDE DEF inode, name
<1> DEFINE others == Writers(inode)
<1>5. /\ worker'[s].pc = "updata" /\ worker'[s].fd = inode /\ worker'[s].off = 0
      /\ worker'[s].shared = (others # {})
  <2>1. worker'[s] = [worker[s] EXCEPT !.pc = "updata", !.fd = inode, !.shared = others # {}]
    BY <1>2 DEF Opened
  <2> HIDE DEF others
  <2> QED BY <1>1, <1>3, <2>1 DEF Servers
<1>6. ASSUME NEW t \in Sessions \ {s}
      PROVE  /\ worker'[t].pc = worker[t].pc /\ worker'[t].fd = worker[t].fd
             /\ worker'[t].off = worker[t].off /\ worker'[t].disturbed = worker[t].disturbed
             /\ worker'[t].shared = (worker[t].shared \/ t \in others)
  <2>1. worker'[t] = [worker[t] EXCEPT !.shared = @ \/ t \in others]
    BY <1>2 DEF Opened
  <2>2. worker[t] \in Servers
    BY Typed DEF IInv
  <2> HIDE DEF others
  <2> QED BY <2>1, <2>2 DEF Servers
<1>7. others = {t \in Sessions : worker[t].pc = "updata" /\ worker[t].fd = inode}
  BY DEF Writers
<1> HIDE DEF others
<1>8. SharedIsMarked'
  <2> SUFFICES ASSUME NEW t \in Sessions, NEW v \in Sessions, NEW i \in Inodes, t # v,
                      worker'[t].pc = "updata", worker'[t].fd = i,
                      worker'[v].pc = "updata", worker'[v].fd = i
               PROVE  worker'[t].shared /\ worker'[v].shared
    BY DEF SharedIsMarked, Writes
  <2>1. ASSUME NEW x \in Sessions \ {s}, worker'[x].pc = "updata", worker'[x].fd = inode
        PROVE  worker'[x].shared /\ worker'[s].shared
    BY <1>5, <1>6, <1>7, <2>1
  <2>2. CASE t = s
    BY <1>5, <2>1, <2>2
  <2>3. CASE v = s
    BY <1>5, <2>1, <2>3
  <2>4. CASE t # s /\ v # s
    <3>1. Writes(t, i) /\ Writes(v, i)
      BY <1>6, <2>4 DEF Writes
    <3>2. worker[t].shared /\ worker[v].shared
      BY <3>1 DEF SharedIsMarked
    <3> QED BY <1>6, <2>4, <3>2
  <2> QED BY <2>2, <2>3, <2>4
<1>9. WrittenAsReceived'
  <2> SUFFICES ASSUME NEW t \in Sessions, worker'[t].pc = "updata",
                      ~worker'[t].disturbed, ~worker'[t].shared
               PROVE  data'[worker'[t].fd] = [i \in 1 .. worker'[t].off |-> t]
    BY DEF WrittenAsReceived
  <2>1. CASE t = s
    <3>1. data'[inode] = <<>>
      BY <1>2, <1>4 DEF IInv, Types
    <3>2. [i \in 1 .. 0 |-> s] = <<>>
      OBVIOUS
    <3> QED BY <1>5, <2>1, <3>1, <3>2
  <2>2. CASE t # s
    <3>1. /\ worker[t].pc = "updata" /\ ~worker[t].disturbed /\ ~worker[t].shared
          /\ worker[t].fd # inode
      BY <1>6, <1>7, <2>2
    <3>2. data[worker[t].fd] = [i \in 1 .. worker[t].off |-> t]
      BY <3>1 DEF WrittenAsReceived
    <3>3. worker[t].fd \in Inodes
      BY <3>1, Typed DEF IInv, Opens
    <3>4. data'[worker[t].fd] = data[worker[t].fd]
      BY <1>2, <3>1, <3>3 DEF IInv, Types
    <3> QED BY <1>6, <2>2, <3>2, <3>4
  <2> QED BY <2>1, <2>2
<1> QED BY <1>8, <1>9

\* One more piece at the end of what is there.
LEMMA PieceIsAppended ==
  ASSUME NEW s \in Sessions, NEW off \in Nat, NEW k \in Nat
  PROVE  Written([i \in 1 .. off |-> s], off, [i \in 1 .. k |-> s]) = [i \in 1 .. off + k |-> s]
<1> DEFINE old == [i \in 1 .. off |-> s]
           piece == [i \in 1 .. k |-> s]
           end == off + Len(piece)
<1>1. /\ Len(old) = off /\ Len(piece) = k
      /\ (\A i \in 1 .. off : old[i] = s) /\ (\A i \in 1 .. k : piece[i] = s)
  BY FilledIs
<1>2. Written(old, off, piece) =
        [i \in 1 .. (IF Len(old) > end THEN Len(old) ELSE end) |->
           IF i \in (off + 1) .. end THEN piece[i - off]
           ELSE IF i <= Len(old) THEN old[i] ELSE "zero"]
  BY DEF Written
<1> HIDE DEF old, piece
<1>3. (IF Len(old) > end THEN Len(old) ELSE end) = off + k
  BY <1>1
<1>4. ASSUME NEW i \in 1 .. off + k
      PROVE  (IF i \in (off + 1) .. end THEN piece[i - off]
              ELSE IF i <= Len(old) THEN old[i] ELSE "zero") = s
  <2>1. CASE i <= off
    BY <1>1, <2>1
  <2>2. CASE i > off
    <3>1. i - off \in 1 .. k /\ i \in (off + 1) .. end
      BY <1>1, <2>2
    <3> QED BY <1>1, <3>1
  <2> QED BY <2>1, <2>2
<1>5. Written(old, off, piece) = [i \in 1 .. off + k |-> s]
  <2> HIDE DEF end
  <2> QED BY <1>2, <1>3, <1>4
<1> QED BY <1>5 DEF old, piece

LEMMA DataKeepsContent ==
  ASSUME IInv, Own, SharedIsMarked, WrittenAsReceived, NEW s \in Sessions, UploadData(s)
  PROVE  SharedIsMarked' /\ WrittenAsReceived'
<1>1. /\ worker[s] \in Servers /\ worker[s].pc = "updata" /\ worker[s].fd \in Inodes
      /\ up[s] \in Seq(Token) /\ Len(up[s]) \in Nat /\ worker[s].off \in Nat /\ worker[s].size \in Nat
  BY Typed DEF IInv, UploadData, Opens
<1>2. PICK k \in Received(up[s], worker[s].size - worker[s].off) :
        /\ data' = [data EXCEPT ![worker[s].fd] =
                      Written(@, worker[s].off, Payload(First(up[s], k)))]
        /\ worker' = [worker EXCEPT ![s].off = @ + k]
  BY DEF UploadData
<1>3. k \in Nat /\ k >= 1 /\ k <= Len(up[s])
  BY <1>1, ReceivedIs
<1> DEFINE fd == worker[s].fd
<1>4. /\ worker'[s].pc = "updata" /\ worker'[s].fd = fd /\ worker'[s].off = worker[s].off + k
      /\ worker'[s].shared = worker[s].shared /\ worker'[s].disturbed = worker[s].disturbed
  <2>1. worker'[s] = [worker[s] EXCEPT !.off = @ + k]
    BY <1>2 DEF IInv, Types
  <2> QED BY <1>1, <2>1 DEF Servers
<1>5. \A t \in Sessions \ {s} : worker'[t] = worker[t]
  BY <1>2 DEF IInv, Types
<1>6. SharedIsMarked'
  <2>1. \A t \in Sessions :
          /\ worker'[t].pc = worker[t].pc /\ worker'[t].fd = worker[t].fd
          /\ worker'[t].shared = worker[t].shared
    BY <1>1, <1>4, <1>5
  <2> QED BY <2>1 DEF SharedIsMarked, Writes
<1>7. WrittenAsReceived'
  <2> SUFFICES ASSUME NEW t \in Sessions, worker'[t].pc = "updata",
                      ~worker'[t].disturbed, ~worker'[t].shared
               PROVE  data'[worker'[t].fd] = [i \in 1 .. worker'[t].off |-> t]
    BY DEF WrittenAsReceived
  <2>1. CASE t = s
    <3>1. data[fd] = [i \in 1 .. worker[s].off |-> s]
      BY <1>1, <1>4, <2>1 DEF WrittenAsReceived
    <3>2. ContentAfter(up[s], 0)
      <4>1. UploadRuns(s) \/ Abandoned(s)
        BY <1>1, <1>4, <2>1, ByWorker DEF IInv, Phases
      <4> QED BY <1>1, <4>1 DEF UploadRuns, Abandoned
    <3>3. Payload(First(up[s], k)) = [i \in 1 .. k |-> s]
      <4>1. \A i \in 1 .. k : up[s][i].tag = "data" /\ up[s][i].unit = s
        <5>1. \A i \in 1 .. k : i \in 1 .. Len(up[s]) /\ i \in 0 + 1 .. Len(up[s])
          BY <1>1, <1>3
        <5> QED BY <3>2, <5>1 DEF ContentAfter, Own, OwnedBy
      <4> DEFINE q == First(up[s], k)
      <4>2. Len(q) = k /\ DOMAIN q = 1 .. k /\ \A i \in 1 .. k : q[i] = up[s][i]
        BY <1>1, <1>3 DEF First
      <4> HIDE DEF q
      <4>3. Payload(q) = [i \in 1 .. k |-> s]
        BY <4>1, <4>2 DEF Payload
      <4> QED BY <4>3 DEF q
    <3>4. data'[fd] = Written(data[fd], worker[s].off, Payload(First(up[s], k)))
      BY <1>1, <1>2 DEF IInv, Types
    <3> DEFINE off == worker[s].off
    <3>5. Written([i \in 1 .. off |-> s], off, [i \in 1 .. k |-> s]) = [i \in 1 .. off + k |-> s]
      BY <1>1, <1>3, PieceIsAppended
    <3>6. data'[fd] = [i \in 1 .. off + k |-> s]
      BY <3>1, <3>3, <3>4, <3>5
    <3>7. worker'[t].fd = fd /\ worker'[t].off = off + k /\ t = s
      BY <1>4, <2>1
    <3> HIDE DEF fd, off
    <3> QED BY <3>6, <3>7
  <2>2. CASE t # s
    <3>1. worker'[t] = worker[t]
      BY <1>5, <2>2
    <3>2. worker[t].fd \in Inodes
      BY <3>1, Typed DEF IInv, Opens
    <3>3. worker[t].fd # fd
      BY <1>1, <2>2, <3>1, <3>2 DEF SharedIsMarked, Writes
    <3>4. data'[worker[t].fd] = data[worker[t].fd]
      BY <1>2, <3>2, <3>3 DEF IInv, Types
    <3>5. data[worker[t].fd] = [i \in 1 .. worker[t].off |-> t]
      BY <3>1 DEF WrittenAsReceived
    <3> QED BY <3>1, <3>4, <3>5
  <2> QED BY <2>1, <2>2
<1> QED BY <1>6, <1>7

-----------------------------------------------------------------------------
(* The theorem.                                                            *)

LEMMA InitOwns == Init => FInv
<1> SUFFICES ASSUME Init PROVE FInv
  OBVIOUS
<1>1. IInv
  BY InitHolds
<1>2. Newcomer.pc = "login" /\ Newcomer.cmd.op = "none" /\ Fresh.pc = "recv"
  BY DEF Newcomer, Command, Fresh
<1>3. Own
  BY <1>2 DEF Init, Own, Sends, OwnedBy
<1>4. SharedIsMarked /\ WrittenAsReceived
  BY <1>2 DEF Init, SharedIsMarked, Writes, WrittenAsReceived
<1> QED BY <1>1, <1>3, <1>4 DEF FInv

LEMMA NextOwns == FInv /\ [Next]_vars => FInv'
<1> SUFFICES ASSUME FInv, [Next]_vars PROVE FInv'
  OBVIOUS
<1>1. IInv /\ Types /\ Own /\ SharedIsMarked /\ WrittenAsReceived
  BY DEF FInv, IInv
<1>2. IInv'
  BY <1>1, NextKeeps
<1>3. CASE UNCHANGED vars \/ Terminated
  <2>1. UNCHANGED <<client, worker, up, down, entry, data>>
    BY <1>3 DEF Terminated, vars, disk
  <2> QED BY <1>1, <1>2, <2>1 DEF FInv, Own, SharedIsMarked, Writes, WrittenAsReceived
<1>4. ASSUME NEW s \in Sessions,
             AskLogin(s) \/ AskCommand(s) \/ ClientAnswers(s) \/ LocalFileChanges(s) \/ GoAway(s)
      PROVE  FInv'
  BY <1>1, <1>2, <1>4, ClientOwns, ClientIsCalm DEF FInv
<1>5. ASSUME NEW s \in Sessions, ServerAnswers(s)
      PROVE  FInv'
  <2>1. Own'
    BY <1>1, <1>5, ServerOwns
  <2>2. SharedIsMarked' /\ WrittenAsReceived'
    BY <1>1, <1>5, OpenKeepsContent, DataKeepsContent, ServerIsCalm
  <2> QED BY <1>2, <2>1, <2>2 DEF FInv
<1> QED BY <1>3, <1>4, <1>5 DEF Next

\* Whatever other sessions do to the name meanwhile, and wherever the upload of
\* a session in step breaks off, the file its worker writes is what it has
\* received so far and nothing else, for any sessions, names, lengths and pieces,
\* unless another upload has the same file open (server/file_transfer.c:27-56).
THEOREM UploadsHoldWhatArrived == Spec => []WrittenAsReceived
<1>1. Init => FInv
  BY InitOwns
<1>2. FInv /\ [Next]_vars => FInv'
  BY NextOwns
<1>3. FInv => WrittenAsReceived
  BY DEF FInv
<1> QED BY <1>1, <1>2, <1>3, PTL DEF Spec

-----------------------------------------------------------------------------
(* Transfers of a session that has the server's files to itself: from the  *)
(* command to the reply, what lies in the file, what is under way and what *)
(* the client holds belong together.  The phases say how much is where;    *)
(* this says what it is.                                                   *)

\* The server's file of the name in the client's command.
Name(s) == client[s].cmd.name
Exists(s) == Name(s) \in Names /\ entry[Name(s)] \in Inodes
File(s) == data[entry[Name(s)]]

\* The client has the good news only when its command is over, and has sent
\* no more than its file holds.
Honest(c) ==
  /\ c.pc # "idle" => c.outcome # "ok"
  /\ c.pc = "result" \/ (c.pc = "senddata" /\ c.moved >= c.want) => c.want <= Len(c.file)

\* The worker is about the name in the command, and has its file open.
Receives(s) == Announced(s) \/ client[s].pc = "recvdata"
Aims(s) ==
  /\ worker[s].pc \in {"upsize", "upopen", "dlopen"} => worker[s].req = Name(s)
  /\ worker[s].pc \in {"updata", "dlsize"} \/ (worker[s].pc = "dldata" /\ Receives(s)) =>
       Exists(s) /\ worker[s].fd = entry[Name(s)]
  /\ worker[s].pc = "updata" => ~worker[s].shared

\* An upload that is about to be reported.
Stored(s) ==
  client[s].pc \in {"senddata", "result"} /\ worker[s].pc = "recv" /\ down[s][1].ok =>
    Exists(s) /\ File(s) = [i \in 1 .. client[s].want |-> s]

\* What follows the first k tokens is the file, from a place on.
Follows(q, k, file, from) ==
  \A i \in 1 .. Len(q) - k : q[k + i].unit = file[from + i]

\* A download before and after the client has read the size.
Serving(s) == worker[s].pc \in {"dldata", "recv"}
Promised(s) ==
  LET k == Lead(client[s]) + 1
  IN  Announced(s) /\ Serving(s) =>
        Exists(s) /\ down[s][k].n = Len(File(s)) /\ Follows(down[s], k, File(s), 0)
Copied(s) ==
  LET file == client[s].file
  IN  client[s].pc = "recvdata" /\ Serving(s) =>
        /\ Exists(s) /\ client[s].want = Len(File(s))
        /\ \A i \in 1 .. Len(file) : file[i] = File(s)[i]
        /\ Follows(down[s], 0, File(s), Len(file))

Finished(s) ==
  client[s].pc = "idle" /\ client[s].outcome = "ok" => Exists(s) /\ File(s) = Moved(s)

Exact(s) ==
  Honest(client[s]) /\ Aims(s) /\ Stored(s) /\ Promised(s) /\ Copied(s) /\ Finished(s)

\* Only a worker that has logged its client in does more than read commands.
Known ==
  \A s \in Sessions : ~worker[s].login => worker[s].pc \in {"recv", "astray", "closed"}

XInv ==
  /\ FInv /\ Known
  /\ \A s \in Sessions :
       Alone(s) /\ client[s].pc # "gone" /\ ~worker[s].disturbed => Exact(s)

\* A step of a session that goes on undisturbed, alone with the files.
GoesOn(s) ==
  /\ FInv /\ FInv' /\ Known /\ Alone(s) /\ Exact(s)
  /\ ~worker[s].disturbed /\ ~worker'[s].disturbed
  /\ client[s].pc # "gone" /\ client'[s].pc # "gone"

LEMMA GoesOnIn ==
  ASSUME NEW s \in Sessions, GoesOn(s)
  PROVE  /\ Types /\ Phase(s) /\ Phase(s)' /\ Sends(s, client[s]) /\ ~Abandoned(s)
         /\ client'[s] \in Clients /\ worker'[s] \in Servers
         /\ down'[s] \in Seq(Token) /\ Len(down'[s]) \in Nat
<1>1. Types /\ Phase(s) /\ Sends(s, client[s])
  BY DEF GoesOn, FInv, IInv, Phases, Own
<1>2. Phase(s)' /\ Types'
  BY DEF GoesOn, FInv, IInv, Phases
<1>3. ~Abandoned(s)
  BY DEF GoesOn, Abandoned
<1>4. client'[s] \in Clients /\ worker'[s] \in Servers /\ down'[s] \in Seq(Token)
  BY <1>2 DEF Types
<1>5. Len(down'[s]) \in Nat
  BY <1>4
<1> QED BY <1>1, <1>2, <1>3, <1>4, <1>5

-----------------------------------------------------------------------------
(* What a step leaves as it is.                                            *)

\* Where no transfer is on, there is nothing to be exact about.
LEMMA Elsewhere ==
  ASSUME NEW s \in Sessions, client'[s].outcome # "ok",
         client'[s].pc \notin {"senddata", "result", "recvdata"},
         worker'[s].pc \notin {"upsize", "upopen", "updata", "dlopen", "dlsize"},
         ~Announced(s)'
  PROVE  Exact(s)'
BY DEF Exact, Honest, Aims, Receives, Stored, Promised, Copied, Finished

LEMMA NotAnnounced ==
  ASSUME NEW s \in Sessions, down'[s] \in Seq(Token),
         \/ client'[s].pc \notin {"reply", "recvsize"}
         \/ down'[s] = <<>>
         \/ client'[s].pc = "reply" /\ Len(down'[s]) <= 1
  PROVE  ~Announced(s)'
<1>1. Len(down'[s]) \in Nat /\ (down'[s] = <<>> => Len(down'[s]) = 0)
  OBVIOUS
<1>2. ASSUME Announced(s)'
      PROVE  /\ client'[s].pc \in {"reply", "recvsize"}
             /\ Len(down'[s]) >= 1 /\ (client'[s].pc = "reply" => Len(down'[s]) >= 2)
  BY <1>1, <1>2 DEF Announced, Fetching, Lead
<1> QED BY <1>1, <1>2

\* A file that has the name stays as it is, until a step writes or unlinks.
LEMMA FilesStay ==
  ASSUME Types, NEW s \in Sessions, client'[s].cmd = client[s].cmd,
         entry' = entry, data' = data \/ \E w : Settle(entry, s, w)
  PROVE  Exists(s) => Exists(s)' /\ File(s)' = File(s)
<1> SUFFICES ASSUME Exists(s) PROVE Exists(s)' /\ File(s)' = File(s)
  OBVIOUS
<1>1. Name(s)' = Name(s)
  BY DEF Name
<1>2. Exists(s)'
  BY <1>1 DEF Exists, Inodes
<1>3. data'[entry[Name(s)]] = data[entry[Name(s)]]
  <2>1. CASE data' = data
    BY <2>1
  <2>2. ASSUME NEW w, Settle(entry, s, w)
        PROVE  data'[entry[Name(s)]] = data[entry[Name(s)]]
    <3> DEFINE held == Held(entry, [worker EXCEPT ![s] = w])
    <3>1. data' = [i \in Inodes |-> IF i \in held THEN data[i] ELSE <<>>]
      BY <2>2 DEF Settle
    <3>2. entry[Name(s)] \in held /\ entry[Name(s)] \in Inodes
      BY DEF Exists, Held
    <3> HIDE DEF held
    <3> QED BY <3>1, <3>2
  <2> QED BY <2>1, <2>2
<1> QED BY <1>1, <1>2, <1>3 DEF File

LEMMA AimsStay ==
  ASSUME NEW s \in Sessions, Aims(s), client'[s].cmd = client[s].cmd, entry' = entry,
         worker'[s].pc = worker[s].pc, worker'[s].req = worker[s].req,
         worker'[s].fd = worker[s].fd, worker'[s].shared = worker[s].shared,
         worker[s].pc = "dldata" /\ Receives(s)' => Receives(s)
  PROVE  Aims(s)'
BY DEF Aims, Exists, Name, Inodes

-----------------------------------------------------------------------------
(* Steps of the client.                                                    *)

LEMMA AskIsExact ==
  ASSUME NEW s \in Sessions, GoesOn(s), client[s].pc \in {"login", "idle"}, NEW r, Ask(s, r)
  PROVE  Exact(s)'
<1>1. Types /\ Between(s)
  BY GoesOnIn, ByClient
<1>2. client'[s].pc = "reply" /\ client'[s].outcome = "none"
  <2>1. PICK file : client' = [client EXCEPT ![s] =
                      [Newcomer EXCEPT !.pc = "reply", !.cmd = r, !.file = file]]
    BY DEF Ask
  <2>2. client'[s] = [Newcomer EXCEPT !.pc = "reply", !.cmd = r, !.file = file]
    BY <1>1, <2>1 DEF Types
  <2> QED BY <2>2 DEF Newcomer
<1>3. down' = down /\ worker' = worker
  BY DEF Ask
<1>4. down'[s] = <<>> /\ worker'[s].pc \in {"recv", "dldata"}
  BY <1>1, <1>3 DEF Between, Quiet, AtCommands
<1> QED BY <1>2, <1>4, GoesOnIn, NotAnnounced, Elsewhere

LEMMA ReadReplyIsExact ==
  ASSUME NEW s \in Sessions, GoesOn(s), ReadReply(s)
  PROVE  Exact(s)'
<1> DEFINE op == client[s].cmd.op
           to == AfterReply(op, down[s][1].ok)
<1>1. /\ Types /\ client[s] \in Clients /\ client[s].pc = "reply" /\ Exact(s)
      /\ down[s] \in Seq(Token) /\ down[s] # <<>> /\ Len(down[s]) \in Nat /\ Len(down[s]) >= 1
      /\ Asked(s) \/ Answered(s) \/ Removing(s) \/ Invited(s) \/ DownloadOpens(s) \/ DownloadStarts(s)
  BY GoesOnIn, ByClient, Typed DEF ReadReply, At, NextIs, GoesOn
<1>2. op # "quit" /\ client'[s] = [client[s] EXCEPT !.pc = to]
  <2>1. client' = [client EXCEPT ![s] = IF op = "quit" THEN Gone ELSE [client[s] EXCEPT !.pc = to]]
    BY DEF ReadReply
  <2>2. client'[s] = IF op = "quit" THEN Gone ELSE [client[s] EXCEPT !.pc = to]
    BY <1>1, <2>1 DEF Types
  <2> QED BY <2>2, GoneIs DEF GoesOn
<1>3. /\ client'[s].pc = to /\ client'[s].cmd = client[s].cmd /\ client'[s].file = client[s].file
      /\ client'[s].outcome = client[s].outcome /\ client'[s].outcome # "ok"
  <2> HIDE DEF to
  <2> QED BY <1>1, <1>2 DEF Clients, Exact, Honest
<1>4. down'[s] = Rest(down[s], 1) /\ worker' = worker /\ entry' = entry /\ data' = data
  BY <1>1, <1>2 DEF ReadReply, Types, disk
<1>5. /\ to \in {"idle", "login", "sendsize", "recvsize"}
      /\ to = "sendsize" <=> op = "puts" /\ down[s][1].ok
      /\ to = "recvsize" <=> op = "gets" /\ down[s][1].ok
  BY DEF AfterReply
<1>6. Honest(client'[s]) /\ Stored(s)' /\ Copied(s)' /\ (to # "idle" => Finished(s)')
  BY <1>3, <1>5 DEF Honest, Stored, Copied, Finished
<1> HIDE DEF to
<1>7. CASE Answered(s)
  <2>1. to \in {"idle", "login"} /\ worker'[s].pc = "recv"
    BY <1>2, <1>4, <1>5, <1>7 DEF Answered
  <2> QED BY <1>3, <2>1, GoesOnIn, NotAnnounced, Elsewhere
<1>8. CASE Invited(s)
  <2>1. to = "sendsize"
    BY <1>1, <1>5, <1>8 DEF Invited, InCommand
  <2>2. ~Announced(s)' /\ ~Receives(s)'
    BY <1>3, <2>1, GoesOnIn, NotAnnounced DEF Receives
  <2>3. Aims(s)'
    BY <1>1, <1>3, <1>4, <2>2, AimsStay DEF Exact
  <2>4. Promised(s)'
    BY <2>2 DEF Promised
  <2> QED BY <1>6, <2>1, <2>3, <2>4 DEF Exact
<1>9. CASE DownloadOpens(s)
  <2>1. to = "recvsize" /\ worker'[s].pc \in {"dlopen", "dlsize", "closed"}
    BY <1>1, <1>4, <1>5, <1>9 DEF DownloadOpens, Fetching, InCommand
  <2>2. Aims(s)'
    BY <1>1, <1>3, <1>4, <2>1, AimsStay DEF Exact
  <2>3. Promised(s)'
    BY <2>1 DEF Promised, Serving
  <2> QED BY <1>6, <2>1, <2>2, <2>3 DEF Exact
<1>10. CASE DownloadStarts(s)
  <2>1. to = "recvsize" /\ Announced(s) /\ Lead(client[s]) = 1 /\ Lead(client'[s]) = 0
    BY <1>1, <1>3, <1>5, <1>10 DEF DownloadStarts, Announced, Fetching, InCommand, Lead
  <2>2. Aims(s)'
    BY <1>1, <1>3, <1>4, <2>1, AimsStay DEF Exact, Receives
  <2>3. Promised(s)'
    <3> SUFFICES ASSUME Serving(s)'
                 PROVE  Exists(s)' /\ down'[s][1].n = Len(File(s)') /\ Follows(down'[s], 1, File(s)', 0)
      BY <2>1 DEF Promised
    <3>1. Exists(s) /\ down[s][2].n = Len(File(s)) /\ Follows(down[s], 2, File(s), 0)
      BY <1>1, <1>4, <2>1 DEF Exact, Promised, Serving
    <3>2. Exists(s)' /\ File(s)' = File(s)
      BY <1>1, <1>3, <1>4, <3>1, FilesStay
    <3>3. Len(down[s]) >= 2
      BY <1>1, <2>1 DEF Announced
    <3>4. /\ Len(down'[s]) = Len(down[s]) - 1
          /\ \A j \in 1 .. Len(down[s]) - 1 : down'[s][j] = down[s][1 + j]
      BY <1>1, <1>4, RestOne
    <3>5. down'[s][1].n = down[s][2].n
      BY <1>1, <3>3, <3>4
    <3>6. ASSUME NEW i \in 1 .. Len(down'[s]) - 1 PROVE down'[s][1 + i].unit = File(s)[0 + i]
      <4>1. i \in 1 .. Len(down[s]) - 2 /\ 1 + i \in 1 .. Len(down[s]) - 1 /\ 1 + (1 + i) = 2 + i
        BY <1>1, <3>3, <3>4
      <4> QED BY <3>1, <3>4, <4>1 DEF Follows
    <3> QED BY <3>1, <3>2, <3>5, <3>6 DEF Follows
  <2> QED BY <1>6, <2>1, <2>2, <2>3 DEF Exact
<1> QED BY <1>1, <1>7, <1>8, <1>9, <1>10 DEF Asked, Removing, Quiet

LEMMA SendSizeIsExact ==
  ASSUME NEW s \in Sessions, GoesOn(s), SendSize(s)
  PROVE  Exact(s)'
<1>1. /\ Types /\ client[s] \in Clients /\ client[s].pc = "sendsize" /\ Invited(s) /\ Exact(s)
      /\ Len(client[s].file) \in Nat
  BY GoesOnIn, ByClient, Typed DEF SendSize, At, GoesOn
<1> DEFINE n == Len(client[s].file)
<1>2. client'[s] = [client[s] EXCEPT !.pc = "senddata", !.want = n]
  BY <1>1 DEF SendSize, Types
<1>3. /\ client'[s].pc = "senddata" /\ client'[s].cmd = client[s].cmd
      /\ client'[s].file = client[s].file /\ client'[s].want = n
      /\ client'[s].outcome = client[s].outcome
  BY <1>1, <1>2 DEF Clients
<1>4. worker' = worker /\ entry' = entry /\ data' = data /\ worker[s].pc = "upsize"
  BY <1>1 DEF SendSize, disk, Invited
<1>5. ~Announced(s)' /\ ~Receives(s)'
  BY <1>3, GoesOnIn, NotAnnounced DEF Receives
<1>6. Aims(s)'
  BY <1>1, <1>3, <1>4, <1>5, AimsStay DEF Exact
<1>7. Honest(client'[s])
  BY <1>1, <1>3 DEF Exact, Honest
<1> QED BY <1>3, <1>4, <1>5, <1>6, <1>7 DEF Exact, Stored, Promised, Copied, Finished

\* The rest of sending: what was stored stays, and nothing is received.
LEMMA SendingIsExact ==
  ASSUME NEW s \in Sessions, GoesOn(s), client[s].pc = "senddata",
         client'[s].pc \in {"senddata", "result"}, client'[s].cmd = client[s].cmd,
         client'[s].want = client[s].want, Honest(client'[s]),
         worker'[s].pc = worker[s].pc, worker'[s].req = worker[s].req,
         worker'[s].fd = worker[s].fd, worker'[s].shared = worker[s].shared,
         down' = down, entry' = entry, data' = data
  PROVE  Exact(s)'
<1>1. Types /\ Exact(s)
  BY GoesOnIn DEF GoesOn
<1>2. ~Announced(s)' /\ ~Receives(s)'
  BY GoesOnIn, NotAnnounced DEF Receives
<1>3. Aims(s)'
  BY <1>1, <1>2, AimsStay DEF Exact
<1>4. Stored(s)'
  <2> SUFFICES ASSUME worker'[s].pc = "recv", down'[s][1].ok
               PROVE  Exists(s)' /\ File(s)' = [i \in 1 .. client'[s].want |-> s]
    BY DEF Stored
  <2>1. Exists(s) /\ File(s) = [i \in 1 .. client[s].want |-> s]
    BY <1>1 DEF Exact, Stored
  <2>2. Exists(s)' /\ File(s)' = File(s)
    BY <1>1, <2>1, FilesStay
  <2> QED BY <2>1, <2>2
<1> QED BY <1>2, <1>3, <1>4 DEF Exact, Promised, Copied, Finished

LEMMA SendDataIsExact ==
  ASSUME NEW s \in Sessions, GoesOn(s), SendData(s) \/ SendFileReturns(s) \/ LocalFileChanges(s)
  PROVE  Exact(s)'
<1>1. /\ Types /\ client[s] \in Clients /\ worker[s] \in Servers /\ client[s].pc = "senddata"
      /\ client[s].moved \in Nat /\ client[s].want \in Nat /\ Len(client[s].file) \in Nat
      /\ Honest(client[s])
  BY GoesOnIn, Typed DEF SendData, SendFileReturns, LocalFileChanges, At, GoesOn, Exact
<1>2. CASE SendData(s)
  <2> DEFINE end == PieceEnd(client[s].moved, Len(client[s].file))
             over == worker[s].disturbed \/ end > client[s].want
  <2>1. /\ client'[s] = [client[s] EXCEPT !.moved = end]
        /\ worker'[s] = [worker[s] EXCEPT !.disturbed = over]
        /\ down' = down /\ entry' = entry /\ data' = data
        /\ client[s].moved < Len(client[s].file)
    BY <1>1, <1>2 DEF SendData, Types, disk
  <2>2. end \in Nat /\ end <= Len(client[s].file)
    BY <1>1, <2>1, PieceEnds
  <2> HIDE DEF end, over
  <2>3. /\ worker'[s].pc = worker[s].pc /\ worker'[s].req = worker[s].req
        /\ worker'[s].fd = worker[s].fd /\ worker'[s].shared = worker[s].shared
        /\ worker'[s].disturbed = over
    BY <1>1, <2>1 DEF Servers
  <2>4. ~(end > client[s].want)
    BY <2>3 DEF GoesOn, over
  <2>5. /\ client'[s].pc = "senddata" /\ client'[s].cmd = client[s].cmd
        /\ client'[s].file = client[s].file /\ client'[s].want = client[s].want
        /\ client'[s].moved = end /\ client'[s].outcome = client[s].outcome
    BY <1>1, <2>1 DEF Clients
  <2>6. Honest(client'[s])
    BY <1>1, <2>2, <2>4, <2>5 DEF Honest
  <2> QED BY <1>1, <2>1, <2>3, <2>5, <2>6, SendingIsExact
<1>3. CASE SendFileReturns(s)
  <2> DEFINE short == worker[s].disturbed \/ client[s].moved < client[s].want
  <2>1. /\ client'[s] = [client[s] EXCEPT !.pc = "result", !.moved = 0]
        /\ worker'[s] = [worker[s] EXCEPT !.disturbed = short]
        /\ down' = down /\ entry' = entry /\ data' = data
    BY <1>1, <1>3 DEF SendFileReturns, Types, disk
  <2> HIDE DEF short
  <2>2. /\ worker'[s].pc = worker[s].pc /\ worker'[s].req = worker[s].req
        /\ worker'[s].fd = worker[s].fd /\ worker'[s].shared = worker[s].shared
        /\ worker'[s].disturbed = short
    BY <1>1, <2>1 DEF Servers
  <2>3. ~(client[s].moved < client[s].want)
    BY <2>2 DEF GoesOn, short
  <2>4. /\ client'[s].pc = "result" /\ client'[s].cmd = client[s].cmd
        /\ client'[s].file = client[s].file /\ client'[s].want = client[s].want
        /\ client'[s].outcome = client[s].outcome
    BY <1>1, <2>1 DEF Clients
  <2>5. Honest(client'[s])
    BY <1>1, <2>3, <2>4 DEF Honest
  <2> QED BY <1>1, <2>1, <2>2, <2>4, <2>5, SendingIsExact
<1>4. CASE LocalFileChanges(s)
  <2>1. PICK file : client' = [client EXCEPT ![s].file = file]
    BY <1>4 DEF LocalFileChanges
  <2>2. /\ client'[s] = [client[s] EXCEPT !.file = file]
        /\ worker' = worker /\ down' = down /\ entry' = entry /\ data' = data
        /\ client[s].moved < client[s].want
    BY <1>1, <1>4, <2>1 DEF LocalFileChanges, Types, disk
  <2>3. /\ client'[s].pc = "senddata" /\ client'[s].cmd = client[s].cmd
        /\ client'[s].want = client[s].want /\ client'[s].moved = client[s].moved
        /\ client'[s].outcome = client[s].outcome
    BY <1>1, <2>2 DEF Clients
  <2>4. Honest(client'[s])
    BY <1>1, <2>2, <2>3 DEF Honest
  <2> QED BY <1>1, <2>2, <2>3, <2>4, SendingIsExact
<1> QED BY <1>2, <1>3, <1>4

\* As much of a file as was announced, if it is all of one owner.
LEMMA FirstOwned ==
  ASSUME NEW s, NEW file \in Seq(Unit), NEW n \in Nat, n <= Len(file),
         \A i \in 1 .. Len(file) : file[i] = s
  PROVE  First(file, n) = [i \in 1 .. n |-> s]
<1>1. First(file, n) = [i \in 1 .. n |-> file[i]]
  BY DEF First
<1>2. \A i \in 1 .. n : file[i] = s
  OBVIOUS
<1> QED BY <1>1, <1>2

LEMMA ReadResultIsExact ==
  ASSUME NEW s \in Sessions, GoesOn(s), ReadResult(s)
  PROVE  Exact(s)'
<1>1. /\ Types /\ client[s] \in Clients /\ client[s].pc = "result" /\ Exact(s)
      /\ Sends(s, client[s]) /\ UploadAnswered(s)
      /\ client[s].file \in Seq(Unit) /\ client[s].want \in Nat
  BY GoesOnIn, ByClient, Typed DEF ReadResult, At, GoesOn, NextIs, UploadStarts, UploadRuns
<1> DEFINE told == IF down[s][1].ok THEN "ok" ELSE "error"
<1>2. /\ client'[s] = [client[s] EXCEPT !.pc = "idle", !.outcome = told]
      /\ worker' = worker /\ entry' = entry /\ data' = data
  BY <1>1 DEF ReadResult, Types, disk
<1>3. /\ client'[s].pc = "idle" /\ client'[s].cmd = client[s].cmd
      /\ client'[s].file = client[s].file /\ client'[s].want = client[s].want
      /\ client'[s].outcome = told
  BY <1>1, <1>2 DEF Clients
<1>4. worker'[s].pc = "recv" /\ client[s].cmd.op = "puts"
  BY <1>1, <1>2 DEF UploadAnswered, Uploading, InCommand
<1>5. ~Announced(s)'
  BY <1>3, GoesOnIn, NotAnnounced
<1>6. Finished(s)'
  <2> SUFFICES ASSUME client'[s].outcome = "ok"
               PROVE  Exists(s)' /\ File(s)' = Moved(s)'
    BY DEF Finished
  <2>1. down[s][1].ok
    BY <1>3
  <2>2. Exists(s) /\ File(s) = [i \in 1 .. client[s].want |-> s]
    BY <1>1, <1>2, <1>4, <2>1 DEF Exact, Stored
  <2>3. Exists(s)' /\ File(s)' = File(s)
    BY <1>1, <1>2, <1>3, <2>2, FilesStay
  <2>4. client[s].want <= Len(client[s].file) /\ \A i \in 1 .. Len(client[s].file) : client[s].file[i] = s
    BY <1>1, <1>4 DEF Exact, Honest, Sends
  <2>5. First(client[s].file, client[s].want) = [i \in 1 .. client[s].want |-> s]
    <3> DEFINE file == client[s].file
               n == client[s].want
    <3>1. file \in Seq(Unit) /\ n \in Nat /\ n <= Len(file) /\ \A i \in 1 .. Len(file) : file[i] = s
      BY <1>1, <2>4
    <3> HIDE DEF file, n
    <3>2. First(file, n) = [i \in 1 .. n |-> s]
      BY <3>1, FirstOwned
    <3> QED BY <3>2 DEF file, n
  <2>6. Moved(s)' = First(client[s].file, client[s].want)
    BY <1>3, <1>4 DEF Moved, First
  <2> QED BY <2>2, <2>3, <2>5, <2>6
<1>7. Honest(client'[s]) /\ Aims(s)' /\ Stored(s)' /\ Promised(s)' /\ Copied(s)'
  BY <1>3, <1>4, <1>5 DEF Honest, Aims, Receives, Stored, Promised, Copied
<1> QED BY <1>6, <1>7 DEF Exact

LEMMA RecvSizeIsExact ==
  ASSUME NEW s \in Sessions, GoesOn(s), RecvSize(s)
  PROVE  Exact(s)'
<1>1. /\ Types /\ client[s] \in Clients /\ client[s].pc = "recvsize" /\ Exact(s)
      /\ down[s] \in Seq(Token) /\ down[s] # <<>> /\ Len(down[s]) \in Nat /\ Len(down[s]) >= 1
      /\ DownloadOpens(s) \/ DownloadStarts(s)
  BY GoesOnIn, ByClient, Typed DEF RecvSize, At, GoesOn
<1>2. DownloadStarts(s) /\ Announced(s) /\ Lead(client[s]) = 0 /\ client[s].file = <<>>
  BY <1>1 DEF DownloadOpens, DownloadStarts, Announced, Fetching, Lead
<1>3. PICK n \in SizesRead(down[s]) :
        client' = [client EXCEPT ![s].pc = "recvdata", ![s].want = n]
  BY DEF RecvSize
<1>4. n = down[s][1].n
  BY <1>1, <1>2, SizesReadAre DEF Announced
<1>5. /\ client'[s] = [client[s] EXCEPT !.pc = "recvdata", !.want = n]
      /\ down'[s] = Rest(down[s], 1) /\ worker' = worker /\ entry' = entry /\ data' = data
  BY <1>1, <1>3 DEF RecvSize, Types, disk
<1>6. /\ client'[s].pc = "recvdata" /\ client'[s].cmd = client[s].cmd
      /\ client'[s].file = <<>> /\ client'[s].want = n
      /\ client'[s].outcome = client[s].outcome
  BY <1>1, <1>2, <1>5 DEF Clients
<1>7. ~Announced(s)'
  BY <1>6, GoesOnIn, NotAnnounced
<1>8. Aims(s)'
  BY <1>1, <1>2, <1>5, <1>6, AimsStay DEF Exact, Receives
<1>9. Copied(s)'
  <2> SUFFICES ASSUME Serving(s)'
               PROVE  Exists(s)' /\ n = Len(File(s)') /\ Follows(down'[s], 0, File(s)', 0)
    BY <1>6 DEF Copied
  <2>1. Exists(s) /\ n = Len(File(s)) /\ Follows(down[s], 1, File(s), 0)
    BY <1>1, <1>2, <1>4, <1>5 DEF Exact, Promised, Serving
  <2>2. Exists(s)' /\ File(s)' = File(s)
    BY <1>1, <1>5, <1>6, <2>1, FilesStay
  <2>3. /\ Len(down'[s]) = Len(down[s]) - 1
        /\ \A j \in 1 .. Len(down[s]) - 1 : down'[s][j] = down[s][1 + j]
    BY <1>1, <1>5, RestOne
  <2>4. ASSUME NEW i \in 1 .. Len(down'[s]) - 0 PROVE down'[s][0 + i].unit = File(s)[0 + i]
    <3>1. i \in 1 .. Len(down[s]) - 1 /\ 0 + i = i
      BY <1>1, <2>3
    <3> QED BY <2>1, <2>3, <3>1 DEF Follows
  <2> QED BY <2>1, <2>2, <2>4 DEF Follows
<1>10. Honest(client'[s]) /\ Stored(s)' /\ Promised(s)' /\ Finished(s)'
  BY <1>1, <1>6, <1>7 DEF Exact, Honest, Stored, Promised, Finished
<1> QED BY <1>8, <1>9, <1>10 DEF Exact

\* What a recv takes from the content of a file is that part of the file.
LEMMA PieceIs ==
  ASSUME NEW q \in Seq(Token), NEW k \in Nat, k <= Len(q), ContentAfter(q, 0)
  PROVE  LET got == Payload(First(q, k))
         IN  got \in Seq(Unit) /\ Len(got) = k /\ \A i \in 1 .. k : got[i] = q[i].unit
<1> DEFINE piece == First(q, k)
<1>1. piece \in Seq(Token) /\ Len(piece) = k /\ DOMAIN piece = 1 .. k
      /\ \A i \in 1 .. k : piece[i] = q[i]
  <2>1. Len(q) \in Nat
    OBVIOUS
  <2> QED BY <2>1, FirstIs DEF First
<1>2. \A i \in 1 .. k : q[i].tag = "data"
  <2>1. \A i \in 1 .. k : i \in 0 + 1 .. Len(q)
    OBVIOUS
  <2> QED BY <2>1 DEF ContentAfter
<1> HIDE DEF piece
<1>3. Payload(piece) = [i \in 1 .. k |-> IF piece[i].tag = "data" THEN piece[i].unit ELSE "junk"]
  BY <1>1 DEF Payload
<1>4. \A i \in 1 .. k : Payload(piece)[i] = q[i].unit
  BY <1>1, <1>2, <1>3
<1>5. Payload(piece) \in Seq(Unit) /\ Len(Payload(piece)) = k
  BY <1>1, PayloadIs
<1> QED BY <1>4, <1>5 DEF piece

LEMMA RecvDataIsExact ==
  ASSUME NEW s \in Sessions, GoesOn(s), RecvData(s)
  PROVE  Exact(s)'
<1>1. /\ Types /\ client[s] \in Clients /\ client[s].pc = "recvdata" /\ Exact(s) /\ DownloadRuns(s)
      /\ down[s] \in Seq(Token) /\ Len(down[s]) \in Nat
      /\ client[s].file \in Seq(Unit) /\ Len(client[s].file) \in Nat /\ client[s].want \in Nat
  BY GoesOnIn, ByClient, Typed DEF RecvData, At, GoesOn
<1> DEFINE old == client[s].file
           got(k) == Payload(First(down[s], k))
<1>2. PICK k \in Received(down[s], client[s].want - Len(old)) :
        /\ client' = [client EXCEPT ![s].file = old \o got(k)]
        /\ down' = [down EXCEPT ![s] = Rest(down[s], k)]
  BY DEF RecvData
<1>3. k \in Nat /\ k >= 1 /\ k <= Len(down[s])
  BY <1>1, ReceivedIs
<1>4. /\ got(k) \in Seq(Unit) /\ Len(got(k)) = k
      /\ \A i \in 1 .. k : got(k)[i] = down[s][i].unit
  BY <1>1, <1>3, PieceIs DEF DownloadRuns
<1> DEFINE file == old \o got(k)
<1>5. /\ client'[s] = [client[s] EXCEPT !.file = file]
      /\ down'[s] = Rest(down[s], k) /\ worker' = worker /\ entry' = entry /\ data' = data
  BY <1>1, <1>2 DEF RecvData, Types, disk
<1> HIDE DEF got
<1>6. /\ Len(file) = Len(old) + k
      /\ \A i \in 1 .. Len(old) : file[i] = old[i]
      /\ \A i \in 1 .. k : file[Len(old) + i] = down[s][i].unit
  <2>1. old \in Seq(Unit) /\ got(k) \in Seq(Unit)
    BY <1>1, <1>4
  <2> HIDE DEF old
  <2>2. /\ Len(old \o got(k)) = Len(old) + Len(got(k))
        /\ \A i \in 1 .. Len(old) : (old \o got(k))[i] = old[i]
        /\ \A i \in 1 .. Len(got(k)) : (old \o got(k))[Len(old) + i] = got(k)[i]
    BY <2>1, Joined
  <2> QED BY <1>4, <2>2
<1> HIDE DEF file
<1>7. /\ client'[s].pc = "recvdata" /\ client'[s].cmd = client[s].cmd
      /\ client'[s].file = file /\ client'[s].want = client[s].want
      /\ client'[s].outcome = client[s].outcome
  BY <1>1, <1>5 DEF Clients
<1>8. ~Announced(s)'
  BY <1>7, GoesOnIn, NotAnnounced
<1>9. Aims(s)'
  BY <1>1, <1>5, <1>7, AimsStay DEF Exact, Receives
<1>10. Copied(s)'
  <2> SUFFICES ASSUME Serving(s)'
               PROVE  /\ Exists(s)' /\ client[s].want = Len(File(s)')
                      /\ \A i \in 1 .. Len(file) : file[i] = File(s)'[i]
                      /\ \A i \in 1 .. Len(down'[s]) - 0 :
                           down'[s][0 + i].unit = File(s)'[Len(file) + i]
    BY <1>7 DEF Copied, Follows
  <2>1. /\ Exists(s) /\ client[s].want = Len(File(s))
        /\ \A i \in 1 .. Len(old) : old[i] = File(s)[i]
        /\ \A i \in 1 .. Len(down[s]) : down[s][i].unit = File(s)[Len(old) + i]
    <3>1. /\ Exists(s) /\ client[s].want = Len(File(s))
          /\ \A i \in 1 .. Len(old) : old[i] = File(s)[i]
          /\ Follows(down[s], 0, File(s), Len(old))
      BY <1>1, <1>5 DEF Exact, Copied, Serving
    <3>2. \A i \in 1 .. Len(down[s]) : i \in 1 .. Len(down[s]) - 0 /\ 0 + i = i
      BY <1>1
    <3> QED BY <3>1, <3>2 DEF Follows
  <2>2. Exists(s)' /\ File(s)' = File(s)
    BY <1>1, <1>5, <1>7, <2>1, FilesStay
  <2> DEFINE m == Len(old)
  <2>3. m \in Nat
    BY <1>1
  <2> HIDE DEF m, old
  <2>4. ASSUME NEW i \in 1 .. Len(file) PROVE file[i] = File(s)[i]
    <3>1. CASE i <= m
      <4>1. i \in 1 .. m
        BY <1>3, <1>6, <2>3, <2>4, <3>1 DEF m
      <4> QED BY <1>6, <2>1, <4>1 DEF m
    <3>2. CASE i > m
      <4>1. PICK j \in 1 .. k : i = m + j
        <5>1. i - m \in 1 .. k /\ i = m + (i - m)
          BY <1>3, <1>6, <2>3, <3>2 DEF m
        <5> QED BY <5>1
      <4>2. j \in 1 .. Len(down[s])
        BY <1>1, <1>3
      <4> QED BY <1>6, <2>1, <4>1, <4>2 DEF m
    <3> QED BY <1>3, <1>6, <2>3, <3>1, <3>2 DEF m
  <2>5. /\ Len(down'[s]) = Len(down[s]) - k
        /\ \A j \in 1 .. Len(down[s]) - k : down'[s][j] = down[s][k + j]
    BY <1>1, <1>3, <1>5, RestIs
  <2>6. ASSUME NEW i \in 1 .. Len(down'[s]) - 0
        PROVE  down'[s][0 + i].unit = File(s)[Len(file) + i]
    <3>1. i \in 1 .. Len(down[s]) - k /\ 0 + i = i /\ k + i \in 1 .. Len(down[s])
      BY <1>1, <1>3, <2>5
    <3>2. Len(file) + i = m + (k + i)
      BY <1>3, <1>6, <2>3 DEF m
    <3> QED BY <2>1, <2>5, <3>1, <3>2 DEF m
  <2> QED BY <2>1, <2>2, <2>4, <2>6
<1>11. Honest(client'[s]) /\ Stored(s)' /\ Promised(s)' /\ Finished(s)'
  BY <1>1, <1>7, <1>8 DEF Exact, Honest, Stored, Promised, Finished
<1> QED BY <1>9, <1>10, <1>11 DEF Exact

LEMMA SameSequence ==
  ASSUME NEW S, NEW p \in Seq(S), NEW q \in Seq(S), Len(p) = Len(q),
         \A i \in 1 .. Len(p) : p[i] = q[i]
  PROVE  p = q
OBVIOUS

LEMMA RecvFileReturnsIsExact ==
  ASSUME NEW s \in Sessions, GoesOn(s), RecvFileReturns(s)
  PROVE  Exact(s)'
<1>1. /\ Types /\ client[s] \in Clients /\ client[s].pc = "recvdata" /\ Exact(s) /\ DownloadRuns(s)
      /\ down[s] \in Seq(Token) /\ Len(down[s]) \in Nat /\ (down[s] # <<>> <=> Len(down[s]) >= 1)
      /\ client[s].file \in Seq(Unit) /\ Len(client[s].file) \in Nat /\ client[s].want \in Nat
      /\ Len(client[s].file) >= client[s].want
  BY GoesOnIn, ByClient, Typed DEF RecvFileReturns, At, GoesOn
<1>2. /\ client'[s] = [client[s] EXCEPT !.pc = "idle", !.outcome = "ok", !.want = 0]
      /\ worker' = worker /\ entry' = entry /\ data' = data
  BY <1>1 DEF RecvFileReturns, Types, disk
<1>3. /\ client'[s].pc = "idle" /\ client'[s].cmd = client[s].cmd
      /\ client'[s].file = client[s].file
  BY <1>1, <1>2 DEF Clients
<1>4. Serving(s) /\ Len(client[s].file) = client[s].want
  <2>1. PICK m \in Nat, n \in Nat, want \in Nat :
          m = Len(client[s].file) /\ n = Len(down[s]) /\ want = client[s].want
    BY <1>1
  <2>2. \/ worker[s].pc = "dldata" /\ m + n <= want
        \/ worker[s].pc = "recv" /\ m + n = want
        \/ worker[s].pc = "closed" /\ m + n < want
    BY <1>1, <2>1 DEF DownloadRuns
  <2>3. m >= want
    BY <1>1, <2>1
  <2>4. worker[s].pc \in {"dldata", "recv"} /\ m = want
    <3>1. ~(m + n < want) /\ (m + n <= want => m = want)
      BY <2>3
    <3> QED BY <2>2, <3>1
  <2> QED BY <2>1, <2>4 DEF Serving
<1>5. ~Announced(s)'
  BY <1>3, GoesOnIn, NotAnnounced
<1>6. Exists(s)' /\ File(s)' = Moved(s)'
  <2>1. /\ Exists(s) /\ client[s].want = Len(File(s))
        /\ \A i \in 1 .. Len(client[s].file) : client[s].file[i] = File(s)[i]
    BY <1>1, <1>4 DEF Exact, Copied
  <2>2. Exists(s)' /\ File(s)' = File(s)
    BY <1>1, <1>2, <1>3, <2>1, FilesStay
  <2>3. client[s].file = File(s)
    <3>1. File(s) \in Seq(Unit)
      BY <1>1, <2>1 DEF File, Exists, Types
    <3> QED BY <1>1, <1>4, <2>1, <3>1, SameSequence
  <2>4. Moved(s)' = client[s].file
    BY <1>1, <1>3 DEF Moved, DownloadRuns, InCommand
  <2> QED BY <2>2, <2>3, <2>4
<1> QED BY <1>2, <1>3, <1>4, <1>5, <1>6
        DEF Exact, Honest, Aims, Receives, Serving, Stored, Promised, Copied, Finished

\* A client that is told to its own undoing is none of these.
LEMMA ClientIsExact ==
  ASSUME NEW s \in Sessions, GoesOn(s),
         AskLogin(s) \/ AskCommand(s) \/ ClientAnswers(s) \/ LocalFileChanges(s) \/ GoAway(s)
  PROVE  Exact(s)'
<1>1. Types /\ Phase(s) /\ client'[s].pc # "gone"
  BY GoesOnIn DEF GoesOn
<1>2. ~Leave(s)
  <2>1. Leave(s) => client'[s] = Gone
    BY <1>1 DEF Leave, Types
  <2> QED BY <1>1, <2>1, GoneIs
<1>3. ~MisreadReply(s)
  <2>1. ~At(s, "astray")
    BY <1>1, ByClient DEF At
  <2> QED BY <1>1, <1>2, <2>1, RepliesFit DEF MisreadReply, Misfit, ClientExpects, At
<1>4. ~LoseServer(s) /\ ~GoAway(s)
  BY <1>2 DEF LoseServer, GoAway
<1>5. CASE AskLogin(s) \/ AskCommand(s)
  BY <1>5, AskIsExact DEF AskLogin, AskCommand, At
<1>6. CASE ReadReply(s) \/ SendSize(s) \/ SendData(s) \/ SendFileReturns(s) \/ LocalFileChanges(s)
             \/ ReadResult(s) \/ RecvSize(s) \/ RecvData(s) \/ RecvFileReturns(s)
  BY <1>6, ReadReplyIsExact, SendSizeIsExact, SendDataIsExact, ReadResultIsExact, RecvSizeIsExact,
     RecvDataIsExact, RecvFileReturnsIsExact
<1> QED BY <1>3, <1>4, <1>5, <1>6 DEF ClientAnswers

-----------------------------------------------------------------------------
(* Steps of the worker.                                                    *)

\* Before the content of a file is under way, and while it is sent.
LEMMA CommandIsExact ==
  ASSUME NEW s \in Sessions, GoesOn(s), client' = client, client[s].pc \in {"reply", "recvsize"},
         Aims(s)', Promised(s)'
  PROVE  Exact(s)'
BY DEF GoesOn, Exact, Honest, Stored, Copied, Finished

LEMMA UploadIsExact ==
  ASSUME NEW s \in Sessions, GoesOn(s), client' = client, client[s].pc \in {"senddata", "result"},
         Aims(s)', Stored(s)'
  PROVE  Exact(s)'
BY DEF GoesOn, Exact, Honest, Promised, Announced, Fetching, Copied, Finished

\* The worker reads the command that the client waits for.
LEMMA CommandRead ==
  ASSUME NEW s \in Sessions, GoesOn(s), worker[s].pc = "recv", up[s] # <<>>
  PROVE  Asked(s) /\ client[s].pc = "reply" /\ up[s][1] = client[s].cmd /\ down[s] = <<>>
BY GoesOnIn, ByWorker DEF Asked

LEMMA OneTokenSent ==
  ASSUME NEW s \in Sessions, GoesOn(s), down[s] = <<>>, NEW x, ToClient(s, <<x>>)
  PROVE  Len(down'[s]) = 1 /\ down'[s][1] = x
<1>1. down'[s] = <<>> \o <<x>>
  BY GoesOnIn DEF ToClient, At, GoesOn, Types
<1>2. <<>> \in Seq({x}) /\ x \in {x} /\ Len(<<>>) = 0
  OBVIOUS
<1> QED BY <1>1, <1>2, OneMore

\* Nothing but a text reply, if that.
LEMMA TextIsExact ==
  ASSUME NEW s \in Sessions, GoesOn(s), client' = client, Asked(s) \/ Removing(s),
         worker'[s].pc \in {"recv", "closed", "unlink"},
         down' = down \/ \E x : ToClient(s, <<x>>)
  PROVE  Exact(s)'
<1>1. client[s].pc = "reply" /\ down[s] = <<>>
  BY DEF Asked, Removing, Quiet
<1>2. down'[s] = <<>> \/ Len(down'[s]) = 1
  BY <1>1, OneTokenSent
<1>3. ~Announced(s)'
  <2>1. client'[s].pc = "reply" /\ down'[s] \in Seq(Token)
    BY <1>1, GoesOnIn
  <2>2. CASE down'[s] = <<>>
    BY <2>1, <2>2, NotAnnounced
  <2>3. CASE Len(down'[s]) = 1
    <3>1. Len(down'[s]) <= 1
      BY <2>3
    <3> QED BY <2>1, <3>1, NotAnnounced
  <2> QED BY <1>2, <2>2, <2>3
<1>4. client'[s].outcome # "ok"
  BY <1>1 DEF GoesOn, Exact, Honest
<1> QED BY <1>1, <1>3, <1>4, Elsewhere

LEMMA AnswersAreExact ==
  ASSUME NEW s \in Sessions, GoesOn(s),
         \/ Quit(s) \/ Login(s) \/ List(s) \/ Mkdir(s) \/ RmStat(s) \/ RmUnlink(s)
         \/ \E op \in NamedOps : Refuse(s, op)
  PROVE  Exact(s)'
<1>1. Types /\ worker[s] \in Servers /\ Back(s).pc = "recv" /\ Closed(s).pc = "closed"
  BY GoesOnIn, Typed, BackIs
<1>2. ASSUME NEW op, Reads(s, op) PROVE Asked(s) /\ worker[s].pc = "recv"
  BY <1>2, CommandRead DEF Reads, NextIs
<1>3. CASE Quit(s)
  <2>1. worker'[s] = Closed(s) /\ client' = client
    BY <1>1, <1>3 DEF Quit, Hangup, Types
  <2>2. Asked(s) /\ \E x : ToClient(s, <<x>>)
    BY <1>2, <1>3 DEF Quit
  <2> QED BY <1>1, <2>1, <2>2, TextIsExact
<1>4. CASE Login(s)
  <2>1. PICK b : worker' = [worker EXCEPT ![s].login = b]
    BY <1>4 DEF Login
  <2>2. worker'[s].pc = "recv" /\ client' = client /\ Asked(s)
    BY <1>1, <1>2, <1>4, <2>1 DEF Login, Types, Servers
  <2>3. \E x : ToClient(s, <<x>>)
    BY <1>4 DEF Login
  <2> QED BY <2>2, <2>3, TextIsExact
<1>5. CASE List(s) \/ Mkdir(s) \/ \E op \in NamedOps : Refuse(s, op)
  <2>1. worker' = worker /\ client' = client /\ \E op : Reads(s, op)
    BY <1>5 DEF List, Mkdir, Refuse, Accepts
  <2>2. \E x : ToClient(s, <<x>>)
    BY <1>5 DEF List, Mkdir, Refuse
  <2> QED BY <1>2, <2>1, <2>2, TextIsExact
<1>6. CASE RmStat(s)
  <2>1. client' = client /\ Asked(s) /\ worker[s].pc = "recv"
    BY <1>2, <1>6 DEF RmStat, StatFile, Accepts
  <2>2. \/ worker' = worker
        \/ worker' = [worker EXCEPT ![s] = [worker[s] EXCEPT !.pc = "unlink", !.req = Arg(s)]]
    BY <1>6 DEF RmStat, StatFile
  <2>3. worker'[s].pc \in {"recv", "unlink"}
    BY <1>1, <2>1, <2>2 DEF Types, Servers
  <2>4. down' = down \/ \E x : ToClient(s, <<x>>)
    BY <1>6 DEF RmStat
  <2> QED BY <2>1, <2>3, <2>4, TextIsExact
<1>7. CASE RmUnlink(s)
  <2>1. PICK e : Settle(e, s, Back(s))
    BY <1>7 DEF RmUnlink
  <2>2. worker'[s] = Back(s) /\ client' = client
    BY <1>1, <1>7, <2>1, SettleIs DEF RmUnlink, Types
  <2>3. Removing(s)
    BY <1>7, GoesOnIn, ByWorker DEF RmUnlink
  <2>4. \E x : ToClient(s, <<x>>)
    BY <1>7 DEF RmUnlink
  <2> QED BY <1>1, <2>2, <2>3, <2>4, TextIsExact
<1> QED BY <1>3, <1>4, <1>5, <1>6, <1>7

\* The worker goes on with the name in the command.
LEMMA AcceptIsExact ==
  ASSUME NEW s \in Sessions, GoesOn(s), PutsReady(s) \/ GetsStat(s)
  PROVE  Exact(s)'
<1>1. PICK op \in {"puts", "gets"}, where \in {"upsize", "dlopen"} :
        /\ Accepts(s, op)
        /\ worker' = worker \/ worker' = [worker EXCEPT ![s].pc = where, ![s].req = Arg(s)]
        /\ \E x : ToClient(s, <<x>>)
  BY DEF PutsReady, GetsStat, StatFile
<1>2. /\ Types /\ worker[s] \in Servers /\ Asked(s) /\ client[s].pc = "reply"
      /\ up[s][1] = client[s].cmd /\ client' = client /\ worker[s].pc = "recv"
  BY <1>1, GoesOnIn, Typed, CommandRead DEF Accepts, Reads, NextIs
<1>3. CASE worker' = worker
  BY <1>1, <1>2, <1>3, TextIsExact
<1>4. CASE worker' = [worker EXCEPT ![s].pc = where, ![s].req = Arg(s)]
  <2>1. worker'[s] = [worker[s] EXCEPT !.pc = where, !.req = Arg(s)]
    BY <1>2, <1>4 DEF Types
  <2>2. worker'[s].pc = where /\ worker'[s].req = Arg(s)
    BY <1>2, <2>1 DEF Servers
  <2>3. Arg(s) = Name(s)'
    BY <1>2 DEF Arg, Name
  <2>4. Aims(s)' /\ Promised(s)'
    BY <2>2, <2>3 DEF Aims, Promised, Serving
  <2> QED BY <1>2, <2>4, CommandIsExact
<1> QED BY <1>1, <1>3, <1>4

LEMMA UploadBeginsExactly ==
  ASSUME NEW s \in Sessions, GoesOn(s), UploadSize(s) \/ UploadOpen(s)
  PROVE  Exact(s)'
<1>1. Types /\ worker[s] \in Servers /\ Opens(worker[s]) /\ Exact(s) /\ client' = client
  BY GoesOnIn, Typed DEF UploadSize, UploadOpen, GoesOn
<1>2. client[s].pc \in {"senddata", "result"}
  <2>1. CASE UploadSize(s)
    BY <2>1, GoesOnIn, ByWorker
       DEF UploadSize, Invited, OneReply, Quiet, UploadStarts, Uploading
  <2>2. CASE UploadOpen(s)
    BY <2>2, GoesOnIn, ByWorker DEF UploadOpen, UploadRuns, Uploading
  <2> QED BY <2>1, <2>2
<1>3. CASE UploadSize(s)
  <2>1. PICK n : worker' = [worker EXCEPT ![s].pc = "upopen", ![s].size = n]
    BY <1>3 DEF UploadSize
  <2>2. worker'[s] = [worker[s] EXCEPT !.pc = "upopen", !.size = n]
    BY <1>1, <2>1 DEF Types
  <2>3. worker'[s].pc = "upopen" /\ worker'[s].req = worker[s].req
    BY <1>1, <2>2 DEF Servers
  <2>4. Aims(s)' /\ Stored(s)'
    BY <1>1, <1>3, <2>3 DEF UploadSize, Exact, Aims, Name, Stored
  <2> QED BY <1>1, <1>2, <2>4, UploadIsExact
<1>4. CASE UploadOpen(s)
  <2> DEFINE name == worker[s].req
             inode == IF entry[name] = 0 THEN FreeInode ELSE entry[name]
  <2>1. /\ worker[s].pc = "upopen" /\ name \in Names /\ name = Name(s) /\ entry[name] # Dir
        /\ entry' = [entry EXCEPT ![name] = inode] /\ worker' = Opened(s, inode)
    BY <1>1, <1>4 DEF UploadOpen, Opens, Exact, Aims
  <2>2. inode \in Inodes
    <3>1. entry[name] \in Inodes \cup {0, Dir} /\ IInv
      BY <2>1 DEF GoesOn, FInv, IInv, Types
    <3>2. FreeInode \in Inodes
      <4>1. worker[s].fd = 0
        BY <1>1, <2>1 DEF Opens, Servers
      <4> QED BY <3>1, <4>1, FreeInodeIs
    <3> HIDE DEF name
    <3> QED BY <2>1, <3>1, <3>2
  <2>3. Writers(inode) = {}
    <3>1. ASSUME NEW t \in Sessions PROVE worker[t].pc # "updata"
      <4>1. CASE t = s
        BY <2>1, <4>1
      <4>2. CASE t # s
        BY <4>2 DEF GoesOn, Alone, Known
      <4> QED BY <4>1, <4>2
    <3> QED BY <3>1 DEF Writers
  <2> HIDE DEF inode
  <2>4. worker'[s] = [worker[s] EXCEPT !.pc = "updata", !.fd = inode, !.shared = FALSE]
    BY <2>1, <2>3 DEF Opened
  <2>5. worker'[s].pc = "updata" /\ worker'[s].fd = inode /\ ~worker'[s].shared
    BY <1>1, <2>4 DEF Servers
  <2>6. entry'[name] = inode
    BY <1>1, <2>1 DEF Types
  <2>7. Name(s)' = name
    BY <1>1, <2>1 DEF Name
  <2>8. Exists(s)' /\ worker'[s].fd = entry'[Name(s)']
    BY <2>1, <2>2, <2>5, <2>6, <2>7 DEF Exists, Inodes
  <2>9. Aims(s)' /\ Stored(s)'
    BY <2>5, <2>8 DEF Aims, Stored
  <2> QED BY <1>1, <1>2, <2>9, UploadIsExact
<1> QED BY <1>3, <1>4

LEMMA UploadRunsExactly ==
  ASSUME NEW s \in Sessions, GoesOn(s),
         UploadOpenFails(s) \/ UploadData(s) \/ UploadWriteFails(s) \/ UploadDone(s)
  PROVE  Exact(s)'
<1>1. /\ Types /\ worker[s] \in Servers /\ Opens(worker[s]) /\ Exact(s) /\ client' = client
      /\ worker[s].pc \in {"upopen", "updata"}
  BY GoesOnIn, Typed
     DEF UploadOpenFails, UploadGivesUp, UploadData, UploadWriteFails, UploadDone, GoesOn
<1>2. UploadRuns(s)
  BY <1>1, GoesOnIn, ByWorker
<1>3. client[s].pc \in {"senddata", "result"} /\ down[s] = <<>>
  BY <1>2 DEF UploadRuns, Uploading
<1>4. CASE UploadOpenFails(s) \/ UploadWriteFails(s)
  <2>1. PICK left : UploadGivesUp(s, left)
    BY <1>4 DEF UploadOpenFails, UploadWriteFails
  <2> DEFINE b == Back(s).disturbed \/ left > 0
  <2>2. Settle(entry, s, [Back(s) EXCEPT !.disturbed = b]) /\ b \in BOOLEAN
        /\ ToClient(s, <<Text(FALSE, "puts")>>)
    BY <2>1 DEF UploadGivesUp
  <2> HIDE DEF b
  <2>3. worker'[s].pc = "recv"
    <3> DEFINE w == [Back(s) EXCEPT !.disturbed = b]
    <3>1. w.pc = "recv"
      BY <1>1, <2>2, BackIs
    <3> HIDE DEF w
    <3>2. worker' = [worker EXCEPT ![s] = w]
      BY <2>2 DEF Settle, w
    <3> QED BY <1>1, <3>1, <3>2 DEF Types
  <2>4. down'[s][1] = Text(FALSE, "puts")
    BY <1>3, <2>2, OneTokenSent
  <2>5. Aims(s)' /\ Stored(s)'
    BY <2>3, <2>4 DEF Aims, Stored, Text
  <2> QED BY <1>1, <1>3, <2>5, UploadIsExact
<1>5. CASE UploadData(s)
  <2>1. PICK k : worker' = [worker EXCEPT ![s].off = @ + k]
    BY <1>5 DEF UploadData
  <2>2. worker'[s] = [worker[s] EXCEPT !.off = @ + k]
    BY <1>1, <2>1 DEF Types
  <2>3. /\ worker'[s].pc = worker[s].pc /\ worker'[s].req = worker[s].req
        /\ worker'[s].fd = worker[s].fd /\ worker'[s].shared = worker[s].shared
        /\ worker[s].pc = "updata" /\ entry' = entry
    BY <1>1, <1>5, <2>2 DEF Servers, UploadData
  <2>4. Aims(s)'
    BY <1>1, <2>3, AimsStay DEF Exact
  <2>5. Stored(s)'
    BY <2>3 DEF Stored
  <2> QED BY <1>1, <1>3, <2>4, <2>5, UploadIsExact
<1>6. CASE UploadDone(s)
  <2>1. /\ worker[s].pc = "updata" /\ worker[s].off >= worker[s].size
        /\ Settle(entry, s, Back(s))
    BY <1>6 DEF UploadDone
  <2>2. worker'[s].pc = "recv" /\ entry' = entry
    <3>1. worker' = [worker EXCEPT ![s] = Back(s)] /\ entry' = entry
      BY <2>1 DEF Settle
    <3>2. Back(s).pc = "recv"
      BY <1>1, BackIs
    <3> QED BY <1>1, <3>1, <3>2 DEF Types
  <2>3. worker[s].off = client[s].want
    <3>1. /\ worker[s].off + Len(up[s]) <= client[s].want /\ worker[s].size = client[s].want
      BY <1>2 DEF UploadRuns, Uploading
    <3>2. PICK off \in Nat, n \in Nat, want \in Nat :
            off = worker[s].off /\ n = Len(up[s]) /\ want = client[s].want
      BY <1>1, Typed
    <3>3. off + n <= want /\ off >= want
      BY <2>1, <3>1, <3>2
    <3>4. off = want
      BY <3>3
    <3> QED BY <3>2, <3>4
  <2>4. Exists(s) /\ worker[s].fd = entry[Name(s)] /\ ~worker[s].shared
    BY <1>1, <2>1 DEF Exact, Aims
  <2>5. File(s) = [i \in 1 .. client[s].want |-> s]
    <3>1. data[worker[s].fd] = [i \in 1 .. worker[s].off |-> s]
      BY <2>1, <2>4 DEF GoesOn, FInv, WrittenAsReceived
    <3> QED BY <2>3, <2>4, <3>1 DEF File
  <2>6. Exists(s)' /\ File(s)' = File(s)
    BY <1>1, <2>1, <2>2, <2>4, FilesStay
  <2>7. Stored(s)'
    BY <1>1, <2>5, <2>6 DEF Stored
  <2>8. Aims(s)'
    BY <2>2 DEF Aims
  <2> QED BY <1>1, <1>3, <2>7, <2>8, UploadIsExact
<1> QED BY <1>4, <1>5, <1>6

LEMMA DownloadBeginsExactly ==
  ASSUME NEW s \in Sessions, GoesOn(s), DownloadOpen(s) \/ DownloadOpenFails(s) \/ DownloadSize(s)
  PROVE  Exact(s)'
<1>1. /\ Types /\ worker[s] \in Servers /\ Opens(worker[s]) /\ Exact(s) /\ client' = client
      /\ worker[s].pc \in {"dlopen", "dlsize"}
      /\ down[s] \in Seq(Token) /\ Len(down[s]) \in Nat
  BY GoesOnIn, Typed DEF DownloadOpen, DownloadOpenFails, DownloadSize, GoesOn
<1>2. DownloadOpens(s)
  BY <1>1, GoesOnIn, ByWorker
<1>3. client[s].pc \in {"reply", "recvsize"} /\ Len(down[s]) = Lead(client[s])
  BY <1>2 DEF DownloadOpens, Fetching
<1>4. CASE DownloadOpen(s)
  <2>1. /\ worker[s].pc = "dlopen" /\ entry[worker[s].req] \in Inodes /\ entry' = entry
        /\ worker' = [worker EXCEPT ![s].pc = "dlsize", ![s].fd = entry[worker[s].req]]
    BY <1>4 DEF DownloadOpen, disk
  <2>2. worker'[s] = [worker[s] EXCEPT !.pc = "dlsize", !.fd = entry[worker[s].req]]
    BY <1>1, <2>1 DEF Types
  <2>3. worker'[s].pc = "dlsize" /\ worker'[s].fd = entry[worker[s].req]
    BY <1>1, <2>2 DEF Servers
  <2>4. worker[s].req = Name(s) /\ Name(s) \in Names /\ Name(s)' = Name(s)
    BY <1>1, <2>1 DEF Exact, Aims, Opens, Name
  <2>5. Aims(s)' /\ Promised(s)'
    BY <2>1, <2>3, <2>4 DEF Aims, Promised, Serving, Exists, Inodes
  <2> QED BY <1>1, <1>3, <2>5, CommandIsExact
<1>5. CASE DownloadOpenFails(s)
  <2>1. worker'[s] = Closed(s)
    BY <1>1, <1>5 DEF DownloadOpenFails, Hangup, Types
  <2>2. worker'[s].pc = "closed"
    BY <1>1, <2>1, BackIs
  <2>3. Aims(s)' /\ Promised(s)'
    BY <2>2 DEF Aims, Promised, Serving
  <2> QED BY <1>1, <1>3, <2>3, CommandIsExact
<1>6. CASE DownloadSize(s)
  <2> DEFINE n == Len(data[worker[s].fd])
             k == Lead(client[s]) + 1
  <2>1. /\ worker[s].pc = "dlsize" /\ entry' = entry /\ data' = data
        /\ worker' = [worker EXCEPT ![s].pc = "dldata", ![s].size = n]
        /\ ToClient(s, <<Size(n)>>)
    BY <1>6 DEF DownloadSize, disk
  <2>2. worker'[s] = [worker[s] EXCEPT !.pc = "dldata", !.size = n]
    BY <1>1, <2>1 DEF Types
  <2>3. worker'[s].pc = "dldata" /\ worker'[s].fd = worker[s].fd
    BY <1>1, <2>2 DEF Servers
  <2>4. Exists(s) /\ worker[s].fd = entry[Name(s)]
    BY <1>1, <2>1 DEF Exact, Aims
  <2>5. Exists(s)' /\ File(s)' = File(s) /\ Name(s)' = Name(s)
    BY <1>1, <2>1, <2>4, FilesStay DEF Name
  <2>6. Aims(s)'
    BY <2>1, <2>3, <2>4, <2>5 DEF Aims
  <2>7. n = Len(File(s)) /\ n \in Nat
    <3>1. data[worker[s].fd] \in Seq(Unit)
      BY <1>1, <2>1 DEF Opens, Types
    <3> QED BY <2>4, <3>1 DEF File
  <2>8. Size(n) \in Token /\ Size(n).n = n /\ <<Size(n)>> \in Seq(Token)
    BY <2>7, Tokens, OneToken
  <2> HIDE DEF n
  <2>9. down'[s] = down[s] \o <<Size(n)>>
    BY <1>1, <2>1 DEF ToClient, At, GoesOn, Types
  <2>10. Len(down'[s]) = k /\ down'[s][k] = Size(n) /\ k \in Nat
    <3>1. Len(down'[s]) = Len(down[s]) + 1 /\ down'[s][Len(down[s]) + 1] = Size(n)
      BY <1>1, <2>8, <2>9, OneMore
    <3> QED BY <1>1, <1>3, <3>1
  <2>11. Promised(s)'
    <3>1. Lead(client'[s]) + 1 = k
      BY <1>1
    <3> HIDE DEF k
    <3>2. down'[s][k].n = Len(File(s)')
      BY <2>5, <2>7, <2>8, <2>10
    <3>3. Follows(down'[s], k, File(s)', 0)
      <4>1. \A i \in 1 .. Len(down'[s]) - k : FALSE
        BY <2>10
      <4> QED BY <4>1 DEF Follows
    <3> QED BY <2>5, <3>1, <3>2, <3>3 DEF Promised
  <2> QED BY <1>1, <1>3, <2>6, <2>11, CommandIsExact
<1> QED BY <1>4, <1>5, <1>6

\* Content sent from where the stream ends goes on with the file.
LEMMA ContentFollows ==
  ASSUME NEW q \in Seq(Token), NEW file \in Seq(Unit), NEW k \in Nat, NEW from \in Nat,
         NEW off \in Nat, NEW end \in Nat, k <= Len(q), off <= end, end <= Len(file),
         off = from + (Len(q) - k),
         Follows(q, k, file, from)
  PROVE  LET sent == q \o Stream(SubSeq(file, off + 1, end))
         IN  (\A i \in 1 .. Len(q) : sent[i] = q[i]) /\ Follows(sent, k, file, from)
<1> DEFINE piece == SubSeq(file, off + 1, end)
           tail == Stream(piece)
           sent == q \o tail
<1>1. Len(q) \in Nat /\ Len(file) \in Nat
  OBVIOUS
<1>2. /\ piece \in Seq(Unit) /\ Len(piece) = end - off
      /\ \A i \in 1 .. end - off : piece[i] = file[off + i]
  BY <1>1
<1> HIDE DEF piece
<1>3. /\ tail \in Seq(Token) /\ Len(tail) = end - off
      /\ \A i \in 1 .. end - off : tail[i].unit = file[off + i]
  <2>1. tail \in Seq(Token) /\ Len(tail) = end - off
    BY <1>2, StreamIs
  <2>2. tail = [i \in DOMAIN piece |-> [tag |-> "data", unit |-> piece[i]]]
    BY DEF Stream
  <2>3. DOMAIN piece = 1 .. end - off
    BY <1>2
  <2>4. \A i \in 1 .. end - off : tail[i].unit = piece[i]
    BY <2>2, <2>3
  <2> QED BY <1>2, <2>1, <2>4
<1> HIDE DEF tail
<1>4. /\ Len(sent) = Len(q) + (end - off)
      /\ \A i \in 1 .. Len(q) : sent[i] = q[i]
      /\ \A i \in 1 .. end - off : sent[Len(q) + i] = tail[i]
  <2>1. /\ Len(sent) = Len(q) + Len(tail)
        /\ \A i \in 1 .. Len(q) : sent[i] = q[i]
        /\ \A i \in 1 .. Len(tail) : sent[Len(q) + i] = tail[i]
    BY <1>3, Joined
  <2> HIDE DEF sent
  <2> QED BY <1>3, <2>1
<1> HIDE DEF sent
<1>5. ASSUME NEW i \in 1 .. Len(sent) - k PROVE sent[k + i].unit = file[from + i]
  <2>1. CASE k + i <= Len(q)
    <3>1. i \in 1 .. Len(q) - k /\ k + i \in 1 .. Len(q)
      BY <1>1, <2>1
    <3>2. q[k + i].unit = file[from + i]
      BY <3>1 DEF Follows
    <3> QED BY <1>4, <3>1, <3>2
  <2>2. CASE k + i > Len(q)
    <3>1. PICK j \in 1 .. end - off : k + i = Len(q) + j /\ from + i = off + j
      <4> DEFINE j == k + i - Len(q)
      <4>1. j \in 1 .. end - off /\ k + i = Len(q) + j /\ from + i = off + j
        BY <1>1, <1>4, <2>2
      <4> HIDE DEF j
      <4> QED BY <4>1
    <3>2. sent[k + i] = tail[j]
      BY <1>4, <3>1
    <3>3. tail[j].unit = file[from + i]
      BY <1>3, <3>1
    <3> QED BY <3>2, <3>3
  <2> QED BY <1>1, <2>1, <2>2
<1>6. (\A i \in 1 .. Len(q) : sent[i] = q[i]) /\ Follows(sent, k, file, from)
  BY <1>4, <1>5 DEF Follows
<1> QED BY <1>6 DEF sent, tail, piece

LEMMA DownloadDataIsExact ==
  ASSUME NEW s \in Sessions, GoesOn(s), DownloadData(s)
  PROVE  Exact(s)'
<1> DEFINE off == worker[s].off
           file == data[worker[s].fd]
           end == PieceEnd(off, Len(file))
           over == worker[s].disturbed \/ end > worker[s].size
           content == Stream(SubSeq(file, off + 1, end))
           q == down[s]
<1>1. /\ Types /\ worker[s] \in Servers /\ Opens(worker[s]) /\ Exact(s) /\ client' = client
      /\ worker[s].pc = "dldata" /\ off < worker[s].size /\ off < Len(file)
      /\ q \in Seq(Token) /\ Len(q) \in Nat /\ off \in Nat /\ worker[s].size \in Nat
      /\ client[s].file \in Seq(Unit) /\ Len(client[s].file) \in Nat
      /\ entry' = entry /\ data' = data
  BY GoesOnIn, Typed DEF DownloadData, GoesOn, disk
<1>2. file \in Seq(Unit) /\ Len(file) \in Nat
  BY <1>1 DEF Opens, Types
<1>3. end \in Nat /\ off <= end /\ end <= Len(file)
  <2> HIDE DEF off, file
  <2>1. end \in Nat /\ off < end /\ end <= Len(file)
    BY <1>1, <1>2, PieceEnds
  <2> QED BY <1>1, <2>1
<1>4. /\ worker' = [worker EXCEPT ![s].off = end, ![s].disturbed = over]
      /\ ToClient(s, content)
  BY DEF DownloadData
<1>5. down'[s] = q \o content
  BY <1>1, <1>4 DEF ToClient, At, GoesOn, Types
<1> HIDE DEF end, content, over
<1>6. worker'[s].pc = "dldata" /\ worker'[s].fd = worker[s].fd
  <2>1. worker'[s] = [worker[s] EXCEPT !.off = end, !.disturbed = over]
    BY <1>1, <1>4 DEF Types
  <2> QED BY <1>1, <2>1 DEF Servers
<1>7. DownloadStarts(s) \/ DownloadRuns(s)
  <2>1. ~AtCommands(worker[s])
    BY <1>1 DEF AtCommands
  <2> QED BY <1>1, <2>1, GoesOnIn, ByWorker DEF Between, Asked
<1>8. Receives(s) /\ Exists(s) /\ worker[s].fd = entry[Name(s)] /\ file = File(s)
  <2>1. Receives(s)
    BY <1>7 DEF Receives, DownloadStarts, DownloadRuns
  <2> QED BY <1>1, <2>1 DEF Exact, Aims, File
<1>9. Exists(s)' /\ File(s)' = file /\ Name(s)' = Name(s)
  BY <1>1, <1>8, FilesStay DEF Name
<1>10. Aims(s)'
  BY <1>1, <1>6, <1>8, <1>9 DEF Aims
<1>11. CASE DownloadStarts(s)
  <2> DEFINE k == Lead(client[s]) + 1
  <2>0. k \in {1, 2}
    BY DEF Lead
  <2>1. /\ k \in Nat /\ k >= 1 /\ k <= Len(q) /\ off = Len(q) - k /\ Announced(s)
        /\ client[s].pc \in {"reply", "recvsize"}
    <3>1. off = Len(q) - k /\ Announced(s)
      BY <1>1, <1>11 DEF DownloadStarts
    <3>2. Len(q) >= k /\ Fetching(s)
      BY <3>1 DEF Announced
    <3> HIDE DEF k, q, off
    <3> QED BY <1>1, <2>0, <3>1, <3>2 DEF Fetching
  <2>2. q[k].n = Len(file) /\ Follows(q, k, file, 0)
    BY <1>1, <1>8, <2>1 DEF Exact, Promised, Serving
  <2>3. Lead(client'[s]) + 1 = k
    BY <1>1
  <2> HIDE DEF k, q, file, off
  <2> DEFINE sent == q \o Stream(SubSeq(file, off + 1, end))
  <2>4. off = 0 + (Len(q) - k) /\ 0 \in Nat
    BY <1>1, <2>1
  <2>5. (\A i \in 1 .. Len(q) : sent[i] = q[i]) /\ Follows(sent, k, file, 0)
    BY <1>1, <1>2, <1>3, <2>1, <2>2, <2>4, ContentFollows
  <2>6. down'[s] = sent
    BY <1>5 DEF content
  <2> HIDE DEF sent
  <2>7. down'[s][k].n = Len(file)
    <3>1. k \in 1 .. Len(q)
      BY <1>1, <2>1
    <3> QED BY <2>2, <2>5, <2>6, <3>1
  <2>8. Promised(s)'
    BY <1>9, <2>3, <2>5, <2>6, <2>7 DEF Promised
  <2> QED BY <1>1, <1>10, <2>1, <2>8, CommandIsExact
<1>12. CASE DownloadRuns(s)
  <2> DEFINE m == Len(client[s].file)
  <2>1. client[s].pc = "recvdata" /\ off = m + Len(q)
    BY <1>1, <1>12 DEF DownloadRuns
  <2>2. /\ client[s].want = Len(file) /\ Follows(q, 0, file, m)
        /\ \A i \in 1 .. m : client[s].file[i] = file[i]
    BY <1>1, <1>8, <2>1 DEF Exact, Copied, Serving
  <2>3. Len(client'[s].file) = m
    BY <1>1
  <2>4. m \in Nat
    BY <1>1
  <2> HIDE DEF m, q, file, off
  <2> DEFINE sent == q \o Stream(SubSeq(file, off + 1, end))
  <2>5. Follows(down'[s], 0, file, m)
    <3>1. 0 \in Nat /\ 0 <= Len(q) /\ off = m + (Len(q) - 0)
      BY <1>1, <2>1, <2>4
    <3>2. Follows(sent, 0, file, m)
      BY <1>1, <1>2, <1>3, <2>2, <2>4, <3>1, ContentFollows
    <3>3. down'[s] = sent
      BY <1>5 DEF content
    <3> HIDE DEF sent
    <3> QED BY <3>2, <3>3
  <2>6. Copied(s)'
    BY <1>1, <1>9, <2>2, <2>3, <2>5 DEF Copied, m
  <2>7. ~Announced(s)'
    BY <1>1, <2>1, GoesOnIn, NotAnnounced
  <2> QED BY <1>1, <1>10, <2>1, <2>6, <2>7 DEF Exact, Honest, Stored, Promised, Finished
<1> QED BY <1>7, <1>11, <1>12

LEMMA DownloadDoneIsExact ==
  ASSUME NEW s \in Sessions, GoesOn(s), DownloadDone(s)
  PROVE  Exact(s)'
<1>1. Types /\ worker[s] \in Servers /\ Exact(s) /\ client' = client /\ down' = down
  BY GoesOnIn, Typed DEF DownloadDone, GoesOn
<1> DEFINE b == Back(s).disturbed \/ worker[s].off < worker[s].size
<1>2. Settle(entry, s, [Back(s) EXCEPT !.disturbed = b]) /\ b \in BOOLEAN
      /\ worker[s].pc = "dldata"
  BY DEF DownloadDone
<1> HIDE DEF b
<1>3. worker'[s].pc = "recv" /\ entry' = entry
  <2> DEFINE w == [Back(s) EXCEPT !.disturbed = b]
  <2>1. w.pc = "recv"
    BY <1>1, <1>2, BackIs
  <2> HIDE DEF w
  <2>2. worker' = [worker EXCEPT ![s] = w] /\ entry' = entry
    BY <1>2 DEF Settle, w
  <2> QED BY <1>1, <2>1, <2>2 DEF Types
<1>4. Exists(s) => Exists(s)' /\ File(s)' = File(s)
  BY <1>1, <1>2, <1>3, FilesStay
<1>5. Between(s) \/ Asked(s) \/ DownloadStarts(s) \/ DownloadRuns(s)
  BY <1>2, GoesOnIn, ByWorker
<1>6. Aims(s)' /\ client[s].pc \notin {"senddata", "result"}
  BY <1>3, <1>5 DEF Aims, Between, Asked, DownloadStarts, Announced, Fetching, DownloadRuns
<1>7. Honest(client'[s]) /\ Stored(s)'
  BY <1>1, <1>6 DEF Exact, Honest, Stored
<1>8. Promised(s)'
  <2>1. Announced(s)' => Announced(s) /\ Serving(s)
    <3>1. up' = up
      BY DEF DownloadDone
    <3> QED BY <1>1, <1>2, <3>1 DEF Announced, Fetching, InCommand, ContentAfter, Serving
  <2> QED BY <1>1, <1>4, <2>1 DEF Exact, Promised
<1>9. Copied(s)'
  BY <1>1, <1>2, <1>4 DEF Exact, Copied, Serving
<1>10. Finished(s)'
  BY <1>1, <1>4 DEF Exact, Finished, Moved, First
<1> QED BY <1>6, <1>7, <1>8, <1>9, <1>10 DEF Exact

LEMMA ServerIsExact ==
  ASSUME NEW s \in Sessions, GoesOn(s), ServerAnswers(s)
  PROVE  Exact(s)'
<1>1. ~MisreadCommand(s)
  <2>1. worker[s].pc # "astray"
    BY GoesOnIn, ByWorker
  <2>2. worker[s].pc = "recv" /\ up[s] # <<>> => up[s][1].tag = "cmd"
    BY GoesOnIn, CommandRead, Tokens DEF Asked
  <2> QED BY <2>1, <2>2 DEF MisreadCommand, Misfit, ServerExpects
<1>2. ~LoseClient(s) /\ ~SendFails(s)
  BY DEF LoseClient, SendFails, At, GoesOn
<1> QED BY <1>1, <1>2, AnswersAreExact, AcceptIsExact, UploadBeginsExactly, UploadRunsExactly,
           DownloadBeginsExactly, DownloadDataIsExact, DownloadDoneIsExact DEF ServerAnswers

-----------------------------------------------------------------------------
(* The other sessions.                                                     *)

Reading(w) == ~w.login => w.pc \in {"recv", "astray", "closed"}

\* How a worker may change: a mark is never taken back, and who was logged in
\* is, or is closed.
Progress(w, v) ==
  /\ w.disturbed => v.disturbed
  /\ w.login => v.login \/ v.pc = "closed"
  /\ w.pc = "closed" => v.pc = "closed"
  /\ Reading(w) => Reading(v)

LEMMA AnswerProgresses ==
  ASSUME Types, NEW s \in Sessions, ServerAnswers(s)
  PROVE  Progress(worker[s], worker'[s])
<1>1. /\ worker[s] \in Servers
      /\ worker[s].login \in BOOLEAN /\ worker[s].disturbed \in BOOLEAN
  BY Typed DEF Servers
<1>2. ASSUME NEW b \in BOOLEAN, worker[s].disturbed => b
      PROVE  LET w == [Back(s) EXCEPT !.disturbed = b]
             IN  worker[s].pc # "closed" => Progress(worker[s], w)
  BY <1>1, <1>2 DEF Back, Servers, Progress, Reading
<1>3. worker[s].pc # "closed" => Progress(worker[s], Back(s))
  BY <1>1 DEF Back, Servers, Progress, Reading
<1>4. Progress(worker[s], Closed(s))
  BY <1>1 DEF Closed, Back, Servers, Progress, Reading
<1>5. CASE Quit(s) \/ DownloadOpenFails(s)
  <2>1. worker'[s] = Closed(s)
    BY <1>5 DEF Quit, DownloadOpenFails, Hangup, Types
  <2> QED BY <1>4, <2>1
<1>6. CASE List(s) \/ (\E op \in NamedOps : Refuse(s, op)) \/ Mkdir(s)
  <2>1. worker'[s] = worker[s]
    BY <1>6 DEF List, Refuse, Mkdir
  <2> QED BY <2>1 DEF Progress
<1>7. CASE Login(s)
  <2> DEFINE ok == ~worker[s].login /\ Arg(s) = "known"
             b == worker[s].login \/ ok
  <2>1. worker'[s] = [worker[s] EXCEPT !.login = b] /\ worker[s].pc = "recv"
    BY <1>7 DEF Login, Reads, Types
  <2>2. b \in BOOLEAN /\ (worker[s].login => b)
    OBVIOUS
  <2> HIDE DEF b
  <2> QED BY <1>1, <2>1, <2>2 DEF Servers, Progress, Reading
<1>8. CASE RmStat(s) \/ GetsStat(s) \/ PutsReady(s)
  <2>1. PICK where \in {"unlink", "dlopen", "upsize"} :
          worker' = worker \/ worker' = [worker EXCEPT ![s].pc = where, ![s].req = Arg(s)]
    BY <1>8 DEF RmStat, GetsStat, PutsReady, StatFile
  <2>2. worker[s].login /\ worker[s].pc = "recv"
    BY <1>8 DEF RmStat, GetsStat, PutsReady, StatFile, Accepts, Reads
  <2>3. CASE worker' = worker
    BY <2>3 DEF Progress
  <2>4. CASE worker' = [worker EXCEPT ![s].pc = where, ![s].req = Arg(s)]
    <3>1. worker'[s] = [worker[s] EXCEPT !.pc = where, !.req = Arg(s)]
      BY <2>4 DEF Types
    <3> QED BY <1>1, <2>2, <3>1 DEF Servers, Progress, Reading
  <2> QED BY <2>1, <2>3, <2>4
<1>9. CASE UploadSize(s) \/ DownloadOpen(s) \/ DownloadSize(s)
  <2>1. /\ worker[s].pc \in {"upsize", "dlopen", "dlsize"}
        /\ \/ \E n : worker' = [worker EXCEPT ![s].pc = "upopen", ![s].size = n]
           \/ \E n : worker' = [worker EXCEPT ![s].pc = "dlsize", ![s].fd = n]
           \/ \E n : worker' = [worker EXCEPT ![s].pc = "dldata", ![s].size = n]
    BY <1>9 DEF UploadSize, DownloadOpen, DownloadSize
  <2>2. PICK n :
          \/ worker'[s] = [worker[s] EXCEPT !.pc = "upopen", !.size = n]
          \/ worker'[s] = [worker[s] EXCEPT !.pc = "dlsize", !.fd = n]
          \/ worker'[s] = [worker[s] EXCEPT !.pc = "dldata", !.size = n]
    BY <2>1 DEF Types
  <2> QED BY <1>1, <2>1, <2>2 DEF Servers, Progress, Reading
<1>10. CASE UploadOpen(s)
  <2>1. PICK inode, b : worker'[s] = [worker[s] EXCEPT !.pc = "updata", !.fd = inode, !.shared = b]
    BY <1>10 DEF UploadOpen, Opened
  <2> QED BY <1>1, <1>10, <2>1 DEF UploadOpen, Servers, Progress, Reading
<1>11. CASE UploadData(s)
  <2>1. PICK n : worker'[s] = [worker[s] EXCEPT !.off = n]
    BY <1>11 DEF UploadData, Types
  <2> QED BY <1>1, <2>1 DEF Servers, Progress, Reading
<1>12. CASE DownloadData(s)
  <2> DEFINE end == PieceEnd(worker[s].off, Len(data[worker[s].fd]))
             b == worker[s].disturbed \/ end > worker[s].size
  <2>1. worker'[s] = [worker[s] EXCEPT !.off = end, !.disturbed = b]
    BY <1>12 DEF DownloadData, Types
  <2>2. b \in BOOLEAN /\ (worker[s].disturbed => b)
    OBVIOUS
  <2> HIDE DEF b, end
  <2> QED BY <1>1, <2>1, <2>2 DEF Servers, Progress, Reading
<1>13. CASE RmUnlink(s) \/ UploadDone(s)
  <2>1. worker'[s] = Back(s) /\ worker[s].pc # "closed"
    BY <1>13 DEF RmUnlink, UploadDone, Settle, Types
  <2> QED BY <1>3, <2>1
<1>14. CASE UploadOpenFails(s) \/ UploadWriteFails(s) \/ DownloadDone(s)
  <2>1. PICK b \in BOOLEAN :
          /\ worker[s].disturbed => b
          /\ worker' = [worker EXCEPT ![s] = [Back(s) EXCEPT !.disturbed = b]]
    <3>0. Back(s).disturbed = worker[s].disturbed
      BY BackIs
    <3>1. ASSUME NEW left, UploadGivesUp(s, left)
          PROVE  \E b \in BOOLEAN :
                   /\ worker[s].disturbed => b
                   /\ worker' = [worker EXCEPT ![s] = [Back(s) EXCEPT !.disturbed = b]]
      <4> DEFINE b == Back(s).disturbed \/ left > 0
      <4>1. /\ worker' = [worker EXCEPT ![s] = [Back(s) EXCEPT !.disturbed = b]]
            /\ b \in BOOLEAN /\ (worker[s].disturbed => b)
        BY <3>0, <3>1 DEF UploadGivesUp, Settle
      <4> HIDE DEF b
      <4> QED BY <4>1
    <3>2. ASSUME DownloadDone(s)
          PROVE  \E b \in BOOLEAN :
                   /\ worker[s].disturbed => b
                   /\ worker' = [worker EXCEPT ![s] = [Back(s) EXCEPT !.disturbed = b]]
      <4> DEFINE b == Back(s).disturbed \/ worker[s].off < worker[s].size
      <4>1. /\ worker' = [worker EXCEPT ![s] = [Back(s) EXCEPT !.disturbed = b]]
            /\ b \in BOOLEAN /\ (worker[s].disturbed => b)
        BY <3>0, <3>2 DEF DownloadDone, Settle
      <4> HIDE DEF b
      <4> QED BY <4>1
    <3> QED BY <1>14, <3>1, <3>2 DEF UploadOpenFails, UploadWriteFails
  <2>2. worker'[s] = [Back(s) EXCEPT !.disturbed = b] /\ worker[s].pc # "closed"
    BY <1>14, <2>1 DEF Types, UploadOpenFails, UploadWriteFails, DownloadDone
  <2> QED BY <1>2, <2>1, <2>2
<1>15. CASE LoseClient(s) \/ SendFails(s)
  <2>1. worker'[s] = Closed(s) \/ (worker'[s] = Back(s) /\ worker[s].pc # "closed")
    BY <1>15 DEF LoseClient, SendFails, Settle, Types
  <2> QED BY <1>3, <1>4, <2>1
<1>16. CASE MisreadCommand(s)
  <2>1. \/ worker'[s] = Closed(s)
        \/ \E to \in {"astray", "recv"} : worker'[s] = [worker[s] EXCEPT !.pc = to]
    BY <1>16 DEF MisreadCommand, Hangup, Types
  <2>2. worker[s].pc # "closed"
    BY <1>16 DEF MisreadCommand
  <2>3. ASSUME NEW to \in {"astray", "recv"}, worker'[s] = [worker[s] EXCEPT !.pc = to]
        PROVE  Progress(worker[s], worker'[s])
    BY <1>1, <2>2, <2>3 DEF Servers, Progress, Reading
  <2> QED BY <1>4, <2>1, <2>3
<1> QED BY <1>5, <1>6, <1>7, <1>8, <1>9, <1>10, <1>11, <1>12, <1>13, <1>14, <1>15, <1>16
        DEF ServerAnswers

\* A step of the client of v, or of its worker.
ClientStep(v) ==
  AskLogin(v) \/ AskCommand(v) \/ ClientAnswers(v) \/ LocalFileChanges(v) \/ GoAway(v)
Step(v) == ClientStep(v) \/ ServerAnswers(v)

LEMMA ClientProgresses ==
  ASSUME Types, NEW v \in Sessions, ClientStep(v)
  PROVE  Progress(worker[v], worker'[v])
<1>1. PICK b \in BOOLEAN :
        worker' = [worker EXCEPT ![v].disturbed = b] /\ (~b => ~worker[v].disturbed)
  BY ClientMarks DEF ClientStep
<1>2. worker'[v] = [worker[v] EXCEPT !.disturbed = b] /\ worker[v] \in Servers
  BY <1>1 DEF Types
<1> QED BY <1>1, <1>2 DEF Servers, Progress, Reading

\* A step of one session leaves the programs and the streams of the others as
\* they are, but for the mark that two uploads share a file.
Similar(w, x) ==
  /\ x.pc = w.pc /\ x.req = w.req /\ x.login = w.login /\ x.fd = w.fd
  /\ x.off = w.off /\ x.size = w.size /\ x.disturbed = w.disturbed

LEMMA OthersStay ==
  ASSUME Types, NEW v \in Sessions, Step(v), NEW t \in Sessions \ {v}
  PROVE  /\ client'[t] = client[t] /\ up'[t] = up[t] /\ down'[t] = down[t]
         /\ Similar(worker[t], worker'[t])
         /\ UploadOpen(v) \/ worker'[t] = worker[t]
<1>1. t \in Sessions /\ t # v /\ worker[t] \in Servers
  BY Typed
<1>2. CASE ClientStep(v)
  <2>1. PICK b \in BOOLEAN : worker' = [worker EXCEPT ![v].disturbed = b]
    BY <1>2, ClientMarks DEF ClientStep
  <2>2. worker'[t] = worker[t]
    BY <1>1, <2>1 DEF Types
  <2>3. client'[t] = client[t]
    BY <1>1, <1>2 DEF Types, ClientStep, AskLogin, AskCommand, Ask, ClientAnswers, ReadReply,
       SendSize, SendData, SendFileReturns, ReadResult, RecvSize, RecvData, RecvFileReturns,
       MisreadReply, LoseServer, Leave, LocalFileChanges, GoAway
  <2>4. up'[t] = up[t] /\ down'[t] = down[t]
    BY <1>1, <1>2 DEF Types, ClientStep, AskLogin, AskCommand, Ask, ClientAnswers, ReadReply,
       SendSize, SendData, SendFileReturns, ReadResult, RecvSize, RecvData, RecvFileReturns,
       MisreadReply, LoseServer, Leave, LocalFileChanges, GoAway, ToServer
  <2> QED BY <2>2, <2>3, <2>4 DEF Similar
<1>3. CASE ServerAnswers(v)
  <2>1. client' = client
    BY <1>3 DEF ServerAnswers, Quit, Login, List, Mkdir, RmStat, RmUnlink, Refuse, PutsReady,
       UploadSize, UploadOpen, UploadOpenFails, UploadData, UploadWriteFails, UploadDone, GetsStat,
       DownloadOpen, DownloadOpenFails, DownloadSize, DownloadData, DownloadDone, MisreadCommand,
       LoseClient, SendFails, StatFile, Accepts, UploadGivesUp
  <2>2. up'[t] = up[t]
    BY <1>1, <1>3 DEF Types, ServerAnswers, Quit, Login, List, Mkdir, RmStat, RmUnlink, Refuse,
       PutsReady, UploadSize, UploadOpen, UploadOpenFails, UploadData, UploadWriteFails, UploadDone,
       GetsStat, DownloadOpen, DownloadOpenFails, DownloadSize, DownloadData, DownloadDone,
       MisreadCommand, LoseClient, SendFails, StatFile, Accepts, UploadGivesUp, Hangup, Drop
  <2>3. down'[t] = down[t]
    BY <1>1, <1>3 DEF Types, ServerAnswers, Quit, Login, List, Mkdir, RmStat, RmUnlink, Refuse,
       PutsReady, UploadSize, UploadOpen, UploadOpenFails, UploadData, UploadWriteFails, UploadDone,
       GetsStat, DownloadOpen, DownloadOpenFails, DownloadSize, DownloadData, DownloadDone,
       MisreadCommand, LoseClient, SendFails, StatFile, Accepts, UploadGivesUp, ToClient
  <2>4. UploadOpen(v) \/ worker'[t] = worker[t]
    BY <1>1, <1>3 DEF Types, ServerAnswers, Quit, Login, List, Mkdir, RmStat, RmUnlink, Refuse,
       PutsReady, UploadSize, UploadOpenFails, UploadData, UploadWriteFails, UploadDone,
       GetsStat, DownloadOpen, DownloadOpenFails, DownloadSize, DownloadData, DownloadDone,
       MisreadCommand, LoseClient, SendFails, StatFile, UploadGivesUp, Hangup, Settle
  <2>5. UploadOpen(v) => \E b : worker'[t] = [worker[t] EXCEPT !.shared = b]
    BY <1>1 DEF UploadOpen, Opened
  <2>6. Similar(worker[t], worker'[t])
    BY <1>1, <2>4, <2>5 DEF Servers, Similar
  <2> QED BY <2>1, <2>2, <2>3, <2>4, <2>6
<1> QED BY <1>2, <1>3 DEF Step

\* So every worker makes progress, whoever takes the step.
Progresses == \A t \in Sessions : Progress(worker[t], worker'[t])

LEMMA StepProgresses ==
  ASSUME Types, NEW v \in Sessions, Step(v)
  PROVE  Progresses
<1>1. ASSUME NEW t \in Sessions PROVE Progress(worker[t], worker'[t])
  <2>1. CASE t = v
    BY <2>1, ClientProgresses, AnswerProgresses DEF Step
  <2>2. CASE t # v
    BY <2>2, OthersStay DEF Similar, Progress, Reading
  <2> QED BY <2>1, <2>2
<1> QED BY <1>1 DEF Progresses

\* A session that is alone, or undisturbed, after a step was so before.
LEMMA ItWasSo ==
  ASSUME Progresses, Known, NEW s \in Sessions
  PROVE  /\ Known' /\ (Alone(s)' => Alone(s))
         /\ worker[s].disturbed => worker'[s].disturbed
<1>1. Known'
  BY DEF Progresses, Progress, Known, Reading
<1>2. Alone(s)' => Alone(s)
  BY DEF Progresses, Progress, Alone
<1>3. worker[s].disturbed => worker'[s].disturbed
  BY DEF Progresses, Progress
<1> QED BY <1>1, <1>2, <1>3

\* A worker that has not logged its client in, and does not now, only reads
\* commands and refuses them.
LEMMA StrangersAreHarmless ==
  ASSUME Types, NEW v \in Sessions, Step(v), Reading(worker[v]), ~worker[v].login,
         ~worker'[v].login, worker'[v].pc # "closed"
  PROVE  entry' = entry /\ data' = data /\ ~UploadOpen(v)
<1>1. worker[v].pc # "closed" => worker[v].pc \in {"recv", "astray"}
  BY DEF Reading
<1>2. CASE ClientStep(v)
  <2>1. entry' = entry /\ data' = data
    BY <1>2, ClientMarks DEF ClientStep
  <2>2. ~UploadOpen(v)
    BY <1>1 DEF UploadOpen
  <2> QED BY <2>1, <2>2
<1>3. CASE ServerAnswers(v)
  <2>1. Closed(v).pc = "closed"
    BY BackIs
  <2>2. worker'[v] # Closed(v)
    BY <2>1
  <2>3. ~Mkdir(v) /\ ~RmStat(v) /\ ~PutsReady(v) /\ ~GetsStat(v)
    BY DEF Mkdir, RmStat, PutsReady, GetsStat, StatFile, Accepts
  <2>4. /\ ~RmUnlink(v) /\ ~UploadSize(v) /\ ~UploadOpen(v) /\ ~UploadOpenFails(v)
        /\ ~UploadData(v) /\ ~UploadWriteFails(v) /\ ~UploadDone(v) /\ ~DownloadOpen(v)
        /\ ~DownloadOpenFails(v) /\ ~DownloadSize(v) /\ ~DownloadData(v) /\ ~DownloadDone(v)
        /\ ~SendFails(v)
    BY <1>1 DEF RmUnlink, UploadSize, UploadOpen, UploadOpenFails, UploadData, UploadWriteFails,
       UploadDone, DownloadOpen, DownloadOpenFails, DownloadSize, DownloadData, DownloadDone,
       SendFails
  <2>5. ~LoseClient(v)
    <3>1. SUFFICES ASSUME LoseClient(v) PROVE FALSE
      OBVIOUS
    <3>2. Settle(entry, v, Closed(v))
      BY <1>1, <3>1 DEF LoseClient
    <3> QED BY <2>2, <3>2, SettleIs DEF Types
  <2>6. Quit(v) \/ Login(v) \/ List(v) \/ (\E op \in NamedOps : Refuse(v, op)) \/ MisreadCommand(v)
    BY <1>3, <2>3, <2>4, <2>5 DEF ServerAnswers
  <2> QED BY <2>4, <2>6 DEF Quit, Login, List, Refuse, MisreadCommand, disk
<1> QED BY <1>2, <1>3 DEF Step

LEMMA ExactIsLocal ==
  ASSUME NEW s \in Sessions, Exact(s), client'[s] = client[s], worker'[s] = worker[s],
         down'[s] = down[s], up'[s] = up[s], entry' = entry, data' = data
  PROVE  Exact(s)'
<1>1. /\ Name(s)' = Name(s) /\ (Exists(s)' <=> Exists(s)) /\ File(s)' = File(s)
  BY DEF Name, Exists, File, Inodes
<1>2. Announced(s)' <=> Announced(s)
  BY DEF Announced, Fetching, InCommand, ContentAfter
<1>3. Honest(client[s])' /\ Aims(s)'
  BY <1>1, <1>2 DEF Exact, Honest, Aims, Receives
<1>4. Stored(s)'
  BY <1>1 DEF Exact, Stored
<1>5. Promised(s)'
  BY <1>1, <1>2 DEF Exact, Promised, Serving, Follows
<1>6. Copied(s)'
  BY <1>1 DEF Exact, Copied, Serving, Follows
<1>7. Finished(s)'
  BY <1>1 DEF Exact, Finished, Moved
<1> QED BY <1>3, <1>4, <1>5, <1>6, <1>7 DEF Exact

-----------------------------------------------------------------------------
(* The invariant.                                                          *)

LEMMA InitExact == Init => XInv
<1> SUFFICES ASSUME Init PROVE XInv
  OBVIOUS
<1>1. FInv
  BY InitOwns
<1>2. /\ Newcomer.pc = "login" /\ Newcomer.outcome = "none"
      /\ Fresh.pc = "recv" /\ Fresh.login = FALSE
  BY DEF Newcomer, Fresh
<1>3. Known
  BY <1>2 DEF Init, Known
<1>4. ASSUME NEW s \in Sessions PROVE Exact(s)
  BY <1>2 DEF Init, Exact, Honest, Aims, Receives, Announced, Fetching, Stored, Promised, Copied,
     Finished
<1> QED BY <1>1, <1>3, <1>4 DEF XInv

\* A client that has gone does not come back.
LEMMA GoneStaysGone ==
  ASSUME Types, NEW s \in Sessions, Step(s), client[s].pc = "gone"
  PROVE  client'[s].pc = "gone"
<1>1. CASE ClientStep(s)
  BY <1>1 DEF ClientStep, AskLogin, AskCommand, ClientAnswers, ReadReply, SendSize, SendData,
     SendFileReturns, ReadResult, RecvSize, RecvData, RecvFileReturns, MisreadReply, LoseServer,
     LocalFileChanges, GoAway, At
<1>2. CASE ServerAnswers(s)
  <2>1. client' = client
    BY <1>2 DEF ServerAnswers, Quit, Login, List, Mkdir, RmStat, RmUnlink, Refuse, PutsReady,
       UploadSize, UploadOpen, UploadOpenFails, UploadData, UploadWriteFails, UploadDone, GetsStat,
       DownloadOpen, DownloadOpenFails, DownloadSize, DownloadData, DownloadDone, MisreadCommand,
       LoseClient, SendFails, StatFile, Accepts, UploadGivesUp
  <2> QED BY <2>1
<1> QED BY <1>1, <1>2 DEF Step

LEMMA StepIsExact ==
  ASSUME XInv, FInv', NEW v \in Sessions, Step(v)
  PROVE  XInv'
<1>1. FInv /\ Types /\ Known
  BY DEF XInv, FInv, IInv
<1>2. Progresses
  BY <1>1, StepProgresses
<1>3. Known'
  BY <1>1, <1>2, ItWasSo
<1>4. ASSUME NEW s \in Sessions, Alone(s)', client'[s].pc # "gone", ~worker'[s].disturbed
      PROVE  Exact(s)'
  <2>1. Alone(s) /\ ~worker[s].disturbed
    BY <1>1, <1>2, <1>4, ItWasSo
  <2>2. CASE s = v
    <3>1. client[s].pc # "gone"
      BY <1>1, <1>4, <2>2, GoneStaysGone
    <3>2. Exact(s)
      BY <2>1, <3>1 DEF XInv
    <3>3. GoesOn(s)
      BY <1>1, <1>4, <2>1, <3>1, <3>2 DEF GoesOn
    <3> QED BY <2>2, <3>3, ClientIsExact, ServerIsExact DEF Step, ClientStep
  <2>3. CASE s # v
    <3>1. ~worker'[v].login /\ worker'[v].pc # "closed"
      BY <1>4, <2>3 DEF Alone
    <3>2. ~worker[v].login /\ Reading(worker[v])
      BY <1>1, <2>1, <2>3 DEF Alone, Known, Reading
    <3>3. entry' = entry /\ data' = data /\ ~UploadOpen(v)
      BY <1>1, <3>1, <3>2, StrangersAreHarmless
    <3>4. /\ client'[s] = client[s] /\ up'[s] = up[s] /\ down'[s] = down[s]
          /\ worker'[s] = worker[s]
      BY <1>1, <2>3, <3>3, OthersStay
    <3>5. Exact(s)
      BY <1>4, <2>1, <3>4 DEF XInv
    <3> QED BY <3>3, <3>4, <3>5, ExactIsLocal
  <2> QED BY <2>2, <2>3
<1> QED BY <1>3, <1>4 DEF XInv

LEMMA NextIsExact == XInv /\ [Next]_vars => XInv'
<1> SUFFICES ASSUME XInv, [Next]_vars PROVE XInv'
  OBVIOUS
<1>1. FInv'
  BY NextOwns DEF XInv
<1>2. CASE UNCHANGED vars \/ Terminated
  <2>1. UNCHANGED <<client, worker, up, down, entry, data>>
    BY <1>2 DEF Terminated, vars, disk
  <2>2. Known /\ Known'
    BY <2>1 DEF XInv, Known
  <2>3. ASSUME NEW s \in Sessions, Alone(s)', client'[s].pc # "gone", ~worker'[s].disturbed
        PROVE  Exact(s)'
    <3>1. Exact(s)
      BY <2>1, <2>3 DEF XInv, Alone
    <3> QED BY <2>1, <3>1, ExactIsLocal
  <2> QED BY <1>1, <2>2, <2>3 DEF XInv
<1>3. ASSUME NEW s \in Sessions, Step(s) PROVE XInv'
  BY <1>1, <1>3, StepIsExact
<1> QED BY <1>2, <1>3 DEF Next, Step, ClientStep

\* Whatever clients that are not logged in send meanwhile: when an upload was
\* reported as done, the server's file is the local file as it was announced,
\* and a download that succeeded is the server's file, at any length and with
\* any splitting of the streams (handle.c:403-409 and 448-454).
THEOREM TransfersAreExact == Spec => []TransferIsExact
<1>1. XInv => TransferIsExact
  <2> SUFFICES ASSUME XInv, NEW s \in Sessions, Alone(s), At(s, "idle"),
                      client[s].outcome = "ok", ~worker[s].disturbed
               PROVE  FileContent(client[s].cmd.name) = Moved(s)
    BY DEF TransferIsExact
  <2>1. client[s].pc = "idle" /\ Exact(s)
    BY DEF XInv, At
  <2>2. Exists(s) /\ File(s) = Moved(s)
    BY <2>1 DEF Exact, Finished
  <2> QED BY <2>2 DEF Exists, File, FileContent, Name
<1> QED BY <1>1, InitExact, NextIsExact, PTL DEF Spec
=============================================================================
