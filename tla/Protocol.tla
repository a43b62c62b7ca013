------------------------------ MODULE Protocol ------------------------------
(***************************************************************************)
(* src/src/common/protocol.c: strings and file sizes over a byte stream,   *)
(* one direction of a connection.                                          *)
(*                                                                         *)
(* A string is its length, an int, and then its characters; a file size is *)
(* one fixed-length field.  send and recv move any part of what they are   *)
(* asked for.  The receiver keeps what fits its buffer and must read the   *)
(* rest off the stream in pieces.  The connection may be lost at any time, *)
(* with what is under way.                                                 *)
(*                                                                         *)
(* A byte on the wire is <<m, i>>, the i-th byte of message m: the receiver *)
(* never looks at it, except that the bytes of a length say what it is if  *)
(* they are those of one message, all and in order, and anything otherwise. *)
(* Both ends agree which messages are sizes; that the two programs do is   *)
(* the subject of Conversation.                                            *)
(***************************************************************************)
EXTENDS Integers, Sequences

CONSTANTS Values,     \* lengths of strings, and file sizes
          Limits,     \* sizes of the buffers strings are received into (max_len)
          SizeTurns,  \* the messages, by number, that are file sizes
          IntBytes, OffBytes,  \* sizeof(int), sizeof(off_t)
          Piece,      \* sizeof(temp), what is swallowed at a time
          Capacity,   \* bytes the kernel takes before send blocks
          Misread,    \* what an int may be that is put together from other bytes
          SizeMax,    \* SIZE_MAX + 1, where a negative length wraps
          Leftover,   \* bytes an upload that broke off left in the stream
          MaxMessages \* bound: messages sent

ASSUME FramingAssumption ==
  /\ Values \subseteq Nat
  /\ \A limit \in Limits : limit \in Nat /\ limit >= 1
  /\ IntBytes \in Nat /\ IntBytes >= 1
  /\ OffBytes \in Nat /\ OffBytes >= 1
  /\ Piece \in Nat /\ Piece >= 1
  /\ Capacity \in Nat /\ Capacity >= 1
  /\ Misread \subseteq Int
  /\ SizeMax \in Nat
  /\ Leftover \in 0 .. Capacity
  /\ MaxMessages \in Nat

VARIABLES
  sender,    \* protocol_send_*: the field it sends, and `total`
  receiver,  \* protocol_recv_*: the field it reads, and its locals
  wire,      \* bytes sent and not yet received
  link,      \* "up" or "down"
  sent,      \* history: the value of each message, and the offset it starts at
  got,       \* history: what each call returned
  astray     \* whether file content lay in the stream at the start

vars == <<sender, receiver, wire, link, sent, got, astray>>

-----------------------------------------------------------------------------
(* Layout.                                                                 *)

HeadLen(m) == IF m \in SizeTurns THEN OffBytes ELSE IntBytes
BodyLen(m) == IF m \in SizeTurns THEN 0 ELSE sent[m].n
Total(m) == HeadLen(m) + BodyLen(m)

\* The bytes of message m from i + 1 to i + k.
Bytes(m, i, k) == [j \in 1 .. k |-> <<m, i + j>>]

Min(a, b) == IF a < b THEN a ELSE b

\* Where the stream stands after everything that was sent.
End == IF sent = <<>> THEN 0 ELSE sent[Len(sent)].at + Total(Len(sent))

InitWith(bytes) ==
  /\ sender = [pc |-> "idle", total |-> 0]
  /\ receiver = [pc |-> "idle", limit |-> 0, part |-> <<>>, len |-> 0,
                 kept |-> <<>>, remain |-> 0]
  /\ wire = bytes
  /\ link = "up"
  /\ sent = <<>>
  /\ got = <<>>

Init == InitWith(<<>>) /\ astray = FALSE

\* An upload broke off, and content (of no message) is where the next message
\* is expected.
InitAstray == InitWith(Bytes(0, 0, Leftover)) /\ astray = TRUE

-----------------------------------------------------------------------------
(* protocol_send_string, protocol_send_file_size, protocol_send_n.         *)

StartSend(n) ==
  /\ sender.pc = "idle"
  /\ Len(sent) < MaxMessages
  /\ sender' = [pc |-> "head", total |-> 0]
  /\ sent' = Append(sent, [n |-> n, at |-> End])
  /\ UNCHANGED <<receiver, wire, link, got>>

\* How many bytes the current protocol_send_n has to send, and after which
\* bytes of the message.
ToSend == IF sender.pc = "head" THEN HeadLen(Len(sent)) ELSE BodyLen(Len(sent))
SentBefore == IF sender.pc = "head" THEN 0 ELSE HeadLen(Len(sent))

\* One send() of the loop.  A length of 0 has no characters after it.
SendSome ==
  /\ sender.pc \in {"head", "body"}
  /\ link = "up"
  /\ \E k \in 1 .. Min(ToSend - sender.total, Capacity - Len(wire)) :
       /\ wire' = wire \o Bytes(Len(sent), SentBefore + sender.total, k)
       /\ sender' =
            IF sender.total + k < ToSend THEN [sender EXCEPT !.total = @ + k]
            ELSE [pc |-> IF sender.pc = "head" /\ BodyLen(Len(sent)) > 0 THEN "body" ELSE "idle",
                  total |-> 0]
  /\ UNCHANGED <<receiver, link, sent, got>>

SendFails ==
  /\ sender.pc \in {"head", "body"}
  /\ link = "down"
  /\ sender' = [sender EXCEPT !.pc = "failed"]
  /\ UNCHANGED <<receiver, wire, link, sent, got>>

\* The peer or the network is gone; some of what is under way still arrives.
LoseLink ==
  /\ link = "up"
  /\ link' = "down"
  /\ \E k \in 0 .. Len(wire) : wire' = SubSeq(wire, 1, k)
  /\ UNCHANGED <<sender, receiver, sent, got>>

-----------------------------------------------------------------------------
(* protocol_recv_string, protocol_recv_file_size, protocol_recv_n.         *)

\* The message a call is about: the next one.
Turn == Len(got) + 1

StartRecv(limit) ==
  /\ receiver.pc = "idle"
  /\ receiver' = [receiver EXCEPT !.pc = "head", !.limit = limit, !.part = <<>>]
  /\ UNCHANGED <<sender, wire, link, sent, got>>

\* copy_len: what fits, with the terminator (and one that forgets the
\* terminator for a string of exactly max_len).
CopyLenWhole(len, limit) == IF len > limit THEN limit - 1 ELSE len
CopyLen(len, limit) == IF len >= limit THEN limit - 1 ELSE len

\* The conversion of an int to the size_t parameter of protocol_recv_n.
AsSize(n) == IF n < 0 THEN SizeMax + n ELSE n

\* How many bytes the current protocol_recv_n wants.
ToRecv ==
  CASE receiver.pc = "head" -> HeadLen(Turn)
    [] receiver.pc = "body" -> AsSize(CopyLen(receiver.len, receiver.limit))
    [] receiver.pc = "rest" -> Min(receiver.remain, Piece)
    [] OTHER -> 0

\* One recv() of the loop.
RecvSome ==
  /\ \E k \in 1 .. Min(ToRecv - Len(receiver.part), Len(wire)) :
       /\ receiver' = [receiver EXCEPT !.part = @ \o SubSeq(wire, 1, k)]
       /\ wire' = SubSeq(wire, k + 1, Len(wire))
  /\ UNCHANGED <<sender, link, sent, got>>

\* The integers that the bytes of a field may stand for.
Decoded(bytes) ==
  IF \E m \in DOMAIN sent : bytes = Bytes(m, 0, HeadLen(m))
    THEN {sent[bytes[1][1]].n}
    ELSE Misread

Returns(result) ==
  /\ got' = Append(got, result)
  /\ receiver' = [receiver EXCEPT !.pc = "idle", !.part = <<>>, !.kept = <<>>,
                                  !.len = 0, !.remain = 0]

Text(chars) == [text |-> chars, size |-> 0]
FileSize(n) == [text |-> <<>>, size |-> n]

HeadComplete(n) ==
  /\ receiver.pc = "head"
  /\ Len(receiver.part) = HeadLen(Turn)
  /\ n \in Decoded(receiver.part)

RecvFileSize ==
  /\ Turn \in SizeTurns
  /\ \E n \in Values \cup Misread : HeadComplete(n) /\ Returns(FileSize(n))
  /\ UNCHANGED <<sender, wire, link, sent>>

\* A faulty LengthNegative: the sign is not looked at.
LengthNegativeUnchecked ==
  /\ Turn \notin SizeTurns
  /\ \E n \in Misread :
       /\ n < 0
       /\ HeadComplete(n)
       /\ receiver' = [receiver EXCEPT !.pc = "body", !.len = n, !.part = <<>>]
  /\ UNCHANGED <<sender, wire, link, sent, got>>

\* A negative length is a broken protocol: -1.
LengthNegative ==
  /\ Turn \notin SizeTurns
  /\ \E n \in Misread : n < 0 /\ HeadComplete(n)
  /\ receiver' = [receiver EXCEPT !.pc = "failed"]
  /\ UNCHANGED <<sender, wire, link, sent, got>>

LengthZero ==
  /\ Turn \notin SizeTurns
  /\ HeadComplete(0)
  /\ Returns(Text(<<>>))
  /\ UNCHANGED <<sender, wire, link, sent>>

LengthKnown ==
  /\ Turn \notin SizeTurns
  /\ \E n \in Values \cup Misread :
       /\ n > 0
       /\ HeadComplete(n)
       /\ receiver' = [receiver EXCEPT !.pc = "body", !.len = n, !.part = <<>>]
  /\ UNCHANGED <<sender, wire, link, sent, got>>

\* The characters that the bytes of a message's body are.
CharsOf(bytes) == [j \in DOMAIN bytes |-> <<bytes[j][1], bytes[j][2] - IntBytes>>]

\* Faulty BodyComplete: one recv() is taken for all of the body.
BodyCompleteEarly ==
  /\ receiver.pc = "body"
  /\ receiver.part # <<>> \/ ToRecv = 0
  /\ receiver' = [receiver EXCEPT !.pc = "rest", !.part = <<>>,
                                  !.kept = CharsOf(receiver.part),
                                  !.remain = receiver.len - ToRecv]
  /\ UNCHANGED <<sender, wire, link, sent, got>>

\* What fits is in the buffer; the other characters are still to be swallowed.
BodyComplete ==
  /\ receiver.pc = "body"
  /\ Len(receiver.part) = ToRecv
  /\ receiver' = [receiver EXCEPT !.pc = "rest", !.part = <<>>,
                                  !.kept = CharsOf(receiver.part),
                                  !.remain = receiver.len - ToRecv]
  /\ UNCHANGED <<sender, wire, link, sent, got>>

\* Faulty PieceSwallowed: sizeof(temp) is counted for the last piece too.
PieceSwallowedWhole ==
  /\ receiver.pc = "rest"
  /\ receiver.remain > 0
  /\ Len(receiver.part) = ToRecv
  /\ receiver' = [receiver EXCEPT !.part = <<>>, !.remain = @ - Piece]
  /\ UNCHANGED <<sender, wire, link, sent, got>>

PieceSwallowed ==
  /\ receiver.pc = "rest"
  /\ receiver.remain > 0
  /\ Len(receiver.part) = ToRecv
  /\ receiver' = [receiver EXCEPT !.part = <<>>, !.remain = @ - ToRecv]
  /\ UNCHANGED <<sender, wire, link, sent, got>>

StringComplete ==
  /\ receiver.pc = "rest"
  /\ receiver.remain = 0
  /\ Returns(Text(receiver.kept))
  /\ UNCHANGED <<sender, wire, link, sent>>

\* recv returns 0 or -1.
RecvFails ==
  /\ receiver.pc \in {"head", "body", "rest"}
  /\ Len(receiver.part) < ToRecv
  /\ link = "down"
  /\ wire = <<>>
  /\ receiver' = [receiver EXCEPT !.pc = "failed"]
  /\ UNCHANGED <<sender, wire, link, sent, got>>
-----------------------------------------------------------------------------
Terminated ==
  /\ sender.pc \in (IF Len(sent) = MaxMessages THEN {"idle", "failed"} ELSE {"failed"})
  /\ receiver.pc = "failed"
  /\ UNCHANGED <<sender, receiver, wire, link, sent, got>>

Sending == SendSome \/ SendFails

Receiving ==
  \/ \E limit \in Limits : StartRecv(limit)
  \/ RecvSome \/ RecvFileSize \/ LengthNegative \/ LengthZero \/ LengthKnown
  \/ BodyComplete \/ PieceSwallowed \/ StringComplete \/ RecvFails

Next ==
  /\ \/ \E n \in Values : StartSend(n)
     \/ Sending \/ Receiving \/ LoseLink \/ Terminated
  /\ UNCHANGED astray

Spec == (Init \/ InitAstray) /\ [][Next]_vars

\* A thread in one of these loops goes on; a blocked call returns when there
\* is room, or a byte, or the connection is lost.
FairSpec ==
  /\ Spec
  /\ WF_vars(Sending /\ UNCHANGED astray)
  /\ WF_vars(Receiving /\ UNCHANGED astray)

-----------------------------------------------------------------------------
Byte == Nat \X Int
Message == [n : Values, at : Nat]
Result == [text : Seq(Byte), size : Int]
Locals == [pc : {"idle", "head", "body", "rest", "failed"}, limit : Limits \cup {0},
           part : Seq(Byte), len : Nat, kept : Seq(Byte), remain : Nat]

TypeOK ==
  /\ sender \in [pc : {"idle", "head", "body", "failed"}, total : Nat]
  /\ receiver \in Locals
  /\ wire \in Seq(Byte) /\ Len(wire) <= Capacity
  /\ link \in {"up", "down"}
  /\ sent \in Seq(Message)
  /\ got \in Seq(Result)

\* On a stream that starts in step, a call finds the first byte of the next
\* message wherever it starts and nothing left over from the one before, and
\* fails for no other reason than a lost connection, whatever was cut and
\* however the bytes came (protocol.c:110-148).
InStep ==
  ~astray =>
    /\ receiver.pc = "idle" /\ wire # <<>> => wire[1] = <<Turn, 1>>
    /\ receiver.pc = "failed" \/ sender.pc = "failed" => link = "down"

\* Whatever an int on the wire says, no more is written than fits: the
\* caller's buffer with the terminator, or temp (protocol.c:102-150).
BufferNeverOverrun ==
  /\ receiver.pc = "body" => Len(receiver.part) < receiver.limit
  /\ receiver.pc = "rest" => Len(receiver.part) <= Piece /\ Len(receiver.kept) < receiver.limit

\* The callers see a channel of messages: each arrives once, in order, as it
\* was sent or cut to their buffer (protocol.h, protocol_recv_string).
Said == [m \in DOMAIN sent |-> sent[m].n]
Messages == INSTANCE Channel WITH said <- Said, heard <- got
ChannelSpec == Messages!Init /\ [][astray \/ Messages!Next]_<<Said, got>>

\* What was sent arrives, or the connection is lost; neither end waits
\* forever for a byte (protocol.c:19-25, 46-52 and 139-148).
EveryMessageArrives ==
  \A m \in 1 .. MaxMessages :
    Len(sent) >= m ~> Len(got) >= m \/ link = "down" \/ astray
=============================================================================
