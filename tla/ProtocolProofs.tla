--------------------------- MODULE ProtocolProofs ---------------------------
(***************************************************************************)
(* Theorems about Protocol for every buffer size, field width, string      *)
(* length and cut of the stream.                                           *)
(*                                                                         *)
(* The argument is about offsets: the history sent[m].at says where        *)
(* message m starts in the stream, so where the receiver stands is known   *)
(* from its locals, and every byte on the wire is the one that belongs at  *)
(* its offset.  That no buffer is overrun needs none of this, and is proved *)
(* for streams that do not start in step as well.                          *)
(***************************************************************************)
EXTENDS Protocol, TLAPS

\* The offset at which message m starts, or will start.
Offset(m) == IF m <= Len(sent) THEN sent[m].at ELSE End

\* The bytes of message Turn the receiver has taken off the stream.
Consumed ==
  CASE receiver.pc = "idle" -> 0
    [] receiver.pc = "head" -> Len(receiver.part)
    [] receiver.pc = "body" -> HeadLen(Turn) + Len(receiver.part)
    [] OTHER -> HeadLen(Turn) + (receiver.len - receiver.remain) + Len(receiver.part)

RecvAt == Offset(Turn) + Consumed

\* The bytes of the last message the sender has handed to the kernel.
SentAt ==
  IF sender.pc = "idle" THEN End ELSE sent[Len(sent)].at + SentBefore + sender.total

\* Messages follow each other in the stream.
Layout ==
  /\ sent # <<>> => sent[1].at = 0
  /\ \A m \in 1 .. Len(sent) : m < Len(sent) => sent[m + 1].at = sent[m].at + Total(m)
  /\ \A m, l \in 1 .. Len(sent) : m < l => sent[m].at + Total(m) <= sent[l].at

SenderInv ==
  /\ sender.pc \in {"head", "body"} => sent # <<>> /\ sender.total < ToSend
  /\ sender.pc = "body" => Len(sent) \notin SizeTurns
  /\ sender.pc = "failed" => link = "down"

\* What the receiver has of the message it is in.
ReceiverInv ==
  /\ Len(got) <= Len(sent)
  /\ receiver.pc = "failed" => link = "down"
  /\ receiver.pc \in {"head", "body", "rest"} => receiver.limit \in Limits
  /\ receiver.pc = "head" =>
       /\ Len(receiver.part) <= HeadLen(Turn)
       /\ \A j \in 1 .. Len(receiver.part) : receiver.part[j] = <<Turn, j>>
       /\ Len(receiver.part) > 0 => Turn <= Len(sent)
  /\ receiver.pc \in {"body", "rest"} =>
       /\ Turn <= Len(sent) /\ Turn \notin SizeTurns
       /\ receiver.len = sent[Turn].n /\ receiver.len > 0
  /\ receiver.pc = "body" =>
       /\ Len(receiver.part) <= CopyLen(receiver.len, receiver.limit)
       /\ \A j \in 1 .. Len(receiver.part) : receiver.part[j] = <<Turn, IntBytes + j>>
  /\ receiver.pc = "rest" =>
       /\ receiver.kept = Messages!Chars(Turn, CopyLen(receiver.len, receiver.limit))
       /\ receiver.remain <= receiver.len - CopyLen(receiver.len, receiver.limit)
       /\ Len(receiver.part) <= Min(receiver.remain, Piece)

\* Every byte on the wire is the one that belongs at its offset.
WireInv ==
  receiver.pc # "failed" =>
    /\ \A j \in 1 .. Len(wire) : \A m \in 1 .. Len(sent) : \A i \in 1 .. Total(m) :
         sent[m].at + i = RecvAt + j => wire[j] = <<m, i>>
    /\ RecvAt + Len(wire) <= End
    /\ link = "up" => RecvAt + Len(wire) = SentAt

IInv == TypeOK /\ Layout /\ SenderInv /\ ReceiverInv /\ WireInv
-----------------------------------------------------------------------------
\* Lengths and offsets are numbers.
LEMMA NumbersAre ==
  ASSUME TypeOK
  PROVE  /\ Len(sent) \in Nat /\ Len(got) \in Nat /\ Len(wire) \in Nat
         /\ Len(receiver.part) \in Nat /\ Turn \in Nat /\ Turn >= 1
         /\ \A m \in Nat : HeadLen(m) \in Nat /\ HeadLen(m) >= 1
         /\ \A m \in 1 .. Len(sent) :
              /\ sent[m] \in Message
              /\ sent[m].n \in Nat /\ sent[m].at \in Nat
              /\ BodyLen(m) \in Nat /\ Total(m) \in Nat
              /\ Total(m) = HeadLen(m) + BodyLen(m)
         /\ sent # <<>> => Len(sent) \in 1 .. Len(sent)
         /\ End \in Nat
<1>1. /\ Len(sent) \in Nat /\ Len(got) \in Nat /\ Len(wire) \in Nat
      /\ Len(receiver.part) \in Nat /\ Turn \in Nat /\ Turn >= 1
  BY DEF TypeOK, Locals, Turn
<1>2. \A m \in Nat : HeadLen(m) \in Nat /\ HeadLen(m) >= 1
  BY FramingAssumption DEF HeadLen
<1>3. \A m \in 1 .. Len(sent) :
        /\ sent[m] \in Message
        /\ sent[m].n \in Nat /\ sent[m].at \in Nat
  <2>1. \A m \in 1 .. Len(sent) : sent[m] \in Message
    BY DEF TypeOK, Locals
  <2>2. \A x \in Message : x.n \in Nat /\ x.at \in Nat
    BY FramingAssumption DEF Message
  <2> QED BY <2>1, <2>2
<1>4. \A m \in 1 .. Len(sent) :
        BodyLen(m) \in Nat /\ Total(m) \in Nat /\ Total(m) = HeadLen(m) + BodyLen(m)
  <2> SUFFICES ASSUME NEW m \in 1 .. Len(sent)
               PROVE  BodyLen(m) \in Nat /\ Total(m) \in Nat /\ Total(m) = HeadLen(m) + BodyLen(m)
    OBVIOUS
  <2>1. m \in Nat
    BY <1>1
  <2>2. BodyLen(m) \in Nat
    BY <1>3 DEF BodyLen
  <2>3. HeadLen(m) \in Nat
    BY <1>2, <2>1
  <2> QED BY <2>2, <2>3 DEF Total
<1>5. sent # <<>> => Len(sent) \in 1 .. Len(sent)
  BY DEF TypeOK, Locals
<1>6. End \in Nat
  BY <1>3, <1>4, <1>5 DEF End
<1> QED BY <1>1, <1>2, <1>3, <1>4, <1>5, <1>6

\* A number up to the smaller of two is up to each.
LEMMA MinBounds ==
  ASSUME NEW a \in Int, NEW b \in Int, NEW k \in 1 .. Min(a, b)
  PROVE  k \in Nat /\ k >= 1 /\ k <= a /\ k <= b
<1>1. Min(a, b) \in Int /\ Min(a, b) <= a /\ Min(a, b) <= b
  BY DEF Min
<1> QED BY <1>1

\* A sequence behind another.
LEMMA Joined ==
  ASSUME NEW S, NEW x \in Seq(S), NEW y \in Seq(S)
  PROVE  /\ x \o y \in Seq(S) /\ Len(x \o y) = Len(x) + Len(y)
         /\ \A j \in 1 .. Len(x) : (x \o y)[j] = x[j]
         /\ \A j \in 1 .. Len(y) : (x \o y)[Len(x) + j] = y[j]
<1>1. /\ x \o y \in Seq(S) /\ Len(x \o y) = Len(x) + Len(y)
      /\ Len(x) \in Nat /\ Len(y) \in Nat
  OBVIOUS
<1>2. ASSUME NEW j \in 1 .. Len(x) PROVE (x \o y)[j] = x[j]
  BY <1>1
<1>3. ASSUME NEW j \in 1 .. Len(y) PROVE (x \o y)[Len(x) + j] = y[j]
  BY <1>1
<1> QED BY <1>1, <1>2, <1>3

\* The front of a sequence, and what is behind it.
LEMMA Cut ==
  ASSUME NEW S, NEW x \in Seq(S), NEW k \in Nat, k <= Len(x)
  PROVE  /\ SubSeq(x, 1, k) \in Seq(S) /\ Len(SubSeq(x, 1, k)) = k
         /\ SubSeq(x, k + 1, Len(x)) \in Seq(S)
         /\ Len(SubSeq(x, k + 1, Len(x))) = Len(x) - k
         /\ \A j \in 1 .. k : SubSeq(x, 1, k)[j] = x[j]
         /\ \A j \in 1 .. Len(x) - k : SubSeq(x, k + 1, Len(x))[j] = x[k + j]
<1>1. Len(x) \in Nat
  OBVIOUS
<1>2. /\ SubSeq(x, 1, k) \in Seq(S) /\ Len(SubSeq(x, 1, k)) = k
      /\ \A j \in 1 .. k : SubSeq(x, 1, k)[j] = x[j]
  BY <1>1
<1>3. /\ SubSeq(x, k + 1, Len(x)) \in Seq(S)
      /\ Len(SubSeq(x, k + 1, Len(x))) = Len(x) - k
  BY <1>1
<1>4. ASSUME NEW j \in 1 .. Len(x) - k PROVE SubSeq(x, k + 1, Len(x))[j] = x[k + j]
  BY <1>1
<1> QED BY <1>2, <1>3, <1>4

\* Before the first call.
LEMMA InitInv == InitWith(<<>>) => IInv
<1> SUFFICES ASSUME InitWith(<<>>) PROVE IInv
  OBVIOUS
<1>1. TypeOK
  BY FramingAssumption DEF InitWith, TypeOK, Locals
<1>2. Layout /\ SenderInv
  BY DEF InitWith, Layout, SenderInv
<1>3. ReceiverInv
  BY DEF InitWith, ReceiverInv
<1>4. WireInv
  BY DEF InitWith, WireInv, RecvAt, Consumed, Offset, SentAt, End, Turn
<1> QED BY <1>1, <1>2, <1>3, <1>4 DEF IInv

\* The receiver stands at a definite offset, which is the next message's
\* start between calls.
LEMMA Position ==
  ASSUME IInv, receiver.pc # "failed"
  PROVE  /\ Offset(Turn) \in Nat /\ Consumed \in Nat /\ RecvAt \in Nat
         /\ RecvAt = Offset(Turn) + Consumed
         /\ Turn <= Len(sent) + 1
<1>1. Turn <= Len(sent) + 1 /\ Turn \in Nat /\ HeadLen(Turn) \in Nat
  BY NumbersAre DEF IInv, ReceiverInv, Turn
<1>2. Offset(Turn) \in Nat
  <2>1. TypeOK
    BY DEF IInv
  <2>2. Turn >= 1 /\ End \in Nat /\ \A m \in 1 .. Len(sent) : sent[m].at \in Nat
    BY <2>1, NumbersAre
  <2>3. Turn <= Len(sent) => Turn \in 1 .. Len(sent)
    BY <1>1, <2>1, <2>2, NumbersAre
  <2> QED BY <2>2, <2>3 DEF Offset
<1>3. Consumed \in Nat
  <2>1. /\ Len(receiver.part) \in Nat /\ receiver.len \in Nat /\ receiver.remain \in Nat
        /\ receiver.limit \in Nat
        /\ receiver.pc \in {"idle", "head", "body", "rest", "failed"}
    BY FramingAssumption DEF IInv, TypeOK, Locals
  <2>2. CASE receiver.pc = "rest"
    <3>1. receiver.limit \in Limits /\ receiver.len > 0
          /\ receiver.remain <= receiver.len - CopyLen(receiver.len, receiver.limit)
      BY <2>2 DEF IInv, ReceiverInv
    <3>2. CopyLen(receiver.len, receiver.limit) \in Nat
      BY <3>1, <2>1, FramingAssumption DEF CopyLen
    <3> QED BY <2>1, <2>2, <3>1, <3>2, <1>1 DEF Consumed
  <2>3. CASE receiver.pc # "rest"
    BY <1>1, <2>1, <2>3 DEF Consumed
  <2> QED BY <2>2, <2>3
<1> QED BY <1>1, <1>2, <1>3 DEF RecvAt

\* A new message starts where the others end.
LEMMA StartSendKeeps ==
  ASSUME IInv, NEW n \in Values, StartSend(n)
  PROVE  IInv'
<1>0. PICK k \in Nat : k = Len(sent)
  BY NumbersAre DEF IInv
<1>1. /\ sender.pc = "idle" /\ sender' = [pc |-> "head", total |-> 0]
      /\ sent' = Append(sent, [n |-> n, at |-> End])
      /\ UNCHANGED <<receiver, wire, link, got>>
  BY DEF StartSend
<1>2. /\ k \in Nat /\ End \in Nat /\ n \in Nat
      /\ Len(sent') = k + 1 /\ sent' \in Seq(Message)
      /\ \A m \in 1 .. k : sent'[m] = sent[m]
      /\ sent'[k + 1] = [n |-> n, at |-> End]
      /\ sent'[k + 1].n = n /\ sent'[k + 1].at = End /\ sent' # <<>>
  <2>1. End \in Nat /\ n \in Nat /\ sent \in Seq(Message)
    BY NumbersAre, FramingAssumption DEF IInv, TypeOK, Locals
  <2>2. [n |-> n, at |-> End] \in Message
    BY <2>1 DEF Message
  <2>3. sent' = Append(sent, [n |-> n, at |-> End])
    BY <1>1
  <2>4. /\ k \in Nat /\ Len(sent') = k + 1 /\ sent' \in Seq(Message)
        /\ \A m \in 1 .. k : sent'[m] = sent[m]
        /\ sent'[k + 1] = [n |-> n, at |-> End]
    BY <2>1, <2>2, <2>3, <1>0
  <2> QED BY <2>1, <2>4
<1>3. TypeOK'
  BY <1>0, <1>1, <1>2 DEF IInv, TypeOK, Locals
<1>4. /\ \A m \in Nat : HeadLen(m)' = HeadLen(m)
      /\ \A m \in 1 .. k : BodyLen(m)' = BodyLen(m) /\ Total(m)' = Total(m)
  BY <1>0, <1>1, <1>2 DEF HeadLen, BodyLen, Total
<1>5. /\ \A m \in 1 .. k : sent[m].at \in Nat /\ Total(m) \in Nat /\ sent[m].at + Total(m) <= End
      /\ k >= 1 => End = sent[k].at + Total(k)
      /\ k = 0 => End = 0
  <2>1. /\ \A m \in 1 .. k : sent[m].at \in Nat /\ Total(m) \in Nat
        /\ k = 0 <=> sent = <<>>
    <3>1. sent \in Seq(Message)
      BY DEF IInv, TypeOK, Locals
    <3>2. k = 0 <=> sent = <<>>
      BY <3>1, <1>0
    <3> QED BY <3>2, <1>0, NumbersAre DEF IInv
  <2>2. k >= 1 => End = sent[k].at + Total(k)
    BY <2>1, <1>0, <1>2 DEF End
  <2>3. ASSUME NEW m \in 1 .. k PROVE sent[m].at + Total(m) <= End
    <3>1. k >= 1 /\ k \in 1 .. k
      BY <1>0, <1>2
    <3>2. CASE m = k
      BY <1>0, <2>1, <2>2, <3>1, <3>2
    <3>3. CASE m < k
      <4>1. sent[m].at + Total(m) <= sent[k].at
        BY <1>0, <3>1, <3>3 DEF IInv, Layout
      <4> QED BY <4>1, <1>0, <2>1, <2>2, <3>1
    <3> QED BY <3>2, <3>3, <1>0, <1>2
  <2> QED BY <1>0, <2>1, <2>2, <2>3 DEF End
<1>6. Layout'
  <2>1. (\A m, l \in 1 .. Len(sent) : m < l => sent[m].at + Total(m) <= sent[l].at)'
    <3> SUFFICES ASSUME NEW m \in 1 .. k + 1, NEW l \in 1 .. k + 1, m < l
                 PROVE  sent'[m].at + Total(m)' <= sent'[l].at
      BY <1>0, <1>2
    <3>1. m \in 1 .. k /\ sent'[m].at + Total(m)' = sent[m].at + Total(m)
      BY <1>0, <1>2, <1>4
    <3>2. CASE l = k + 1
      BY <3>1, <3>2, <1>0, <1>2, <1>5
    <3>3. CASE l # k + 1
      <4>1. l \in 1 .. k /\ sent'[l].at = sent[l].at
        BY <3>3, <1>0, <1>2
      <4> QED BY <1>0, <3>1, <4>1 DEF IInv, Layout
    <3> QED BY <3>2, <3>3
  <2>2. (\A m \in 1 .. Len(sent) : m < Len(sent) => sent[m + 1].at = sent[m].at + Total(m))'
    <3> SUFFICES ASSUME NEW m \in 1 .. k
                 PROVE  sent'[m + 1].at = sent'[m].at + Total(m)'
      BY <1>0, <1>2
    <3>1. CASE m = k
      BY <3>1, <1>0, <1>2, <1>4, <1>5
    <3>2. CASE m < k
      BY <3>2, <1>0, <1>2, <1>4 DEF IInv, Layout
    <3> QED BY <3>1, <3>2, <1>0, <1>2
  <2>3. sent'[1].at = 0
    BY <1>0, <1>2, <1>5 DEF IInv, Layout, TypeOK, Locals
  <2> QED BY <2>1, <2>2, <2>3 DEF Layout
<1>7. SenderInv'
  BY <1>0, <1>1, <1>2, <1>3, NumbersAre, FramingAssumption DEF SenderInv, ToSend, HeadLen
<1>8. Turn' = Turn /\ Turn \in Nat /\ Turn >= 1
  BY <1>1, NumbersAre DEF Turn, IInv
<1>9. ReceiverInv'
  BY <1>0, <1>1, <1>2, <1>4, <1>8 DEF IInv, ReceiverInv, Turn, Messages!Chars
<1>10. End' = End + Total(k + 1)' /\ Total(k + 1)' \in Nat
  <2>1. HeadLen(k + 1)' \in Nat /\ BodyLen(k + 1)' \in Nat
    BY <1>0, <1>2, FramingAssumption DEF HeadLen, BodyLen
  <2> QED BY <2>1, <1>0, <1>2 DEF End, Total
<1>11. Offset(Turn)' = Offset(Turn) /\ Consumed' = Consumed
  <2>1. Turn <= k + 1
    BY <1>0, <1>2, NumbersAre DEF IInv, ReceiverInv, Turn
  <2>2. Offset(Turn)' = Offset(Turn)
    BY <2>1, <1>0, <1>2, <1>8 DEF Offset
  <2> QED BY <2>2, <1>1, <1>8 DEF Consumed, HeadLen
<1>12. WireInv'
  <2> SUFFICES ASSUME receiver.pc # "failed"
               PROVE  WireInv'
    BY <1>1 DEF WireInv
  <2>1. RecvAt' = RecvAt /\ RecvAt + Len(wire) <= End
    BY <1>11 DEF RecvAt, IInv, WireInv
  <2>2. link = "up" => RecvAt + Len(wire) = SentAt'
    <3>1. SentAt = End /\ SentAt' = End
      BY <1>0, <1>1, <1>2 DEF SentAt, SentBefore
    <3> QED BY <3>1 DEF IInv, WireInv
  <2>3. RecvAt \in Nat /\ Len(wire) \in Nat
    BY Position, NumbersAre DEF IInv
  <2>4. (\A j \in 1 .. Len(wire) : \A m \in 1 .. Len(sent) : \A i \in 1 .. Total(m) :
           sent[m].at + i = RecvAt + j => wire[j] = <<m, i>>)'
    <3> SUFFICES ASSUME NEW j \in 1 .. Len(wire), NEW m \in 1 .. k + 1,
                        NEW i \in 1 .. Total(m)', sent'[m].at + i = RecvAt + j
                 PROVE  wire[j] = <<m, i>>
      BY <1>0, <1>1, <1>2, <2>1
    <3>1. m # k + 1
      BY <2>1, <2>3, <1>0, <1>2, NumbersAre, <1>10
    <3> QED BY <3>1, <1>0, <1>2, <1>4 DEF IInv, WireInv
  <2>5. RecvAt + Len(wire) <= End'
    BY <2>1, <2>3, <1>2, <1>10
  <2> QED BY <1>1, <2>1, <2>2, <2>4, <2>5 DEF WireInv
<1> QED BY <1>3, <1>6, <1>7, <1>9, <1>12 DEF IInv
\* What a step leaves alone keeps its meaning.
LEMMA SameMessages ==
  ASSUME UNCHANGED sent
  PROVE  /\ \A m \in Nat : HeadLen(m)' = HeadLen(m) /\ BodyLen(m)' = BodyLen(m)
                            /\ Total(m)' = Total(m)
         /\ End' = End
         /\ Layout <=> Layout'
<1>1. \A m : HeadLen(m)' = HeadLen(m) /\ BodyLen(m)' = BodyLen(m) /\ Total(m)' = Total(m)
  BY DEF HeadLen, BodyLen, Total
<1> QED BY <1>1 DEF End, Layout, HeadLen, BodyLen, Total

\* send() appends the next bytes of the last message.
LEMMA SendSomeKeeps ==
  ASSUME IInv, SendSome
  PROVE  IInv'
<1>1. PICK k \in 1 .. Min(ToSend - sender.total, Capacity - Len(wire)) :
        /\ wire' = wire \o Bytes(Len(sent), SentBefore + sender.total, k)
        /\ sender' =
             IF sender.total + k < ToSend THEN [sender EXCEPT !.total = @ + k]
             ELSE [pc |-> IF sender.pc = "head" /\ BodyLen(Len(sent)) > 0 THEN "body" ELSE "idle",
                   total |-> 0]
  BY DEF SendSome
<1>2. /\ sender.pc \in {"head", "body"} /\ link = "up"
      /\ UNCHANGED <<receiver, link, sent, got>>
  BY DEF SendSome
<1>3. PICK s \in Nat : s = Len(sent)
  BY NumbersAre DEF IInv
<1>4. /\ s \in 1 .. Len(sent) /\ s >= 1 /\ HeadLen(s) \in Nat /\ BodyLen(s) \in Nat
      /\ Total(s) = HeadLen(s) + BodyLen(s) /\ sent[s].at \in Nat
      /\ End = sent[s].at + Total(s) /\ Len(wire) \in Nat
  <2>1. sent # <<>> /\ TypeOK
    BY <1>2 DEF IInv, SenderInv
  <2>2. s \in 1 .. Len(sent) /\ s >= 1
    BY <2>1, <1>3, NumbersAre
  <2>3. /\ HeadLen(s) \in Nat /\ BodyLen(s) \in Nat /\ sent[s].at \in Nat
        /\ Total(s) = HeadLen(s) + BodyLen(s) /\ Len(wire) \in Nat
    BY <2>1, <2>2, NumbersAre
  <2> QED BY <2>1, <2>2, <2>3, <1>3 DEF End
<1>5. PICK h \in Nat, d \in Nat, a \in Nat, l \in Nat, t \in Nat :
        h = HeadLen(s) /\ d = BodyLen(s) /\ a = sent[s].at /\ l = Len(wire) /\ t = sender.total
  BY <1>4 DEF IInv, TypeOK, Locals
<1>6. PICK x \in Nat, b \in Nat :
        /\ x = ToSend /\ b = SentBefore + t
        /\ t < x
        /\ \/ sender.pc = "head" /\ x = h /\ b = t
           \/ sender.pc = "body" /\ x = d /\ b = h + t
  <2>1. CASE sender.pc = "head"
    <3>1. ToSend = h /\ SentBefore = 0
      BY <2>1, <1>3, <1>5 DEF ToSend, SentBefore
    <3>2. t < h
      BY <2>1, <3>1, <1>5 DEF IInv, SenderInv
    <3> QED BY <2>1, <3>1, <3>2, <1>5
  <2>2. CASE sender.pc = "body"
    <3>1. ToSend = d /\ SentBefore = h
      BY <2>2, <1>3, <1>5 DEF ToSend, SentBefore
    <3>2. t < d
      BY <2>2, <3>1, <1>5 DEF IInv, SenderInv
    <3> QED BY <2>2, <3>1, <3>2, <1>5
  <2> QED BY <2>1, <2>2, <1>2
<1>7. /\ k \in Nat /\ k >= 1 /\ t + k <= x /\ l + k <= Capacity
      /\ b + k <= h + d /\ t < x
  <2>1. x - t \in Int /\ Capacity - l \in Int /\ k \in 1 .. Min(x - t, Capacity - l)
    BY <1>5, <1>6, FramingAssumption
  <2>2. k \in Nat /\ k >= 1 /\ k <= x - t /\ k <= Capacity - l
    BY <2>1, MinBounds
  <2>3. t + k <= x /\ l + k <= Capacity
    BY <2>2, FramingAssumption
  <2> QED BY <2>2, <2>3, <1>6
<1>8. /\ Bytes(s, b, k) \in Seq(Byte) /\ Len(Bytes(s, b, k)) = k
      /\ \A q \in 1 .. k : Bytes(s, b, k)[q] = <<s, b + q>>
  BY <1>7 DEF Bytes, Byte
<1>9. /\ wire' \in Seq(Byte) /\ Len(wire') = l + k
      /\ \A j \in 1 .. l : wire'[j] = wire[j]
      /\ \A q \in 1 .. k : wire'[l + q] = <<s, b + q>>
  <2>1. wire \in Seq(Byte) /\ wire' = wire \o Bytes(s, b, k)
    BY <1>1, <1>3, <1>5, <1>6 DEF IInv, TypeOK, Locals
  <2> DEFINE bytes == Bytes(s, b, k)
  <2>2. bytes \in Seq(Byte) /\ Len(bytes) = k /\ \A q \in 1 .. k : bytes[q] = <<s, b + q>>
    BY <1>8
  <2> HIDE DEF bytes
  <2>3. wire' = wire \o bytes
    BY <2>1 DEF bytes
  <2>4. PICK y \in Seq(Byte) : y = bytes
    BY <2>2
  <2>5. /\ wire \o y \in Seq(Byte) /\ Len(wire \o y) = Len(wire) + Len(y)
        /\ \A j \in 1 .. Len(wire) : (wire \o y)[j] = wire[j]
        /\ \A q \in 1 .. Len(y) : (wire \o y)[Len(wire) + q] = y[q]
    BY <2>1, Joined
  <2> QED BY <2>2, <2>3, <2>4, <2>5, <1>5
<1>10. sender' = IF t + k < x THEN [sender EXCEPT !.total = t + k]
                 ELSE [pc |-> IF sender.pc = "head" /\ d > 0 THEN "body" ELSE "idle", total |-> 0]
  BY <1>1, <1>3, <1>5, <1>6
<1>11. sender \in [pc : {"idle", "head", "body", "failed"}, total : Nat]
  BY DEF IInv, TypeOK, Locals
<1>12. TypeOK'
  <2>1. sender' \in [pc : {"idle", "head", "body", "failed"}, total : Nat]
    <3>1. CASE t + k < x
      <4>1. t + k \in Nat /\ sender' = [sender EXCEPT !.total = t + k]
        BY <3>1, <1>7, <1>10
      <4> QED BY <4>1, <1>11
    <3>2. CASE ~(t + k < x)
      BY <3>2, <1>10
    <3> QED BY <3>1, <3>2
  <2> QED BY <1>2, <1>7, <1>9, <2>1 DEF IInv, TypeOK, Locals
<1>13. Layout'
  BY <1>2, SameMessages DEF IInv
<1>14. /\ \A m \in Nat : HeadLen(m)' = HeadLen(m) /\ BodyLen(m)' = BodyLen(m) /\ Total(m)' = Total(m)
       /\ End' = End
  BY <1>2, SameMessages
<1>15. SenderInv' /\ SentAt' = a + b + k
  <2>1. HeadLen(s)' = h /\ BodyLen(s)' = d /\ End' = a + h + d
        /\ s = Len(sent') /\ sent' # <<>> /\ sent'[s].at = a /\ link' = link
    <3>1. sent # <<>>
      BY <1>2 DEF IInv, SenderInv
    <3>2. HeadLen(s)' = h /\ BodyLen(s)' = d
      BY <1>5, <1>14
    <3>3. End' = a + h + d
      BY <1>4, <1>5, <1>14
    <3> QED BY <3>1, <3>2, <3>3, <1>2, <1>3, <1>5
  <2>2. CASE t + k < x
    <3>1. sender'.pc = sender.pc /\ sender'.total = t + k
      BY <1>10, <1>11, <2>2
    <3>2. CASE sender.pc = "head"
      <4>1. ToSend' = h /\ SentBefore' = 0 /\ x = h /\ b = t
        BY <3>1, <3>2, <2>1, <1>6 DEF ToSend, SentBefore
      <4>2. SentAt' = a + 0 + (t + k)
        BY <3>1, <3>2, <4>1, <2>1 DEF SentAt
      <4> QED BY <3>1, <3>2, <4>1, <4>2, <2>1, <2>2 DEF SenderInv
    <3>3. CASE sender.pc = "body"
      <4>1. ToSend' = d /\ SentBefore' = h /\ x = d /\ b = h + t
        BY <3>1, <3>3, <2>1, <1>6 DEF ToSend, SentBefore
      <4>2. SentAt' = a + h + (t + k)
        BY <3>1, <3>3, <4>1, <2>1 DEF SentAt
      <4>3. s \notin SizeTurns
        BY <3>3, <1>3 DEF IInv, SenderInv
      <4> QED BY <3>1, <3>3, <4>1, <4>2, <4>3, <2>1, <2>2 DEF SenderInv
    <3> QED BY <3>2, <3>3, <1>2
  <2>3. CASE t + k = x /\ sender.pc = "head" /\ d > 0
    <3>1. sender' = [pc |-> "body", total |-> 0]
      BY <1>10, <1>7, <2>3
    <3>2. ToSend' = d /\ SentBefore' = h /\ x = h /\ b = t
      BY <3>1, <2>1, <2>3, <1>6 DEF ToSend, SentBefore
    <3>3. s \notin SizeTurns
      BY <2>3, <1>5 DEF BodyLen
    <3>4. SentAt' = a + h + 0
      BY <3>1, <3>2, <2>1 DEF SentAt
    <3> QED BY <3>1, <3>2, <3>3, <3>4, <2>1, <2>3 DEF SenderInv
  <2>4. CASE t + k = x /\ ~(sender.pc = "head" /\ d > 0)
    <3>1. sender' = [pc |-> "idle", total |-> 0]
      BY <1>10, <1>7, <2>4
    <3>2. b + k = h + d
      BY <2>4, <1>6
    <3>3. SentAt' = a + h + d
      BY <3>1, <2>1 DEF SentAt
    <3> QED BY <3>1, <3>2, <3>3 DEF SenderInv
  <2> QED BY <2>2, <2>3, <2>4, <1>7
<1>16. ReceiverInv'
  BY <1>2 DEF IInv, ReceiverInv, Turn, HeadLen, Messages!Chars
<1>17. WireInv'
  <2>1. receiver.pc # "failed"
    BY <1>2 DEF IInv, ReceiverInv
  <2>2. PICK r \in Nat : r = RecvAt /\ RecvAt' = r
    <3>1. Offset(Turn)' = Offset(Turn) /\ Consumed' = Consumed
      BY <1>2, <1>14 DEF Offset, Consumed, Turn, HeadLen
    <3> QED BY <3>1, <2>1, Position DEF RecvAt
  <2>3. r + l = a + b
    <3>1. SentAt = a + SentBefore + t
      BY <1>2, <1>3, <1>5 DEF SentAt
    <3>2. r + l = SentAt
      BY <2>1, <2>2, <1>2, <1>5 DEF IInv, WireInv
    <3>3. SentBefore \in Nat
      BY <1>3, <1>4 DEF SentBefore
    <3> QED BY <3>1, <3>2, <3>3, <1>6
  <2>4. Len(wire') = l + k /\ r + (l + k) = a + b + k /\ r + (l + k) <= a + h + d /\ End = a + h + d
    <3>1. End = a + h + d
      BY <1>4, <1>5
    <3>2. r + (l + k) = a + b + k
      BY <2>3, <1>7
    <3>3. a + b + k <= a + h + d
      BY <1>7
    <3> QED BY <3>1, <3>2, <3>3, <1>9
  <2>5. ASSUME NEW j \in 1 .. (l + k), NEW m \in 1 .. s, NEW i \in 1 .. Total(m),
               sent[m].at + i = r + j
        PROVE  wire'[j] = <<m, i>>
    <3>0. PICK e \in Nat, y \in Nat : e = sent[m].at /\ y = Total(m)
      BY <1>3, NumbersAre DEF IInv
    <3>1. CASE j <= l
      <4>1. j \in 1 .. l
        BY <3>1, <1>7
      <4> QED BY <4>1, <2>1, <2>2, <2>5, <1>3, <1>5, <1>9 DEF IInv, WireInv
    <3>2. CASE j > l
      <4>1. PICK q \in 1 .. k : j = l + q
        <5>1. j - l \in 1 .. k /\ j = l + (j - l)
          BY <3>2, <1>7
        <5> QED BY <5>1
      <4>2. e + i = a + b + q /\ i \in 1 .. y /\ i <= y
        BY <4>1, <2>3, <2>5, <3>0, <1>7
      <4>3. m = s
        <5> SUFFICES ASSUME m < s PROVE FALSE
          BY <1>3
        <5>1. e + y <= a
          BY <1>3, <1>4, <1>5, <3>0 DEF IInv, Layout
        <5> QED BY <5>1, <4>1, <4>2, <1>7
      <4>4. i = b + q
        <5>1. e = a
          BY <4>3, <3>0, <1>5
        <5> QED BY <5>1, <4>1, <4>2, <1>7
      <4> QED BY <4>1, <4>3, <4>4, <1>9
    <3> QED BY <3>1, <3>2, <1>7
  <2>6. Len(sent') = s /\ sent' = sent /\ \A m \in 1 .. s : Total(m)' = Total(m)
    BY <1>2, <1>3, <1>14
  <2>7. RecvAt' + Len(wire') <= End' /\ RecvAt' + Len(wire') = SentAt'
    BY <2>2, <2>4, <1>14, <1>15
  <2>8. (\A j \in 1 .. Len(wire) : \A m \in 1 .. Len(sent) : \A i \in 1 .. Total(m) :
           sent[m].at + i = RecvAt + j => wire[j] = <<m, i>>)'
    BY <2>2, <2>4, <2>5, <2>6
  <2> QED BY <2>7, <2>8 DEF WireInv
<1> QED BY <1>12, <1>13, <1>15, <1>16, <1>17 DEF IInv

\* After a failing send nothing more is sent.
LEMMA SendFailsKeeps ==
  ASSUME IInv, SendFails
  PROVE  IInv'
<1>1. /\ link = "down" /\ sender' = [sender EXCEPT !.pc = "failed"]
      /\ UNCHANGED <<receiver, wire, link, sent, got>>
  BY DEF SendFails
<1>2. sender' \in [pc : {"idle", "head", "body", "failed"}, total : Nat] /\ sender'.pc = "failed"
  BY <1>1 DEF IInv, TypeOK, Locals
<1>3. TypeOK' /\ SenderInv'
  BY <1>1, <1>2 DEF IInv, TypeOK, Locals, SenderInv
<1>4. Layout' /\ End' = End /\ \A m \in Nat : Total(m)' = Total(m)
  BY <1>1, SameMessages DEF IInv
<1>5. ReceiverInv'
  BY <1>1 DEF IInv, ReceiverInv, Turn, HeadLen, Messages!Chars
<1>6. RecvAt' = RecvAt
  BY <1>1, <1>4 DEF RecvAt, Offset, Consumed, Turn, HeadLen
<1>7. WireInv'
  BY <1>1, <1>4, <1>6 DEF IInv, WireInv, Total, HeadLen, BodyLen
<1> QED BY <1>3, <1>4, <1>5, <1>7 DEF IInv

\* What still arrives is what comes first.
LEMMA LoseLinkKeeps ==
  ASSUME IInv, LoseLink
  PROVE  IInv'
<1>1. PICK k \in 0 .. Len(wire) : wire' = SubSeq(wire, 1, k)
  BY DEF LoseLink
<1>2. link' = "down" /\ UNCHANGED <<sender, receiver, sent, got>>
  BY DEF LoseLink
<1>3. /\ wire' \in Seq(Byte) /\ Len(wire') = k /\ k <= Len(wire) /\ k \in Nat
      /\ \A j \in 1 .. k : wire'[j] = wire[j]
  BY <1>1 DEF IInv, TypeOK, Locals
<1>4. TypeOK' /\ SenderInv'
  <2>1. Len(wire) \in Nat /\ Len(wire) <= Capacity
    BY NumbersAre DEF IInv, TypeOK, Locals
  <2> QED BY <2>1, <1>2, <1>3, FramingAssumption
          DEF IInv, TypeOK, Locals, SenderInv, ToSend, HeadLen, BodyLen
<1>5. Layout' /\ End' = End /\ \A m \in Nat : Total(m)' = Total(m)
  BY <1>2, SameMessages DEF IInv
<1>6. ReceiverInv'
  BY <1>2 DEF IInv, ReceiverInv, Turn, HeadLen, Messages!Chars
<1>7. RecvAt' = RecvAt
  BY <1>2, <1>5 DEF RecvAt, Offset, Consumed, Turn, HeadLen
<1>8. WireInv'
  <2> SUFFICES ASSUME receiver.pc # "failed" PROVE WireInv'
    BY <1>2 DEF WireInv
  <2>1. RecvAt \in Nat /\ Len(wire) \in Nat /\ RecvAt + Len(wire) <= End /\ End \in Nat
    BY Position, NumbersAre DEF IInv, WireInv
  <2>2. RecvAt + k <= End
    BY <2>1, <1>3
  <2>3. \A j \in 1 .. k : j \in 1 .. Len(wire)
    BY <2>1, <1>3
  <2> QED BY <2>2, <2>3, <1>2, <1>3, <1>5, <1>7 DEF IInv, WireInv, Total, HeadLen, BodyLen
<1> QED BY <1>4, <1>5, <1>6, <1>8 DEF IInv
-----------------------------------------------------------------------------
\* Where a step leaves the wire and the sender alone, and the receiver where
\* it stands, the bytes under way stay where they belong.
LEMMA WireStands ==
  ASSUME IInv, UNCHANGED <<sender, wire, link, sent>>, receiver.pc # "failed", RecvAt' = RecvAt
  PROVE  Layout' /\ SenderInv' /\ WireInv'
<1>1. /\ \A m \in Nat : HeadLen(m)' = HeadLen(m) /\ BodyLen(m)' = BodyLen(m) /\ Total(m)' = Total(m)
      /\ End' = End /\ Layout'
  BY SameMessages DEF IInv
<1>2. SenderInv' /\ SentAt' = SentAt
  BY DEF IInv, SenderInv, SentAt, ToSend, SentBefore, HeadLen, BodyLen, End, Total
<1>3. \A m \in 1 .. Len(sent) : Total(m)' = Total(m)
  BY <1>1, NumbersAre DEF IInv
<1>4. WireInv'
  BY <1>1, <1>2, <1>3 DEF IInv, WireInv
<1> QED BY <1>1, <1>2, <1>4

\* A failing receiver is one whose connection is lost.
LEMMA ReceiverFails ==
  ASSUME IInv, UNCHANGED <<sender, wire, link, sent, got>>, link = "down",
         receiver' = [receiver EXCEPT !.pc = "failed"]
  PROVE  IInv'
<1>1. receiver'.pc = "failed"
  BY DEF IInv, TypeOK, Locals
<1>2. TypeOK'
  BY DEF IInv, TypeOK, Locals
<1>3. Layout' /\ SenderInv'
  BY SameMessages DEF IInv, SenderInv, ToSend, HeadLen, BodyLen
<1>4. ReceiverInv' /\ WireInv'
  BY <1>1 DEF IInv, ReceiverInv, WireInv
<1> QED BY <1>2, <1>3, <1>4 DEF IInv

\* A call of protocol_recv_string or protocol_recv_file_size.
LEMMA StartRecvKeeps ==
  ASSUME IInv, NEW limit \in Limits, StartRecv(limit)
  PROVE  IInv'
<1>1. /\ receiver.pc = "idle"
      /\ receiver' = [receiver EXCEPT !.pc = "head", !.limit = limit, !.part = <<>>]
      /\ UNCHANGED <<sender, wire, link, sent, got>>
  BY DEF StartRecv
<1>2. /\ receiver'.pc = "head" /\ receiver'.limit = limit /\ receiver'.part = <<>>
      /\ Len(receiver'.part) = 0 /\ receiver'.len = receiver.len
      /\ Turn' = Turn /\ Turn \in Nat
  BY <1>1, NumbersAre DEF IInv, TypeOK, Locals, Turn
<1>3. TypeOK'
  <2>1. receiver \in Locals /\ limit \in Limits \cup {0} /\ <<>> \in Seq(Byte)
    BY DEF IInv, TypeOK
  <2>2. [receiver EXCEPT !.pc = "head", !.limit = limit, !.part = <<>>] \in Locals
    BY <2>1 DEF Locals
  <2> QED BY <1>1, <2>2 DEF IInv, TypeOK
<1>4. HeadLen(Turn)' \in Nat
  BY <1>2, FramingAssumption DEF HeadLen
<1>5. ReceiverInv'
  BY <1>1, <1>2, <1>4 DEF IInv, ReceiverInv
<1>6. RecvAt' = RecvAt
  <2>1. Consumed = 0 /\ Consumed' = 0
    BY <1>1, <1>2 DEF Consumed
  <2>2. Offset(Turn)' = Offset(Turn)
    BY <1>1, <1>2, SameMessages DEF Offset
  <2> QED BY <2>1, <2>2 DEF RecvAt
<1> QED BY <1>1, <1>3, <1>5, <1>6, WireStands DEF IInv

\* recv returned 0 or -1.
LEMMA RecvFailsKeeps ==
  ASSUME IInv, RecvFails
  PROVE  IInv'
BY ReceiverFails DEF RecvFails

\* What is read belongs to the message whose turn it is, and follows what was
\* read of it before.
LEMMA NextBytes ==
  ASSUME IInv, receiver.pc # "failed", Turn <= Len(sent),
         NEW j \in 1 .. Len(wire), Consumed + j <= Total(Turn)
  PROVE  wire[j] = <<Turn, Consumed + j>>
<1>1. Turn \in 1 .. Len(sent) /\ sent[Turn].at \in Nat /\ Total(Turn) \in Nat /\ Turn \in Nat
  <2>1. TypeOK /\ Turn \in Nat /\ Turn >= 1 /\ Len(sent) \in Nat
    BY NumbersAre DEF IInv
  <2>2. Turn \in 1 .. Len(sent)
    BY <2>1
  <2> QED BY <2>1, <2>2, NumbersAre
<1>2. Consumed \in Nat /\ RecvAt = sent[Turn].at + Consumed
  BY Position DEF Offset
<1>3. Len(wire) \in Nat
  BY NumbersAre DEF IInv
<1>4. PICK c \in Nat, a \in Nat : c = Consumed /\ a = sent[Turn].at
  BY <1>1, <1>2
<1>5. c + j \in 1 .. Total(Turn) /\ a + (c + j) = RecvAt + j
  BY <1>1, <1>2, <1>3, <1>4
<1> QED BY <1>1, <1>4, <1>5 DEF IInv, WireInv

\* What of a string fits is no more than the string, and less than the buffer.
LEMMA CopyLenFits ==
  ASSUME NEW len \in Nat, NEW limit \in Nat, limit >= 1
  PROVE  /\ CopyLen(len, limit) \in Nat /\ CopyLen(len, limit) <= len
         /\ CopyLen(len, limit) < limit
         /\ AsSize(CopyLen(len, limit)) = CopyLen(len, limit)
<1>1. CopyLen(len, limit) \in Nat /\ CopyLen(len, limit) <= len /\ CopyLen(len, limit) < limit
  BY DEF CopyLen
<1> QED BY <1>1 DEF AsSize

\* The receiver never wants more than the message has left.
LEMMA WantsItsOwn ==
  ASSUME IInv, receiver.pc \in {"head", "body", "rest"}
  PROVE  /\ ToRecv \in Nat /\ Len(receiver.part) \in Nat /\ Len(receiver.part) <= ToRecv
         /\ Turn <= Len(sent) => Consumed + (ToRecv - Len(receiver.part)) <= Total(Turn)
<1>1. /\ Turn \in Nat /\ Turn >= 1 /\ Len(sent) \in Nat /\ HeadLen(Turn) \in Nat
      /\ Turn <= Len(sent) => /\ Turn \in 1 .. Len(sent) /\ BodyLen(Turn) \in Nat
                              /\ Total(Turn) = HeadLen(Turn) + BodyLen(Turn)
  <2>1. TypeOK /\ Turn \in Nat /\ Turn >= 1 /\ Len(sent) \in Nat /\ HeadLen(Turn) \in Nat
    BY NumbersAre DEF IInv
  <2>2. Turn <= Len(sent) => Turn \in 1 .. Len(sent)
    BY <2>1
  <2> QED BY <2>1, <2>2, NumbersAre
<1>2. /\ Len(receiver.part) \in Nat /\ receiver.len \in Nat /\ receiver.remain \in Nat
      /\ receiver.limit \in Nat /\ receiver.limit >= 1
  BY FramingAssumption DEF IInv, TypeOK, Locals, ReceiverInv
<1>3. PICK h \in Nat, p \in Nat, l \in Nat, r \in Nat, x \in Nat :
        /\ h = HeadLen(Turn) /\ p = Len(receiver.part) /\ l = receiver.len /\ r = receiver.remain
        /\ x = CopyLen(l, receiver.limit) /\ x <= l /\ AsSize(x) = x
  <2>1. /\ CopyLen(receiver.len, receiver.limit) \in Nat
        /\ CopyLen(receiver.len, receiver.limit) <= receiver.len
        /\ AsSize(CopyLen(receiver.len, receiver.limit)) = CopyLen(receiver.len, receiver.limit)
    BY <1>2, CopyLenFits
  <2> QED BY <2>1, <1>1, <1>2
<1>4. CASE receiver.pc = "head"
  <2>1. ToRecv = h /\ Consumed = p /\ p <= h
    BY <1>3, <1>4 DEF ToRecv, Consumed, IInv, ReceiverInv
  <2> QED BY <2>1, <1>1, <1>3
<1>5. CASE receiver.pc \in {"body", "rest"}
  <2>1. Total(Turn) = h + l
    BY <1>1, <1>3, <1>5 DEF IInv, ReceiverInv, BodyLen
  <2>2. CASE receiver.pc = "body"
    <3>1. ToRecv = x /\ Consumed = h + p /\ p <= x
      BY <1>3, <2>2 DEF ToRecv, Consumed, IInv, ReceiverInv
    <3> QED BY <3>1, <2>1, <1>3
  <2>3. CASE receiver.pc = "rest"
    <3>1. ToRecv = Min(r, Piece) /\ Consumed = h + (l - r) + p /\ p <= Min(r, Piece) /\ r <= l - x
      BY <1>3, <2>3 DEF ToRecv, Consumed, IInv, ReceiverInv
    <3>2. Min(r, Piece) \in Nat /\ Min(r, Piece) <= r
      BY FramingAssumption DEF Min
    <3>3. PICK y \in Nat : y = Min(r, Piece) /\ y <= r
      BY <3>2
    <3>4. ToRecv = y /\ p <= y
      BY <3>1, <3>3
    <3>5. r <= l /\ Consumed + (y - p) = h + (l - r) + p + (y - p)
      BY <3>1, <1>3
    <3>6. h + (l - r) + p + (y - p) = h + (l - r) + y
      BY <3>5
    <3>7. h + (l - r) + y <= h + l
      BY <3>3, <3>5
    <3> QED BY <3>4, <3>5, <3>6, <3>7, <2>1, <1>3
  <2> QED BY <2>2, <2>3, <1>5
<1> QED BY <1>4, <1>5

\* Bytes on the wire are those of a message that was sent.
LEMMA WireIsOfSent ==
  ASSUME IInv, receiver.pc # "failed", wire # <<>>
  PROVE  Turn <= Len(sent)
<1>1. Turn \in Nat /\ Len(sent) \in Nat /\ Turn <= Len(sent) + 1 /\ End \in Nat
  BY NumbersAre, Position DEF IInv
<1>2. Len(wire) \in Nat /\ Len(wire) >= 1
  BY DEF IInv, TypeOK
<1>3. RecvAt \in Nat /\ Consumed \in Nat /\ RecvAt = Offset(Turn) + Consumed
  BY Position
<1>4. RecvAt + Len(wire) <= End
  BY DEF IInv, WireInv
<1> SUFFICES ASSUME Turn > Len(sent) PROVE FALSE
  BY <1>1
<1>5. Offset(Turn) = End
  BY <1>1 DEF Offset
<1> QED BY <1>1, <1>2, <1>3, <1>4, <1>5

\* One recv(): the receiver moves on by as many bytes as leave the wire.
LEMMA RecvSomeKeeps ==
  ASSUME IInv, RecvSome
  PROVE  IInv'
<1>1. PICK k \in 1 .. Min(ToRecv - Len(receiver.part), Len(wire)) :
        /\ receiver' = [receiver EXCEPT !.part = @ \o SubSeq(wire, 1, k)]
        /\ wire' = SubSeq(wire, k + 1, Len(wire))
  BY DEF RecvSome
<1>2. UNCHANGED <<sender, link, sent, got>> /\ UNCHANGED Turn
  BY DEF RecvSome, Turn
<1>3. /\ wire \in Seq(Byte) /\ Len(wire) \in Nat /\ receiver \in Locals
      /\ receiver.part \in Seq(Byte) /\ Len(receiver.part) \in Nat
      /\ receiver.pc \in {"idle", "head", "body", "rest", "failed"}
  BY DEF IInv, TypeOK, Locals
<1>4. receiver.pc \in {"head", "body", "rest"}
  <2> SUFFICES ASSUME receiver.pc \in {"idle", "failed"} PROVE FALSE
    BY <1>3
  <2>1. ToRecv = 0
    BY DEF ToRecv
  <2>2. ToRecv - Len(receiver.part) \in Int /\ ToRecv - Len(receiver.part) <= 0
    BY <2>1, <1>3
  <2> QED BY <2>2, <1>3, MinBounds
<1>5. /\ ToRecv \in Nat /\ Len(receiver.part) <= ToRecv
      /\ k \in Nat /\ k >= 1 /\ k <= Len(wire) /\ Len(receiver.part) + k <= ToRecv
  <2>1. ToRecv \in Nat /\ Len(receiver.part) <= ToRecv
    BY <1>4, WantsItsOwn
  <2>2. k \in Nat /\ k >= 1 /\ k <= ToRecv - Len(receiver.part) /\ k <= Len(wire)
    <3>1. ToRecv - Len(receiver.part) \in Int /\ Len(wire) \in Int
      BY <2>1, <1>3
    <3> QED BY <3>1, MinBounds
  <2> QED BY <2>1, <2>2, <1>3
<1>6. Turn <= Len(sent) /\ receiver.pc # "failed" /\ wire # <<>>
  <2>1. wire # <<>>
    BY <1>3, <1>5
  <2> QED BY <2>1, <1>4, WireIsOfSent
<1>7. PICK p \in Nat, l \in Nat, c \in Nat, w \in Nat, r \in Nat :
        /\ p = Len(receiver.part) /\ l = Len(wire) /\ c = Consumed /\ w = ToRecv /\ r = RecvAt
        /\ c + (w - p) <= Total(Turn) /\ p + k <= w /\ k <= l
  <2>1. Consumed \in Nat /\ RecvAt \in Nat
    BY <1>6, Position
  <2> QED BY <2>1, <1>3, <1>4, <1>5, <1>6, WantsItsOwn
<1>8. /\ Total(Turn) \in Nat /\ HeadLen(Turn) \in Nat /\ Turn \in 1 .. Len(sent)
      /\ Len(sent) \in Nat /\ End \in Nat
  <2>1. TypeOK /\ Turn \in Nat /\ Turn >= 1 /\ Len(sent) \in Nat /\ HeadLen(Turn) \in Nat /\ End \in Nat
    BY NumbersAre DEF IInv
  <2>2. Turn \in 1 .. Len(sent)
    BY <2>1, <1>6
  <2> QED BY <2>1, <2>2, NumbersAre
<1>9. /\ wire' \in Seq(Byte) /\ Len(wire') = l - k
      /\ \A j \in 1 .. l - k : wire'[j] = wire[k + j]
  <2>1. /\ SubSeq(wire, k + 1, Len(wire)) \in Seq(Byte)
        /\ Len(SubSeq(wire, k + 1, Len(wire))) = Len(wire) - k
        /\ \A j \in 1 .. Len(wire) - k : SubSeq(wire, k + 1, Len(wire))[j] = wire[k + j]
    BY <1>3, <1>5, Cut
  <2> QED BY <2>1, <1>1, <1>7
<1>10. /\ receiver'.pc = receiver.pc /\ receiver'.limit = receiver.limit
       /\ receiver'.len = receiver.len /\ receiver'.kept = receiver.kept
       /\ receiver'.remain = receiver.remain
       /\ receiver'.part = receiver.part \o SubSeq(wire, 1, k)
  BY <1>1, <1>3 DEF Locals
<1>11. PICK y \in Seq(Byte) :
         y = SubSeq(wire, 1, k) /\ Len(y) = k /\ \A j \in 1 .. k : y[j] = wire[j]
  <2>1. /\ SubSeq(wire, 1, k) \in Seq(Byte) /\ Len(SubSeq(wire, 1, k)) = k
        /\ \A j \in 1 .. k : SubSeq(wire, 1, k)[j] = wire[j]
    BY <1>3, <1>5, Cut
  <2> QED BY <2>1
<1>12. /\ receiver'.part \in Seq(Byte) /\ Len(receiver'.part) = p + k
       /\ \A j \in 1 .. p : receiver'.part[j] = receiver.part[j]
       /\ \A j \in 1 .. k : receiver'.part[p + j] = wire[j]
  <2>1. /\ receiver.part \o y \in Seq(Byte) /\ Len(receiver.part \o y) = p + k
        /\ \A j \in 1 .. p : (receiver.part \o y)[j] = receiver.part[j]
        /\ \A j \in 1 .. Len(y) : (receiver.part \o y)[p + j] = y[j]
    BY <1>3, <1>7, <1>11, Joined
  <2> QED BY <2>1, <1>10, <1>11
<1>13. TypeOK'
  <2>1. receiver' \in Locals
    BY <1>1, <1>3, <1>10, <1>12 DEF Locals
  <2>2. Len(wire') <= Capacity
    BY <1>7, <1>9, FramingAssumption DEF IInv, TypeOK
  <2> QED BY <2>1, <2>2, <1>2, <1>9 DEF IInv, TypeOK
<1>14. \A j \in 1 .. k : wire[j] = <<Turn, c + j>>
  <2> TAKE j \in 1 .. k
  <2>1. j \in 1 .. Len(wire) /\ c + j <= Total(Turn)
    <3>1. PICK z \in Nat : z = Total(Turn)
      BY <1>8
    <3>2. c + (w - p) <= z /\ p + k <= w
      BY <3>1, <1>7
    <3>3. c + j <= z
      BY <3>2, <1>5
    <3> QED BY <3>1, <3>3, <1>5
  <2> QED BY <2>1, <1>6, <1>7, NextBytes
<1>15. HeadLen(Turn)' = HeadLen(Turn) /\ ToRecv' = ToRecv
  BY <1>2, <1>10 DEF HeadLen, ToRecv
<1>16. ReceiverInv'
  <2>1. CASE receiver.pc = "head"
    <3>1. c = p /\ w = HeadLen(Turn)
      BY <2>1, <1>7 DEF Consumed, ToRecv
    <3>2. \A j \in 1 .. p + k : receiver'.part[j] = <<Turn, j>>
      <4> TAKE j \in 1 .. p + k
      <4>1. CASE j \in 1 .. p
        BY <4>1, <2>1, <1>7, <1>12 DEF IInv, ReceiverInv
      <4>2. CASE j \notin 1 .. p
        <5>1. j - p \in 1 .. k /\ j = p + (j - p)
          BY <4>2, <1>5
        <5> QED BY <5>1, <3>1, <1>12, <1>14
      <4> QED BY <4>1, <4>2
    <3> QED BY <2>1, <3>1, <3>2, <1>2, <1>6, <1>7, <1>10, <1>12, <1>15 DEF IInv, ReceiverInv
  <2>2. CASE receiver.pc = "body"
    <3>1. /\ c = IntBytes + p /\ w = CopyLen(receiver.len, receiver.limit)
      <4>1. receiver.limit \in Limits /\ Turn \notin SizeTurns /\ receiver.len \in Nat
        BY <2>2, <1>3 DEF IInv, ReceiverInv, Locals
      <4>2. w = AsSize(CopyLen(receiver.len, receiver.limit)) /\ c = HeadLen(Turn) + p
        BY <2>2, <1>7 DEF Consumed, ToRecv
      <4> QED BY <4>1, <4>2, CopyLenFits, FramingAssumption DEF HeadLen
    <3>2. \A j \in 1 .. p + k : receiver'.part[j] = <<Turn, IntBytes + j>>
      <4> TAKE j \in 1 .. p + k
      <4>1. CASE j \in 1 .. p
        BY <4>1, <2>2, <1>7, <1>12 DEF IInv, ReceiverInv
      <4>2. CASE j \notin 1 .. p
        <5>1. j - p \in 1 .. k /\ j = p + (j - p) /\ c + (j - p) = IntBytes + j
          BY <4>2, <3>1, <1>5, FramingAssumption
        <5> QED BY <5>1, <1>12, <1>14
      <4> QED BY <4>1, <4>2
    <3> QED BY <2>2, <3>1, <3>2, <1>2, <1>6, <1>7, <1>10, <1>12 DEF IInv, ReceiverInv
  <2>3. CASE receiver.pc = "rest"
    <3>1. w = Min(receiver.remain, Piece)
      BY <2>3, <1>7 DEF ToRecv
    <3> QED BY <2>3, <3>1, <1>2, <1>6, <1>7, <1>10, <1>12 DEF IInv, ReceiverInv, Messages!Chars
  <2> QED BY <2>1, <2>2, <2>3, <1>4
<1>17. Layout' /\ SenderInv' /\ SentAt' = SentAt /\ End' = End
  BY <1>2, SameMessages DEF IInv, SenderInv, SentAt, ToSend, SentBefore, HeadLen, BodyLen, End, Total
<1>18. RecvAt' = r + k
  <2>1. Consumed' = c + k
    <3>1. CASE receiver.pc = "head"
      BY <3>1, <1>7, <1>10, <1>12 DEF Consumed
    <3>2. CASE receiver.pc = "body"
      BY <3>2, <1>7, <1>8, <1>10, <1>12, <1>15 DEF Consumed
    <3>3. CASE receiver.pc = "rest"
      <4>1. receiver.len \in Nat /\ receiver.remain \in Nat
        BY <1>3 DEF Locals
      <4>2. PICK h \in Nat, n \in Nat, z \in Nat :
              h = HeadLen(Turn) /\ n = receiver.len /\ z = receiver.remain
        BY <4>1, <1>8
      <4>3. c = h + (n - z) + p
        BY <3>3, <4>2, <1>7 DEF Consumed
      <4>4. Consumed' = h + (n - z) + (p + k)
        BY <3>3, <4>2, <1>10, <1>12, <1>15 DEF Consumed
      <4> QED BY <4>3, <4>4, <1>5
    <3> QED BY <3>1, <3>2, <3>3, <1>4
  <2>2. Offset(Turn)' = Offset(Turn) /\ Offset(Turn) \in Nat
    BY <1>2, <1>6, <1>17, Position DEF Offset
  <2> QED BY <2>1, <2>2, <1>7 DEF RecvAt
<1>19. WireInv'
  <2>1. r + l <= End /\ (link = "up" => r + l = SentAt)
    BY <1>6, <1>7 DEF IInv, WireInv
  <2>2. ASSUME NEW j \in 1 .. l - k, NEW m \in 1 .. Len(sent), NEW i \in 1 .. Total(m),
               sent[m].at + i = (r + k) + j
        PROVE  wire'[j] = <<m, i>>
    <3>1. k + j \in 1 .. l /\ (r + k) + j = r + (k + j)
      BY <1>5, <1>7
    <3>2. wire[k + j] = <<m, i>>
      BY <3>1, <2>2, <1>6, <1>7 DEF IInv, WireInv
    <3> QED BY <3>2, <1>9
  <2>3. (r + k) + (l - k) = r + l
    BY <1>5, <1>7
  <2>4. \A m \in 1 .. Len(sent) : Total(m)' = Total(m)
    BY <1>2, <1>8, SameMessages
  <2> QED BY <2>1, <2>2, <2>3, <2>4, <1>2, <1>9, <1>17, <1>18 DEF WireInv
<1> QED BY <1>13, <1>16, <1>17, <1>19 DEF IInv

\* The bytes of a complete head say what was sent.
LEMMA HeadIsRead ==
  ASSUME IInv, NEW n, HeadComplete(n)
  PROVE  /\ Turn \in 1 .. Len(sent) /\ n = sent[Turn].n /\ n \in Nat
         /\ receiver.pc = "head" /\ Consumed = HeadLen(Turn) /\ HeadLen(Turn) \in Nat
         /\ Total(Turn) = HeadLen(Turn) + BodyLen(Turn)
<1>1. /\ receiver.pc = "head" /\ Len(receiver.part) = HeadLen(Turn) /\ n \in Decoded(receiver.part)
  BY DEF HeadComplete
<1>2. TypeOK /\ Turn \in Nat /\ Turn >= 1 /\ Len(sent) \in Nat /\ HeadLen(Turn) \in Nat /\ HeadLen(Turn) >= 1
  BY NumbersAre DEF IInv
<1>3. /\ receiver.part \in Seq(Byte) /\ Turn <= Len(sent)
      /\ \A j \in 1 .. Len(receiver.part) : receiver.part[j] = <<Turn, j>>
  BY <1>1, <1>2 DEF IInv, TypeOK, Locals, ReceiverInv
<1>4. Turn \in 1 .. Len(sent) /\ Turn \in DOMAIN sent
  BY <1>2, <1>3 DEF TypeOK
<1>5. PICK h \in Nat : h = HeadLen(Turn) /\ h >= 1
  BY <1>2
<1>6. receiver.part = Bytes(Turn, 0, h)
  <2>1. receiver.part = [j \in 1 .. h |-> receiver.part[j]]
    BY <1>1, <1>3, <1>5
  <2>2. \A j \in 1 .. h : receiver.part[j] = <<Turn, 0 + j>>
    BY <1>1, <1>3, <1>5
  <2> QED BY <2>1, <2>2 DEF Bytes
<1>7. receiver.part[1][1] = Turn
  <2>1. receiver.part[1] = <<Turn, 1>>
    BY <1>1, <1>3, <1>5
  <2> QED BY <2>1
<1>8. Decoded(receiver.part) = {sent[Turn].n}
  BY <1>4, <1>5, <1>6, <1>7 DEF Decoded
<1>9. sent[Turn].n \in Nat /\ Total(Turn) = HeadLen(Turn) + BodyLen(Turn)
  BY <1>2, <1>4, NumbersAre
<1> QED BY <1>1, <1>2, <1>4, <1>8, <1>9 DEF Consumed

\* A call that has taken all of a message returns: the next one starts here.
LEMMA ReturnKeeps ==
  ASSUME IInv, UNCHANGED <<sender, wire, link, sent>>, NEW result \in Result, Returns(result),
         receiver.pc # "failed", Turn \in 1 .. Len(sent), Consumed = Total(Turn)
  PROVE  IInv'
<1>1. /\ got' = Append(got, result)
      /\ receiver' = [receiver EXCEPT !.pc = "idle", !.part = <<>>, !.kept = <<>>,
                                      !.len = 0, !.remain = 0]
  BY DEF Returns
<1>2. /\ TypeOK /\ Turn \in Nat /\ Len(sent) \in Nat /\ sent[Turn].at \in Nat /\ Total(Turn) \in Nat
      /\ Len(got) \in Nat /\ receiver \in Locals
  BY NumbersAre DEF IInv, TypeOK
<1>3. got' \in Seq(Result) /\ Len(got') = Len(got) + 1 /\ Turn' = Turn + 1
  BY <1>1, <1>2 DEF TypeOK, Turn
<1>4. receiver'.pc = "idle"
  BY <1>1, <1>2 DEF Locals
<1>5. TypeOK'
  <2>1. receiver' \in Locals
    <3>1. <<>> \in Seq(Byte) /\ 0 \in Nat
      OBVIOUS
    <3> QED BY <3>1, <1>1, <1>2 DEF Locals
  <2> QED BY <2>1, <1>2, <1>3 DEF TypeOK
<1>6. ReceiverInv'
  <2>1. Len(got') <= Len(sent)
    BY <1>2, <1>3 DEF Turn
  <2> QED BY <2>1, <1>4 DEF ReceiverInv
<1>7. RecvAt' = RecvAt
  <2>1. RecvAt' = Offset(Turn + 1) + 0
    <3>1. Offset(Turn)' = Offset(Turn + 1)
      BY <1>3, SameMessages DEF Offset
    <3>2. Consumed' = 0
      BY <1>4 DEF Consumed
    <3> QED BY <3>1, <3>2 DEF RecvAt
  <2>2. RecvAt = sent[Turn].at + Total(Turn)
    BY <1>2 DEF RecvAt, Offset
  <2>3. Offset(Turn + 1) = sent[Turn].at + Total(Turn)
    <3>1. CASE Turn < Len(sent)
      <4>1. sent[Turn + 1].at = sent[Turn].at + Total(Turn)
        BY <3>1 DEF IInv, Layout
      <4> QED BY <3>1, <4>1, <1>2 DEF Offset
    <3>2. CASE Turn = Len(sent)
      <4>1. Turn + 1 > Len(sent) /\ sent # <<>>
        BY <3>2, <1>2 DEF TypeOK
      <4> QED BY <3>2, <4>1, <1>2 DEF Offset, End
    <3> QED BY <3>1, <3>2, <1>2
  <2> QED BY <2>1, <2>2, <2>3, <1>2
<1> QED BY <1>5, <1>6, <1>7, WireStands DEF IInv

\* protocol_recv_file_size returns the size that was sent.
LEMMA RecvFileSizeKeeps ==
  ASSUME IInv, RecvFileSize
  PROVE  /\ IInv'
         /\ Turn \in 1 .. Len(sent) /\ Turn \in SizeTurns
         /\ got' = Append(got, FileSize(sent[Turn].n)) /\ sent' = sent
<1>1. PICK n : HeadComplete(n) /\ Returns(FileSize(n))
  BY DEF RecvFileSize
<1>2. UNCHANGED <<sender, wire, link, sent>> /\ Turn \in SizeTurns
  BY DEF RecvFileSize
<1>3. /\ Turn \in 1 .. Len(sent) /\ n = sent[Turn].n /\ n \in Nat
      /\ receiver.pc = "head" /\ Consumed = HeadLen(Turn) /\ HeadLen(Turn) \in Nat
      /\ Total(Turn) = HeadLen(Turn) + BodyLen(Turn)
  BY <1>1, HeadIsRead
<1>4. FileSize(n) \in Result
  BY <1>3 DEF FileSize, Result
<1>5. Consumed = Total(Turn)
  BY <1>2, <1>3 DEF BodyLen
<1>6. IInv'
  BY <1>1, <1>2, <1>3, <1>4, <1>5, ReturnKeeps
<1> QED BY <1>1, <1>2, <1>3, <1>6 DEF Returns

\* An empty string is heard as one.
LEMMA LengthZeroKeeps ==
  ASSUME IInv, LengthZero
  PROVE  /\ IInv'
         /\ Turn \in 1 .. Len(sent) /\ Turn \notin SizeTurns /\ sent[Turn].n = 0
         /\ receiver.limit \in Limits
         /\ got' = Append(got, Text(<<>>)) /\ sent' = sent
<1>1. /\ HeadComplete(0) /\ Returns(Text(<<>>)) /\ UNCHANGED <<sender, wire, link, sent>>
      /\ Turn \notin SizeTurns
  BY DEF LengthZero
<1>2. /\ Turn \in 1 .. Len(sent) /\ 0 = sent[Turn].n
      /\ receiver.pc = "head" /\ Consumed = HeadLen(Turn) /\ HeadLen(Turn) \in Nat
      /\ Total(Turn) = HeadLen(Turn) + BodyLen(Turn)
  BY <1>1, HeadIsRead
<1>3. Text(<<>>) \in Result
  BY DEF Text, Result
<1>4. Consumed = Total(Turn)
  BY <1>1, <1>2 DEF BodyLen
<1>5. IInv'
  BY <1>1, <1>2, <1>3, <1>4, ReturnKeeps
<1>6. receiver.limit \in Limits
  BY <1>2 DEF IInv, ReceiverInv
<1> QED BY <1>1, <1>2, <1>5, <1>6 DEF Returns

\* A length is never misread.
LEMMA NoLengthIsNegative ==
  ASSUME IInv, LengthNegative
  PROVE  FALSE
<1>1. PICK n \in Misread : n < 0 /\ HeadComplete(n)
  BY DEF LengthNegative
<1>2. n \in Nat
  BY <1>1, HeadIsRead
<1> QED BY <1>1, <1>2

\* The length that is read is that of the string whose turn it is.
LEMMA LengthKnownKeeps ==
  ASSUME IInv, LengthKnown
  PROVE  IInv'
<1>1. PICK n \in Values \cup Misread :
        /\ n > 0
        /\ HeadComplete(n)
        /\ receiver' = [receiver EXCEPT !.pc = "body", !.len = n, !.part = <<>>]
  BY DEF LengthKnown
<1>2. Turn \notin SizeTurns /\ UNCHANGED <<sender, wire, link, sent, got>>
  BY DEF LengthKnown
<1>3. /\ Turn \in 1 .. Len(sent) /\ n = sent[Turn].n /\ n \in Nat
      /\ receiver.pc = "head" /\ Consumed = HeadLen(Turn) /\ HeadLen(Turn) \in Nat
  BY <1>1, HeadIsRead
<1>4. /\ receiver \in Locals /\ receiver.limit \in Limits /\ Len(sent) \in Nat
      /\ <<>> \in Seq(Byte) /\ Len(<<>>) = 0
  BY <1>3, NumbersAre DEF IInv, TypeOK, ReceiverInv
<1>5. /\ receiver'.pc = "body" /\ receiver'.len = n /\ receiver'.part = <<>>
      /\ receiver'.limit = receiver.limit
  BY <1>1, <1>4 DEF Locals
<1>6. TypeOK'
  <2>1. receiver' \in Locals
    BY <1>1, <1>3, <1>4 DEF Locals
  <2> QED BY <2>1, <1>2 DEF IInv, TypeOK
<1>7. Turn' = Turn /\ HeadLen(Turn)' = HeadLen(Turn)
  BY <1>2 DEF Turn, HeadLen
<1>8. ReceiverInv'
  <2>1. CopyLen(n, receiver.limit) \in Nat
    BY <1>3, <1>4, CopyLenFits, FramingAssumption
  <2> QED BY <2>1, <1>1, <1>2, <1>3, <1>4, <1>5, <1>7 DEF IInv, ReceiverInv
<1>9. RecvAt' = RecvAt
  <2>1. Consumed' = HeadLen(Turn) + 0
    BY <1>4, <1>5, <1>7 DEF Consumed
  <2>2. Offset(Turn)' = Offset(Turn)
    BY <1>2, <1>7, SameMessages DEF Offset
  <2> QED BY <2>1, <2>2, <1>3 DEF RecvAt
<1> QED BY <1>2, <1>3, <1>6, <1>8, <1>9, WireStands DEF IInv

\* The buffer holds the first characters of the string, the others remain.
LEMMA BodyCompleteKeeps ==
  ASSUME IInv, BodyComplete
  PROVE  IInv'
<1>1. /\ receiver.pc = "body" /\ Len(receiver.part) = ToRecv
      /\ receiver' = [receiver EXCEPT !.pc = "rest", !.part = <<>>,
                                      !.kept = CharsOf(receiver.part),
                                      !.remain = receiver.len - ToRecv]
      /\ UNCHANGED <<sender, wire, link, sent, got>>
  BY DEF BodyComplete
<1>2. /\ receiver \in Locals /\ receiver.limit \in Limits /\ receiver.len \in Nat
      /\ receiver.part \in Seq(Byte) /\ Turn <= Len(sent) /\ Turn \notin SizeTurns
      /\ receiver.len = sent[Turn].n /\ receiver.len > 0
      /\ \A j \in 1 .. Len(receiver.part) : receiver.part[j] = <<Turn, IntBytes + j>>
      /\ <<>> \in Seq(Byte) /\ Len(<<>>) = 0
  BY <1>1 DEF IInv, TypeOK, Locals, ReceiverInv
<1>3. HeadLen(Turn) \in Nat /\ Turn \in Nat
  BY NumbersAre DEF IInv
<1>4. PICK x \in Nat, l \in Nat, h \in Nat :
        /\ x = CopyLen(receiver.len, receiver.limit) /\ l = receiver.len /\ h = HeadLen(Turn)
        /\ x <= l /\ AsSize(x) = x
  <2>1. receiver.limit \in Nat /\ receiver.limit >= 1
    BY <1>2, FramingAssumption
  <2>2. /\ CopyLen(receiver.len, receiver.limit) \in Nat
        /\ CopyLen(receiver.len, receiver.limit) <= receiver.len
        /\ AsSize(CopyLen(receiver.len, receiver.limit)) = CopyLen(receiver.len, receiver.limit)
    BY <2>1, <1>2, CopyLenFits
  <2> QED BY <2>2, <1>2, <1>3
<1>5. ToRecv = x /\ Len(receiver.part) = x
  BY <1>1, <1>4 DEF ToRecv
<1>6. CharsOf(receiver.part) = Messages!Chars(Turn, x)
  <2>1. DOMAIN receiver.part = 1 .. x
    BY <1>2, <1>5
  <2>2. \A j \in 1 .. x : receiver.part[j][1] = Turn /\ receiver.part[j][2] - IntBytes = j
    <3> TAKE j \in 1 .. x
    <3>1. receiver.part[j] = <<Turn, IntBytes + j>>
      BY <1>2, <1>5
    <3>2. (IntBytes + j) - IntBytes = j
      BY <1>4, FramingAssumption
    <3> QED BY <3>1, <3>2
  <2> QED BY <2>1, <2>2 DEF CharsOf, Messages!Chars
<1>7. Messages!Chars(Turn, x) \in Seq(Byte)
  BY <1>3, <1>4 DEF Messages!Chars, Byte
<1>8. /\ receiver'.pc = "rest" /\ receiver'.part = <<>> /\ receiver'.len = l
      /\ receiver'.limit = receiver.limit /\ receiver'.kept = Messages!Chars(Turn, x)
      /\ receiver'.remain = l - x /\ l - x \in Nat
  BY <1>1, <1>2, <1>4, <1>5, <1>6 DEF Locals
<1>9. TypeOK'
  <2>1. receiver' \in Locals
    <3>1. receiver' = [receiver EXCEPT !.pc = "rest", !.part = <<>>,
                         !.kept = Messages!Chars(Turn, x), !.remain = l - x]
      BY <1>1, <1>4, <1>5, <1>6
    <3> QED BY <3>1, <1>2, <1>7, <1>8 DEF Locals
  <2> QED BY <2>1, <1>1 DEF IInv, TypeOK
<1>10. Turn' = Turn /\ HeadLen(Turn)' = HeadLen(Turn) /\ Messages!Chars(Turn, x)' = Messages!Chars(Turn, x)
  BY <1>1 DEF Turn, HeadLen, Messages!Chars
<1>11. ReceiverInv'
  <2>1. 0 <= Min(l - x, Piece)
    BY <1>8, FramingAssumption DEF Min
  <2> QED BY <2>1, <1>1, <1>2, <1>4, <1>8, <1>10 DEF IInv, ReceiverInv
<1>12. RecvAt' = RecvAt
  <2>1. Consumed = h + x
    BY <1>1, <1>4, <1>5 DEF Consumed
  <2>2. Consumed' = h + (l - (l - x)) + 0
    BY <1>2, <1>4, <1>8, <1>10 DEF Consumed
  <2>3. Consumed' = Consumed
    BY <2>1, <2>2
  <2>4. Offset(Turn)' = Offset(Turn)
    BY <1>1, <1>10, SameMessages DEF Offset
  <2> QED BY <2>3, <2>4 DEF RecvAt
<1> QED BY <1>1, <1>9, <1>11, <1>12, WireStands DEF IInv

\* A piece swallowed is the string's own.
LEMMA PieceSwallowedKeeps ==
  ASSUME IInv, PieceSwallowed
  PROVE  IInv'
<1>1. /\ receiver.pc = "rest" /\ Len(receiver.part) = ToRecv
      /\ receiver' = [receiver EXCEPT !.part = <<>>, !.remain = @ - ToRecv]
      /\ UNCHANGED <<sender, wire, link, sent, got>>
  BY DEF PieceSwallowed
<1>2. /\ receiver \in Locals /\ receiver.len \in Nat /\ receiver.remain \in Nat
      /\ <<>> \in Seq(Byte) /\ Len(<<>>) = 0
      /\ receiver.limit \in Limits
      /\ receiver.remain <= receiver.len - CopyLen(receiver.len, receiver.limit)
  BY <1>1 DEF IInv, TypeOK, Locals, ReceiverInv
<1>3. HeadLen(Turn) \in Nat /\ Turn \in Nat
  BY NumbersAre DEF IInv
<1>4. PICK l \in Nat, h \in Nat, z \in Nat, w \in Nat, x \in Nat :
        /\ l = receiver.len /\ h = HeadLen(Turn) /\ z = receiver.remain /\ w = ToRecv
        /\ x = CopyLen(receiver.len, receiver.limit)
        /\ w <= z /\ z <= l - x
  <2>1. ToRecv = Min(receiver.remain, Piece)
    BY <1>1 DEF ToRecv
  <2>2. Min(receiver.remain, Piece) \in Nat /\ Min(receiver.remain, Piece) <= receiver.remain
    BY <1>2, FramingAssumption DEF Min
  <2>3. CopyLen(receiver.len, receiver.limit) \in Nat
    BY <1>2, CopyLenFits, FramingAssumption
  <2> QED BY <2>1, <2>2, <2>3, <1>2, <1>3
<1>5. /\ receiver' = [receiver EXCEPT !.part = <<>>, !.remain = z - w] /\ z - w \in Nat
      /\ Len(receiver.part) = w
  BY <1>1, <1>4
<1>6. /\ receiver'.pc = "rest" /\ receiver'.part = <<>> /\ receiver'.len = l
      /\ receiver'.limit = receiver.limit /\ receiver'.kept = receiver.kept
      /\ receiver'.remain = z - w
  BY <1>1, <1>2, <1>4, <1>5 DEF Locals
<1>7. TypeOK'
  <2>1. receiver' \in Locals
    BY <1>2, <1>5 DEF Locals
  <2> QED BY <2>1, <1>1 DEF IInv, TypeOK
<1>8. Turn' = Turn /\ HeadLen(Turn)' = HeadLen(Turn)
  BY <1>1 DEF Turn, HeadLen
<1>9. ReceiverInv'
  <2>1. 0 <= Min(z - w, Piece) /\ z - w <= l - x
    BY <1>4, <1>5, FramingAssumption DEF Min
  <2> QED BY <2>1, <1>1, <1>2, <1>4, <1>6, <1>8 DEF IInv, ReceiverInv, Messages!Chars
<1>10. RecvAt' = RecvAt
  <2>1. Consumed = h + (l - z) + w
    BY <1>1, <1>4, <1>5 DEF Consumed
  <2>2. Consumed' = h + (l - (z - w)) + 0
    BY <1>2, <1>4, <1>6, <1>8 DEF Consumed
  <2>3. Consumed' = Consumed
    BY <2>1, <2>2
  <2>4. Offset(Turn)' = Offset(Turn)
    BY <1>1, <1>8, SameMessages DEF Offset
  <2> QED BY <2>3, <2>4 DEF RecvAt
<1> QED BY <1>1, <1>7, <1>9, <1>10, WireStands DEF IInv

\* protocol_recv_string returns what fits of the string, the rest swallowed.
LEMMA StringCompleteKeeps ==
  ASSUME IInv, StringComplete
  PROVE  /\ IInv'
         /\ Turn \in 1 .. Len(sent) /\ Turn \notin SizeTurns
         /\ receiver.limit \in Limits
         /\ got' = Append(got, Text(Messages!Chars(Turn, CopyLen(sent[Turn].n, receiver.limit))))
         /\ sent' = sent
<1>1. /\ receiver.pc = "rest" /\ receiver.remain = 0 /\ Returns(Text(receiver.kept))
      /\ UNCHANGED <<sender, wire, link, sent>>
  BY DEF StringComplete
<1>2. /\ receiver.limit \in Limits /\ receiver.len \in Nat /\ receiver.kept \in Seq(Byte)
      /\ Turn <= Len(sent) /\ Turn \notin SizeTurns /\ receiver.len = sent[Turn].n
      /\ receiver.kept = Messages!Chars(Turn, CopyLen(receiver.len, receiver.limit))
      /\ Len(receiver.part) <= Min(receiver.remain, Piece) /\ Len(receiver.part) \in Nat
  BY <1>1 DEF IInv, TypeOK, Locals, ReceiverInv
<1>3. /\ HeadLen(Turn) \in Nat /\ Turn \in 1 .. Len(sent)
      /\ Total(Turn) = HeadLen(Turn) + BodyLen(Turn)
  <2>1. TypeOK /\ Turn \in Nat /\ Turn >= 1 /\ Len(sent) \in Nat /\ HeadLen(Turn) \in Nat
    BY NumbersAre DEF IInv
  <2>2. Turn \in 1 .. Len(sent)
    BY <2>1, <1>2
  <2> QED BY <2>1, <2>2, NumbersAre
<1>4. Consumed = Total(Turn)
  <2>1. Len(receiver.part) = 0
    BY <1>1, <1>2, FramingAssumption DEF Min
  <2>2. Consumed = HeadLen(Turn) + (receiver.len - 0) + 0
    BY <2>1, <1>1 DEF Consumed
  <2>3. BodyLen(Turn) = receiver.len
    BY <1>2 DEF BodyLen
  <2> QED BY <2>2, <2>3, <1>2, <1>3
<1>5. Text(receiver.kept) \in Result
  BY <1>2 DEF Text, Result
<1>6. IInv'
  BY <1>1, <1>3, <1>4, <1>5, ReturnKeeps
<1> QED BY <1>1, <1>2, <1>3, <1>6 DEF Returns
-----------------------------------------------------------------------------
\* The invariant, of the streams that start in step.
StreamInv == ~astray => IInv

\* Nothing but `astray` is read where nothing changes.
LEMMA StutterKeeps ==
  ASSUME IInv, UNCHANGED <<sender, receiver, wire, link, sent, got>>
  PROVE  IInv'
<1>1. TypeOK'
  BY DEF IInv, TypeOK
<1>2. Layout' /\ SenderInv' /\ WireInv'
  BY DEF IInv, Layout, SenderInv, WireInv, RecvAt, SentAt, Consumed,
         Offset, ToSend, SentBefore, Turn, End, Total, HeadLen, BodyLen
<1>3. ReceiverInv'
  BY DEF IInv, ReceiverInv, RecvAt, SentAt, Consumed,
         Offset, ToSend, SentBefore, Turn, End, Total, HeadLen, BodyLen
<1> QED BY <1>1, <1>2, <1>3 DEF IInv

\* Every step keeps the invariant.
LEMMA NextKeeps ==
  ASSUME IInv, Next
  PROVE  IInv'
<1>1. ASSUME NEW n \in Values, StartSend(n) PROVE IInv'
  BY <1>1, StartSendKeeps
<1>2. CASE Sending
  BY <1>2, SendSomeKeeps, SendFailsKeeps DEF Sending
<1>3. CASE Receiving
  <2>1. ASSUME NEW limit \in Limits, StartRecv(limit) PROVE IInv'
    BY <2>1, StartRecvKeeps
  <2>2. CASE RecvSome
    BY <2>2, RecvSomeKeeps
  <2>3. CASE RecvFileSize
    BY <2>3, RecvFileSizeKeeps
  <2>4. CASE LengthNegative
    BY <2>4, NoLengthIsNegative
  <2>5. CASE LengthZero
    BY <2>5, LengthZeroKeeps
  <2>6. CASE LengthKnown
    BY <2>6, LengthKnownKeeps
  <2>7. CASE BodyComplete
    BY <2>7, BodyCompleteKeeps
  <2>8. CASE PieceSwallowed
    BY <2>8, PieceSwallowedKeeps
  <2>9. CASE StringComplete
    BY <2>9, StringCompleteKeeps
  <2>10. CASE RecvFails
    BY <2>10, RecvFailsKeeps
  <2> QED BY <1>3, <2>1, <2>2, <2>3, <2>4, <2>5, <2>6, <2>7, <2>8, <2>9, <2>10 DEF Receiving
<1>4. CASE LoseLink
  BY <1>4, LoseLinkKeeps
<1>5. CASE Terminated
  BY <1>5, StutterKeeps DEF Terminated
<1> QED BY <1>1, <1>2, <1>3, <1>4, <1>5 DEF Next

\* The invariant holds from the start.
LEMMA StreamStarts == Init \/ InitAstray => StreamInv
<1>1. Init => StreamInv
  BY InitInv DEF Init, StreamInv
<1>2. InitAstray => StreamInv
  BY DEF InitAstray, StreamInv
<1> QED BY <1>1, <1>2

\* ... and over every step.
LEMMA StreamKeeps == StreamInv /\ [Next]_vars => StreamInv'
<1> SUFFICES ASSUME StreamInv, [Next]_vars, ~astray' PROVE IInv'
  BY DEF StreamInv
<1>1. IInv
  BY DEF StreamInv, Next, vars
<1>2. CASE Next
  BY <1>1, <1>2, NextKeeps
<1>3. CASE UNCHANGED vars
  BY <1>1, <1>3, StutterKeeps DEF vars
<1> QED BY <1>2, <1>3

\* Between two calls the next byte is the first of the next message.
LEMMA StandsAtStart ==
  ASSUME IInv, receiver.pc = "idle", wire # <<>>
  PROVE  wire[1] = <<Turn, 1>>
<1>1. Turn <= Len(sent)
  BY WireIsOfSent
<1>2. /\ TypeOK /\ Turn \in Nat /\ Turn >= 1 /\ Len(sent) \in Nat /\ Len(wire) \in Nat
      /\ HeadLen(Turn) \in Nat /\ HeadLen(Turn) >= 1
  BY NumbersAre DEF IInv
<1>3. Turn \in 1 .. Len(sent)
  BY <1>1, <1>2
<1>4. Total(Turn) = HeadLen(Turn) + BodyLen(Turn) /\ BodyLen(Turn) \in Nat
  BY <1>2, <1>3, NumbersAre
<1>5. Consumed = 0 /\ 0 + 1 <= Total(Turn)
  BY <1>2, <1>4 DEF Consumed
<1>6. 1 \in 1 .. Len(wire)
  BY <1>2 DEF TypeOK
<1>7. wire[1] = <<Turn, 0 + 1>>
  BY <1>1, <1>5, <1>6, NextBytes
<1> QED BY <1>7

\* On a stream that starts in step every call finds the next message where it
\* starts, and fails only with the connection (protocol.c:110-148).
THEOREM CallsStayInStep == Spec => []InStep
<1>1. StreamInv => InStep
  BY StandsAtStart DEF StreamInv, InStep, IInv, SenderInv, ReceiverInv
<1> QED BY <1>1, StreamStarts, StreamKeeps, PTL DEF Spec
-----------------------------------------------------------------------------
\* A message that is begun is said.
LEMMA StartSendSays ==
  ASSUME IInv, NEW n \in Values, StartSend(n)
  PROVE  Messages!Say(n)
<1>1. sent' = Append(sent, [n |-> n, at |-> End]) /\ got' = got /\ sent \in Seq(Message)
  BY DEF StartSend, IInv, TypeOK
<1>2. PICK k \in Nat : k = Len(sent) /\ DOMAIN sent = 1 .. k
  BY <1>1
<1>3. [n |-> n, at |-> End] \in Message
  BY NumbersAre DEF IInv, Message
<1>4. /\ DOMAIN sent' = 1 .. k + 1
      /\ \A m \in 1 .. k : sent'[m] = sent[m]
      /\ sent'[k + 1] = [n |-> n, at |-> End]
  BY <1>1, <1>2, <1>3
<1>5. Said \in Seq(Values) /\ Len(Said) = k /\ \A m \in 1 .. k : Said[m] = sent[m].n
  <2>1. Said = [m \in 1 .. k |-> sent[m].n]
    BY <1>2 DEF Said
  <2>2. ASSUME NEW m \in 1 .. k PROVE sent[m].n \in Values
    <3>1. PICK x \in Message : x = sent[m]
      BY <1>1, <1>2
    <3> QED BY <3>1 DEF Message
  <2> QED BY <2>1, <2>2
<1>6. Said' = [m \in 1 .. k + 1 |-> sent'[m].n]
  BY <1>4 DEF Said
<1>7. /\ Append(Said, n) \in Seq(Values) /\ Len(Append(Said, n)) = k + 1
      /\ \A m \in 1 .. k : Append(Said, n)[m] = Said[m]
      /\ Append(Said, n)[k + 1] = n
  BY <1>5
<1>8. \A m \in 1 .. k + 1 : sent'[m].n = Append(Said, n)[m]
  <2> TAKE m \in 1 .. k + 1
  <2>1. CASE m \in 1 .. k
    BY <2>1, <1>4, <1>5, <1>7
  <2>2. CASE m = k + 1
    BY <2>2, <1>4, <1>7
  <2>3. m \in 1 .. k \/ m = k + 1
    BY <1>2
  <2> QED BY <2>1, <2>2, <2>3
<1>9. Said' \in Seq(Values) /\ Len(Said') = k + 1 /\ \A m \in 1 .. k + 1 : Said'[m] = sent'[m].n
  <2>1. ASSUME NEW m \in 1 .. k + 1 PROVE sent'[m].n \in Values
    <3>1. Append(Said, n)[m] \in Values
      BY <1>7
    <3> QED BY <3>1, <1>8
  <2> QED BY <2>1, <1>6, <1>2
<1>10. Said' = Append(Said, n)
  BY <1>7, <1>8, <1>9
<1> QED BY <1>1, <1>10 DEF Messages!Say

\* What a call returns is the next message, as it is to be heard.
LEMMA ReturnHears ==
  ASSUME IInv, Turn \in 1 .. Len(sent), receiver.limit \in Limits, sent' = sent,
         got' = Append(got, IF Turn \in SizeTurns THEN FileSize(sent[Turn].n)
                            ELSE Text(Messages!Chars(Turn, CopyLen(sent[Turn].n, receiver.limit))))
  PROVE  Messages!Next
<1>1. Said' = Said /\ Said[Turn] = sent[Turn].n /\ Turn <= Len(Said)
  <2>1. DOMAIN sent = 1 .. Len(sent) /\ Len(sent) \in Nat
    BY DEF IInv, TypeOK
  <2>2. Said = [m \in 1 .. Len(sent) |-> sent[m].n]
    BY <2>1 DEF Said
  <2>3. Said[Turn] = sent[Turn].n /\ Len(Said) = Len(sent)
    BY <2>1, <2>2
  <2> QED BY <2>1, <2>3 DEF Said
<1>2. CopyLen(sent[Turn].n, receiver.limit) = Messages!Fitting(sent[Turn].n, receiver.limit)
  <2>1. sent[Turn].n \in Nat /\ receiver.limit \in Nat
    BY NumbersAre, FramingAssumption DEF IInv
  <2> QED BY <2>1 DEF CopyLen, Messages!Fitting
<1>3. Messages!Hear(receiver.limit)
  BY <1>1, <1>2 DEF Messages!Hear, Messages!FileSize, Messages!Text, FileSize, Text, Turn
<1> QED BY <1>3 DEF Messages!Next

\* Every step is one of the channel's, or none of its concern.
LEMMA StepIsChannels ==
  ASSUME IInv, Next
  PROVE  Messages!Next \/ UNCHANGED <<Said, got>>
<1> DEFINE Goal == Messages!Next \/ UNCHANGED <<Said, got>>
<1>0. UNCHANGED <<sent, got>> => Goal
  BY DEF Said
<1> SUFFICES Goal
  OBVIOUS
<1> HIDE DEF Goal
<1>1. ASSUME NEW n \in Values, StartSend(n) PROVE Goal
  BY <1>1, StartSendSays DEF Goal, Messages!Next
<1>2. CASE Sending
  BY <1>2, <1>0 DEF Sending, SendSome, SendFails
<1>3. CASE Receiving
  <2>1. CASE RecvFileSize
    <3>1. receiver.limit \in Limits
      BY <2>1 DEF RecvFileSize, HeadComplete, IInv, ReceiverInv
    <3> QED BY <2>1, <3>1, RecvFileSizeKeeps, ReturnHears DEF Goal
  <2>2. CASE LengthZero
    <3>1. /\ Turn \in 1 .. Len(sent) /\ Turn \notin SizeTurns /\ sent[Turn].n = 0
          /\ receiver.limit \in Limits
          /\ got' = Append(got, Text(<<>>)) /\ sent' = sent
      BY <2>2, LengthZeroKeeps
    <3>2. Messages!Chars(Turn, CopyLen(sent[Turn].n, receiver.limit)) = <<>>
      BY <3>1, FramingAssumption DEF CopyLen, Messages!Chars
    <3> QED BY <3>1, <3>2, ReturnHears DEF Goal
  <2>3. CASE StringComplete
    BY <2>3, StringCompleteKeeps, ReturnHears DEF Goal
  <2>4. ASSUME NEW limit \in Limits, StartRecv(limit) PROVE Goal
    BY <2>4, <1>0 DEF StartRecv
  <2>5. CASE RecvSome \/ LengthNegative \/ LengthKnown \/ BodyComplete \/ PieceSwallowed \/ RecvFails
    BY <2>5, <1>0 DEF RecvSome, LengthNegative, LengthKnown, BodyComplete, PieceSwallowed, RecvFails
  <2> QED BY <1>3, <2>1, <2>2, <2>3, <2>4, <2>5 DEF Receiving
<1>4. CASE LoseLink
  BY <1>4, <1>0 DEF LoseLink
<1>5. CASE Terminated
  BY <1>5, <1>0 DEF Terminated
<1> QED BY <1>1, <1>2, <1>3, <1>4, <1>5 DEF Next

\* Where the stream starts in step, protocol.c implements the channel of
\* messages: each arrives once, in order, as it was sent or cut to the buffer.
THEOREM BytesAreMessages == Spec => ChannelSpec
<1>1. Init \/ InitAstray => Messages!Init
  BY DEF Init, InitAstray, InitWith, Messages!Init, Said
<1>2. StreamInv /\ [Next]_vars => [astray \/ Messages!Next]_<<Said, got>>
  <2> SUFFICES ASSUME StreamInv, [Next]_vars, ~astray
               PROVE  Messages!Next \/ UNCHANGED <<Said, got>>
    OBVIOUS
  <2>1. CASE Next
    BY <2>1, StepIsChannels DEF StreamInv
  <2>2. CASE UNCHANGED vars
    BY <2>2 DEF vars, Said
  <2> QED BY <2>1, <2>2
<1> QED BY <1>1, <1>2, StreamStarts, StreamKeeps, PTL DEF Spec, ChannelSpec
-----------------------------------------------------------------------------
(* No more than fits, whatever an int on the wire says: this argument does *)
(* not rely on the bytes being those of a message.                         *)

\* What a call has in its buffers never exceeds what it asks recv for.
BufferInv ==
  /\ TypeOK
  /\ sender.pc \in {"head", "body"} => sent # <<>>
  /\ receiver.pc \in {"head", "body", "rest"} => receiver.limit \in Limits
  /\ receiver.pc = "body" => Len(receiver.part) <= CopyLen(receiver.len, receiver.limit)
  /\ receiver.pc = "rest" =>
       Len(receiver.part) <= Min(receiver.remain, Piece) /\ Len(receiver.kept) < receiver.limit

\* No step of the sender reaches the receiver's buffers.
LEMMA StartSendKeepsBuffers ==
  ASSUME BufferInv, NEW n \in Values, StartSend(n)
  PROVE  BufferInv'
<1>1. [n |-> n, at |-> End] \in Message
  BY NumbersAre DEF Message, BufferInv
<1>2. sent' \in Seq(Message) /\ sent' # <<>>
  BY <1>1 DEF StartSend, TypeOK, BufferInv
<1>3. TypeOK'
  BY <1>2 DEF StartSend, TypeOK, Locals, BufferInv
<1> QED BY <1>2, <1>3 DEF StartSend, BufferInv

\* ... and neither does what send() takes.
LEMMA SendSomeKeepsBuffers ==
  ASSUME BufferInv, SendSome
  PROVE  BufferInv'
<1>1. PICK k \in 1 .. Min(ToSend - sender.total, Capacity - Len(wire)) :
        /\ wire' = wire \o Bytes(Len(sent), SentBefore + sender.total, k)
        /\ sender' =
             IF sender.total + k < ToSend THEN [sender EXCEPT !.total = @ + k]
             ELSE [pc |-> IF sender.pc = "head" /\ BodyLen(Len(sent)) > 0 THEN "body" ELSE "idle",
                   total |-> 0]
  BY DEF SendSome
<1>2. UNCHANGED <<receiver, link, sent, got>> /\ sent # <<>> /\ TypeOK
  BY DEF SendSome, BufferInv
<1>3. /\ Len(sent) \in Nat /\ Len(wire) \in Nat /\ HeadLen(Len(sent)) \in Nat
      /\ BodyLen(Len(sent)) \in Nat
  BY <1>2, NumbersAre
<1>4. PICK s \in Nat, l \in Nat, t \in Nat, x \in Nat, b \in Nat :
        s = Len(sent) /\ l = Len(wire) /\ t = sender.total /\ x = ToSend /\ b = SentBefore
  BY <1>2, <1>3 DEF TypeOK, ToSend, SentBefore
<1>5. k \in Nat /\ k <= x - t /\ k <= Capacity - l
  <2>1. x - t \in Int /\ Capacity - l \in Int /\ k \in 1 .. Min(x - t, Capacity - l)
    BY <1>4, FramingAssumption
  <2> QED BY <2>1, MinBounds
<1>6. PICK y \in Seq(Byte) : y = Bytes(s, b + t, k) /\ Len(y) = k
  <2>1. Bytes(s, b + t, k) \in Seq(Byte) /\ Len(Bytes(s, b + t, k)) = k
    BY <1>4, <1>5 DEF Bytes, Byte
  <2> QED BY <2>1
<1>7. wire' \in Seq(Byte) /\ Len(wire') <= Capacity
  <2>1. wire \in Seq(Byte) /\ wire' = wire \o y
    BY <1>1, <1>2, <1>4, <1>6 DEF TypeOK
  <2>2. wire \o y \in Seq(Byte) /\ Len(wire \o y) = Len(wire) + Len(y)
    BY <2>1, Joined
  <2>3. Len(wire \o y) = l + k
    BY <2>2, <1>4, <1>6
  <2> QED BY <2>1, <2>2, <2>3, <1>4, <1>5, FramingAssumption
<1>8. sender' \in [pc : {"idle", "head", "body", "failed"}, total : Nat]
  <2>1. CASE t + k < x
    <3>1. sender' = [sender EXCEPT !.total = t + k] /\ t + k \in Nat
      BY <2>1, <1>1, <1>4, <1>5
    <3> QED BY <3>1, <1>2 DEF TypeOK
  <2>2. CASE ~(t + k < x)
    BY <2>2, <1>1, <1>4
  <2> QED BY <2>1, <2>2
<1>9. TypeOK'
  BY <1>2, <1>7, <1>8 DEF TypeOK, Locals
<1> QED BY <1>2, <1>9 DEF BufferInv

\* A lost connection shortens what is under way.
LEMMA LoseLinkKeepsBuffers ==
  ASSUME BufferInv, LoseLink
  PROVE  BufferInv'
<1>1. PICK k \in 0 .. Len(wire) : wire' = SubSeq(wire, 1, k)
  BY DEF LoseLink
<1>2. wire \in Seq(Byte) /\ Len(wire) \in Nat /\ Len(wire) <= Capacity
  BY DEF BufferInv, TypeOK
<1>3. wire' \in Seq(Byte) /\ Len(wire') = k
  BY <1>1, <1>2, Cut
<1>4. TypeOK'
  BY <1>1, <1>2, <1>3, FramingAssumption DEF LoseLink, BufferInv, TypeOK, Locals
<1> QED BY <1>4 DEF LoseLink, BufferInv

\* recv returns no more than it is asked for, which is what the buffer has left.
LEMMA RecvSomeKeepsBuffers ==
  ASSUME BufferInv, RecvSome
  PROVE  BufferInv'
<1>1. PICK k \in 1 .. Min(ToRecv - Len(receiver.part), Len(wire)) :
        /\ receiver' = [receiver EXCEPT !.part = @ \o SubSeq(wire, 1, k)]
        /\ wire' = SubSeq(wire, k + 1, Len(wire))
  BY DEF RecvSome
<1>2. UNCHANGED <<sender, link, sent, got>>
  BY DEF RecvSome
<1>3. /\ wire \in Seq(Byte) /\ Len(wire) \in Nat /\ Len(wire) <= Capacity /\ receiver \in Locals
      /\ receiver.part \in Seq(Byte) /\ Len(receiver.part) \in Nat
      /\ receiver.len \in Nat /\ receiver.remain \in Nat /\ HeadLen(Turn) \in Nat
  BY NumbersAre DEF BufferInv, TypeOK, Locals
<1>4. /\ ToRecv \in Nat
      /\ receiver.pc = "body" => ToRecv = CopyLen(receiver.len, receiver.limit)
      /\ receiver.pc = "rest" => ToRecv = Min(receiver.remain, Piece)
  <2>1. CASE receiver.pc = "body"
    <3>1. receiver.limit \in Limits
      BY <2>1 DEF BufferInv
    <3>2. /\ CopyLen(receiver.len, receiver.limit) \in Nat
          /\ AsSize(CopyLen(receiver.len, receiver.limit)) = CopyLen(receiver.len, receiver.limit)
      BY <3>1, <1>3, CopyLenFits, FramingAssumption
    <3> QED BY <2>1, <3>2 DEF ToRecv
  <2>2. CASE receiver.pc = "rest"
    BY <2>2, <1>3, FramingAssumption DEF ToRecv, Min
  <2>3. CASE receiver.pc \notin {"body", "rest"}
    BY <2>3, <1>3 DEF ToRecv
  <2> QED BY <2>1, <2>2, <2>3
<1>5. PICK p \in Nat, l \in Nat, w \in Nat :
        p = Len(receiver.part) /\ l = Len(wire) /\ w = ToRecv
  BY <1>3, <1>4
<1>6. k \in Nat /\ p + k <= w /\ k <= l
  <2>1. w - p \in Int /\ k \in 1 .. Min(w - p, l)
    BY <1>5
  <2>2. k \in Nat /\ k <= w - p /\ k <= l
    BY <2>1, MinBounds
  <2> QED BY <2>2
<1>7. PICK y \in Seq(Byte) : y = SubSeq(wire, 1, k) /\ Len(y) = k
  <2>1. SubSeq(wire, 1, k) \in Seq(Byte) /\ Len(SubSeq(wire, 1, k)) = k
    BY <1>3, <1>5, <1>6, Cut
  <2> QED BY <2>1
<1>8. wire' \in Seq(Byte) /\ Len(wire') = l - k
  BY <1>1, <1>3, <1>5, <1>6, Cut
<1>9. receiver.part \o y \in Seq(Byte) /\ Len(receiver.part \o y) = p + k
  BY <1>3, <1>5, <1>7, Joined
<1>10. receiver' = [receiver EXCEPT !.part = receiver.part \o y]
  BY <1>1, <1>7
<1>11. receiver' \in Locals
  BY <1>3, <1>9, <1>10 DEF Locals
<1>12. TypeOK'
  BY <1>2, <1>3, <1>5, <1>6, <1>8, <1>11, FramingAssumption DEF BufferInv, TypeOK
<1>13. /\ receiver'.pc = receiver.pc /\ receiver'.limit = receiver.limit
       /\ receiver'.len = receiver.len /\ receiver'.kept = receiver.kept
       /\ receiver'.remain = receiver.remain /\ Len(receiver'.part) = p + k
  BY <1>3, <1>9, <1>10 DEF Locals
<1> QED BY <1>2, <1>4, <1>5, <1>6, <1>12, <1>13 DEF BufferInv

\* A length that is not negative asks for less than the buffer holds.
LEMMA LengthKnownKeepsBuffers ==
  ASSUME BufferInv, LengthKnown
  PROVE  BufferInv'
<1>1. PICK n \in Values \cup Misread :
        /\ n > 0
        /\ HeadComplete(n)
        /\ receiver' = [receiver EXCEPT !.pc = "body", !.len = n, !.part = <<>>]
  BY DEF LengthKnown
<1>2. UNCHANGED <<sender, wire, link, sent, got>>
  BY DEF LengthKnown
<1>3. n \in Nat /\ receiver \in Locals /\ receiver.limit \in Limits /\ <<>> \in Seq(Byte)
  BY <1>1, FramingAssumption DEF BufferInv, TypeOK, HeadComplete
<1>4. receiver' \in Locals
  BY <1>1, <1>3 DEF Locals
<1>5. /\ receiver'.pc = "body" /\ receiver'.len = n /\ receiver'.limit = receiver.limit
      /\ Len(receiver'.part) = 0
  BY <1>1, <1>3 DEF Locals
<1>6. CopyLen(n, receiver.limit) \in Nat
  BY <1>3, CopyLenFits, FramingAssumption
<1>7. TypeOK'
  BY <1>2, <1>4 DEF BufferInv, TypeOK
<1> QED BY <1>2, <1>3, <1>5, <1>6, <1>7 DEF BufferInv

\* What was kept leaves room for the terminator.
LEMMA BodyCompleteKeepsBuffers ==
  ASSUME BufferInv, BodyComplete
  PROVE  BufferInv'
<1>1. /\ receiver.pc = "body" /\ Len(receiver.part) = ToRecv
      /\ receiver' = [receiver EXCEPT !.pc = "rest", !.part = <<>>,
                                      !.kept = CharsOf(receiver.part),
                                      !.remain = receiver.len - ToRecv]
      /\ UNCHANGED <<sender, wire, link, sent, got>>
  BY DEF BodyComplete
<1>2. /\ receiver \in Locals /\ receiver.limit \in Limits /\ receiver.len \in Nat
      /\ receiver.limit \in Nat /\ receiver.part \in Seq(Byte) /\ <<>> \in Seq(Byte)
  BY <1>1, FramingAssumption DEF BufferInv, TypeOK, Locals
<1>3. PICK x \in Nat : x = ToRecv /\ x <= receiver.len /\ x < receiver.limit
  <2>1. /\ CopyLen(receiver.len, receiver.limit) \in Nat
        /\ CopyLen(receiver.len, receiver.limit) <= receiver.len
        /\ CopyLen(receiver.len, receiver.limit) < receiver.limit
        /\ AsSize(CopyLen(receiver.len, receiver.limit)) = CopyLen(receiver.len, receiver.limit)
    BY <1>2, CopyLenFits, FramingAssumption
  <2> QED BY <2>1, <1>1 DEF ToRecv
<1>4. PICK y \in Seq(Byte) : y = CharsOf(receiver.part) /\ Len(y) = x
  <2>1. DOMAIN receiver.part = 1 .. x
    BY <1>1, <1>2, <1>3
  <2>2. ASSUME NEW j \in 1 .. x
        PROVE  <<receiver.part[j][1], receiver.part[j][2] - IntBytes>> \in Byte
    <3>1. receiver.part[j] \in Byte
      BY <2>1, <1>2
    <3> QED BY <3>1, FramingAssumption DEF Byte
  <2>3. CharsOf(receiver.part) = [j \in 1 .. x |-> <<receiver.part[j][1], receiver.part[j][2] - IntBytes>>]
    BY <2>1 DEF CharsOf
  <2>4. CharsOf(receiver.part) \in Seq(Byte) /\ Len(CharsOf(receiver.part)) = x
    BY <2>2, <2>3
  <2> QED BY <2>4
<1>5. /\ receiver' = [receiver EXCEPT !.pc = "rest", !.part = <<>>, !.kept = y,
                                      !.remain = receiver.len - x]
      /\ receiver.len - x \in Nat
  BY <1>1, <1>2, <1>3, <1>4
<1>6. receiver' \in Locals
  BY <1>2, <1>5 DEF Locals
<1>7. /\ receiver'.pc = "rest" /\ receiver'.part = <<>> /\ receiver'.kept = y
      /\ receiver'.limit = receiver.limit /\ receiver'.remain = receiver.len - x
  BY <1>2, <1>5 DEF Locals
<1>8. 0 <= Min(receiver.len - x, Piece)
  BY <1>5, FramingAssumption DEF Min
<1>9. TypeOK'
  BY <1>1, <1>6 DEF BufferInv, TypeOK
<1> QED BY <1>1, <1>2, <1>3, <1>4, <1>7, <1>8, <1>9 DEF BufferInv

\* A piece swallowed makes room in temp.
LEMMA PieceSwallowedKeepsBuffers ==
  ASSUME BufferInv, PieceSwallowed
  PROVE  BufferInv'
<1>1. /\ receiver.pc = "rest"
      /\ receiver' = [receiver EXCEPT !.part = <<>>, !.remain = @ - ToRecv]
      /\ UNCHANGED <<sender, wire, link, sent, got>>
  BY DEF PieceSwallowed
<1>2. receiver \in Locals /\ receiver.remain \in Nat /\ <<>> \in Seq(Byte)
  BY DEF BufferInv, TypeOK, Locals
<1>3. PICK z \in Nat : z = receiver.remain - ToRecv
  <2>1. ToRecv = Min(receiver.remain, Piece)
    BY <1>1 DEF ToRecv
  <2> QED BY <2>1, <1>2, FramingAssumption DEF Min
<1>4. receiver' = [receiver EXCEPT !.part = <<>>, !.remain = z]
  BY <1>1, <1>3
<1>5. /\ receiver' \in Locals /\ receiver'.pc = "rest" /\ receiver'.part = <<>>
      /\ receiver'.limit = receiver.limit /\ receiver'.kept = receiver.kept /\ receiver'.remain = z
  BY <1>1, <1>2, <1>4 DEF Locals
<1>6. 0 <= Min(z, Piece)
  BY FramingAssumption DEF Min
<1>7. TypeOK'
  BY <1>1, <1>5 DEF BufferInv, TypeOK
<1> QED BY <1>1, <1>5, <1>6, <1>7 DEF BufferInv

\* A call that returns leaves no buffer in use.
LEMMA ReturnKeepsBuffers ==
  ASSUME BufferInv, UNCHANGED <<sender, wire, link, sent>>, NEW result \in Result, Returns(result)
  PROVE  BufferInv'
<1>1. receiver \in Locals /\ <<>> \in Seq(Byte) /\ got \in Seq(Result)
  BY DEF BufferInv, TypeOK
<1>2. receiver' \in Locals /\ receiver'.pc = "idle" /\ got' \in Seq(Result)
  <2>1. receiver' = [receiver EXCEPT !.pc = "idle", !.part = <<>>, !.kept = <<>>,
                                     !.len = 0, !.remain = 0]
    BY DEF Returns
  <2>2. receiver' \in Locals /\ receiver'.pc = "idle"
    BY <2>1, <1>1 DEF Locals
  <2> QED BY <2>2, <1>1 DEF Returns
<1>3. TypeOK'
  BY <1>2 DEF BufferInv, TypeOK
<1> QED BY <1>2, <1>3 DEF BufferInv

\* A call that fails is over.
LEMMA FailKeepsBuffers ==
  ASSUME BufferInv, UNCHANGED <<sender, wire, link, sent, got>>,
         receiver' = [receiver EXCEPT !.pc = "failed"]
  PROVE  BufferInv'
<1>1. receiver' \in Locals /\ receiver'.pc = "failed"
  BY DEF BufferInv, TypeOK, Locals
<1>2. TypeOK'
  BY <1>1 DEF BufferInv, TypeOK
<1> QED BY <1>1, <1>2 DEF BufferInv

\* A call begins with an empty field.
LEMMA StartRecvKeepsBuffers ==
  ASSUME BufferInv, NEW limit \in Limits, StartRecv(limit)
  PROVE  BufferInv'
<1>1. receiver' = [receiver EXCEPT !.pc = "head", !.limit = limit, !.part = <<>>]
  BY DEF StartRecv
<1>2. receiver \in Locals /\ <<>> \in Seq(Byte)
  BY DEF BufferInv, TypeOK
<1>3. receiver' \in Locals /\ receiver'.pc = "head" /\ receiver'.limit = limit
  BY <1>1, <1>2 DEF Locals
<1>4. TypeOK'
  BY <1>3 DEF StartRecv, BufferInv, TypeOK
<1> QED BY <1>3, <1>4 DEF StartRecv, BufferInv

\* Every step keeps within the buffers.
LEMMA NextKeepsBuffers ==
  ASSUME BufferInv, [Next]_vars
  PROVE  BufferInv'
<1>1. ASSUME NEW n \in Values, StartSend(n) PROVE BufferInv'
  BY <1>1, StartSendKeepsBuffers
<1>2. CASE SendSome
  BY <1>2, SendSomeKeepsBuffers
<1>3. CASE SendFails
  <2>1. sender' \in [pc : {"idle", "head", "body", "failed"}, total : Nat] /\ sender'.pc = "failed"
    BY <1>3 DEF SendFails, BufferInv, TypeOK
  <2>2. TypeOK'
    BY <2>1, <1>3 DEF SendFails, BufferInv, TypeOK
  <2> QED BY <2>1, <2>2, <1>3 DEF SendFails, BufferInv
<1>4. CASE LoseLink
  BY <1>4, LoseLinkKeepsBuffers
<1>5. CASE Receiving
  <2>1. ASSUME NEW limit \in Limits, StartRecv(limit) PROVE BufferInv'
    BY <2>1, StartRecvKeepsBuffers
  <2>2. CASE RecvSome
    BY <2>2, RecvSomeKeepsBuffers
  <2>3. CASE RecvFileSize
    <3>1. PICK n \in Values \cup Misread : Returns(FileSize(n))
      BY <2>3 DEF RecvFileSize
    <3>2. FileSize(n) \in Result
      BY FramingAssumption DEF FileSize, Result
    <3> QED BY <2>3, <3>1, <3>2, ReturnKeepsBuffers DEF RecvFileSize
  <2>4. CASE LengthNegative \/ RecvFails
    BY <2>4, FailKeepsBuffers DEF LengthNegative, RecvFails
  <2>5. CASE LengthZero
    <3>1. Text(<<>>) \in Result
      BY DEF Text, Result
    <3> QED BY <2>5, <3>1, ReturnKeepsBuffers DEF LengthZero
  <2>6. CASE LengthKnown
    BY <2>6, LengthKnownKeepsBuffers
  <2>7. CASE BodyComplete
    BY <2>7, BodyCompleteKeepsBuffers
  <2>8. CASE PieceSwallowed
    BY <2>8, PieceSwallowedKeepsBuffers
  <2>9. CASE StringComplete
    <3>1. Text(receiver.kept) \in Result
      BY DEF BufferInv, TypeOK, Locals, Text, Result
    <3> QED BY <2>9, <3>1, ReturnKeepsBuffers DEF StringComplete
  <2> QED BY <1>5, <2>1, <2>2, <2>3, <2>4, <2>5, <2>6, <2>7, <2>8, <2>9 DEF Receiving
<1>6. CASE Terminated \/ UNCHANGED vars
  BY <1>6 DEF Terminated, vars, BufferInv, TypeOK, Locals
<1> QED BY <1>1, <1>2, <1>3, <1>4, <1>5, <1>6 DEF Next, Sending

\* ... from the start, with file content in the stream or without.
LEMMA BuffersStart == Init \/ InitAstray => BufferInv
<1>1. ASSUME NEW bytes \in Seq(Byte), Len(bytes) <= Capacity, InitWith(bytes) PROVE BufferInv
  BY <1>1, FramingAssumption DEF InitWith, BufferInv, TypeOK, Locals
<1>2. Init => BufferInv
  <2>1. <<>> \in Seq(Byte) /\ Len(<<>>) <= Capacity
    BY FramingAssumption
  <2> QED BY <2>1, <1>1 DEF Init
<1>3. InitAstray => BufferInv
  <2>1. Bytes(0, 0, Leftover) \in Seq(Byte) /\ Len(Bytes(0, 0, Leftover)) <= Capacity
    <3>1. Leftover \in Nat /\ Leftover <= Capacity
      BY FramingAssumption
    <3> QED BY <3>1 DEF Bytes, Byte
  <2> QED BY <2>1, <1>1 DEF InitAstray
<1> QED BY <1>2, <1>3

\* Whatever an int on the wire says, no more is written than fits the caller's
\* buffer with its terminator, or temp (protocol.c:102-150).
THEOREM NothingIsOverrun == Spec => []BufferNeverOverrun
<1>1. BufferInv => BufferNeverOverrun
  <2> SUFFICES ASSUME BufferInv PROVE BufferNeverOverrun
    OBVIOUS
  <2>1. receiver.pc = "body" => Len(receiver.part) < receiver.limit
    <3> SUFFICES ASSUME receiver.pc = "body" PROVE Len(receiver.part) < receiver.limit
      OBVIOUS
    <3>1. /\ receiver.len \in Nat /\ Len(receiver.part) \in Nat
          /\ receiver.limit \in Nat /\ receiver.limit >= 1
          /\ Len(receiver.part) <= CopyLen(receiver.len, receiver.limit)
      BY FramingAssumption DEF BufferInv, TypeOK, Locals
    <3>2. /\ CopyLen(receiver.len, receiver.limit) \in Nat
          /\ CopyLen(receiver.len, receiver.limit) < receiver.limit
      BY <3>1, CopyLenFits
    <3> QED BY <3>1, <3>2
  <2>2. receiver.pc = "rest" => Len(receiver.part) <= Piece
    <3>1. receiver.remain \in Nat /\ Len(receiver.part) \in Nat
      BY DEF BufferInv, TypeOK, Locals
    <3> QED BY <3>1, FramingAssumption DEF BufferInv, Min
  <2> QED BY <2>1, <2>2 DEF BufferNeverOverrun, BufferInv
<1> QED BY <1>1, BuffersStart, NextKeepsBuffers, PTL DEF Spec
=============================================================================
