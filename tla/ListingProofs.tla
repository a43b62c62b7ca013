----------------------------- MODULE ListingProofs -----------------------------
(***************************************************************************)
(* What handle_ls puts into its buffer, for any names, lengths, buffer     *)
(* size and number of entries, and whatever other sessions do meanwhile.   *)
(***************************************************************************)
EXTENDS Listing, SequenceTheorems, TLAPS

Places == {"idle", "refused", "reading", "full", "read", "sent", "cut"}
TypeOK ==
  /\ entries \subseteq Names /\ offered \subseteq Names /\ steady \subseteq Names
  /\ lister \in Places
  /\ result \in Seq([name : Names, at : Nat, bytes : Nat])
  /\ used \in Nat

\* `used` is where the next line goes.
Filled == IF result = <<>> THEN 0 ELSE End(Len(result))
Complete == \A i \in DOMAIN result : IsWhole(i)

\* In the loop every line is whole, and what was there all the time is in the
\* buffer or still to come; after it, how the loop ended is known from the place.
LoopInv ==
  /\ lister \in {"reading", "read"} => Complete /\ used = Filled /\ used < ResponseSize
  /\ lister = "reading" => steady \subseteq offered \cup Listed
  /\ lister = "read" => steady \subseteq Listed
  /\ lister = "full" => result # <<>> /\ used # 0

ListingInv == TypeOK /\ BufferNeverOverrun /\ ListingIsTrue /\ LoopInv

\* A line behind the others: what the buffer holds then.
LEMMA LineIsPut ==
  ASSUME TypeOK, NEW n \in Names, NEW k \in Nat, result' = Append(result, Line(n, used, k))
  PROVE  /\ result' \in Seq([name : Names, at : Nat, bytes : Nat])
         /\ Len(result') = Len(result) + 1 /\ result' # <<>>
         /\ DOMAIN result' = DOMAIN result \cup {Len(result')}
         /\ \A i \in DOMAIN result : result'[i] = result[i] /\ i \in 1 .. Len(result)
         /\ result'[Len(result')] = Line(n, used, k)
<1>1. Line(n, used, k) \in [name : Names, at : Nat, bytes : Nat]
  BY DEF Line, TypeOK
<1>2. DOMAIN result = 1 .. Len(result) /\ Len(result) \in Nat
  BY DEF TypeOK
<1>3. DOMAIN result' = 1 .. Len(result')
  BY <1>1, AppendProperties DEF TypeOK
<1> QED BY <1>1, <1>2, <1>3, AppendProperties DEF TypeOK

\* A turn of the loop keeps what is said of buffer and loop.
LEMMA TurnKeeps ==
  ASSUME ListingInv, NEW n \in Names, ReadDir(n)
  PROVE  ListingInv'
<1> DEFINE room == ResponseSize - used
           k == Least(Length[n] + 1, room - 1)
<1>1. /\ lister = "reading" /\ Complete /\ used = Filled /\ used < ResponseSize
      /\ Length[n] \in Nat \ {0} /\ Length[n] + 2 <= ResponseSize
      /\ ResponseSize \in Nat /\ used \in Nat
  BY ListingAssumption DEF ListingInv, LoopInv, ReadDir, Put, TypeOK
<1>2. room \in Nat \ {0} /\ k \in Nat /\ used + k < ResponseSize
      /\ (Whole(n, room) => k = Length[n] + 1)
      /\ (~Whole(n, room) => used # 0)
  BY <1>1 DEF Least, Whole
<1>3. /\ result' = Append(result, Line(n, used, k))
      /\ offered' = offered \ {n} /\ entries' = entries /\ steady' = steady
      /\ Whole(n, room) => lister' = "reading" /\ used' = used + k
      /\ ~Whole(n, room) => lister' = "full" /\ used' = used
  BY <1>1, <1>2 DEF ReadDir, Put
<1> HIDE DEF room, k
<1>4. /\ result' \in Seq([name : Names, at : Nat, bytes : Nat])
      /\ Len(result') = Len(result) + 1 /\ result' # <<>>
      /\ DOMAIN result' = DOMAIN result \cup {Len(result')}
      /\ \A i \in DOMAIN result : result'[i] = result[i] /\ i \in 1 .. Len(result)
      /\ result'[Len(result')] = [name |-> n, at |-> used, bytes |-> k]
  BY <1>2, <1>3, LineIsPut DEF ListingInv, Line
<1>5. TypeOK'
  BY <1>2, <1>3, <1>4 DEF ListingInv, TypeOK, Places
<1>6. Len(result) \in Nat /\ DOMAIN result = 1 .. Len(result)
  BY DEF ListingInv, TypeOK
<1>7. BufferNeverOverrun'
  <2> DEFINE last == Len(result')
  <2>1. ASSUME NEW i \in DOMAIN result
        PROVE  /\ result'[i].at + result'[i].bytes < ResponseSize
               /\ result'[i].at = IF i = 1 THEN 0 ELSE result'[i - 1].at + result'[i - 1].bytes
    <3>1. i = 1 \/ i - 1 \in DOMAIN result
      BY <1>6
    <3> QED BY <1>4, <3>1 DEF ListingInv, BufferNeverOverrun, End
  <2>2. /\ result'[last].at + result'[last].bytes < ResponseSize
        /\ result'[last].at = IF last = 1 THEN 0 ELSE result'[last - 1].at + result'[last - 1].bytes
    <3>1. CASE result = <<>>
      BY <1>1, <1>2, <1>4, <3>1 DEF Filled
    <3>2. CASE result # <<>>
      <4>1. Len(result) \in DOMAIN result /\ last - 1 = Len(result) /\ last # 1
        BY <1>4, <1>6, <3>2, EmptySeq DEF ListingInv, TypeOK
      <4>2. result'[last - 1] = result[Len(result)]
        BY <1>4, <4>1
      <4>3. used = result[Len(result)].at + result[Len(result)].bytes
        BY <1>1, <3>2 DEF Filled, End
      <4> QED BY <1>2, <1>4, <4>1, <4>2, <4>3
    <3> QED BY <3>1, <3>2
  <2>3. \A i \in DOMAIN result' : i \in DOMAIN result \/ i = last
    BY <1>4
  <2> HIDE DEF last
  <2> QED BY <2>1, <2>2, <2>3 DEF BufferNeverOverrun, End
<1>8. Listed' = Listed \cup {n}
  <2> DEFINE last == Len(result')
  <2>1. last \in DOMAIN result' /\ result'[last].name = n
    BY <1>4
  <2>2. \A i \in DOMAIN result : i \in DOMAIN result' /\ result'[i].name = result[i].name
    BY <1>4
  <2>3. \A i \in DOMAIN result' : i \in DOMAIN result \/ i = last
    BY <1>4
  <2> HIDE DEF last
  <2>4. \A x : x \in Listed' <=> x \in Listed \/ x = n
    BY <2>1, <2>2, <2>3 DEF Listed
  <2> QED BY <2>4
<1>9. \A i \in DOMAIN result : IsWhole(i)'
  BY <1>1, <1>4 DEF Complete, IsWhole
<1>10. CASE Whole(n, room)
  <2>1. Complete'
    BY <1>2, <1>4, <1>9, <1>10 DEF Complete, IsWhole
  <2>2. used' = Filled' /\ used' < ResponseSize
    BY <1>2, <1>3, <1>4, <1>10 DEF Filled, End
  <2>3. ListingIsTrue'
    BY <1>3, <1>10, <2>1 DEF ListingIsTrue, Complete
  <2>4. LoopInv'
    BY <1>1, <1>3, <1>8, <1>10, <2>1, <2>2 DEF LoopInv, ListingInv
  <2> QED BY <1>5, <1>7, <2>3, <2>4 DEF ListingInv
<1>11. CASE ~Whole(n, room)
  <2>1. ListingIsTrue'
    BY <1>3, <1>4, <1>9, <1>11 DEF ListingIsTrue
  <2>2. LoopInv'
    BY <1>2, <1>3, <1>4, <1>11 DEF LoopInv
  <2> QED BY <1>5, <1>7, <2>1, <2>2 DEF ListingInv
<1> QED BY <1>10, <1>11

\* A loop that has put nothing has an empty buffer.
LEMMA NothingUsed ==
  ASSUME ListingInv, lister \in {"reading", "read"}, used = 0
  PROVE  result = <<>>
<1> SUFFICES ASSUME result # <<>> PROVE FALSE
  OBVIOUS
<1>1. Len(result) \in DOMAIN result
  BY EmptySeq DEF ListingInv, TypeOK
<1>2. IsWhole(Len(result)) /\ used = End(Len(result))
  BY <1>1 DEF ListingInv, LoopInv, Complete, Filled
<1>3. result[Len(result)] \in [name : Names, at : Nat, bytes : Nat]
  <2>1. Len(result) \in 1 .. Len(result)
    BY <1>1, LenProperties DEF ListingInv, TypeOK
  <2> QED BY <2>1, ElementOfSeq DEF ListingInv, TypeOK
<1>4. Length[result[Len(result)].name] \in Nat
  BY <1>3, ListingAssumption
<1> QED BY <1>2, <1>3, <1>4 DEF IsWhole, End

\* A step that leaves the buffer alone.
LEMMA SameBuffer ==
  ASSUME ListingInv, result' = result
  PROVE  /\ BufferNeverOverrun' /\ Listed' = Listed /\ Filled' = Filled
         /\ Complete' = Complete /\ \A i : IsWhole(i)' = IsWhole(i)
BY DEF ListingInv, BufferNeverOverrun, Listed, Filled, Complete, IsWhole, End

LEMMA ListingInvHolds == Spec => []ListingInv
<1>1. Init => ListingInv
  <2> SUFFICES ASSUME Init PROVE ListingInv
    OBVIOUS
  <2>1. DOMAIN result = {}
    BY DEF Init
  <2> QED BY <2>1 DEF Init, ListingInv, TypeOK, Places, BufferNeverOverrun, ListingIsTrue, LoopInv
<1>2. ListingInv /\ [Next]_vars => ListingInv'
  <2> SUFFICES ASSUME ListingInv, [Next]_vars PROVE ListingInv'
    OBVIOUS
  <2> USE DEF TypeOK, Places
  <2>1. CASE UNCHANGED vars
    BY <2>1, SameBuffer DEF ListingInv, ListingIsTrue, LoopInv, vars
  <2>2. CASE OpenDir
    <3>1. DOMAIN result' = {} /\ Filled' = 0
      BY <2>2 DEF OpenDir, Filled
    <3> QED BY <2>2, <3>1, ListingAssumption
            DEF OpenDir, ListingInv, BufferNeverOverrun, ListingIsTrue, LoopInv, Complete
  <2>3. CASE OpenDirFails
    BY <2>3, SameBuffer DEF OpenDirFails, ListingInv, ListingIsTrue, LoopInv
  <2>4. CASE EndOfDir
    BY <2>4, SameBuffer DEF EndOfDir, ListingInv, ListingIsTrue, LoopInv
  <2>5. CASE Respond
    <3>1. result' = result
      BY <2>5, NothingUsed DEF Respond, Empty, ListingInv, LoopInv
    <3> QED BY <2>5, <3>1, SameBuffer DEF Respond, Empty, ListingInv, ListingIsTrue, LoopInv, Complete
  <2>6. CASE Again
    BY <2>6, SameBuffer DEF Again, ListingInv, ListingIsTrue, LoopInv
  <2>7. ASSUME NEW n \in Names, Create(n)
        PROVE  ListingInv'
    BY <2>7, SameBuffer DEF Create, ListingInv, ListingIsTrue, LoopInv
  <2>8. ASSUME NEW n \in Names, Unlink(n)
        PROVE  ListingInv'
    BY <2>8, SameBuffer DEF Unlink, ListingInv, ListingIsTrue, LoopInv
  <2>9. ASSUME NEW n \in Names, ReadDir(n)
        PROVE  ListingInv'
    BY <2>9, TurnKeeps
  <2> QED BY <2>1, <2>2, <2>3, <2>4, <2>5, <2>6, <2>7, <2>8, <2>9 DEF Next
<1> QED BY <1>1, <1>2, PTL DEF Spec

\* Whatever names a directory holds, the lines of a listing follow each other
\* inside the buffer with room for the terminator (handle.c:228-233).
THEOREM BufferIsNeverOverrun == Spec => []BufferNeverOverrun
BY ListingInvHolds, PTL DEF ListingInv

\* Whatever other sessions create and remove while handle_ls reads, only the last
\* line of a listing that was cut may be a part of one, a listing that was not cut
\* names everything that was there throughout, and a directory is called empty
\* only when nothing was (handle.c:219-241).
THEOREM ListingsAreTrue == Spec => []ListingIsTrue
BY ListingInvHolds, PTL DEF ListingInv
=============================================================================
