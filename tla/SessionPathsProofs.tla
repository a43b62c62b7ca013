-------------------------- MODULE SessionPathsProofs --------------------------
(***************************************************************************)
(* What session.c and the paths of handle.c guarantee for any users,       *)
(* names, sizes and directories.                                           *)
(***************************************************************************)
EXTENDS SessionPaths, FiniteSetTheorems, SequenceTheorems, WellFoundedInduction, TLAPS

-----------------------------------------------------------------------------
(* Induction and recursion, over sets rather than predicates: a set is     *)
(* something the provers can be given.                                     *)

\* A set that 0 is in, and with each number below n the next, has all up to n.
LEMMA UpTo ==
  ASSUME NEW n \in Nat, NEW S, 0 \in S, \A i \in 0 .. n - 1 : i \in S => i + 1 \in S
  PROVE  0 .. n \subseteq S
<1> DEFINE Less == {p \in Nat \X Nat : p[1] < p[2]}
           T == {i \in 0 .. n : i \notin S}
<1>1. IsWellFoundedOn(Less, Nat)
  BY NatLessThanWellFounded DEF OpToRel
<1>2. ASSUME T # {} PROVE FALSE
  <2>1. PICK m \in T : \A k \in T : ~(<<k, m>> \in Less)
    BY <1>1, <1>2, WFMin
  <2>2. m # 0 /\ m \in 0 .. n /\ m - 1 \in 0 .. n - 1 /\ m - 1 \in Nat /\ (m - 1) + 1 = m
    BY <2>1
  <2>3. <<m - 1, m>> \in Less
    BY <2>2
  <2>4. m - 1 \in S
    BY <2>1, <2>2, <2>3
  <2> QED BY <2>1, <2>2, <2>4
<1> QED BY <1>2

\* There is a function that takes step after step from c.
IsStep(step, n, V) == step \in [V \X (1 .. n) -> V]

Follows(f, n, c, step) == \A i \in 0 .. n : f[i] = IF i = 0 THEN c ELSE step[<<f[i - 1], i>>]

LEMMA Recursion ==
  ASSUME NEW n \in Nat, NEW V, NEW c \in V, NEW step, IsStep(step, n, V)
  PROVE  \E f \in [0 .. n -> V] : Follows(f, n, c, step)
<1> USE DEF IsStep, Follows
<1> DEFINE Good(f, k) == \A i \in 0 .. k : f[i] = IF i = 0 THEN c ELSE step[<<f[i - 1], i>>]
           S == {k \in 0 .. n : \E f \in [0 .. k -> V] : Good(f, k)}
<1>1. 0 \in S
  <2> DEFINE f == [i \in 0 .. 0 |-> c]
  <2>1. \A i \in 0 .. 0 : i = 0
    OBVIOUS
  <2>2. f \in [0 .. 0 -> V] /\ f[0] = c
    OBVIOUS
  <2> HIDE DEF f
  <2>3. Good(f, 0)
    BY <2>1, <2>2
  <2> QED BY <2>2, <2>3
<1>2. ASSUME NEW k \in 0 .. n - 1, k \in S PROVE k + 1 \in S
  <2>1. PICK f \in [0 .. k -> V] : Good(f, k)
    BY <1>2
  <2> DEFINE g == [i \in 0 .. k + 1 |-> IF i = k + 1 THEN step[<<f[k], k + 1>>] ELSE f[i]]
  <2>2. f[k] \in V /\ k + 1 \in 1 .. n /\ k \in Nat
    BY <2>1
  <2>3. step[<<f[k], k + 1>>] \in V
    BY <2>2
  <2>4. g \in [0 .. k + 1 -> V]
    BY <2>2, <2>3
  <2>5. ASSUME NEW i \in 0 .. k + 1
        PROVE  g[i] = IF i = 0 THEN c ELSE step[<<g[i - 1], i>>]
    <3>1. CASE i = k + 1
      <4>1. g[i] = step[<<f[k], k + 1>>] /\ i # 0 /\ i - 1 = k /\ k \in 0 .. k + 1 /\ k # k + 1
        BY <2>2, <3>1
      <4>2. g[k] = f[k]
        BY <4>1
      <4> HIDE DEF g
      <4> QED BY <3>1, <4>1, <4>2
    <3>2. CASE i # k + 1
      <4>1. i \in 0 .. k /\ (i # 0 => i - 1 \in 0 .. k)
        BY <2>2, <3>2
      <4>2. f[i] = IF i = 0 THEN c ELSE step[<<f[i - 1], i>>]
        BY <2>1, <4>1
      <4>3. g[i] = f[i] /\ (i # 0 => g[i - 1] = f[i - 1])
        BY <2>2, <3>2, <4>1
      <4> HIDE DEF g
      <4> QED BY <4>2, <4>3
    <3> QED BY <3>1, <3>2
  <2> HIDE DEF g
  <2>6. Good(g, k + 1)
    BY <2>4, <2>5
  <2> QED BY <1>2, <2>2, <2>4, <2>6
<1>3. 0 .. n \subseteq S
  <2> HIDE DEF S
  <2> QED BY <1>1, <1>2, UpTo
<1> QED BY <1>3

LEMMA NoPrefix ==
  ASSUME NEW A, NEW p \in Seq(A)
  PROVE  SubSeq(p, 1, 0) = <<>>
BY SubSeqProperties, EmptySeq

LEMMA PrefixType ==
  ASSUME NEW A, NEW p \in Seq(A), NEW n \in 0 .. Len(p)
  PROVE  /\ SubSeq(p, 1, n) \in Seq(A) /\ Len(SubSeq(p, 1, n)) = n
         /\ \A i \in 1 .. n : SubSeq(p, 1, n)[i] = p[i]
<1>1. Len(p) \in Nat /\ n \in Int /\ 1 \in Int
  BY LenProperties
<1>2. \A i \in 1 .. n : p[i] \in A
  BY <1>1, ElementOfSeq
<1>3. /\ SubSeq(p, 1, n) \in Seq(A)
      /\ Len(SubSeq(p, 1, n)) = IF 1 <= n THEN n - 1 + 1 ELSE 0
      /\ \A i \in 1 .. n - 1 + 1 : SubSeq(p, 1, n)[i] = p[1 + i - 1]
  BY <1>1, <1>2, SubSeqProperties
<1>4. \A i \in 1 .. n : i \in 1 .. n - 1 + 1 /\ 1 + i - 1 = i
  BY <1>1
<1>5. \A i \in 1 .. n : SubSeq(p, 1, n)[i] = p[i]
  BY <1>3, <1>4
<1> QED BY <1>1, <1>3, <1>5

\* A set that <<>> is in, and with each sequence what it is followed by.
LEMMA ByAppending ==
  ASSUME NEW A, NEW S, <<>> \in S,
         \A p \in Seq(A) : \A c \in A : p \in S => Append(p, c) \in S
  PROVE  Seq(A) \subseteq S
<1> SUFFICES ASSUME NEW p \in Seq(A) PROVE p \in S
  OBVIOUS
<1> DEFINE n == Len(p)
           T == {i \in 0 .. n : SubSeq(p, 1, i) \in S}
<1>1. n \in Nat
  BY LenProperties
<1>2. 0 \in T
  <2>1. SubSeq(p, 1, 0) = <<>>
    BY NoPrefix
  <2>2. 0 \in 0 .. n
    BY <1>1
  <2>3. SubSeq(p, 1, 0) \in S
    BY <2>1, Zenon
  <2> HIDE DEF n
  <2> QED BY <2>2, <2>3, Zenon
<1>3. ASSUME NEW i \in 0 .. n - 1, i \in T PROVE i + 1 \in T
  <2>1. i + 1 \in 1 .. n /\ i \in 0 .. n /\ i + 1 \in 0 .. n /\ p[i + 1] \in A
    BY <1>1, ElementOfSeq
  <2>2. SubSeq(p, 1, i) \in Seq(A)
    BY <1>1, <2>1, ElementOfSeq, SubSeqProperties
  <2>3. SubSeq(p, 1, i + 1) = SubSeq(p, 1, i) \o <<p[i + 1]>>
    <3>1. 1 \in 1 .. Len(p) /\ i + 1 \in 1 .. Len(p) /\ (i + 1) - 1 = i
      BY <1>1, <2>1
    <3> QED BY <3>1, SubSeqRecursiveSecond
  <2>4. SubSeq(p, 1, i + 1) = Append(SubSeq(p, 1, i), p[i + 1])
    BY <2>1, <2>2, <2>3, AppendIsConcat
  <2> QED BY <1>3, <2>1, <2>2, <2>4
<1>4. 0 .. n \subseteq T
  <2> HIDE DEF T, n
  <2> QED BY <1>1, <1>2, <1>3, UpTo
<1>5. n \in T
  BY <1>1, <1>4
<1> QED BY <1>5, SubSeqFull

-----------------------------------------------------------------------------
(* Paths and names.                                                        *)

\* (the provers do not know what is in STRING)
Chars == STRING \cup {Root, "."}
Name == Seq(Chars \ {Root})
Split == Seq(Name) \ {<<>>}

\* What a character adds to the names of the path before it.
AddChar(names, c) ==
  IF c = Root THEN Append(names, <<>>)
  ELSE [names EXCEPT ![Len(names)] = Append(@, c)]

LEMMA AddCharType ==
  ASSUME NEW names \in Split, NEW c \in Chars
  PROVE  AddChar(names, c) \in Split
<1>1. names \in Seq(Name) /\ Len(names) \in 1 .. Len(names) /\ names[Len(names)] \in Name
  BY EmptySeq, LenProperties, ElementOfSeq DEF Split
<1>2. CASE c = Root
  BY <1>1, <1>2, AppendProperties DEF AddChar, Split, Name
<1>3. CASE c # Root
  <2>1. Append(names[Len(names)], c) \in Name
    BY <1>1, <1>3, AppendProperties DEF Name
  <2>2. [names EXCEPT ![Len(names)] = Append(@, c)] \in Seq(Name)
    BY <1>1, <2>1, ExceptSeq
  <2>3. Len([names EXCEPT ![Len(names)] = Append(@, c)]) = Len(names)
    BY <1>1, <2>1, ExceptSeq
  <2> QED BY <1>1, <1>3, <2>2, <2>3, EmptySeq DEF AddChar, Split
<1> QED BY <1>2, <1>3

\* The names of a path, built up character by character.
Parts(path, f) ==
  \A i \in 0 .. Len(path) :
    f[i] = IF i = 0 THEN << <<>> >> ELSE AddChar(f[i - 1], path[i])

LEMMA PartsExist ==
  ASSUME NEW path \in Seq(Chars)
  PROVE  \E f \in [0 .. Len(path) -> Split] : Parts(path, f) /\ Components(path) = f[Len(path)]
<1> DEFINE n == Len(path)
           step == [p \in Split \X (1 .. n) |-> AddChar(p[1], path[p[2]])]
           Eq(f) == f = [i \in 0 .. n |->
                           IF i = 0 THEN << <<>> >>
                           ELSE LET before == f[i - 1]
                                IN  IF path[i] = Root THEN Append(before, <<>>)
                                    ELSE [before EXCEPT ![Len(before)] = Append(@, path[i])]]
           g == CHOOSE f : Eq(f)
<1>1. n \in Nat /\ (\A i \in 1 .. n : path[i] \in Chars)
  BY LenProperties, ElementOfSeq
<1>2. << <<>> >> \in Split
  BY DEF Split, Name
<1>3. step \in [Split \X (1 .. n) -> Split]
  BY <1>1, AddCharType
<1>4. PICK f \in [0 .. n -> Split] :
        \A i \in 0 .. n : f[i] = IF i = 0 THEN << <<>> >> ELSE step[<<f[i - 1], i>>]
  <2> DEFINE c == << <<>> >>
  <2>1. n \in Nat /\ c \in Split
    BY <1>1, <1>2
  <2>2. IsStep(step, n, Split)
    BY <1>3 DEF IsStep
  <2> HIDE DEF step, n, c
  <2>3. \E f \in [0 .. n -> Split] : Follows(f, n, c, step)
    BY <2>1, <2>2, Recursion
  <2> QED BY <2>3 DEF c, Follows
<1>5. Parts(path, f)
  <2> SUFFICES ASSUME NEW i \in 0 .. n, i # 0
               PROVE  f[i] = AddChar(f[i - 1], path[i])
    BY <1>4 DEF Parts
  <2>1. i \in 1 .. n /\ i - 1 \in 0 .. n
    BY <1>1
  <2> QED BY <1>4, <2>1
<1>6. Eq(f)
  BY <1>5 DEF Parts, AddChar
<1>7. Eq(g)
  BY <1>6
<1>8. Components(path) = g[n]
  BY DEF Components
<1>9. Parts(path, g)
  BY <1>7 DEF Parts, AddChar
<1>10. g \in [0 .. n -> Split]
  <2> HIDE DEF g, n, Eq
  <2> DEFINE S == {i \in 0 .. n : g[i] \in Split}
  <2>1. 0 \in S
    BY <1>1, <1>2, <1>9 DEF Parts, n
  <2>2. ASSUME NEW i \in 0 .. n - 1, i \in S PROVE i + 1 \in S
    <3>1. i + 1 \in 0 .. n /\ i + 1 # 0 /\ (i + 1) - 1 = i /\ i + 1 \in 1 .. n
      BY <1>1
    <3>2. g[i + 1] = AddChar(g[i], path[i + 1])
      BY <1>9, <3>1 DEF Parts, n
    <3> QED BY <1>1, <2>2, <3>1, <3>2, AddCharType
  <2>3. 0 .. n \subseteq S
    <3> HIDE DEF S
    <3> QED BY <1>1, <2>1, <2>2, UpTo
  <2>4. DOMAIN g = 0 .. n /\ g = [i \in 0 .. n |-> g[i]]
    BY <1>7 DEF Eq
  <2> QED BY <2>3, <2>4
<1> QED BY <1>8, <1>9, <1>10

LEMMA PartsUnique ==
  ASSUME NEW path \in Seq(Chars), NEW f, NEW g, Parts(path, f), NEW n \in 0 .. Len(path),
         \A i \in 0 .. n : g[i] = IF i = 0 THEN << <<>> >> ELSE AddChar(g[i - 1], path[i])
  PROVE  f[n] = g[n]
<1> DEFINE S == {i \in 0 .. n : f[i] = g[i]}
<1>1. n \in Nat /\ Len(path) \in Nat /\ 0 .. n \subseteq 0 .. Len(path)
  BY LenProperties
<1>2. 0 \in S
  BY <1>1 DEF Parts
<1>3. ASSUME NEW i \in 0 .. n - 1, i \in S PROVE i + 1 \in S
  <2>1. i + 1 \in 0 .. n /\ i + 1 # 0 /\ (i + 1) - 1 = i
    BY <1>1
  <2> QED BY <1>1, <1>3, <2>1 DEF Parts
<1>4. 0 .. n \subseteq S
  <2> HIDE DEF S
  <2> QED BY <1>1, <1>2, <1>3, UpTo
<1> QED BY <1>1, <1>4

LEMMA ComponentsType ==
  ASSUME NEW path \in Seq(Chars)
  PROVE  Components(path) \in Split
<1>1. PICK f \in [0 .. Len(path) -> Split] : Components(path) = f[Len(path)]
  BY PartsExist
<1> QED BY <1>1, LenProperties

LEMMA ComponentsEmpty == Components(<<>>) = << <<>> >>
<1>1. <<>> \in Seq(Chars) /\ Len(<<>>) = 0
  BY EmptySeq
<1>2. PICK f \in [0 .. 0 -> Split] : Parts(<<>>, f) /\ Components(<<>>) = f[0]
  BY <1>1, PartsExist
<1> QED BY <1>1, <1>2 DEF Parts

LEMMA ComponentsAppend ==
  ASSUME NEW path \in Seq(Chars), NEW c \in Chars
  PROVE  Components(Append(path, c)) = AddChar(Components(path), c)
<1> DEFINE longer == Append(path, c)
           n == Len(path)
<1>1. /\ longer \in Seq(Chars) /\ n \in Nat /\ Len(longer) = n + 1
      /\ \A i \in 1 .. n : longer[i] = path[i]
      /\ longer[n + 1] = c
  BY AppendProperties, LenProperties
<1> HIDE DEF longer
<1>2. PICK f : Parts(path, f) /\ Components(path) = f[n]
  BY PartsExist
<1>3. PICK g : Parts(longer, g) /\ Components(longer) = g[n + 1]
  BY <1>1, PartsExist
<1>4. \A i \in 0 .. n + 1 : g[i] = IF i = 0 THEN << <<>> >> ELSE AddChar(g[i - 1], longer[i])
  BY <1>1, <1>3 DEF Parts
<1>5. \A i \in 0 .. n : g[i] = IF i = 0 THEN << <<>> >> ELSE AddChar(g[i - 1], path[i])
  <2> SUFFICES ASSUME NEW i \in 0 .. n
               PROVE  g[i] = IF i = 0 THEN << <<>> >> ELSE AddChar(g[i - 1], path[i])
    OBVIOUS
  <2>1. i \in 0 .. n + 1 /\ (i # 0 => i \in 1 .. n)
    BY <1>1
  <2> QED BY <1>1, <1>4, <2>1
<1>6. f[n] = g[n]
  <2>1. n \in 0 .. Len(path)
    BY <1>1
  <2> QED BY <1>2, <1>5, <2>1, PartsUnique
<1>7. g[n + 1] = AddChar(g[n], c)
  <2>1. n + 1 \in 0 .. n + 1 /\ n + 1 # 0 /\ (n + 1) - 1 = n
    BY <1>1
  <2> QED BY <1>1, <1>4, <2>1
<1> QED BY <1>2, <1>3, <1>6, <1>7 DEF longer

\* A character is added to the last name, or starts a new one.
LEMMA AddCharAfter ==
  ASSUME NEW a \in Seq(Name), NEW b \in Split, NEW c \in Chars
  PROVE  AddChar(a \o b, c) = a \o AddChar(b, c)
<1> DEFINE ab == a \o b
<1>1. b \in Seq(Name) /\ Len(a) \in Nat /\ Len(b) \in Nat \ {0}
  BY LenProperties, EmptySeq DEF Split
<1>2. /\ ab \in Seq(Name) /\ Len(ab) = Len(a) + Len(b)
      /\ \A i \in 1 .. Len(a) + Len(b) : ab[i] = IF i <= Len(a) THEN a[i] ELSE b[i - Len(a)]
  BY <1>1, ConcatProperties
<1>3. <<>> \in Name
  BY EmptySeq DEF Name
<1>4. CASE c = Root
  <2>1. Append(ab, <<>>) = ab \o << <<>> >> /\ Append(b, <<>>) = b \o << <<>> >>
    BY <1>1, <1>2, <1>3, AppendIsConcat
  <2>2. << <<>> >> \in Seq(Name)
    BY <1>3
  <2>3. ab \o << <<>> >> = a \o (b \o << <<>> >>)
    BY <1>1, <2>2, ConcatAssociative
  <2>4. AddChar(ab, c) = Append(ab, <<>>) /\ AddChar(b, c) = Append(b, <<>>)
    BY <1>4 DEF AddChar
  <2> QED BY <2>1, <2>3, <2>4
<1>5. CASE c # Root
  <2> DEFINE x == Append(b[Len(b)], c)
             left == [ab EXCEPT ![Len(ab)] = x]
             right == [b EXCEPT ![Len(b)] = x]
  <2>1. ab[Len(ab)] = b[Len(b)] /\ b[Len(b)] \in Name /\ Len(ab) \in 1 .. Len(ab)
        /\ Len(b) \in 1 .. Len(b)
    BY <1>1, <1>2, ElementOfSeq
  <2>2. x \in Name
    BY <1>5, <2>1, AppendProperties DEF Name
  <2>3. AddChar(ab, c) = left /\ AddChar(b, c) = right
    BY <1>5, <2>1 DEF AddChar
  <2> HIDE DEF x, ab
  <2>4. /\ left \in Seq(Name) /\ Len(left) = Len(ab)
        /\ \A j \in 1 .. Len(ab) : left[j] = IF j = Len(ab) THEN x ELSE ab[j]
    BY <1>2, <2>1, <2>2, ExceptSeq
  <2>5. /\ right \in Seq(Name) /\ Len(right) = Len(b)
        /\ \A j \in 1 .. Len(b) : right[j] = IF j = Len(b) THEN x ELSE b[j]
    BY <1>1, <2>1, <2>2, ExceptSeq
  <2> HIDE DEF left, right
  <2>6. /\ a \o right \in Seq(Name) /\ Len(a \o right) = Len(a) + Len(right)
        /\ \A i \in 1 .. Len(a) + Len(right) :
             (a \o right)[i] = IF i <= Len(a) THEN a[i] ELSE right[i - Len(a)]
    BY <2>5, ConcatProperties
  <2>7. ASSUME NEW i \in 1 .. Len(left) PROVE left[i] = (a \o right)[i]
    <3>1. i \in 1 .. Len(ab) /\ i \in 1 .. Len(a) + Len(b) /\ i \in 1 .. Len(a) + Len(right)
      BY <1>2, <2>4, <2>5
    <3>2. left[i] = (IF i = Len(ab) THEN x ELSE ab[i])
          /\ ab[i] = (IF i <= Len(a) THEN a[i] ELSE b[i - Len(a)])
      BY <1>2, <2>4, <3>1 DEF ab
    <3>3. (a \o right)[i] = IF i <= Len(a) THEN a[i] ELSE right[i - Len(a)]
      BY <2>6, <3>1
    <3>4. CASE i <= Len(a)
      BY <1>1, <1>2, <3>2, <3>3, <3>4 DEF ab
    <3>5. CASE ~(i <= Len(a))
      <4>1. i - Len(a) \in 1 .. Len(b) /\ (i = Len(ab) <=> i - Len(a) = Len(b))
        BY <1>1, <1>2, <3>1, <3>5 DEF ab
      <4>2. right[i - Len(a)] = IF i - Len(a) = Len(b) THEN x ELSE b[i - Len(a)]
        BY <2>5, <4>1
      <4> QED BY <3>2, <3>3, <3>5, <4>1, <4>2
    <3> QED BY <3>4, <3>5
  <2>8. left = a \o right
    <3>1. Len(left) = Len(a \o right)
      BY <1>2, <2>4, <2>5, <2>6 DEF ab
    <3> QED BY <2>4, <2>6, <2>7, <3>1, SeqEqual
  <2> QED BY <2>3, <2>8 DEF ab
<1> QED BY <1>4, <1>5

\* The names of p/q are those of p and those of q.
LEMMA ComponentsJoin ==
  ASSUME NEW p \in Seq(Chars), NEW q \in Seq(Chars)
  PROVE  Components(p \o Slash \o q) = Components(p) \o Components(q)
<1> DEFINE S == {r \in Seq(Chars) : Components(p \o Slash \o r) = Components(p) \o Components(r)}
<1>1. Root \in Chars /\ Slash \in Seq(Chars) /\ p \o Slash \in Seq(Chars)
      /\ p \o Slash = Append(p, Root)
  <2>1. Root \in Chars
    BY DEF Chars
  <2>2. Slash \in Seq(Chars) /\ Append(p, Root) = p \o Slash
    BY <2>1, AppendIsConcat DEF Slash
  <2> QED BY <2>1, <2>2, ConcatProperties
<1>2. <<>> \in S
  <2>1. <<>> \in Seq(Chars) /\ p \o Slash \o <<>> = p \o Slash
    BY <1>1, EmptySeq, ConcatEmptySeq
  <2>2. Components(p \o Slash) = Append(Components(p), <<>>)
    BY <1>1, ComponentsAppend DEF AddChar
  <2>3. Components(p) \in Seq(Name) /\ <<>> \in Name
    BY ComponentsType, EmptySeq DEF Split, Name
  <2> QED BY <2>1, <2>2, <2>3, ComponentsEmpty, AppendIsConcat
<1>3. ASSUME NEW r \in Seq(Chars), NEW c \in Chars, r \in S PROVE Append(r, c) \in S
  <2>1. p \o Slash \o Append(r, c) = Append(p \o Slash \o r, c)
    <3>1. <<c>> \in Seq(Chars) /\ p \o Slash \o r \in Seq(Chars)
      BY <1>1, ConcatProperties
    <3>2. Append(r, c) = r \o <<c>> /\ Append(p \o Slash \o r, c) = p \o Slash \o r \o <<c>>
      BY <3>1, AppendIsConcat
    <3> QED BY <1>1, <3>1, <3>2, ConcatAssociative
  <2>2. p \o Slash \o r \in Seq(Chars) /\ Append(r, c) \in Seq(Chars)
    BY <1>1, ConcatProperties, AppendProperties
  <2>3. Components(Append(p \o Slash \o r, c)) = AddChar(Components(p \o Slash \o r), c)
        /\ Components(Append(r, c)) = AddChar(Components(r), c)
    BY <2>2, ComponentsAppend
  <2>4. Components(p) \in Seq(Name) /\ Components(r) \in Split
    BY ComponentsType DEF Split
  <2>5. AddChar(Components(p) \o Components(r), c) = Components(p) \o AddChar(Components(r), c)
    BY <2>4, AddCharAfter
  <2> QED BY <1>3, <2>1, <2>2, <2>3, <2>5
<1>4. Seq(Chars) \subseteq S
  <2> HIDE DEF S
  <2> QED BY <1>2, <1>3, ByAppending
<1> QED BY <1>4

LEMMA ComponentsPlain ==
  ASSUME NEW q \in Name
  PROVE  Components(q) = <<q>>
<1> DEFINE S == {r \in Name : Components(r) = <<r>>}
           A == Chars \ {Root}
<1>1. <<>> \in S
  BY EmptySeq, ComponentsEmpty DEF Name
<1>2. ASSUME NEW r \in Seq(A), NEW c \in A, r \in S PROVE Append(r, c) \in S
  <2>1. r \in Seq(Chars) /\ c \in Chars /\ c # Root /\ Append(r, c) \in Name
    BY SeqMonotonic, AppendProperties DEF Name
  <2>2. Components(Append(r, c)) = AddChar(<<r>>, c)
    BY <1>2, <2>1, ComponentsAppend
  <2>3. AddChar(<<r>>, c) = <<Append(r, c)>>
    BY <2>1 DEF AddChar
  <2> QED BY <2>1, <2>2, <2>3
<1>3. Seq(A) \subseteq S
  <2> HIDE DEF S, A
  <2> QED BY <1>1, <1>2, ByAppending
<1> QED BY <1>3 DEF Name
-----------------------------------------------------------------------------
(* Lookups.                                                                *)

Places == Seq(Name) \cup {Nowhere}

Kinds == {"dir", "file"}

LEMMA KindTypes == "dir" \in Kinds /\ "file" \in Kinds
BY DEF Kinds

Disks == UNION {[D -> Kinds] : D \in SUBSET (Seq(Name) \ {<<>>})}

LEMMA DiskType ==
  ASSUME NEW d
  PROVE  d \in Disks <=> DOMAIN d \subseteq Seq(Name) \ {<<>>} /\ d \in [DOMAIN d -> Kinds]
BY DEF Disks

LEMMA NowhereIsNoPlace == Nowhere \notin Seq(Name)
<1> SUFFICES ASSUME Nowhere \in Seq(Name) PROVE FALSE
  OBVIOUS
<1>1. Len(Nowhere) = 1 /\ Nowhere[1] = <<Root>>
  BY DEF Nowhere
<1>2. <<Root>> \in Name
  BY <1>1, ElementOfSeq
<1>3. Len(<<Root>>) = 1 /\ <<Root>>[1] = Root
  OBVIOUS
<1>4. Root \in Chars \ {Root}
  BY <1>2, <1>3, ElementOfSeq DEF Name
<1> QED BY <1>4

LEMMA DirIsPlace ==
  ASSUME NEW d \in Disks, NEW at, IsDir(d, at)
  PROVE  at \in Seq(Name) /\ at # Nowhere /\ at \in Places
<1>1. at = <<>> \/ at \in Seq(Name)
  BY DiskType DEF IsDir
<1>2. <<>> \in Seq(Name)
  BY EmptySeq
<1>3. at \in Seq(Name)
  BY <1>1, <1>2
<1> QED BY <1>3, NowhereIsNoPlace DEF Places

LEMMA StepNowhere ==
  ASSUME NEW d, NEW at, NEW name, ~IsDir(d, at)
  PROVE  Step(d, at, name) = Nowhere
BY DEF Step

LEMMA StepStay ==
  ASSUME NEW d, NEW at, NEW name, IsDir(d, at), name \in {<<>>, <<".">>}
  PROVE  Step(d, at, name) = at
BY DEF Step, IsDir

LEMMA StepUp ==
  ASSUME NEW d, NEW at, IsDir(d, at)
  PROVE  Step(d, at, <<".", ".">>) = IF at = <<>> THEN at ELSE Front(at)
<1>1. <<".", ".">> \notin {<<>>, <<".">>}
  OBVIOUS
<1> DEFINE dots == <<".", ".">>
<1> HIDE DEF dots
<1>2. dots \notin {<<>>, <<".">>} /\ dots = <<".", ".">>
  BY <1>1 DEF dots
<1>3. Step(d, at, dots) = IF at = <<>> THEN at ELSE Front(at)
  BY <1>2, Zenon DEF Step
<1> QED BY <1>3 DEF dots

LEMMA StepDown ==
  ASSUME NEW d, NEW at, NEW name, IsDir(d, at), name \notin {<<>>, <<".">>, <<".", ".">>}
  PROVE  Step(d, at, name) = Append(at, name)
BY DEF Step

\* Facts about all sequences, for those of names and of characters.
LEMMA AppendType ==
  ASSUME NEW A, NEW p \in Seq(A), NEW c \in A
  PROVE  /\ Append(p, c) \in Seq(A) /\ Append(p, c) # <<>>
         /\ Append(p, c) = p \o <<c>> /\ <<c>> \in Seq(A)
<1>1. Append(p, c) \in Seq(A) /\ Append(p, c) # <<>>
  BY AppendProperties
<1>2. Append(p, c) = p \o <<c>>
  BY AppendIsConcat
<1>3. <<c>> \in Seq(A)
  OBVIOUS
<1> QED BY <1>1, <1>2, <1>3

LEMMA AppendName ==
  ASSUME NEW p \in Seq(Name), NEW c \in Name
  PROVE  /\ Append(p, c) \in Seq(Name) /\ Append(p, c) # <<>>
         /\ Append(p, c) = p \o <<c>> /\ <<c>> \in Seq(Name)
BY AppendType

LEMMA JoinNames ==
  ASSUME NEW p \in Seq(Name), NEW q \in Seq(Name)
  PROVE  p \o q \in Seq(Name)
BY ConcatProperties

LEMMA JoinChars ==
  ASSUME NEW x \in Seq(Chars), NEW y \in Seq(Chars), NEW z \in Seq(Chars)
  PROVE  y \o z \in Seq(Chars) /\ x \o y \o z = x \o (y \o z)
<1>1. y \o z \in Seq(Chars)
  BY ConcatProperties
<1>2. x \o y \o z = x \o (y \o z)
  BY ConcatAssociative
<1> QED BY <1>1, <1>2

LEMMA FrontType ==
  ASSUME NEW A, NEW p \in Seq(A), p # <<>>
  PROVE  /\ Front(p) \in Seq(A) /\ Len(Front(p)) = Len(p) - 1 /\ Len(p) \in Nat \ {0}
         /\ \A i \in 1 .. Len(p) - 1 : Front(p)[i] = p[i]
<1>1. Len(p) \in Nat \ {0}
  BY EmptySeq
<1>2. Len(p) - 1 \in 0 .. Len(p)
  BY <1>1
<1> QED BY <1>1, <1>2, PrefixType DEF Front

LEMMA StepType ==
  ASSUME NEW d \in Disks, NEW at, NEW name \in Name
  PROVE  Step(d, at, name) \in Places
<1>1. CASE ~IsDir(d, at)
  BY <1>1, StepNowhere DEF Places
<1>2. CASE IsDir(d, at)
  <2>1. at \in Seq(Name)
    BY <1>2, DirIsPlace
  <2>2. CASE name \in {<<>>, <<".">>}
    BY <1>2, <2>1, <2>2, StepStay DEF Places
  <2>3. CASE name = <<".", ".">>
    BY <1>2, <2>1, <2>3, StepUp, FrontType DEF Places
  <2>4. CASE name \notin {<<>>, <<".">>, <<".", ".">>}
    BY <1>2, <2>1, <2>4, StepDown, AppendProperties DEF Places
  <2> QED BY <2>2, <2>3, <2>4
<1> QED BY <1>1, <1>2

\* The places a lookup comes by.
Reached(d, names, f, n) ==
  \A i \in 0 .. n : f[i] = IF i = 0 THEN <<>> ELSE Step(d, f[i - 1], names[i])

LEMMA WalkExists ==
  ASSUME NEW d \in Disks, NEW names \in Seq(Name)
  PROVE  \E f \in [0 .. Len(names) -> Places] :
           Reached(d, names, f, Len(names)) /\ Walk(d, names) = f[Len(names)]
<1> DEFINE n == Len(names)
           step == [p \in Places \X (1 .. n) |-> Step(d, p[1], names[p[2]])]
           Eq(f) == f = [i \in 0 .. n |-> IF i = 0 THEN <<>> ELSE Step(d, f[i - 1], names[i])]
           g == CHOOSE f : Eq(f)
<1>1. n \in Nat /\ (\A i \in 1 .. n : names[i] \in Name)
  BY LenProperties, ElementOfSeq
<1>2. <<>> \in Places
  BY EmptySeq DEF Places
<1>3. IsStep(step, n, Places)
  <2>1. \A at \in Places : \A i \in 1 .. n : Step(d, at, names[i]) \in Places
    BY <1>1, StepType
  <2> QED BY <2>1 DEF IsStep
<1>4. PICK f \in [0 .. n -> Places] : Follows(f, n, <<>>, step)
  <2> HIDE DEF step, n
  <2> QED BY <1>1, <1>2, <1>3, Recursion
<1>5. Reached(d, names, f, n)
  <2> SUFFICES ASSUME NEW i \in 0 .. n
               PROVE  f[i] = IF i = 0 THEN <<>> ELSE Step(d, f[i - 1], names[i])
    BY DEF Reached
  <2>1. f[i] = IF i = 0 THEN <<>> ELSE step[<<f[i - 1], i>>]
    BY <1>4 DEF Follows
  <2>2. CASE i # 0
    <3>1. i \in 1 .. n /\ i - 1 \in 0 .. n /\ f[i - 1] \in Places
      BY <1>1, <2>2
    <3>2. step[<<f[i - 1], i>>] = Step(d, f[i - 1], names[i])
      BY <3>1
    <3> HIDE DEF step
    <3> QED BY <2>1, <2>2, <3>2
  <2>3. CASE i = 0
    BY <2>1, <2>3
  <2> QED BY <2>2, <2>3
<1>6. Eq(f)
  BY <1>5 DEF Reached
<1>7. Eq(g)
  BY <1>6
<1>8. Walk(d, names) = g[n]
  BY DEF Walk
<1>9. Reached(d, names, g, n)
  BY <1>7 DEF Reached
<1>10. g \in [0 .. n -> Places]
  <2>1. g = [i \in 0 .. n |-> g[i]]
    BY <1>7
  <2> HIDE DEF g, Eq
  <2> SUFFICES ASSUME NEW i \in 0 .. n PROVE g[i] \in Places
    BY <2>1
  <2>2. i = 0 \/ i \in 1 .. n
    BY <1>1
  <2>3. g[i] = IF i = 0 THEN <<>> ELSE Step(d, g[i - 1], names[i])
    BY <1>9 DEF Reached
  <2> QED BY <1>1, <1>2, <2>2, <2>3, StepType
<1> QED BY <1>8, <1>9, <1>10

LEMMA WalkType ==
  ASSUME NEW d \in Disks, NEW names \in Seq(Name)
  PROVE  Walk(d, names) \in Places
<1>1. PICK f \in [0 .. Len(names) -> Places] : Walk(d, names) = f[Len(names)]
  BY WalkExists
<1> QED BY <1>1, LenProperties

LEMMA WalkEmpty ==
  ASSUME NEW d \in Disks
  PROVE  Walk(d, <<>>) = <<>>
<1>1. <<>> \in Seq(Name) /\ Len(<<>>) = 0
  BY EmptySeq
<1>2. PICK f \in [0 .. 0 -> Places] : Reached(d, <<>>, f, 0) /\ Walk(d, <<>>) = f[0]
  BY <1>1, WalkExists
<1> QED BY <1>1, <1>2 DEF Reached

LEMMA ReachedUnique ==
  ASSUME NEW d, NEW names, NEW n \in Nat, NEW f, NEW g, Reached(d, names, f, n), Reached(d, names, g, n)
  PROVE  f[n] = g[n]
<1> DEFINE S == {i \in 0 .. n : f[i] = g[i]}
<1>1. 0 \in S
  BY DEF Reached
<1>2. ASSUME NEW i \in 0 .. n - 1, i \in S PROVE i + 1 \in S
  <2>1. i + 1 \in 0 .. n /\ i + 1 # 0 /\ (i + 1) - 1 = i
    OBVIOUS
  <2> QED BY <1>2, <2>1 DEF Reached
<1>3. 0 .. n \subseteq S
  <2> HIDE DEF S
  <2> QED BY <1>1, <1>2, UpTo
<1> QED BY <1>3

LEMMA WalkAppend ==
  ASSUME NEW d \in Disks, NEW names \in Seq(Name), NEW name \in Name
  PROVE  Walk(d, Append(names, name)) = Step(d, Walk(d, names), name)
<1> DEFINE longer == Append(names, name)
           n == Len(names)
<1>1. /\ longer \in Seq(Name) /\ n \in Nat /\ Len(longer) = n + 1
      /\ \A i \in 1 .. n : longer[i] = names[i]
      /\ longer[n + 1] = name
  BY AppendProperties, LenProperties
<1> HIDE DEF longer
<1>2. PICK f : Reached(d, names, f, n) /\ Walk(d, names) = f[n]
  BY WalkExists
<1>3. PICK g : Reached(d, longer, g, n + 1) /\ Walk(d, longer) = g[n + 1]
  BY <1>1, WalkExists
<1>4. \A i \in 0 .. n + 1 : g[i] = IF i = 0 THEN <<>> ELSE Step(d, g[i - 1], longer[i])
  BY <1>3 DEF Reached
<1>5. Reached(d, names, g, n)
  <2> SUFFICES ASSUME NEW i \in 0 .. n
               PROVE  g[i] = IF i = 0 THEN <<>> ELSE Step(d, g[i - 1], names[i])
    BY DEF Reached
  <2>1. i \in 0 .. n + 1 /\ (i # 0 => i \in 1 .. n)
    BY <1>1
  <2> QED BY <1>1, <1>4, <2>1
<1>6. f[n] = g[n]
  BY <1>1, <1>2, <1>5, ReachedUnique
<1>7. g[n + 1] = Step(d, g[n], name)
  <2>1. n + 1 \in 0 .. n + 1 /\ n + 1 # 0 /\ (n + 1) - 1 = n
    BY <1>1
  <2> QED BY <1>1, <1>4, <2>1
<1> QED BY <1>2, <1>3, <1>6, <1>7 DEF longer

\* What a disk with more directories adds does not change a lookup that arrives.
LEMMA WalkStable ==
  ASSUME NEW d \in Disks, NEW d2 \in Disks, \A at : IsDir(d, at) => IsDir(d2, at),
         NEW names \in Seq(Name), Walk(d, names) # Nowhere
  PROVE  Walk(d2, names) = Walk(d, names)
<1> DEFINE S == {ns \in Seq(Name) : Walk(d, ns) # Nowhere => Walk(d2, ns) = Walk(d, ns)}
<1>1. <<>> \in S
  BY EmptySeq, WalkEmpty
<1>2. ASSUME NEW ns \in Seq(Name), NEW n \in Name, ns \in S PROVE Append(ns, n) \in S
  <2>1. Append(ns, n) \in Seq(Name)
    BY AppendProperties
  <2>2. /\ Walk(d, Append(ns, n)) = Step(d, Walk(d, ns), n)
        /\ Walk(d2, Append(ns, n)) = Step(d2, Walk(d2, ns), n)
    BY WalkAppend
  <2>3. ASSUME Walk(d, Append(ns, n)) # Nowhere
        PROVE  Walk(d2, Append(ns, n)) = Walk(d, Append(ns, n))
    <3> DEFINE at == Walk(d, ns)
    <3>1. IsDir(d, at)
      BY <2>2, <2>3, StepNowhere
    <3>2. Walk(d2, ns) = at /\ IsDir(d2, at)
      BY <1>2, <3>1, DirIsPlace
    <3> HIDE DEF at
    <3>3. Step(d2, at, n) = Step(d, at, n)
      BY <3>1, <3>2 DEF Step
    <3> QED BY <2>2, <3>2, <3>3 DEF at
  <2> QED BY <2>1, <2>3
<1>3. Seq(Name) \subseteq S
  <2> HIDE DEF S
  <2> QED BY <1>1, <1>2, ByAppending
<1> QED BY <1>3

\* A lookup that arrives comes by directories only.
LEMMA WalkByDirs ==
  ASSUME NEW d \in Disks, NEW a \in Seq(Name), NEW b \in Split, Walk(d, a \o b) # Nowhere
  PROVE  IsDir(d, Walk(d, a))
<1> DEFINE S == {c \in Seq(Name) : c # <<>> /\ Walk(d, a \o c) # Nowhere => IsDir(d, Walk(d, a))}
<1>1. <<>> \in S
  BY EmptySeq
<1>2. ASSUME NEW c \in Seq(Name), NEW n \in Name, c \in S PROVE Append(c, n) \in S
  <2>1. Append(c, n) \in Seq(Name) /\ a \o c \in Seq(Name)
    BY AppendProperties, ConcatProperties
  <2>2. a \o Append(c, n) = Append(a \o c, n)
    <3>1. <<n>> \in Seq(Name)
      OBVIOUS
    <3>2. Append(c, n) = c \o <<n>> /\ Append(a \o c, n) = (a \o c) \o <<n>>
      BY <2>1, AppendIsConcat
    <3> QED BY <3>1, <3>2, ConcatAssociative
  <2>3. Walk(d, a \o Append(c, n)) = Step(d, Walk(d, a \o c), n)
    BY <2>1, <2>2, WalkAppend
  <2>4. ASSUME Walk(d, a \o Append(c, n)) # Nowhere PROVE IsDir(d, Walk(d, a))
    <3>1. IsDir(d, Walk(d, a \o c))
      BY <2>3, <2>4, StepNowhere
    <3>2. Walk(d, a \o c) # Nowhere
      BY <3>1, DirIsPlace
    <3>3. CASE c = <<>>
      BY <3>1, <3>3, ConcatEmptySeq
    <3> QED BY <1>2, <3>2, <3>3
  <2> QED BY <2>1, <2>4
<1>3. Seq(Name) \subseteq S
  <2> HIDE DEF S
  <2> QED BY <1>1, <1>2, ByAppending
<1>4. b \in Seq(Name) /\ b # <<>>
  BY DEF Split
<1> QED BY <1>3, <1>4

LEMMA ResolveType ==
  ASSUME NEW d \in Disks, NEW path \in Seq(Chars)
  PROVE  Resolve(d, path) \in Places
<1>1. Components(path) \in Seq(Name)
  BY ComponentsType DEF Split
<1> QED BY <1>1, WalkType DEF Resolve

\* p/q is where q leads from p.
LEMMA ResolveJoin ==
  ASSUME NEW d \in Disks, NEW p \in Seq(Chars), NEW q \in Name
  PROVE  Resolve(d, p \o Slash \o q) = Step(d, Resolve(d, p), q)
<1>1. q \in Seq(Chars)
  BY SeqMonotonic DEF Name
<1>2. Components(p) \in Seq(Name)
  BY ComponentsType DEF Split
<1>3. Components(p \o Slash \o q) = Append(Components(p), q)
  <2>1. Components(p \o Slash \o q) = Components(p) \o <<q>>
    BY <1>1, ComponentsJoin, ComponentsPlain
  <2> QED BY <1>2, <2>1, AppendIsConcat
<1> QED BY <1>2, <1>3, WalkAppend DEF Resolve

-----------------------------------------------------------------------------
(* Making directories.                                                     *)

OnlyDirs(d) == \A at \in DOMAIN d : d[at] = "dir"

\* d2 has the directories of d, and may have more.
Grown(d, d2) == \A at : IsDir(d, at) => IsDir(d2, at)

LEMMA PutType ==
  ASSUME NEW d \in Disks, NEW at \in Seq(Name), at # <<>>, NEW what \in Kinds
  PROVE  /\ Put(d, at, what) \in Disks
         /\ DOMAIN Put(d, at, what) = DOMAIN d \cup {at}
         /\ Put(d, at, what)[at] = what
         /\ \A p \in DOMAIN d : p # at => Put(d, at, what)[p] = d[p]
<1>1. DOMAIN d \subseteq Seq(Name) \ {<<>>} /\ d \in [DOMAIN d -> Kinds]
  BY DiskType
<1> DEFINE d2 == Put(d, at, what)
<1>2. /\ DOMAIN d2 = DOMAIN d \cup {at}
      /\ \A p \in DOMAIN d \cup {at} : d2[p] = IF p = at THEN what ELSE d[p]
      /\ d2 = [p \in DOMAIN d2 |-> d2[p]]
  BY DEF Put
<1> HIDE DEF d2
<1>3. DOMAIN d2 \subseteq Seq(Name) \ {<<>>} /\ d2 \in [DOMAIN d2 -> Kinds]
  BY <1>1, <1>2
<1>4. d2 \in Disks
  BY <1>3, DiskType
<1> QED BY <1>2, <1>4 DEF d2

\* What is put where no directory is takes no directory away.
LEMMA PutGrows ==
  ASSUME NEW d \in Disks, NEW at \in Seq(Name), ~IsDir(d, at), NEW what \in Kinds
  PROVE  Grown(d, Put(d, at, what))
<1>1. at # <<>>
  BY DEF IsDir
<1>2. SUFFICES ASSUME NEW p, IsDir(d, p) PROVE IsDir(Put(d, at, what), p)
  BY DEF Grown
<1>3. p # at
  BY <1>2
<1> DEFINE d2 == Put(d, at, what)
<1>4. /\ DOMAIN d2 = DOMAIN d \cup {at}
      /\ \A q \in DOMAIN d : q # at => d2[q] = d[q]
  BY <1>1, PutType
<1> HIDE DEF d2
<1>5. IsDir(d2, p)
  BY <1>2, <1>3, <1>4 DEF IsDir
<1> QED BY <1>5 DEF d2

LEMMA PutDir ==
  ASSUME NEW d \in Disks, NEW at \in Seq(Name), ~IsDir(d, at)
  PROVE  /\ Put(d, at, "dir") \in Disks /\ Grown(d, Put(d, at, "dir"))
         /\ OnlyDirs(d) => OnlyDirs(Put(d, at, "dir"))
<1>1. at # <<>> /\ "dir" \in Kinds
  BY KindTypes DEF IsDir
<1> DEFINE what == "dir"
           d2 == Put(d, at, what)
<1> HIDE DEF what
<1>2. what \in Kinds
  BY <1>1 DEF what
<1>3. /\ d2 \in Disks /\ DOMAIN d2 = DOMAIN d \cup {at} /\ d2[at] = what
      /\ \A p \in DOMAIN d : p # at => d2[p] = d[p]
  BY <1>1, <1>2, PutType
<1>4. Grown(d, d2)
  BY <1>2, PutGrows
<1> HIDE DEF d2
<1>5. OnlyDirs(d) => OnlyDirs(d2)
  BY <1>3 DEF OnlyDirs, what
<1> QED BY <1>3, <1>4, <1>5 DEF d2, what

LEMMA MakeDirType ==
  ASSUME NEW d \in Disks, NEW path \in Seq(Chars)
  PROVE  /\ MakeDir(d, path) \in Disks
         /\ Grown(d, MakeDir(d, path))
         /\ OnlyDirs(d) => OnlyDirs(MakeDir(d, path))
<1> DEFINE at == Resolve(d, path)
<1>1. CASE at = Nowhere \/ Exists(d, at)
  BY <1>1 DEF MakeDir, Grown
<1>2. CASE ~(at = Nowhere \/ Exists(d, at))
  <2>1. at \in Seq(Name) /\ ~IsDir(d, at) /\ at # <<>>
    BY <1>2, ResolveType DEF Places, Exists, IsDir
  <2>2. MakeDir(d, path) = Put(d, at, "dir")
    BY <1>2 DEF MakeDir
  <2> HIDE DEF at
  <2>3. /\ Put(d, at, "dir") \in Disks /\ Grown(d, Put(d, at, "dir"))
        /\ OnlyDirs(d) => OnlyDirs(Put(d, at, "dir"))
    BY <2>1, PutDir
  <2> QED BY <2>2, <2>3
<1> QED BY <1>1, <1>2

\* A directory made where there are only directories is there.
LEMMA MakeDirMakes ==
  ASSUME NEW d \in Disks, OnlyDirs(d), NEW path \in Seq(Chars), Resolve(d, path) # Nowhere
  PROVE  LET d2 == MakeDir(d, path)
         IN  /\ Resolve(d2, path) = Resolve(d, path)
             /\ IsDir(d2, Resolve(d, path))
             /\ DOMAIN d2 \subseteq DOMAIN d \cup {Resolve(d, path)}
<1> DEFINE at == Resolve(d, path)
           d2 == MakeDir(d, path)
<1>1. Components(path) \in Seq(Name)
  BY ComponentsType DEF Split
<1>2. Resolve(d2, path) = at
  BY <1>1, MakeDirType, WalkStable DEF Resolve, Grown
<1>3. CASE Exists(d, at)
  <2>1. d2 = d
    BY <1>3 DEF MakeDir
  <2> QED BY <1>2, <1>3, <2>1 DEF Exists, IsDir, OnlyDirs
<1>4. CASE ~Exists(d, at)
  <2>1. d2 = Put(d, at, "dir") /\ at \in Seq(Name) /\ at # <<>>
    BY <1>4, ResolveType DEF MakeDir, Places, Exists
  <2> HIDE DEF d2, at
  <2>2. DOMAIN d2 = DOMAIN d \cup {at} /\ d2[at] = "dir"
    BY <2>1, KindTypes, PutType
  <2>3. IsDir(d2, at) /\ DOMAIN d2 \subseteq DOMAIN d \cup {at}
    BY <2>2 DEF IsDir
  <2> QED BY <1>2, <2>3 DEF d2, at
<1> QED BY <1>3, <1>4

LEMMA MakeDirAgain ==
  ASSUME NEW d, NEW path, IsDir(d, Resolve(d, path))
  PROVE  MakeDir(d, path) = d
BY DEF MakeDir, Exists, IsDir

\* The disk after each of some directories.
Made(d, paths, f, n) ==
  \A i \in 0 .. n : f[i] = IF i = 0 THEN d ELSE MakeDir(f[i - 1], paths[i])

LEMMA MadeUnique ==
  ASSUME NEW d, NEW paths, NEW n \in Nat, NEW f, NEW g, Made(d, paths, f, n), Made(d, paths, g, n)
  PROVE  f[n] = g[n]
<1> DEFINE S == {i \in 0 .. n : f[i] = g[i]}
<1>1. 0 \in S
  BY DEF Made
<1>2. ASSUME NEW i \in 0 .. n - 1, i \in S PROVE i + 1 \in S
  <2>1. i + 1 \in 0 .. n /\ i + 1 # 0 /\ (i + 1) - 1 = i
    OBVIOUS
  <2> QED BY <1>2, <2>1 DEF Made
<1>3. 0 .. n \subseteq S
  <2> HIDE DEF S
  <2> QED BY <1>1, <1>2, UpTo
<1> QED BY <1>3

LEMMA MadeExists ==
  ASSUME NEW d \in Disks, NEW paths \in Seq(Seq(Chars))
  PROVE  \E f : Made(d, paths, f, Len(paths)) /\ MakeAll(d, paths) = f[Len(paths)]
<1> DEFINE n == Len(paths)
           step == [p \in Disks \X (1 .. n) |-> MakeDir(p[1], paths[p[2]])]
           Eq(f) == f = [i \in 0 .. n |-> IF i = 0 THEN d ELSE MakeDir(f[i - 1], paths[i])]
           g == CHOOSE f : Eq(f)
<1>1. n \in Nat /\ (\A i \in 1 .. n : paths[i] \in Seq(Chars))
  BY LenProperties, ElementOfSeq
<1>2. IsStep(step, n, Disks)
  <2>1. \A e \in Disks : \A i \in 1 .. n : MakeDir(e, paths[i]) \in Disks
    BY <1>1, MakeDirType
  <2> QED BY <2>1 DEF IsStep
<1>3. PICK f \in [0 .. n -> Disks] : Follows(f, n, d, step)
  <2> HIDE DEF step, n
  <2> QED BY <1>1, <1>2, Recursion
<1>4. Made(d, paths, f, n)
  <2> SUFFICES ASSUME NEW i \in 0 .. n
               PROVE  f[i] = IF i = 0 THEN d ELSE MakeDir(f[i - 1], paths[i])
    BY DEF Made
  <2>1. f[i] = IF i = 0 THEN d ELSE step[<<f[i - 1], i>>]
    BY <1>3 DEF Follows
  <2>2. CASE i # 0
    <3>1. i \in 1 .. n /\ i - 1 \in 0 .. n /\ f[i - 1] \in Disks
      <4> HIDE DEF n, step
      <4>1. i \in 1 .. n /\ i - 1 \in 0 .. n
        BY <1>1, <2>2
      <4> QED BY <4>1
    <3>2. step[<<f[i - 1], i>>] = MakeDir(f[i - 1], paths[i])
      <4> DEFINE e == f[i - 1]
      <4>1. e \in Disks /\ <<e, i>> \in Disks \X (1 .. n)
        BY <3>1
      <4> HIDE DEF e
      <4>2. step[<<e, i>>] = MakeDir(e, paths[i])
        BY <4>1
      <4> HIDE DEF step
      <4> QED BY <4>2 DEF e
    <3> HIDE DEF step
    <3> QED BY <2>1, <2>2, <3>2
  <2>3. CASE i = 0
    BY <2>1, <2>3
  <2> QED BY <2>2, <2>3
<1>5. Eq(f)
  BY <1>4 DEF Made
<1>6. Eq(g)
  BY <1>5
<1>7. MakeAll(d, paths) = g[n]
  BY DEF MakeAll
<1> QED BY <1>6, <1>7 DEF Made

LEMMA MakeAllEmpty ==
  ASSUME NEW d \in Disks
  PROVE  MakeAll(d, <<>>) = d
<1>1. <<>> \in Seq(Seq(Chars)) /\ Len(<<>>) = 0
  BY EmptySeq
<1>2. PICK f : Made(d, <<>>, f, 0) /\ MakeAll(d, <<>>) = f[0]
  BY <1>1, MadeExists
<1> QED BY <1>2 DEF Made

LEMMA MakeAllAppend ==
  ASSUME NEW d \in Disks, NEW paths \in Seq(Seq(Chars)), NEW path \in Seq(Chars)
  PROVE  MakeAll(d, Append(paths, path)) = MakeDir(MakeAll(d, paths), path)
<1> DEFINE longer == Append(paths, path)
           n == Len(paths)
<1>1. /\ longer \in Seq(Seq(Chars)) /\ n \in Nat /\ Len(longer) = n + 1
      /\ \A i \in 1 .. n : longer[i] = paths[i]
      /\ longer[n + 1] = path
  BY AppendProperties, LenProperties
<1> HIDE DEF longer
<1>2. PICK f : Made(d, paths, f, n) /\ MakeAll(d, paths) = f[n]
  BY MadeExists
<1>3. PICK g : Made(d, longer, g, n + 1) /\ MakeAll(d, longer) = g[n + 1]
  BY <1>1, MadeExists
<1>4. \A i \in 0 .. n + 1 : g[i] = IF i = 0 THEN d ELSE MakeDir(g[i - 1], longer[i])
  BY <1>3 DEF Made
<1>5. Made(d, paths, g, n)
  <2> SUFFICES ASSUME NEW i \in 0 .. n
               PROVE  g[i] = IF i = 0 THEN d ELSE MakeDir(g[i - 1], paths[i])
    BY DEF Made
  <2>1. i \in 0 .. n + 1 /\ (i # 0 => i \in 1 .. n)
    BY <1>1
  <2> QED BY <1>1, <1>4, <2>1
<1>6. f[n] = g[n]
  BY <1>1, <1>2, <1>5, MadeUnique
<1>7. g[n + 1] = MakeDir(g[n], path)
  <2>1. n + 1 \in 0 .. n + 1 /\ n + 1 # 0 /\ (n + 1) - 1 = n
    BY <1>1
  <2> QED BY <1>1, <1>4, <2>1
<1> QED BY <1>2, <1>3, <1>6, <1>7 DEF longer

LEMMA FrontAppend ==
  ASSUME NEW A, NEW p \in Seq(A), NEW c \in A
  PROVE  Front(Append(p, c)) = p
<1> DEFINE q == Append(p, c)
<1>1. q \in Seq(A) /\ q # <<>> /\ Len(q) = Len(p) + 1 /\ \A i \in 1 .. Len(p) : q[i] = p[i]
  BY AppendProperties
<1>2. Len(p) \in Nat
  BY LenProperties
<1> HIDE DEF q
<1>3. /\ Front(q) \in Seq(A) /\ Len(Front(q)) = Len(p)
      /\ \A i \in 1 .. Len(p) : Front(q)[i] = q[i]
  BY <1>1, <1>2, FrontType
<1>4. Front(q) = p
  BY <1>1, <1>3, SeqEqual
<1> QED BY <1>4 DEF q

LEMMA FrontLast ==
  ASSUME NEW A, NEW p \in Seq(A), p # <<>>
  PROVE  p[Len(p)] \in A /\ p = Append(Front(p), p[Len(p)])
<1>1. Len(p) \in Nat \ {0} /\ p[Len(p)] \in A
  BY EmptySeq, ElementOfSeq
<1> DEFINE q == Front(p)
           c == p[Len(p)]
<1>2. q \in Seq(A) /\ Len(q) = Len(p) - 1 /\ \A i \in 1 .. Len(p) - 1 : q[i] = p[i]
  BY FrontType
<1>3. c \in A /\ c = p[Len(p)]
  BY <1>1
<1> HIDE DEF q, c
<1>4. /\ Append(q, c) \in Seq(A) /\ Len(Append(q, c)) = Len(q) + 1
      /\ \A i \in 1 .. Len(q) : Append(q, c)[i] = q[i]
      /\ Append(q, c)[Len(q) + 1] = c
  BY <1>2, <1>3, AppendProperties
<1>5. ASSUME NEW i \in 1 .. Len(p) PROVE p[i] = Append(q, c)[i]
  <2>1. CASE i = Len(p)
    BY <1>1, <1>2, <1>3, <1>4, <2>1
  <2>2. CASE i # Len(p)
    <3>1. i \in 1 .. Len(p) - 1 /\ i \in 1 .. Len(q)
      BY <1>1, <1>2, <2>2
    <3> QED BY <1>2, <1>4, <3>1
  <2> QED BY <2>1, <2>2
<1>6. p = Append(q, c)
  <2>1. Len(p) = Len(Append(q, c))
    BY <1>1, <1>2, <1>4
  <2> QED BY <1>4, <1>5, <2>1, SeqEqual
<1> QED BY <1>3, <1>6 DEF q, c

LEMMA PrefixNext ==
  ASSUME NEW A, NEW p \in Seq(A), NEW i \in 0 .. Len(p) - 1
  PROVE  SubSeq(p, 1, i) \in Seq(A) /\ p[i + 1] \in A
         /\ SubSeq(p, 1, i + 1) = Append(SubSeq(p, 1, i), p[i + 1])
<1>1. Len(p) \in Nat /\ i \in 0 .. Len(p) /\ i + 1 \in 1 .. Len(p) /\ (i + 1) - 1 = i
      /\ 1 \in 1 .. Len(p)
  BY LenProperties
<1>2. SubSeq(p, 1, i) \in Seq(A) /\ p[i + 1] \in A
  BY <1>1, PrefixType, ElementOfSeq
<1>3. SubSeq(p, 1, i + 1) = SubSeq(p, 1, i) \o <<p[i + 1]>>
  BY <1>1, SubSeqRecursiveSecond
<1> QED BY <1>2, <1>3, AppendIsConcat

\* A path is what stands before one of its characters, that, and what follows.
LEMMA CutAt ==
  ASSUME NEW A, NEW p \in Seq(A), NEW i \in 1 .. Len(p)
  PROVE  \E q \in Seq(A) : p = SubSeq(p, 1, i - 1) \o <<p[i]>> \o q
<1>1. /\ Len(p) \in Nat /\ i - 1 \in 0 .. Len(p) /\ i \in 0 .. Len(p) /\ (i - 1) + 1 = i
      /\ i - 1 \in 0 .. Len(p) - 1 /\ 1 \in 1 .. Len(p) + 1 /\ i \in 1 - 1 .. Len(p)
      /\ Len(p) \in i .. Len(p)
  BY LenProperties
<1> DEFINE q == SubSeq(p, i + 1, Len(p))
<1>2. q \in Seq(A)
  <2>1. \A j \in i + 1 .. Len(p) : p[j] \in A
    BY <1>1, ElementOfSeq
  <2> QED BY <1>1, <2>1, SubSeqProperties
<1>3. SubSeq(p, 1, i) \o q = p
  <2>1. SubSeq(p, 1, i) \o SubSeq(p, i + 1, Len(p)) = SubSeq(p, 1, Len(p))
    BY <1>1, ConcatAdjacentSubSeq
  <2> QED BY <2>1, SubSeqFull
<1>4. SubSeq(p, 1, i) = SubSeq(p, 1, i - 1) \o <<p[i]>>
  BY <1>1, SubSeqRecursiveSecond
<1> HIDE DEF q
<1> QED BY <1>2, <1>3, <1>4

LEMMA FrontAddChar ==
  ASSUME NEW names \in Split, NEW c \in Chars
  PROVE  Front(AddChar(names, c)) = IF c = Root THEN names ELSE Front(names)
<1>1. names \in Seq(Name) /\ names # <<>> /\ <<>> \in Name
  BY EmptySeq DEF Split, Name
<1>2. CASE c = Root
  BY <1>1, <1>2, FrontAppend DEF AddChar
<1>3. CASE c # Root
  <2>1. names = Append(Front(names), names[Len(names)]) /\ names[Len(names)] \in Name
        /\ Front(names) \in Seq(Name)
    BY <1>1, FrontLast, FrontType
  <2> DEFINE a == Front(names)
             n == names[Len(names)]
             x == Append(n, c)
  <2>2. a \in Seq(Name) /\ n \in Name /\ names = a \o <<n>> /\ <<n>> \in Split
    BY <2>1, AppendIsConcat DEF Split
  <2>3. x \in Name
    BY <1>3, <2>2, AppendProperties DEF Name
  <2>4. AddChar(<<n>>, c) = <<x>>
    BY <1>3 DEF AddChar
  <2>5. AddChar(a \o <<n>>, c) = a \o AddChar(<<n>>, c)
    BY <2>2, AddCharAfter
  <2>6. AddChar(names, c) = a \o <<x>>
    BY <2>2, <2>4, <2>5
  <2> HIDE DEF a, x
  <2>7. Front(a \o <<x>>) = a
    <3>1. Append(a, x) = a \o <<x>> /\ Front(Append(a, x)) = a
      BY <2>2, <2>3, AppendIsConcat, FrontAppend
    <3> QED BY <3>1, Zenon
  <2> QED BY <1>3, <2>6, <2>7 DEF a
<1> QED BY <1>2, <1>3

\* A lookup goes to the last name from where the others lead.
LEMMA ResolveLast ==
  ASSUME NEW d \in Disks, NEW path \in Seq(Chars)
  PROVE  LET names == Components(path)
         IN  /\ names \in Split /\ Front(names) \in Seq(Name) /\ names[Len(names)] \in Name
             /\ Resolve(d, path) = Step(d, Walk(d, Front(names)), names[Len(names)])
<1> DEFINE names == Components(path)
<1>1. names \in Split /\ names \in Seq(Name) /\ names # <<>>
  BY ComponentsType DEF Split
<1> HIDE DEF names
<1>2. /\ names = Append(Front(names), names[Len(names)]) /\ Front(names) \in Seq(Name)
      /\ names[Len(names)] \in Name
  BY <1>1, FrontLast, FrontType
<1>3. Walk(d, names) = Step(d, Walk(d, Front(names)), names[Len(names)])
  BY <1>2, WalkAppend
<1> QED BY <1>1, <1>2, <1>3 DEF names, Resolve

\* A path without the '/' it ends in.
Bare(path) == IF path[Len(path)] = Root THEN Front(path) ELSE path

\* The directory that ends before the '/' at i, if there is one.
Here(temp, i) == IF i > 1 /\ temp[i] = Root THEN <<SubSeq(temp, 1, i - 1)>> ELSE <<>>

Listed(temp, f, n) == \A i \in 0 .. n : f[i] = IF i = 0 THEN <<>> ELSE f[i - 1] \o Here(temp, i)

LEMMA HereType ==
  ASSUME NEW temp \in Seq(Chars), NEW i \in 1 .. Len(temp)
  PROVE  Here(temp, i) \in Seq(Seq(Chars))
<1>1. i - 1 \in 0 .. Len(temp)
  BY LenProperties
<1>2. SubSeq(temp, 1, i - 1) \in Seq(Chars)
  BY <1>1, PrefixType
<1>3. <<SubSeq(temp, 1, i - 1)>> \in Seq(Seq(Chars))
  BY <1>2
<1> QED BY <1>3, EmptySeq DEF Here

LEMMA BareType ==
  ASSUME NEW path \in Seq(Chars), path # <<>>
  PROVE  Bare(path) \in Seq(Chars) /\ (Bare(path) = path \/ path = Bare(path) \o Slash)
<1>1. CASE path[Len(path)] = Root
  <2>1. Front(path) \in Seq(Chars) /\ path = Append(Front(path), Root)
    BY <1>1, FrontType, FrontLast
  <2>2. path = Front(path) \o <<Root>>
    BY <2>1, AppendIsConcat
  <2> QED BY <1>1, <2>1, <2>2 DEF Bare, Slash
<1>2. CASE path[Len(path)] # Root
  BY <1>2 DEF Bare
<1> QED BY <1>1, <1>2

LEMMA PrefixesExist ==
  ASSUME NEW path \in Seq(Chars), path # <<>>, NEW size \in Nat, Len(path) < size
  PROVE  LET temp == Bare(path)
         IN  \E f \in [0 .. Len(temp) -> Seq(Seq(Chars))] :
               Listed(temp, f, Len(temp)) /\ DirPrefixes(path, size) = Append(f[Len(temp)], temp)
<1> DEFINE temp == Bare(path)
           n == Len(temp)
           V == Seq(Seq(Chars))
           step == [p \in V \X (1 .. n) |-> p[1] \o Here(temp, p[2])]
           Eq(f) == f = [i \in 0 .. n |-> IF i = 0 THEN <<>> ELSE f[i - 1] \o Here(temp, i)]
           g == CHOOSE f : Eq(f)
<1>1. temp \in Seq(Chars)
  BY BareType
<1>2. n \in Nat /\ <<>> \in V
  BY <1>1, LenProperties, EmptySeq
<1>3. DirPrefixes(path, size) = Append(g[n], temp)
  BY DEF DirPrefixes, Fit, Bare, Here, Root
<1> HIDE DEF temp
<1>4. \A ps \in V : \A i \in 1 .. n : ps \o Here(temp, i) \in V
  BY <1>1, HereType, ConcatProperties
<1>5. IsStep(step, n, V)
  <2> HIDE DEF n, V
  <2> QED BY <1>4 DEF IsStep
<1>6. PICK f \in [0 .. n -> V] : Follows(f, n, <<>>, step)
  <2> HIDE DEF step, n, V
  <2> QED BY <1>2, <1>5, Recursion
<1>7. Listed(temp, f, n)
  <2> SUFFICES ASSUME NEW i \in 0 .. n
               PROVE  f[i] = IF i = 0 THEN <<>> ELSE f[i - 1] \o Here(temp, i)
    BY DEF Listed
  <2>1. f[i] = IF i = 0 THEN <<>> ELSE step[<<f[i - 1], i>>]
    BY <1>6 DEF Follows
  <2>2. CASE i # 0
    <3>1. i \in 1 .. n /\ i - 1 \in 0 .. n /\ f[i - 1] \in V
      BY <1>2, <2>2
    <3> HIDE DEF V
    <3>2. step[<<f[i - 1], i>>] = f[i - 1] \o Here(temp, i)
      BY <3>1
    <3> HIDE DEF step
    <3> QED BY <2>1, <2>2, <3>2
  <2>3. CASE i = 0
    BY <2>1, <2>3
  <2> QED BY <2>2, <2>3
<1>8. Eq(f)
  BY <1>7 DEF Listed
<1>9. Eq(g)
  BY <1>8
<1>10. Listed(temp, g, n)
  BY <1>9 DEF Listed
<1>11. g \in [0 .. n -> V]
  <2> HIDE DEF g, n, Eq, V
  <2> DEFINE S == {i \in 0 .. n : g[i] \in V}
  <2>1. 0 \in S
    BY <1>2, <1>10 DEF Listed
  <2>2. ASSUME NEW i \in 0 .. n - 1, i \in S PROVE i + 1 \in S
    <3>1. i + 1 \in 0 .. n /\ i + 1 # 0 /\ (i + 1) - 1 = i /\ i + 1 \in 1 .. n
      BY <1>2
    <3>2. g[i + 1] = g[i] \o Here(temp, i + 1)
      BY <1>10, <3>1 DEF Listed
    <3> QED BY <1>4, <2>2, <3>1, <3>2
  <2>3. 0 .. n \subseteq S
    <3> HIDE DEF S
    <3> QED BY <1>2, <2>1, <2>2, UpTo
  <2>4. g = [i \in 0 .. n |-> g[i]]
    BY <1>9 DEF Eq
  <2> QED BY <2>3, <2>4
<1> QED BY <1>3, <1>10, <1>11 DEF temp

\* No name of it is "..".
Straight(names) == \A i \in DOMAIN names : names[i] # <<".", ".">>

LEMMA StepArrives ==
  ASSUME NEW d \in Disks, NEW at, IsDir(d, at), NEW name \in Name
  PROVE  /\ Step(d, at, name) \in Seq(Name)
         /\ name # <<".", ".">> => Len(at) <= Len(Step(d, at, name))
<1>1. at \in Seq(Name) /\ Len(at) \in Nat
  BY DirIsPlace, LenProperties
<1>2. CASE name \in {<<>>, <<".">>}
  BY <1>1, <1>2, StepStay
<1>3. CASE name = <<".", ".">>
  BY <1>1, <1>3, StepUp, FrontType
<1>4. CASE name \notin {<<>>, <<".">>, <<".", ".">>}
  <2>1. Step(d, at, name) = Append(at, name)
    BY <1>4, StepDown
  <2> QED BY <1>1, <2>1, AppendProperties
<1> QED BY <1>2, <1>3, <1>4

LEMMA ResolveNothing ==
  ASSUME NEW d \in Disks
  PROVE  Resolve(d, <<>>) = <<>> /\ IsDir(d, <<>>)
<1>1. <<>> \in Seq(Name) /\ <<>> \in Name /\ Append(<<>>, <<>>) = << <<>> >>
  BY EmptySeq DEF Name
<1>2. Walk(d, << <<>> >>) = Step(d, <<>>, <<>>)
  BY <1>1, WalkEmpty, WalkAppend
<1>3. IsDir(d, <<>>)
  BY DEF IsDir
<1>4. Step(d, <<>>, <<>>) = <<>>
  BY <1>3, StepStay
<1> QED BY <1>2, <1>3, <1>4, ComponentsEmpty DEF Resolve

\* A '/' at the end of a path leads nowhere else.
LEMMA ResolveBare ==
  ASSUME NEW d \in Disks, NEW path \in Seq(Chars), path # <<>>,
         IsDir(d, Resolve(d, Bare(path)))
  PROVE  Resolve(d, path) = Resolve(d, Bare(path))
<1> DEFINE temp == Bare(path)
<1>1. temp \in Seq(Chars) /\ (temp = path \/ path = temp \o Slash)
  BY BareType
<1>2. <<>> \in Name /\ Slash \in Seq(Chars)
  BY EmptySeq DEF Name, Slash, Chars
<1> HIDE DEF temp
<1>3. CASE path = temp \o Slash
  <2>1. temp \o Slash \o <<>> = temp \o Slash
    BY <1>1, <1>2, ConcatProperties, ConcatEmptySeq
  <2>2. Resolve(d, temp \o Slash) = Step(d, Resolve(d, temp), <<>>)
    BY <1>1, <1>2, <2>1, ResolveJoin
  <2>3. Step(d, Resolve(d, temp), <<>>) = Resolve(d, temp)
    BY StepStay DEF temp
  <2> QED BY <1>3, <2>2, <2>3 DEF temp
<1> QED BY <1>1, <1>3 DEF temp

LEMMA StraightPrefix ==
  ASSUME NEW a \in Split, NEW b \in Seq(Name), Straight(a \o b)
  PROVE  Straight(a) /\ a[Len(a)] # <<".", ".">>
<1>1. a \in Seq(Name) /\ a # <<>>
  BY DEF Split
<1>2. Len(a) \in Nat \ {0} /\ DOMAIN a = 1 .. Len(a) /\ Len(b) \in Nat
  BY <1>1, EmptySeq, LenProperties
<1>3. /\ a \o b \in Seq(Name) /\ Len(a \o b) = Len(a) + Len(b)
      /\ \A i \in 1 .. Len(a) + Len(b) : (a \o b)[i] = IF i <= Len(a) THEN a[i] ELSE b[i - Len(a)]
  BY <1>1, ConcatProperties
<1>4. DOMAIN (a \o b) = 1 .. Len(a) + Len(b)
  BY <1>3, LenProperties
<1>5. \A i \in 1 .. Len(a) : i \in 1 .. Len(a) + Len(b) /\ (a \o b)[i] = a[i]
  BY <1>2, <1>3
<1>6. \A i \in 1 .. Len(a) : a[i] # <<".", ".">>
  <2> SUFFICES ASSUME NEW i \in 1 .. Len(a) PROVE a[i] # <<".", ".">>
    OBVIOUS
  <2>1. i \in DOMAIN (a \o b) /\ (a \o b)[i] = a[i]
    BY <1>4, <1>5
  <2> QED BY <2>1, Zenon DEF Straight
<1>7. Len(a) \in 1 .. Len(a)
  BY <1>2
<1> QED BY <1>2, <1>6, <1>7, Zenon DEF Straight

\* EnsureDir has made e of d on its way along temp, and stands at a directory;
\* it has nothing deeper to answer for.
ReadyAt(d, e, temp, at) ==
  /\ e \in Disks /\ Grown(d, e) /\ OnlyDirs(e) /\ IsDir(e, at)
  /\ Straight(Components(temp)) => \A p \in DOMAIN e \ DOMAIN d : Len(p) <= Len(at)

\* What it has reached before the character after the i-th.
Ready(d, e, temp, i) == ReadyAt(d, e, temp, Walk(e, Front(Components(SubSeq(temp, 1, i)))))

\* What EnsureDir does for a prefix whose parent is there.
LEMMA MakePrefix ==
  ASSUME NEW d \in Disks, NEW e, NEW temp, NEW i, NEW p \in Seq(Chars), p = SubSeq(temp, 1, i),
         Ready(d, e, temp, i),
         Straight(Components(temp)) => Components(p)[Len(Components(p))] # <<".", ".">>,
         NEW e2, e2 = e \/ e2 = MakeDir(e, p),
         e2 = e => IsDir(e, Resolve(e, p))
  PROVE  ReadyAt(d, e2, temp, Resolve(e2, p))
<1> DEFINE names == Components(p)
           parent == Walk(e, Front(names))
           last == names[Len(names)]
           here == Resolve(e, p)
<1>1. ReadyAt(d, e, temp, parent)
  BY DEF Ready
<1>2. e \in Disks /\ Grown(d, e) /\ OnlyDirs(e) /\ IsDir(e, parent)
  BY <1>1 DEF ReadyAt
<1>3. last \in Name /\ here = Step(e, parent, last)
  BY <1>2, ResolveLast
<1>4. Straight(Components(temp)) => /\ \A at \in DOMAIN e \ DOMAIN d : Len(at) <= Len(parent)
                                    /\ last # <<".", ".">>
  BY <1>1 DEF ReadyAt
<1>5. e2 = e \/ e2 = MakeDir(e, p)
  OBVIOUS
<1>6. e2 = e => IsDir(e, here)
  OBVIOUS
<1> HIDE DEF names, parent, last
<1>7. here \in Seq(Name) /\ (last # <<".", ".">> => Len(parent) <= Len(here)) /\ here # Nowhere
  <2>1. Step(e, parent, last) \in Seq(Name)
        /\ (last # <<".", ".">> => Len(parent) <= Len(Step(e, parent, last)))
    BY <1>2, <1>3, StepArrives
  <2> HIDE DEF here
  <2> QED BY <1>3, <2>1, NowhereIsNoPlace
<1>8. /\ e2 \in Disks /\ Grown(e, e2) /\ OnlyDirs(e2)
      /\ Resolve(e2, p) = here /\ IsDir(e2, here) /\ DOMAIN e2 \subseteq DOMAIN e \cup {here}
  <2>1. CASE e2 = e
    BY <1>2, <1>6, <2>1 DEF Grown
  <2>2. CASE e2 = MakeDir(e, p)
    BY <1>2, <1>7, <2>2, MakeDirType, MakeDirMakes
  <2> QED BY <1>5, <2>1, <2>2
<1>9. Grown(d, e2)
  BY <1>2, <1>8 DEF Grown
<1>10. ASSUME Straight(Components(temp)), NEW at \in DOMAIN e2 \ DOMAIN d
       PROVE  Len(at) <= Len(here)
  <2>1. CASE at = here
    BY <1>7, <2>1, LenProperties
  <2>2. CASE at \in DOMAIN e \ DOMAIN d
    <3>1. Len(at) <= Len(parent) /\ Len(parent) <= Len(here)
      BY <1>4, <1>7, <1>10, <2>2
    <3>2. Len(at) \in Nat /\ Len(parent) \in Nat /\ Len(here) \in Nat
      BY <1>2, <1>7, <2>2, DiskType, DirIsPlace, LenProperties
    <3> QED BY <3>1, <3>2
  <2> QED BY <1>8, <1>10, <2>1, <2>2
<1> HIDE DEF here
<1> QED BY <1>8, <1>9, <1>10 DEF ReadyAt

LEMMA NamesBefore ==
  ASSUME NEW temp \in Seq(Chars), NEW i \in 1 .. Len(temp), temp[i] = Root
  PROVE  \E q \in Seq(Name) :
           Components(temp) = Components(SubSeq(temp, 1, i - 1)) \o q /\ q # <<>>
<1>1. i - 1 \in 0 .. Len(temp)
  BY LenProperties
<1> DEFINE p == SubSeq(temp, 1, i - 1)
<1>2. p \in Seq(Chars)
  BY <1>1, PrefixType
<1>3. PICK q \in Seq(Chars) : temp = p \o <<temp[i]>> \o q
  BY CutAt
<1> HIDE DEF p
<1>4. temp = p \o Slash \o q
  BY <1>3 DEF Slash
<1>5. Components(temp) = Components(p) \o Components(q)
  BY <1>2, <1>4, ComponentsJoin
<1>6. Components(q) \in Seq(Name) /\ Components(q) # <<>>
  BY ComponentsType DEF Split
<1> QED BY <1>5, <1>6 DEF p

LEMMA ReadyNext ==
  ASSUME NEW d \in Disks, NEW e, NEW temp \in Seq(Chars), NEW i \in 0 .. Len(temp) - 1,
         Ready(d, e, temp, i)
  PROVE  Ready(d, IF i # 0 /\ temp[i + 1] = Root THEN MakeDir(e, SubSeq(temp, 1, i)) ELSE e,
               temp, i + 1)
<1> DEFINE p == SubSeq(temp, 1, i)
           c == temp[i + 1]
           names == Components(p)
           e2 == IF i # 0 /\ c = Root THEN MakeDir(e, p) ELSE e
<1>1. Len(temp) \in Nat /\ i \in 0 .. Len(temp) /\ i + 1 \in 1 .. Len(temp) /\ (i + 1) - 1 = i
  BY LenProperties
<1>2. p \in Seq(Chars) /\ c \in Chars /\ SubSeq(temp, 1, i + 1) = Append(p, c)
  BY PrefixNext
<1>3. names \in Split /\ Components(SubSeq(temp, 1, i + 1)) = AddChar(names, c)
  BY <1>2, ComponentsType, ComponentsAppend
<1>4. Front(Components(SubSeq(temp, 1, i + 1))) = IF c = Root THEN names ELSE Front(names)
  BY <1>2, <1>3, FrontAddChar
<1>5. CASE c # Root
  <2>1. Front(Components(SubSeq(temp, 1, i + 1))) = Front(Components(SubSeq(temp, 1, i)))
    BY <1>4, <1>5
  <2>2. Ready(d, e, temp, i + 1)
    BY <2>1 DEF Ready
  <2> QED BY <1>5, <2>2
<1>6. CASE c = Root
  <2>1. Straight(Components(temp)) => names[Len(names)] # <<".", ".">>
    <3>1. PICK q \in Seq(Name) : Components(temp) = names \o q
      BY <1>1, <1>6, NamesBefore
    <3> HIDE DEF names
    <3> QED BY <1>3, <3>1, StraightPrefix
  <2>2. e2 = e \/ e2 = MakeDir(e, p)
    OBVIOUS
  <2>3. e2 = e => IsDir(e, Resolve(e, p))
    <3>1. CASE i = 0
      <4>1. p = <<>> /\ e \in Disks
        BY <3>1, NoPrefix DEF Ready, ReadyAt
      <4> HIDE DEF p
      <4> QED BY <4>1, ResolveNothing
    <3>2. CASE i # 0
      <4>1. e2 = MakeDir(e, p)
        BY <1>6, <3>2
      <4> HIDE DEF e2
      <4> SUFFICES ASSUME e2 = e PROVE IsDir(e, Resolve(e, p))
        OBVIOUS
      <4>2. MakeDir(e, p) = e
        BY <4>1
      <4>3. e \in Disks /\ OnlyDirs(e) /\ IsDir(e, Walk(e, Front(names)))
        BY DEF Ready, ReadyAt
      <4>4. Resolve(e, p) \in Seq(Name)
        BY <1>2, <4>3, ResolveLast, StepArrives
      <4> QED BY <1>2, <4>2, <4>3, <4>4, NowhereIsNoPlace, MakeDirMakes
    <3> QED BY <3>1, <3>2
  <2>4. ReadyAt(d, e2, temp, Resolve(e2, p))
    <3>1. p = SubSeq(temp, 1, i)
      OBVIOUS
    <3> HIDE DEF e2, p
    <3> QED BY <1>2, <2>1, <2>2, <2>3, <3>1, MakePrefix
  <2>5. Walk(e2, Front(Components(SubSeq(temp, 1, i + 1)))) = Resolve(e2, p)
    BY <1>4, <1>6 DEF Resolve
  <2> HIDE DEF e2, p
  <2>6. Ready(d, e2, temp, i + 1)
    BY <2>4, <2>5 DEF Ready
  <2> QED BY <2>6 DEF e2, p
<1> QED BY <1>5, <1>6

\* ensure_dir makes the directory, whatever is there.
LEMMA EnsureMakes ==
  ASSUME NEW d \in Disks, OnlyDirs(d), NEW path \in Seq(Chars), path # <<>>, Len(path) < MaxPath
  PROVE  LET d2 == EnsureDir(d, path)
         IN  /\ d2 \in Disks /\ Grown(d, d2) /\ OnlyDirs(d2) /\ IsDir(d2, Resolve(d2, path))
             /\ Straight(Components(path)) =>
                  \A p \in DOMAIN d2 \ DOMAIN d : Len(p) <= Len(Resolve(d2, path))
<1> DEFINE temp == Bare(path)
           n == Len(temp)
<1>1. temp \in Seq(Chars) /\ (temp = path \/ path = temp \o Slash)
  BY BareType
<1>2. PICK f \in [0 .. n -> Seq(Seq(Chars))] :
        Listed(temp, f, n) /\ DirPrefixes(path, MaxPath) = Append(f[n], temp)
  BY PathsAssumption, PrefixesExist
<1>3. n \in Nat
  BY <1>1, LenProperties
<1>4. Straight(Components(path)) => Straight(Components(temp))
  <2>1. CASE path = temp \o Slash
    <3>1. temp \o Slash = Append(temp, Root) /\ Root \in Chars
      BY <1>1, AppendIsConcat DEF Slash, Chars
    <3>2. Components(temp \o Slash) = Append(Components(temp), <<>>)
      BY <1>1, <3>1, ComponentsAppend DEF AddChar
    <3>3. Components(temp) \in Split /\ Components(temp) \in Seq(Name) /\ <<>> \in Name
          /\ << <<>> >> \in Seq(Name)
      BY <1>1, ComponentsType, EmptySeq DEF Split, Name
    <3>4. Components(path) = Components(temp) \o << <<>> >>
      BY <2>1, <3>2, <3>3, AppendIsConcat
    <3> HIDE DEF temp
    <3> QED BY <3>3, <3>4, StraightPrefix
  <2>2. CASE path = temp
    BY <2>2
  <2> QED BY <1>1, <2>1, <2>2
<1> HIDE DEF temp
<1> DEFINE D(i) == MakeAll(d, f[i])
           S == {i \in 0 .. n : Ready(d, D(i), temp, i)}
<1>5. 0 \in S
  <2>1. f[0] = <<>> /\ D(0) = d
    BY <1>3, <1>2, MakeAllEmpty DEF Listed
  <2>2. Components(SubSeq(temp, 1, 0)) = << <<>> >>
    BY <1>1, NoPrefix, ComponentsEmpty
  <2>3. Front(<< <<>> >>) = <<>>
    <3>1. <<>> \in Seq(Name) /\ <<>> \in Name /\ Append(<<>>, <<>>) = << <<>> >>
      BY EmptySeq DEF Name
    <3>2. Front(Append(<<>>, <<>>)) = <<>>
      BY <3>1, FrontAppend
    <3> QED BY <3>1, <3>2
  <2>4. Walk(d, <<>>) = <<>> /\ IsDir(d, <<>>) /\ Grown(d, d)
    BY WalkEmpty DEF IsDir, Grown
  <2>5. Walk(d, Front(Components(SubSeq(temp, 1, 0)))) = <<>>
    BY <2>2, <2>3, <2>4, Zenon
  <2>6. Ready(d, d, temp, 0)
    BY <2>4, <2>5 DEF Ready, ReadyAt
  <2> QED BY <1>3, <2>1, <2>6
<1>6. ASSUME NEW i \in 0 .. n - 1, i \in S PROVE i + 1 \in S
  <2>1. i + 1 \in 0 .. n /\ i + 1 # 0 /\ (i + 1) - 1 = i /\ i \in 0 .. n /\ i \in 0 .. Len(temp)
        /\ (i + 1 > 1 <=> i # 0)
    BY <1>3
  <2>2. f[i + 1] = f[i] \o Here(temp, i + 1) /\ f[i] \in Seq(Seq(Chars))
    BY <1>2, <2>1 DEF Listed
  <2>3. SubSeq(temp, 1, i) \in Seq(Chars)
    BY <1>1, <2>1, PrefixType
  <2>4. D(i + 1) = IF i # 0 /\ temp[i + 1] = Root THEN MakeDir(D(i), SubSeq(temp, 1, i)) ELSE D(i)
    <3>1. CASE i # 0 /\ temp[i + 1] = Root
      <4>1. f[i + 1] = Append(f[i], SubSeq(temp, 1, i))
        BY <2>1, <2>2, <2>3, <3>1, AppendIsConcat DEF Here
      <4> QED BY <2>2, <2>3, <3>1, <4>1, MakeAllAppend
    <3>2. CASE ~(i # 0 /\ temp[i + 1] = Root)
      <4>1. f[i + 1] = f[i]
        BY <2>1, <2>2, <3>2, ConcatEmptySeq DEF Here
      <4> QED BY <3>2, <4>1
    <3> QED BY <3>1, <3>2
  <2>5. Ready(d, D(i + 1), temp, i + 1)
    <3>1. Ready(d, D(i), temp, i)
      BY <1>6
    <3> HIDE DEF D
    <3> QED BY <1>1, <2>4, <3>1, ReadyNext
  <2> QED BY <2>1, <2>5
<1>7. Ready(d, D(n), temp, n)
  <2>1. 0 .. n \subseteq S
    <3> HIDE DEF S
    <3> QED BY <1>3, <1>5, <1>6, UpTo
  <2> QED BY <1>3, <2>1
<1> DEFINE d2 == EnsureDir(d, path)
<1>8. d2 = MakeDir(D(n), temp)
  BY <1>1, <1>2, <1>3, MakeAllAppend DEF EnsureDir
<1>9. SubSeq(temp, 1, n) = temp
  BY <1>1, SubSeqFull
<1>10. Straight(Components(temp)) => Components(temp)[Len(Components(temp))] # <<".", ".">>
  <2>1. Components(temp) \in Seq(Name) /\ Components(temp) # <<>>
    BY <1>1, ComponentsType DEF Split
  <2>2. Len(Components(temp)) \in DOMAIN Components(temp)
    BY <2>1, EmptySeq, LenProperties
  <2> QED BY <2>2 DEF Straight
<1>11. D(n) \in Disks /\ OnlyDirs(D(n)) /\ IsDir(D(n), Walk(D(n), Front(Components(temp))))
  BY <1>7, <1>9 DEF Ready, ReadyAt
<1>12. Resolve(D(n), temp) \in Seq(Name)
  BY <1>1, <1>11, ResolveLast, StepArrives
<1> HIDE DEF d2, D
<1>13. d2 = D(n) => IsDir(D(n), Resolve(D(n), temp))
  BY <1>1, <1>8, <1>11, <1>12, NowhereIsNoPlace, MakeDirMakes
<1>14. ReadyAt(d, d2, temp, Resolve(d2, temp))
  <2> DEFINE e == D(n)
  <2>1. temp = SubSeq(temp, 1, n) /\ (d2 = e \/ d2 = MakeDir(e, temp))
        /\ (d2 = e => IsDir(e, Resolve(e, temp))) /\ Ready(d, e, temp, n)
    BY <1>7, <1>8, <1>9, <1>13
  <2> HIDE DEF n, e
  <2> QED BY <1>1, <1>10, <2>1, MakePrefix
<1>15. Resolve(d2, path) = Resolve(d2, temp)
  BY <1>14, ResolveBare DEF temp, ReadyAt
<1> QED BY <1>4, <1>14, <1>15 DEF d2, ReadyAt

\* Where all but the last name leads somewhere, only the last is made.
LEMMA EnsureLast ==
  ASSUME NEW d \in Disks, NEW path \in Seq(Chars), path # <<>>, Len(path) < MaxPath,
         Resolve(d, Bare(path)) # Nowhere
  PROVE  EnsureDir(d, path) = MakeDir(d, Bare(path))
<1> DEFINE temp == Bare(path)
           n == Len(temp)
<1>1. temp \in Seq(Chars) /\ Resolve(d, temp) # Nowhere
  BY BareType
<1>2. PICK f \in [0 .. n -> Seq(Seq(Chars))] :
        Listed(temp, f, n) /\ DirPrefixes(path, MaxPath) = Append(f[n], temp)
  BY PathsAssumption, PrefixesExist
<1>3. n \in Nat
  BY <1>1, LenProperties
<1> HIDE DEF temp
<1> DEFINE S == {i \in 0 .. n : MakeAll(d, f[i]) = d}
<1>4. 0 \in S
  <2>1. f[0] = <<>>
    BY <1>2, <1>3 DEF Listed
  <2> QED BY <1>3, <2>1, MakeAllEmpty
<1>5. ASSUME NEW i \in 0 .. n - 1, i \in S PROVE i + 1 \in S
  <2>1. i + 1 \in 0 .. n /\ i + 1 # 0 /\ (i + 1) - 1 = i /\ i \in 0 .. n /\ i \in 0 .. Len(temp)
        /\ i + 1 \in 1 .. Len(temp)
    BY <1>3
  <2>2. f[i + 1] = f[i] \o Here(temp, i + 1) /\ f[i] \in Seq(Seq(Chars))
    BY <1>2, <2>1 DEF Listed
  <2> DEFINE p == SubSeq(temp, 1, i)
  <2>3. p \in Seq(Chars)
    BY <1>1, <2>1, PrefixType
  <2>4. CASE i + 1 > 1 /\ temp[i + 1] = Root
    <3>1. f[i + 1] = Append(f[i], p)
      BY <2>1, <2>2, <2>3, <2>4, AppendIsConcat DEF Here
    <3>2. MakeAll(d, f[i + 1]) = MakeDir(d, p)
      BY <1>5, <2>2, <2>3, <3>1, MakeAllAppend
    <3>3. PICK q \in Seq(Name) : Components(temp) = Components(p) \o q /\ q # <<>>
      BY <1>1, <2>1, <2>4, NamesBefore
    <3>4. IsDir(d, Walk(d, Components(p)))
      <4>1. Components(p) \in Seq(Name) /\ q \in Split /\ Walk(d, Components(p) \o q) # Nowhere
        BY <1>1, <2>3, <3>3, ComponentsType DEF Split, Resolve
      <4> HIDE DEF p
      <4> QED BY <4>1, WalkByDirs
    <3>5. MakeDir(d, p) = d
      BY <3>4, MakeDirAgain DEF Resolve
    <3> QED BY <2>1, <3>2, <3>5
  <2>5. CASE ~(i + 1 > 1 /\ temp[i + 1] = Root)
    <3>1. f[i + 1] = f[i]
      BY <2>2, <2>5, ConcatEmptySeq DEF Here
    <3> QED BY <1>5, <2>1, <3>1
  <2> QED BY <2>4, <2>5
<1>6. MakeAll(d, f[n]) = d
  <2>1. 0 .. n \subseteq S
    <3> HIDE DEF S
    <3> QED BY <1>3, <1>4, <1>5, UpTo
  <2> QED BY <1>3, <2>1
<1>7. f[n] \in Seq(Seq(Chars))
  BY <1>2, <1>3
<1>8. MakeAll(d, Append(f[n], temp)) = MakeDir(d, temp)
  BY <1>1, <1>6, <1>7, MakeAllAppend
<1> QED BY <1>2, <1>8 DEF EnsureDir, temp

\* SetToSeq has each element, and no other.
LEMMA SetToSeqLists ==
  ASSUME NEW S, IsFiniteSet(S)
  PROVE  /\ SetToSeq(S) \in Seq(S)
         /\ \A x \in S : \E i \in 1 .. Len(SetToSeq(S)) : SetToSeq(S)[i] = x
<1> DEFINE n == Cardinality(S)
           f == SetToSeq(S)
<1>1. n \in Nat /\ ExistsBijection(1 .. n, S)
  BY FS_CardinalityType
<1>2. \E g \in [1 .. n -> S] : IsInjective(g)
  BY <1>1 DEF ExistsBijection, Bijection, Injection
<1>3. f \in [1 .. n -> S] /\ IsInjective(f)
  BY <1>2 DEF SetToSeq
<1> HIDE DEF f
<1>4. f \in Seq(S) /\ Len(f) = n
  BY <1>1, <1>3, SeqDef
<1>5. f \in Injection(1 .. n, S)
  BY <1>3 DEF Injection
<1>6. Cardinality(1 .. n) = n
  BY <1>1, FS_CountingElements, FS_Interval
<1>7. f \in Surjection(1 .. n, S)
  BY <1>5, <1>6, FS_Injection
<1> QED BY <1>4, <1>7 DEF f, Surjection

LEMMA ValidIsName ==
  ASSUME NEW name \in Seq(STRING), IsValidName(name)
  PROVE  /\ name \in Name /\ name \in Seq(Chars)
         /\ name \notin {<<>>, <<".">>, <<".", ".">>}
<1>1. name \notin {<<>>, <<".">>, <<".", ".">>} /\ Range(name) \cap ({"/", "\\"} \cup Blank) = {}
  BY Zenon DEF IsValidName
<1>2. Range(name) \subseteq STRING /\ name \in Seq(Range(name))
  BY RangeOfSeq, SeqOfRange
<1>3. Root \notin Range(name)
  BY <1>1 DEF Root
<1>4. Range(name) \subseteq Chars \ {Root}
  BY <1>2, <1>3 DEF Chars
<1>5. name \in Name
  BY <1>2, <1>4, SeqMonotonic DEF Name
<1>6. name \in Seq(Chars)
  BY <1>5, SeqMonotonic DEF Name
<1> QED BY <1>1, <1>5, <1>6

LEMMA JoinFacts ==
  ASSUME NEW p \in Seq(Chars), NEW q \in Seq(Chars)
  PROVE  /\ p \o Slash \in Seq(Chars) /\ p \o Slash \o q \in Seq(Chars)
         /\ Len(p \o Slash) = Len(p) + 1 /\ Len(p \o Slash \o q) = Len(p) + 1 + Len(q)
         /\ Len(p) \in Nat /\ Len(q) \in Nat
         /\ \A i \in 1 .. Len(p) : (p \o Slash \o q)[i] = p[i]
         /\ (p \o Slash \o q)[Len(p) + 1] = Root
         /\ \A i \in 1 .. Len(q) : (p \o Slash \o q)[Len(p) + 1 + i] = q[i]
<1> DEFINE x == Append(p, Root)
<1>1. Root \in Chars /\ Len(p) \in Nat /\ Len(q) \in Nat
  BY LenProperties DEF Chars
<1>2. p \o Slash = x
  BY <1>1, AppendIsConcat DEF Slash
<1>3. /\ x \in Seq(Chars) /\ Len(x) = Len(p) + 1 /\ \A i \in 1 .. Len(p) : x[i] = p[i]
      /\ x[Len(p) + 1] = Root
  BY <1>1, AppendProperties
<1> HIDE DEF x
<1>4. /\ x \o q \in Seq(Chars) /\ Len(x \o q) = Len(x) + Len(q)
      /\ \A i \in 1 .. Len(x) + Len(q) : (x \o q)[i] = IF i <= Len(x) THEN x[i] ELSE q[i - Len(x)]
  BY <1>3, ConcatProperties
<1> DEFINE y == x \o q
<1>5. /\ y \in Seq(Chars) /\ Len(y) = Len(p) + 1 + Len(q)
      /\ \A i \in 1 .. Len(p) + 1 + Len(q) :
           y[i] = IF i <= Len(p) + 1 THEN x[i] ELSE q[i - (Len(p) + 1)]
  BY <1>1, <1>3, <1>4
<1> HIDE DEF y
<1>6. \A i \in 1 .. Len(p) : y[i] = p[i]
  BY <1>1, <1>3, <1>5
<1>7. y[Len(p) + 1] = Root
  BY <1>1, <1>3, <1>5
<1>8. \A i \in 1 .. Len(q) : y[Len(p) + 1 + i] = q[i]
  <2> SUFFICES ASSUME NEW i \in 1 .. Len(q) PROVE y[Len(p) + 1 + i] = q[i]
    OBVIOUS
  <2>1. /\ Len(p) + 1 + i \in 1 .. Len(p) + 1 + Len(q) /\ ~(Len(p) + 1 + i <= Len(p) + 1)
        /\ (Len(p) + 1 + i) - (Len(p) + 1) = i
    BY <1>1
  <2> QED BY <1>5, <2>1
<1> QED BY <1>1, <1>2, <1>3, <1>5, <1>6, <1>7, <1>8 DEF y

LEMMA UserFacts ==
  ASSUME NEW u \in Users
  PROVE  /\ u \in Name /\ u \in Seq(Chars) /\ u \notin {<<>>, <<".">>, <<".", ".">>}
         /\ Len(u) \in Nat \ {0}
         /\ RootOf(u) = DataRoot \o Slash \o u
         /\ RootOf(u) \in Seq(Chars) /\ RootOf(u) # <<>>
         /\ Len(RootOf(u)) = Len(DataRoot) + 1 + Len(u) /\ Len(RootOf(u)) + 4 < MaxPath
         /\ Bare(RootOf(u)) = RootOf(u)
<1>1. u \in Seq(STRING) /\ IsValidName(u) /\ Len(DataRoot) + Len(u) + 5 < MaxPath
      /\ DataRoot \in Seq(STRING) /\ MaxPath \in Nat
  BY PathsAssumption
<1>2. u \in Name /\ u \in Seq(Chars) /\ u \notin {<<>>, <<".">>, <<".", ".">>}
  BY <1>1, ValidIsName
<1>3. DataRoot \in Seq(Chars)
  BY <1>1, SeqMonotonic DEF Chars
<1> DEFINE r == DataRoot \o Slash \o u
<1>4. Len(u) \in Nat \ {0} /\ Len(DataRoot) \in Nat
  BY <1>2, <1>3, EmptySeq, LenProperties
<1>6. /\ r \in Seq(Chars) /\ Len(r) = Len(DataRoot) + 1 + Len(u)
      /\ \A i \in 1 .. Len(u) : r[Len(DataRoot) + 1 + i] = u[i]
  BY <1>2, <1>3, JoinFacts
<1> HIDE DEF r
<1>7. RootOf(u) = r
  BY <1>1, <1>4, <1>6 DEF RootOf, Fit, r
<1>8. r[Len(r)] = u[Len(u)]
  BY <1>4, <1>6
<1>9. u[Len(u)] # Root
  BY <1>2, <1>4, ElementOfSeq DEF Name
<1>10. Bare(r) = r
  BY <1>8, <1>9 DEF Bare
<1>11. r # <<>>
  BY <1>4, <1>6, EmptySeq
<1> QED BY <1>1, <1>2, <1>4, <1>6, <1>7, <1>10, <1>11 DEF r

-----------------------------------------------------------------------------
(* The disk the server starts with.                                        *)

FirstDisk == EnsureDir(<<>>, DataRoot)

Order == SetToSeq(Users)

Prepared(f, n) ==
  \A i \in 0 .. n : f[i] = IF i = 0 THEN FirstDisk ELSE EnsureDir(f[i - 1], RootOf(Order[i]))

DirDisks == {d \in Disks : OnlyDirs(d)}

LEMMA EmptyDisk == <<>> \in DirDisks /\ DOMAIN <<>> = {}
<1>1. <<>> \in Seq(Kinds) /\ Len(<<>>) = 0
  BY EmptySeq
<1>2. DOMAIN <<>> = {} /\ <<>> \in [DOMAIN <<>> -> Kinds]
  BY <1>1, LenProperties
<1>3. <<>> \in Disks
  BY <1>2, DiskType
<1> QED BY <1>2, <1>3 DEF DirDisks, OnlyDirs

LEMMA FirstDiskMade ==
  /\ DataRoot \in Seq(Chars) /\ FirstDisk \in DirDisks
  /\ IsDir(FirstDisk, Resolve(FirstDisk, DataRoot))
  /\ Straight(Components(DataRoot)) =>
       \A p \in DOMAIN FirstDisk : Len(p) <= Len(Resolve(FirstDisk, DataRoot))
<1>1. DataRoot \in Seq(Chars) /\ DataRoot # <<>> /\ Len(DataRoot) < MaxPath
  BY PathsAssumption, SeqMonotonic DEF Chars
<1> DEFINE d == <<>>
<1>2. d \in Disks /\ OnlyDirs(d) /\ DOMAIN d = {}
  BY EmptyDisk DEF DirDisks
<1>3. FirstDisk = EnsureDir(d, DataRoot)
  BY DEF FirstDisk
<1> HIDE DEF d
<1> QED BY <1>1, <1>2, <1>3, EnsureMakes DEF DirDisks

LEMMA OrderLists ==
  /\ Order \in Seq(Users) /\ Len(Order) \in Nat
  /\ \A i \in 1 .. Len(Order) : Order[i] \in Users
  /\ \A u \in Users : \E i \in 1 .. Len(Order) : Order[i] = u
<1>1. IsFiniteSet(Users)
  BY PathsAssumption
<1>2. Order \in Seq(Users) /\ \A u \in Users : \E i \in 1 .. Len(Order) : Order[i] = u
  BY <1>1, SetToSeqLists DEF Order
<1> QED BY <1>2, LenProperties, ElementOfSeq

LEMMA PreparedExists ==
  \E f : Prepared(f, Len(Order)) /\ PreparedDisk = f[Len(Order)]
<1> DEFINE n == Len(Order)
           step == [p \in DirDisks \X (1 .. n) |-> EnsureDir(p[1], RootOf(Order[p[2]]))]
           Eq(f) == f = [i \in 0 .. n |->
                           IF i = 0 THEN EnsureDir(<<>>, DataRoot)
                           ELSE EnsureDir(f[i - 1], RootOf(Order[i]))]
           g == CHOOSE f : Eq(f)
<1>1. n \in Nat
  BY OrderLists
<1>2. FirstDisk \in DirDisks
  BY FirstDiskMade
<1>3. \A d \in DirDisks : \A i \in 1 .. n : EnsureDir(d, RootOf(Order[i])) \in DirDisks
  <2> SUFFICES ASSUME NEW d \in DirDisks, NEW i \in 1 .. n
               PROVE  EnsureDir(d, RootOf(Order[i])) \in DirDisks
    OBVIOUS
  <2> DEFINE r == RootOf(Order[i])
  <2>1. r \in Seq(Chars) /\ r # <<>> /\ Len(r) < MaxPath
    <3>1. Order[i] \in Users
      BY OrderLists
    <3>2. Len(r) \in Nat /\ Len(r) + 4 < MaxPath /\ r \in Seq(Chars) /\ r # <<>>
      BY <3>1, UserFacts, LenProperties
    <3> QED BY <3>2, PathsAssumption
  <2> HIDE DEF r
  <2>2. d \in Disks /\ OnlyDirs(d)
    BY DEF DirDisks
  <2>3. EnsureDir(d, r) \in DirDisks
    BY <2>1, <2>2, EnsureMakes DEF DirDisks
  <2> QED BY <2>3 DEF r
<1>4. IsStep(step, n, DirDisks)
  <2> HIDE DEF n
  <2> QED BY <1>3 DEF IsStep
<1>5. PICK f \in [0 .. n -> DirDisks] : Follows(f, n, FirstDisk, step)
  <2> HIDE DEF step, n
  <2> QED BY <1>1, <1>2, <1>4, Recursion
<1>6. Prepared(f, n)
  <2> SUFFICES ASSUME NEW i \in 0 .. n
               PROVE  f[i] = IF i = 0 THEN FirstDisk ELSE EnsureDir(f[i - 1], RootOf(Order[i]))
    BY DEF Prepared
  <2>1. f[i] = IF i = 0 THEN FirstDisk ELSE step[<<f[i - 1], i>>]
    BY <1>5 DEF Follows
  <2>2. CASE i # 0
    <3>1. i \in 1 .. n /\ i - 1 \in 0 .. n /\ f[i - 1] \in DirDisks
      BY <1>1, <2>2
    <3>2. step[<<f[i - 1], i>>] = EnsureDir(f[i - 1], RootOf(Order[i]))
      BY <3>1
    <3> HIDE DEF step
    <3> QED BY <2>1, <2>2, <3>2
  <2>3. CASE i = 0
    BY <2>1, <2>3
  <2> QED BY <2>2, <2>3
<1>7. Eq(f)
  BY <1>6 DEF Prepared, FirstDisk
<1>8. Eq(g)
  BY <1>7
<1>9. PreparedDisk = g[n]
  BY DEF PreparedDisk, Order
<1> QED BY <1>8, <1>9 DEF Prepared, FirstDisk

\* With its first i users.
Hosts(d, i) ==
  LET top == Resolve(FirstDisk, DataRoot)
  IN  /\ d \in DirDisks
      /\ Resolve(d, DataRoot) = top /\ IsDir(d, top)
      /\ DOMAIN d = DOMAIN FirstDisk \cup {Append(top, Order[j]) : j \in 1 .. i}

LEMMA OneMoreUser ==
  ASSUME NEW d, NEW i \in 0 .. Len(Order) - 1, Hosts(d, i)
  PROVE  Hosts(EnsureDir(d, RootOf(Order[i + 1])), i + 1)
<1> DEFINE u == Order[i + 1]
           top == Resolve(FirstDisk, DataRoot)
           r == RootOf(u)
           d2 == EnsureDir(d, r)
           at == Append(top, u)
<1>1. u \in Users /\ i + 1 \in 1 .. Len(Order) /\ i \in Nat
  BY OrderLists
<1>2. /\ r \in Seq(Chars) /\ r # <<>> /\ Bare(r) = r /\ u \in Name
      /\ r = DataRoot \o Slash \o u /\ u \notin {<<>>, <<".">>, <<".", ".">>}
      /\ Len(r) + 4 < MaxPath /\ Len(r) \in Nat /\ MaxPath \in Nat
  BY <1>1, UserFacts, LenProperties, PathsAssumption
<1> HIDE DEF u, r
<1>3. DataRoot \in Seq(Chars)
  BY FirstDiskMade
<1>4. /\ d \in Disks /\ OnlyDirs(d)
      /\ Resolve(d, DataRoot) = top /\ IsDir(d, top)
      /\ DOMAIN d = DOMAIN FirstDisk \cup {Append(top, Order[j]) : j \in 1 .. i}
  BY DEF Hosts, DirDisks
<1> HIDE DEF top
<1>5. Resolve(d, r) = at
  BY <1>2, <1>3, <1>4, ResolveJoin, StepDown
<1>6. at \in Seq(Name) /\ at # <<>> /\ at # Nowhere
  <2>1. top \in Seq(Name)
    BY <1>4, DirIsPlace
  <2>2. at \in Seq(Name) /\ at # <<>>
    BY <1>2, <2>1, AppendName
  <2> HIDE DEF at
  <2> QED BY <2>2, NowhereIsNoPlace
<1>7. Len(r) < MaxPath
  BY <1>2
<1> HIDE DEF at
<1>8. d2 = MakeDir(d, r)
  BY <1>2, <1>4, <1>5, <1>6, <1>7, EnsureLast
<1> HIDE DEF d2
<1>9. /\ d2 \in Disks /\ Grown(d, d2) /\ OnlyDirs(d2)
      /\ IsDir(d2, at) /\ DOMAIN d2 \subseteq DOMAIN d \cup {at}
  BY <1>2, <1>4, <1>5, <1>6, <1>8, MakeDirType, MakeDirMakes
<1>10. DOMAIN d2 = DOMAIN d \cup {at}
  <2>1. at \in DOMAIN d2
    BY <1>6, <1>9 DEF IsDir
  <2>2. ASSUME NEW p \in DOMAIN d PROVE p \in DOMAIN d2
    <3>1. IsDir(d, p) /\ p # <<>>
      BY <1>4, DiskType DEF IsDir, OnlyDirs
    <3> QED BY <1>9, <3>1 DEF Grown, IsDir
  <2> QED BY <1>9, <2>1, <2>2
<1>11. Resolve(d2, DataRoot) = top /\ IsDir(d2, top)
  <2>1. Components(DataRoot) \in Seq(Name)
    BY <1>3, ComponentsType DEF Split
  <2>2. Walk(d, Components(DataRoot)) # Nowhere
    BY <1>4, DirIsPlace DEF Resolve
  <2>3. Walk(d2, Components(DataRoot)) = Walk(d, Components(DataRoot))
    BY <1>4, <1>9, <2>1, <2>2, WalkStable DEF Grown
  <2> QED BY <1>4, <1>9, <2>3 DEF Resolve, Grown
<1>12. {Append(top, Order[j]) : j \in 1 .. i + 1} = {Append(top, Order[j]) : j \in 1 .. i} \cup {at}
  <2>1. \A j : j \in 1 .. i + 1 <=> (j \in 1 .. i \/ j = i + 1)
    BY <1>1
  <2> QED BY <2>1, Zenon DEF at, u
<1>13. Hosts(d2, i + 1)
  BY <1>4, <1>9, <1>10, <1>11, <1>12 DEF Hosts, DirDisks, top
<1> QED BY <1>13 DEF d2, r, u

\* data_root is a directory, and each user has one in it; what else is on the
\* way there lies no deeper than data_root.
LEMMA PreparedFacts ==
  /\ PreparedDisk \in DirDisks /\ DataRoot \in Seq(Chars)
  /\ Top \in Seq(Name) /\ IsDir(PreparedDisk, Top)
  /\ \A u \in Users : HomeOf(u) = Append(Top, u) /\ IsDir(PreparedDisk, HomeOf(u))
                      /\ HomeOf(u) \in DOMAIN PreparedDisk
  /\ Straight(Components(DataRoot)) =>
       \A p \in DOMAIN PreparedDisk : Len(p) <= Len(Top) \/ \E u \in Users : p = Append(Top, u)
<1> DEFINE n == Len(Order)
           top == Resolve(FirstDisk, DataRoot)
<1>1. PICK f : Prepared(f, n) /\ PreparedDisk = f[n]
  BY PreparedExists
<1>2. n \in Nat
  BY OrderLists
<1> DEFINE S == {i \in 0 .. n : Hosts(f[i], i)}
<1>3. 0 \in S
  <2>1. f[0] = FirstDisk
    BY <1>1, <1>2 DEF Prepared
  <2>2. {Append(top, Order[j]) : j \in 1 .. 0} = {}
    OBVIOUS
  <2>3. Hosts(FirstDisk, 0)
    BY <2>2, FirstDiskMade DEF Hosts
  <2> QED BY <1>2, <2>1, <2>3
<1>4. ASSUME NEW i \in 0 .. n - 1, i \in S PROVE i + 1 \in S
  <2>1. i + 1 \in 0 .. n /\ i + 1 # 0 /\ (i + 1) - 1 = i
    BY <1>2
  <2>2. f[i + 1] = EnsureDir(f[i], RootOf(Order[i + 1]))
    BY <1>1, <2>1 DEF Prepared
  <2> QED BY <1>4, <2>1, <2>2, OneMoreUser
<1>5. Hosts(PreparedDisk, n)
  <2>1. 0 .. n \subseteq S
    <3> HIDE DEF S
    <3> QED BY <1>2, <1>3, <1>4, UpTo
  <2> QED BY <1>1, <1>2, <2>1
<1>6. Top = top /\ top \in Seq(Name)
  <2>1. Top = top /\ IsDir(PreparedDisk, top) /\ PreparedDisk \in Disks
    BY <1>5 DEF Hosts, Top, DirDisks
  <2> QED BY <2>1, DirIsPlace
<1>7. /\ PreparedDisk \in DirDisks /\ DataRoot \in Seq(Chars)
      /\ Resolve(PreparedDisk, DataRoot) = Top /\ IsDir(PreparedDisk, Top)
      /\ DOMAIN PreparedDisk = DOMAIN FirstDisk \cup {Append(Top, Order[j]) : j \in 1 .. n}
  BY <1>5, <1>6, FirstDiskMade DEF Hosts
<1>8. {Append(Top, Order[j]) : j \in 1 .. n} = {Append(Top, u) : u \in Users}
  BY OrderLists
<1>9. ASSUME NEW u \in Users
      PROVE  /\ HomeOf(u) = Append(Top, u) /\ IsDir(PreparedDisk, HomeOf(u))
             /\ HomeOf(u) \in DOMAIN PreparedDisk
  <2>1. u \in Name /\ u \notin {<<>>, <<".">>, <<".", ".">>}
    BY UserFacts
  <2>2. PreparedDisk \in Disks /\ OnlyDirs(PreparedDisk)
    BY <1>7 DEF DirDisks
  <2>3. HomeOf(u) = Append(Top, u)
    BY <1>7, <2>1, <2>2, ResolveJoin, StepDown DEF HomeOf
  <2>4. HomeOf(u) \in DOMAIN PreparedDisk
    BY <1>7, <1>8, <2>3
  <2> QED BY <2>2, <2>3, <2>4 DEF IsDir, OnlyDirs
<1>10. ASSUME Straight(Components(DataRoot)), NEW p \in DOMAIN PreparedDisk
       PROVE  Len(p) <= Len(Top) \/ \E u \in Users : p = Append(Top, u)
  <2>1. CASE p \in DOMAIN FirstDisk
    BY <1>6, <1>10, <2>1, FirstDiskMade
  <2> QED BY <1>7, <1>8, <2>1
<1> QED BY <1>6, <1>7, <1>9, <1>10

-----------------------------------------------------------------------------
(* Paths that are cut.                                                     *)

LEMMA FitFacts ==
  ASSUME NEW x \in Seq(Chars), NEW m \in Nat \ {0}
  PROVE  /\ Fit(x, m) \in Seq(Chars) /\ Len(x) \in Nat /\ Len(Fit(x, m)) \in Nat
         /\ Len(x) < m => Fit(x, m) = x /\ Len(Fit(x, m)) = Len(x)
         /\ Len(x) >= m => Fit(x, m) = SubSeq(x, 1, m - 1) /\ Len(Fit(x, m)) = m - 1
         /\ \A i \in 1 .. Len(Fit(x, m)) : Fit(x, m)[i] = x[i]
<1>1. Len(x) \in Nat
  BY LenProperties
<1>2. CASE Len(x) < m
  BY <1>1, <1>2 DEF Fit
<1>3. CASE ~(Len(x) < m)
  <2>1. Fit(x, m) = SubSeq(x, 1, m - 1) /\ m - 1 \in 0 .. Len(x)
    BY <1>1, <1>3 DEF Fit
  <2>2. /\ SubSeq(x, 1, m - 1) \in Seq(Chars) /\ Len(SubSeq(x, 1, m - 1)) = m - 1
        /\ \A i \in 1 .. m - 1 : SubSeq(x, 1, m - 1)[i] = x[i]
    BY <2>1, PrefixType
  <2> QED BY <1>1, <1>3, <2>1, <2>2
<1> QED BY <1>2, <1>3

\* What comes after the cut makes no difference.
LEMMA FitLong ==
  ASSUME NEW x \in Seq(Chars), NEW y \in Seq(Chars), NEW m \in Nat \ {0}, Len(x) >= m - 1
  PROVE  Fit(x \o y, m) = Fit(x, m)
<1> DEFINE z == x \o y
<1>1. /\ z \in Seq(Chars) /\ Len(z) = Len(x) + Len(y) /\ Len(x) \in Nat /\ Len(y) \in Nat
      /\ \A i \in 1 .. Len(x) + Len(y) : z[i] = IF i <= Len(x) THEN x[i] ELSE y[i - Len(x)]
  BY ConcatProperties, LenProperties
<1>2. \A i \in 1 .. Len(x) : z[i] = x[i]
  BY <1>1
<1> HIDE DEF z
<1> DEFINE a == Fit(z, m)
           b == Fit(x, m)
<1>3. /\ a \in Seq(Chars) /\ \A i \in 1 .. Len(a) : a[i] = z[i]
      /\ Len(z) < m => Len(a) = Len(z)
      /\ Len(z) >= m => Len(a) = m - 1
  BY <1>1, FitFacts
<1>4. /\ b \in Seq(Chars) /\ \A i \in 1 .. Len(b) : b[i] = x[i]
      /\ Len(x) < m => Len(b) = Len(x)
      /\ Len(x) >= m => Len(b) = m - 1
  BY FitFacts
<1> HIDE DEF a, b
<1>5. Len(a) = Len(b) /\ Len(a) = m - 1 /\ m - 1 <= Len(x)
  BY <1>1, <1>3, <1>4
<1>6. \A i \in 1 .. Len(a) : a[i] = b[i]
  BY <1>1, <1>2, <1>3, <1>4, <1>5
<1>7. a = b
  BY <1>3, <1>4, <1>5, <1>6, SeqEqual
<1> QED BY <1>7 DEF a, b, z

\* What is put together from a cut path is cut like what would have been.
LEMMA FitFit ==
  ASSUME NEW x \in Seq(Chars), NEW y \in Seq(Chars), NEW m \in Nat \ {0}
  PROVE  Fit(Fit(x, m) \o y, m) = Fit(x \o y, m)
<1>1. CASE Len(x) < m
  BY <1>1, FitFacts
<1>2. CASE ~(Len(x) < m)
  <2> DEFINE c == Fit(x, m)
  <2>1. c \in Seq(Chars) /\ Len(c) = m - 1 /\ Len(x) \in Nat /\ Len(x) >= m - 1
    BY <1>2, FitFacts
  <2>2. Fit(x \o y, m) = c
    BY <2>1, FitLong
  <2> HIDE DEF c
  <2>3. Fit(c \o y, m) = Fit(c, m)
    BY <2>1, FitLong
  <2>4. Fit(c, m) = c
    BY <2>1 DEF Fit
  <2> QED BY <2>2, <2>3, <2>4 DEF c
<1> QED BY <1>1, <1>2

\* A path with room for more than a '/' is cut in the name that follows.
LEMMA FitJoin ==
  ASSUME NEW x \in Seq(Chars), NEW name \in Seq(Chars), NEW m \in Nat \ {0}, Len(x) < m - 1
  PROVE  Fit(x \o Slash \o name, m) = x \o Slash \o Fit(name, m - 1 - Len(x))
<1> DEFINE k == m - 1 - Len(x)
           q == Fit(name, k)
           z == x \o Slash \o name
           y == x \o Slash \o q
           a == Fit(z, m)
<1>1. /\ z \in Seq(Chars) /\ Len(z) = Len(x) + 1 + Len(name)
      /\ Len(x) \in Nat /\ Len(name) \in Nat
      /\ \A i \in 1 .. Len(x) : z[i] = x[i]
      /\ z[Len(x) + 1] = Root
      /\ \A i \in 1 .. Len(name) : z[Len(x) + 1 + i] = name[i]
  BY JoinFacts
<1>2. k \in Nat \ {0}
  BY <1>1
<1>3. /\ q \in Seq(Chars) /\ Len(q) \in Nat /\ \A i \in 1 .. Len(q) : q[i] = name[i]
      /\ Len(name) < k => Len(q) = Len(name)
      /\ Len(name) >= k => Len(q) = k - 1
  <2> HIDE DEF k
  <2> QED BY <1>2, FitFacts
<1> HIDE DEF q, z
<1>4. /\ y \in Seq(Chars) /\ Len(y) = Len(x) + 1 + Len(q)
      /\ \A i \in 1 .. Len(x) : y[i] = x[i]
      /\ y[Len(x) + 1] = Root
      /\ \A i \in 1 .. Len(q) : y[Len(x) + 1 + i] = q[i]
  BY <1>3, JoinFacts
<1> HIDE DEF y
<1>5. /\ a \in Seq(Chars) /\ \A i \in 1 .. Len(a) : a[i] = z[i]
      /\ Len(z) < m => Len(a) = Len(z)
      /\ Len(z) >= m => Len(a) = m - 1
  BY <1>1, FitFacts
<1> HIDE DEF a
<1>6. Len(a) = Len(y) /\ Len(q) <= Len(name)
  BY <1>1, <1>2, <1>3, <1>4, <1>5
<1>7. ASSUME NEW i \in 1 .. Len(a) PROVE a[i] = y[i]
  <2>1. a[i] = z[i]
    BY <1>5
  <2>2. CASE i <= Len(x)
    BY <1>1, <1>4, <2>1, <2>2
  <2>3. CASE i = Len(x) + 1
    BY <1>1, <1>4, <2>1, <2>3
  <2>4. CASE i > Len(x) + 1
    <3> DEFINE j == i - (Len(x) + 1)
    <3>1. j \in 1 .. Len(q) /\ j \in 1 .. Len(name) /\ Len(x) + 1 + j = i
      BY <1>1, <1>3, <1>4, <1>6, <2>4
    <3> HIDE DEF j
    <3> QED BY <1>1, <1>3, <1>4, <2>1, <3>1
  <2> QED BY <1>1, <2>2, <2>3, <2>4
<1>8. a = y
  BY <1>4, <1>5, <1>6, <1>7, SeqEqual
<1> QED BY <1>8 DEF a, y, q, z

-----------------------------------------------------------------------------
(* Where sessions stand.                                                   *)

Base(cwd) == IF cwd = Slash THEN <<>> ELSE cwd

NamesOf(b) == Tail(Components(b))

\* A virtual path, without the '/' of the top one.
Virtual(b) == b \in Seq(Chars) /\ (b = <<>> \/ (b[1] = Root /\ b # Slash))

\* Every directory on the way along a virtual path is where its names say, as
\* far as the path fits.
Leads(d, u, b) ==
  \A i \in 0 .. Len(b) :
    (i = Len(b) \/ b[i + 1] = Root) /\ Len(RootOf(u)) + i < MaxPath =>
      LET at == Resolve(d, RootOf(u) \o SubSeq(b, 1, i))
      IN  at = HomeOf(u) \o NamesOf(SubSeq(b, 1, i)) /\ IsDir(d, at)

\* If it does not fit, what is left of it is a directory of the user all the same.
Stays(d, u, b) ==
  Len(RootOf(u)) + Len(b) >= MaxPath =>
    LET at == Resolve(d, Fit(RootOf(u) \o b, MaxPath))
    IN  IsDir(d, at) /\ Below(HomeOf(u), at)

LEMMA BelowConcat ==
  ASSUME NEW a \in Seq(Name), NEW b \in Seq(Name)
  PROVE  Below(a, a \o b)
<1> DEFINE c == a \o b
<1>1. /\ c \in Seq(Name) /\ Len(c) = Len(a) + Len(b) /\ Len(a) \in Nat /\ Len(b) \in Nat
      /\ \A i \in 1 .. Len(a) + Len(b) : c[i] = IF i <= Len(a) THEN a[i] ELSE b[i - Len(a)]
  BY ConcatProperties, LenProperties
<1>2. \A i \in 1 .. Len(a) : c[i] = a[i]
  BY <1>1
<1> HIDE DEF c
<1>3. Len(a) \in 0 .. Len(c)
  BY <1>1
<1>4. /\ SubSeq(c, 1, Len(a)) \in Seq(Name) /\ Len(SubSeq(c, 1, Len(a))) = Len(a)
      /\ \A i \in 1 .. Len(a) : SubSeq(c, 1, Len(a))[i] = c[i]
  BY <1>1, <1>3, PrefixType
<1>5. SubSeq(c, 1, Len(a)) = a
  BY <1>2, <1>4, SeqEqual
<1> QED BY <1>1, <1>3, <1>5 DEF Below, c

LEMMA NamesOfFacts ==
  /\ NamesOf(<<>>) = <<>>
  /\ \A b \in Seq(Chars) : NamesOf(b) \in Seq(Name)
  /\ \A b \in Seq(Chars) : b # <<>> /\ b[1] = Root => NamesOf(b) # <<>>
<1>1. NamesOf(<<>>) = <<>>
  <2>1. << <<>> >> \in Seq(Name) /\ << <<>> >> # <<>> /\ Len(<< <<>> >>) = 1
    BY EmptySeq DEF Name
  <2>2. Tail(<< <<>> >>) \in Seq(Name) /\ Len(Tail(<< <<>> >>)) = 0
    BY <2>1, HeadTailProperties
  <2> QED BY <2>2, ComponentsEmpty, EmptySeq DEF NamesOf
<1>2. ASSUME NEW b \in Seq(Chars) PROVE NamesOf(b) \in Seq(Name)
  <2>1. Components(b) \in Seq(Name) /\ Components(b) # <<>>
    BY ComponentsType DEF Split
  <2> QED BY <2>1, HeadTailProperties DEF NamesOf
<1>3. ASSUME NEW b \in Seq(Chars), b # <<>>, b[1] = Root PROVE NamesOf(b) # <<>>
  <2>1. 1 \in 1 .. Len(b) /\ 1 - 1 = 0
    BY <1>3, EmptySeq
  <2>2. PICK q \in Seq(Name) : Components(b) = Components(SubSeq(b, 1, 0)) \o q /\ q # <<>>
    BY <1>3, <2>1, NamesBefore
  <2>3. Components(b) = << <<>> >> \o q
    BY <2>2, NoPrefix, ComponentsEmpty
  <2>4. << <<>> >> \in Seq(Name) /\ Len(<< <<>> >>) = 1
    BY EmptySeq DEF Name
  <2>5. Len(Components(b)) = 1 + Len(q) /\ Len(q) \in Nat \ {0}
    BY <2>2, <2>3, <2>4, ConcatProperties, EmptySeq
  <2>6. Components(b) \in Seq(Name) /\ Components(b) # <<>>
    BY ComponentsType DEF Split
  <2>7. Len(NamesOf(b)) = Len(Components(b)) - 1
    BY <2>6, HeadTailProperties DEF NamesOf
  <2> QED BY <2>5, <2>7, EmptySeq
<1> QED BY <1>1, <1>2, <1>3

LEMMA NamesOfJoin ==
  ASSUME NEW b \in Seq(Chars), NEW name \in Name
  PROVE  NamesOf(b \o Slash \o name) = Append(NamesOf(b), name)
<1>1. name \in Seq(Chars)
  BY SeqMonotonic DEF Name
<1>2. Components(b) \in Seq(Name) /\ Components(b) # <<>>
  BY ComponentsType DEF Split
<1>3. Components(b \o Slash \o name) = Append(Components(b), name)
  <2>1. Components(b \o Slash \o name) = Components(b) \o <<name>>
    BY <1>1, ComponentsJoin, ComponentsPlain
  <2> QED BY <1>2, <2>1, AppendIsConcat
<1>4. Tail(Append(Components(b), name)) = Append(Tail(Components(b)), name)
  BY <1>2, HeadTailAppend
<1> QED BY <1>3, <1>4 DEF NamesOf

\* What is known of a user's directory on a disk that has not lost any.
LEMMA HomeFacts ==
  ASSUME NEW d \in Disks, Grown(PreparedDisk, d), NEW u \in Users
  PROVE  /\ HomeOf(u) \in Seq(Name) /\ HomeOf(u) # <<>> /\ Front(HomeOf(u)) = Top
         /\ HomeOf(u) = Append(Top, u)
         /\ Resolve(d, RootOf(u)) = HomeOf(u) /\ IsDir(d, HomeOf(u))
         /\ Resolve(PreparedDisk, RootOf(u)) = HomeOf(u)
<1>1. /\ Top \in Seq(Name) /\ HomeOf(u) = Append(Top, u) /\ IsDir(PreparedDisk, HomeOf(u))
      /\ PreparedDisk \in Disks
  BY PreparedFacts DEF DirDisks
<1>2. u \in Name /\ RootOf(u) = DataRoot \o Slash \o u /\ RootOf(u) \in Seq(Chars)
  BY UserFacts
<1>3. HomeOf(u) \in Seq(Name) /\ HomeOf(u) # <<>> /\ Front(HomeOf(u)) = Top
  BY <1>1, <1>2, AppendProperties, FrontAppend
<1>4. Resolve(PreparedDisk, RootOf(u)) = HomeOf(u)
  BY <1>2 DEF HomeOf
<1>5. Components(RootOf(u)) \in Seq(Name)
  BY <1>2, ComponentsType DEF Split
<1>6. Walk(PreparedDisk, Components(RootOf(u))) # Nowhere
  BY <1>1, <1>4, DirIsPlace DEF Resolve
<1>7. Walk(d, Components(RootOf(u))) = Walk(PreparedDisk, Components(RootOf(u)))
  BY <1>1, <1>5, <1>6, WalkStable DEF Grown
<1> QED BY <1>1, <1>3, <1>4, <1>7 DEF Resolve, Grown

\* Where a session stands.
LEMMA HereFacts ==
  ASSUME NEW d \in Disks, NEW u \in Users, NEW b, Virtual(b), Leads(d, u, b), Stays(d, u, b),
         Grown(PreparedDisk, d)
  PROVE  LET x == RootOf(u) \o b
             at == Resolve(d, Fit(x, MaxPath))
         IN  /\ x \in Seq(Chars) /\ Len(x) = Len(RootOf(u)) + Len(b)
             /\ Len(RootOf(u)) \in Nat /\ Len(b) \in Nat
             /\ IsDir(d, at) /\ Below(HomeOf(u), at)
             /\ Len(x) < MaxPath => at = HomeOf(u) \o NamesOf(b) /\ Fit(x, MaxPath) = x
<1> DEFINE x == RootOf(u) \o b
           at == Resolve(d, Fit(x, MaxPath))
<1>1. b \in Seq(Chars) /\ RootOf(u) \in Seq(Chars)
  BY UserFacts DEF Virtual
<1>2. x \in Seq(Chars) /\ Len(x) = Len(RootOf(u)) + Len(b) /\ Len(RootOf(u)) \in Nat /\ Len(b) \in Nat
  BY <1>1, ConcatProperties, LenProperties
<1>3. MaxPath \in Nat
  BY PathsAssumption
<1>4. CASE Len(x) < MaxPath
  <2>1. Len(b) \in 0 .. Len(b) /\ Len(RootOf(u)) + Len(b) < MaxPath /\ SubSeq(b, 1, Len(b)) = b
    BY <1>1, <1>2, <1>4, SubSeqFull
  <2>2. Resolve(d, x) = HomeOf(u) \o NamesOf(b) /\ IsDir(d, Resolve(d, x))
    BY <2>1, Zenon DEF Leads
  <2>3. Fit(x, MaxPath) = x
    BY <1>4 DEF Fit
  <2>4. Below(HomeOf(u), HomeOf(u) \o NamesOf(b))
    BY <1>1, HomeFacts, NamesOfFacts, BelowConcat
  <2> HIDE DEF x
  <2> QED BY <1>2, <2>2, <2>3, <2>4 DEF x
<1>5. CASE ~(Len(x) < MaxPath)
  <2>1. IsDir(d, at) /\ Below(HomeOf(u), at)
    BY <1>2, <1>3, <1>5 DEF Stays
  <2> HIDE DEF at
  <2> QED BY <1>2, <1>5, <2>1 DEF at
<1> QED BY <1>4, <1>5

\* Where a command with a name is led.
LEMMA TargetFacts ==
  ASSUME NEW d \in Disks, NEW u \in Users, NEW b, Virtual(b), Leads(d, u, b), Stays(d, u, b),
         Grown(PreparedDisk, d), NEW name \in Seq(STRING), IsValidName(name)
  PROVE  LET x == RootOf(u) \o b
             at == Resolve(d, Fit(x \o Slash \o name, MaxPath))
         IN  /\ at \in Seq(Name) /\ Below(HomeOf(u), at)
             /\ Len(x) + 1 + Len(name) < MaxPath => at = Append(HomeOf(u) \o NamesOf(b), name)
             /\ Len(x) >= MaxPath - 1 => Fit(x \o Slash \o name, MaxPath) = Fit(x, MaxPath)
<1> DEFINE x == RootOf(u) \o b
           z == x \o Slash \o name
           at == Resolve(d, Fit(z, MaxPath))
           h == HomeOf(u)
           ns == NamesOf(b)
<1>1. /\ x \in Seq(Chars) /\ Len(x) = Len(RootOf(u)) + Len(b)
      /\ Len(RootOf(u)) \in Nat /\ Len(b) \in Nat
      /\ IsDir(d, Resolve(d, Fit(x, MaxPath))) /\ Below(h, Resolve(d, Fit(x, MaxPath)))
      /\ Len(x) < MaxPath => Resolve(d, Fit(x, MaxPath)) = h \o ns /\ Fit(x, MaxPath) = x
  BY HereFacts
<1>2. /\ name \in Name /\ name \in Seq(Chars) /\ name \notin {<<>>, <<".">>, <<".", ".">>}
      /\ Len(name) \in Nat
  BY ValidIsName, LenProperties
<1>3. Len(RootOf(u)) + 4 < MaxPath /\ MaxPath \in Nat \ {0}
  BY <1>1, UserFacts, PathsAssumption
<1>4. h \in Seq(Name) /\ h # <<>> /\ ns \in Seq(Name) /\ (b # <<>> => ns # <<>>) /\ (b = <<>> => ns = <<>>)
  BY HomeFacts, NamesOfFacts DEF Virtual
<1> HIDE DEF x, h, ns
<1>5. CASE Len(x) >= MaxPath - 1
  <2>1. Slash \o name \in Seq(Chars) /\ z = x \o (Slash \o name)
    <3>1. Slash \in Seq(Chars)
      BY DEF Slash, Chars
    <3> QED BY <1>1, <1>2, <3>1, JoinChars
  <2>2. Fit(z, MaxPath) = Fit(x, MaxPath)
    <3> DEFINE y == Slash \o name
    <3> HIDE DEF y, z
    <3>1. y \in Seq(Chars) /\ z = x \o y
      BY <2>1 DEF y, z
    <3> QED BY <1>1, <1>3, <1>5, <3>1, FitLong
  <2>3. at \in Seq(Name) /\ Below(h, at)
    BY <1>1, <2>2, DirIsPlace
  <2>4. ~(Len(x) + 1 + Len(name) < MaxPath)
    BY <1>1, <1>2, <1>3, <1>5
  <2> HIDE DEF at, z
  <2> QED BY <2>2, <2>3, <2>4 DEF at, z, x, h
<1>6. CASE Len(x) < MaxPath - 1
  <2> DEFINE k == MaxPath - 1 - Len(x)
             q == Fit(name, k)
  <2>1. Fit(z, MaxPath) = x \o Slash \o q
    BY <1>1, <1>2, <1>3, <1>6, FitJoin
  <2>2. k \in Nat \ {0} /\ Len(x) \in Nat
    BY <1>1, <1>3, <1>6
  <2> HIDE DEF k
  <2>3. /\ q \in Seq(Chars) /\ Len(q) \in Nat /\ \A i \in 1 .. Len(q) : q[i] = name[i]
        /\ Len(name) < k => q = name
        /\ Len(name) >= k => Len(q) = k - 1
    BY <1>2, <2>2, FitFacts
  <2>4. q \in Name
    <3>1. CASE Len(name) < k
      <4> HIDE DEF q
      <4> QED BY <1>2, <2>3, <3>1
    <3>2. CASE ~(Len(name) < k)
      <4>1. k - 1 \in 0 .. Len(name)
        BY <1>2, <2>2, <3>2
      <4>2. q = SubSeq(name, 1, k - 1)
        BY <3>2 DEF Fit
      <4> HIDE DEF q
      <4> QED BY <1>2, <4>1, <4>2, PrefixType DEF Name
    <3> QED BY <3>1, <3>2
  <2> HIDE DEF q
  <2>5. Resolve(d, x) = h \o ns /\ IsDir(d, h \o ns)
    <3>1. Len(x) < MaxPath
      BY <1>1, <1>3, <1>6
    <3>2. Resolve(d, Fit(x, MaxPath)) = h \o ns /\ Fit(x, MaxPath) = x
      BY <1>1, <3>1
    <3> QED BY <1>1, <3>2
  <2>6. at = Step(d, h \o ns, q)
    BY <1>1, <2>1, <2>4, <2>5, ResolveJoin
  <2> HIDE DEF at
  <2>7. at \in Seq(Name)
    BY <2>4, <2>5, <2>6, StepArrives
  <2>8. h \o ns \in Seq(Name) /\ Below(h, h \o ns)
    BY <1>4, ConcatProperties, BelowConcat
  <2>9. Below(h, at)
    <3>1. CASE q \in {<<>>, <<".">>}
      BY <2>5, <2>6, <2>8, <3>1, StepStay
    <3>2. CASE q = <<".", ".">>
      <4>1. Len(q) = 2 /\ q # name
        BY <1>2, <3>2
      <4>2. k = 3
        BY <2>2, <2>3, <4>1, <1>2
      <4>3. b # <<>>
        <5>1. ASSUME b = <<>> PROVE FALSE
          <6>1. Len(b) = 0
            BY <5>1, EmptySeq
          <6> QED BY <1>1, <1>3, <4>2, <6>1 DEF k
        <5> QED BY <5>1
      <4>4. ns = Append(Front(ns), ns[Len(ns)]) /\ Front(ns) \in Seq(Name) /\ ns[Len(ns)] \in Name
        BY <1>4, <4>3, FrontLast, FrontType
      <4> DEFINE a == Front(ns)
                 c == ns[Len(ns)]
      <4>5. a \in Seq(Name) /\ c \in Name /\ ns = Append(a, c)
        BY <4>4
      <4> HIDE DEF a, c
      <4>6. h \o ns = Append(h \o a, c) /\ h \o a \in Seq(Name)
        <5>1. ns = a \o <<c>> /\ <<c>> \in Seq(Name) /\ h \o a \in Seq(Name)
          BY <1>4, <4>5, AppendIsConcat, ConcatProperties
        <5>2. h \o (a \o <<c>>) = (h \o a) \o <<c>>
          BY <1>4, <4>5, <5>1, ConcatAssociative
        <5>3. Append(h \o a, c) = (h \o a) \o <<c>>
          BY <4>5, <5>1, AppendIsConcat
        <5> QED BY <5>1, <5>2, <5>3
      <4>7. Front(h \o ns) = h \o a /\ h \o ns # <<>>
        <5> DEFINE ha == h \o a
        <5>1. ha \in Seq(Name) /\ h \o ns = Append(ha, c)
          BY <4>6
        <5> HIDE DEF ha
        <5>2. Front(Append(ha, c)) = ha /\ Append(ha, c) # <<>>
          BY <4>5, <5>1, FrontAppend, AppendProperties
        <5> QED BY <5>1, <5>2 DEF ha
      <4>8. at = h \o a
        BY <2>5, <2>6, <3>2, <4>7, StepUp
      <4> QED BY <1>4, <4>5, <4>8, BelowConcat
    <3>3. CASE q \notin {<<>>, <<".">>, <<".", ".">>}
      <4>1. at = Append(h \o ns, q)
        BY <2>5, <2>6, <3>3, StepDown
      <4>2. <<q>> \in Seq(Name) /\ ns \o <<q>> \in Seq(Name) /\ Append(h \o ns, q) = (h \o ns) \o <<q>>
        BY <1>4, <2>4, <2>8, AppendName, JoinNames
      <4>3. at = h \o (ns \o <<q>>)
        BY <1>4, <4>1, <4>2, ConcatAssociative
      <4> QED BY <1>4, <4>2, <4>3, BelowConcat
    <3> QED BY <3>1, <3>2, <3>3
  <2>10. ASSUME Len(x) + 1 + Len(name) < MaxPath PROVE at = Append(h \o ns, name)
    <3>1. q = name
      BY <1>1, <1>2, <1>3, <2>2, <2>3, <2>10 DEF k
    <3> QED BY <1>2, <2>5, <2>6, <3>1, StepDown
  <2>11. ~(Len(x) >= MaxPath - 1)
    BY <1>1, <1>3, <1>6
  <2> QED BY <2>7, <2>9, <2>10, <2>11 DEF at, x, h, ns
<1> QED BY <1>1, <1>3, <1>5, <1>6

CwdOK(cwd) ==
  /\ cwd \in Seq(Chars) /\ cwd # <<>> /\ cwd[1] = Root
  /\ Len(cwd) < MaxPath /\ (Len(cwd) >= 2 => cwd[2] # Root)

LEMMA CwdIsVirtual ==
  ASSUME NEW cwd, CwdOK(cwd)
  PROVE  /\ Virtual(Base(cwd)) /\ Len(Base(cwd)) \in Nat
         /\ Base(cwd) # <<>> => Base(cwd) = cwd /\ Len(cwd) >= 2 /\ cwd[2] # Root
<1>1. cwd \in Seq(Chars) /\ cwd # <<>> /\ cwd[1] = Root /\ Len(cwd) \in Nat \ {0}
  BY EmptySeq DEF CwdOK
<1>2. CASE cwd = Slash
  <2>1. Base(cwd) = <<>>
    BY <1>2 DEF Base
  <2>2. <<>> \in Seq(Chars) /\ Len(<<>>) = 0
    BY EmptySeq
  <2>3. Virtual(<<>>) /\ Len(<<>>) \in Nat
    <3>1. Len(<<>>) \in Nat
      BY <2>2
    <3>2. Virtual(<<>>)
      BY <2>2, Zenon DEF Virtual
    <3> QED BY <3>1, <3>2
  <2> QED BY <2>1, <2>3, Zenon
<1>3. CASE cwd # Slash
  <2>1. Base(cwd) = cwd
    BY <1>3 DEF Base
  <2>2. ASSUME Len(cwd) < 2 PROVE FALSE
    <3> DEFINE n == Len(cwd)
    <3>0. n \in Nat \ {0} /\ n < 2
      BY <1>1, <2>2
    <3> HIDE DEF n
    <3>1. n = 1
      BY <3>0
    <3>2. Slash \in Seq(Chars) /\ Len(Slash) = 1 /\ Slash[1] = Root
      BY DEF Slash, Chars
    <3>3. \A i \in 1 .. Len(cwd) : cwd[i] = Slash[i]
      BY <1>1, <3>1, <3>2 DEF n
    <3> QED BY <1>1, <1>3, <3>1, <3>2, <3>3, SeqEqual DEF n
  <2>3. Len(cwd) >= 2
    BY <1>1, <2>2
  <2> QED BY <1>1, <1>3, <2>1, <2>3 DEF CwdOK, Virtual
<1> QED BY <1>2, <1>3

LEMMA PrefixPrefix ==
  ASSUME NEW A, NEW p \in Seq(A), NEW n \in 0 .. Len(p), NEW i \in 0 .. n
  PROVE  SubSeq(SubSeq(p, 1, n), 1, i) = SubSeq(p, 1, i)
<1> DEFINE q == SubSeq(p, 1, n)
<1>1. Len(p) \in Nat /\ i \in 0 .. Len(p)
  BY LenProperties
<1>2. q \in Seq(A) /\ Len(q) = n /\ \A j \in 1 .. n : q[j] = p[j]
  BY PrefixType
<1> HIDE DEF q
<1>3. i \in 0 .. Len(q)
  BY <1>2
<1> DEFINE a == SubSeq(q, 1, i)
           b == SubSeq(p, 1, i)
<1>4. a \in Seq(A) /\ Len(a) = i /\ \A j \in 1 .. i : a[j] = q[j]
  BY <1>2, <1>3, PrefixType
<1>5. b \in Seq(A) /\ Len(b) = i /\ \A j \in 1 .. i : b[j] = p[j]
  BY <1>1, PrefixType
<1> HIDE DEF a, b
<1>6. \A j \in 1 .. Len(a) : a[j] = b[j]
  BY <1>1, <1>2, <1>4, <1>5
<1>7. a = b
  BY <1>4, <1>5, <1>6, SeqEqual
<1> QED BY <1>7 DEF a, b, q

LEMMA LastSlashFacts ==
  ASSUME NEW cwd, CwdOK(cwd)
  PROVE  /\ LastSlash(cwd) \in 1 .. Len(cwd) /\ cwd[LastSlash(cwd)] = Root
         /\ \A j \in LastSlash(cwd) + 1 .. Len(cwd) : cwd[j] # Root
<1> DEFINE n == Len(cwd)
           LastUpTo(i, k) == cwd[i] = Root /\ \A j \in i + 1 .. k : cwd[j] # Root
           S == {k \in 0 .. n : k = 0 \/ \E i \in 1 .. k : LastUpTo(i, k)}
<1>1. n \in Nat \ {0} /\ cwd[1] = Root /\ DOMAIN cwd = 1 .. n
  BY EmptySeq, LenProperties DEF CwdOK
<1>2. 0 \in S
  BY <1>1
<1>3. ASSUME NEW k \in 0 .. n - 1, k \in S PROVE k + 1 \in S
  <2>1. k + 1 \in 0 .. n /\ k + 1 \in 1 .. k + 1
    BY <1>1
  <2>2. CASE cwd[k + 1] = Root
    <3>1. LastUpTo(k + 1, k + 1)
      BY <1>1, <2>2
    <3> QED BY <2>1, <3>1
  <2>3. CASE cwd[k + 1] # Root
    <3>1. k # 0
      BY <1>1, <2>3
    <3>2. PICK i \in 1 .. k : LastUpTo(i, k)
      BY <1>3, <3>1
    <3>3. i \in 1 .. k + 1 /\ LastUpTo(i, k + 1)
      BY <1>1, <2>3, <3>2
    <3> QED BY <2>1, <3>3
  <2> QED BY <2>2, <2>3
<1>4. n \in S
  <2>1. 0 .. n \subseteq S
    <3> HIDE DEF S
    <3> QED BY <1>1, <1>2, <1>3, UpTo
  <2> QED BY <1>1, <2>1
<1>5. \E i \in DOMAIN cwd : cwd[i] = Root /\ \A j \in i + 1 .. Len(cwd) : cwd[j] # Root
  BY <1>1, <1>4
<1>6. LastSlash(cwd) \in DOMAIN cwd /\ cwd[LastSlash(cwd)] = Root
      /\ \A j \in LastSlash(cwd) + 1 .. Len(cwd) : cwd[j] # Root
  BY <1>5 DEF LastSlash
<1> QED BY <1>1, <1>6

\* cd .. cuts the path off at its last '/'.
LEMMA ParentFacts ==
  ASSUME NEW cwd, CwdOK(cwd), cwd # Slash
  PROVE  /\ LastSlash(cwd) \in 1 .. Len(cwd) /\ Len(cwd) \in Nat /\ cwd[LastSlash(cwd)] = Root
         /\ CwdOK(ParentOf(cwd))
         /\ Base(ParentOf(cwd)) = SubSeq(cwd, 1, LastSlash(cwd) - 1)
<1> DEFINE l == LastSlash(cwd)
<1>1. l \in 1 .. Len(cwd) /\ cwd[l] = Root
  BY LastSlashFacts
<1>2. /\ cwd \in Seq(Chars) /\ Len(cwd) \in Nat \ {0} /\ cwd[1] = Root
      /\ Len(cwd) < MaxPath /\ (Len(cwd) >= 2 => cwd[2] # Root) /\ MaxPath \in Nat
  BY EmptySeq, PathsAssumption DEF CwdOK
<1>3. CASE l = 1
  <2>1. ParentOf(cwd) = Slash
    BY <1>3 DEF ParentOf
  <2>2. SubSeq(cwd, 1, 0) = <<>>
    BY <1>2, NoPrefix
  <2>3. Slash \in Seq(Chars) /\ Slash # <<>> /\ Slash[1] = Root /\ Len(Slash) = 1
    BY DEF Slash, Chars
  <2>4. 1 < MaxPath
    <3>1. Len(cwd) # 1
      <4>1. ASSUME Len(cwd) = 1 PROVE FALSE
        <5>1. \A i \in 1 .. Len(cwd) : cwd[i] = Slash[i]
          BY <1>2, <2>3, <4>1
        <5> QED BY <1>2, <2>3, <4>1, <5>1, SeqEqual
      <4> QED BY <4>1
    <3> QED BY <1>2, <3>1
  <2>5. CwdOK(Slash) /\ Base(Slash) = <<>>
    BY <2>3, <2>4 DEF CwdOK, Base
  <2>6. l - 1 = 0
    BY <1>3
  <2> HIDE DEF l
  <2> QED BY <1>1, <1>2, <2>1, <2>2, <2>5, <2>6, Zenon DEF l
<1>4. CASE l # 1
  <2> DEFINE c == SubSeq(cwd, 1, l - 1)
  <2>1. ParentOf(cwd) = c
    BY <1>4 DEF ParentOf
  <2> HIDE DEF l
  <2>2. l - 1 \in 0 .. Len(cwd) /\ l # 2 /\ l - 1 >= 2 /\ l - 1 < Len(cwd)
    BY <1>1, <1>2, <1>4
  <2>3. c \in Seq(Chars) /\ Len(c) = l - 1 /\ \A i \in 1 .. l - 1 : c[i] = cwd[i]
    BY <1>2, <2>2, PrefixType
  <2> HIDE DEF c
  <2>4. c[1] = Root /\ c[2] # Root /\ Len(c) < MaxPath /\ Len(c) >= 2 /\ c # <<>>
    BY <1>1, <1>2, <2>2, <2>3, EmptySeq
  <2>5. c # Slash
    BY <2>4 DEF Slash
  <2>6. CwdOK(c) /\ Base(c) = c
    BY <2>3, <2>4, <2>5 DEF CwdOK, Base
  <2> QED BY <1>1, <1>2, <2>1, <2>6 DEF c, l
<1> QED BY <1>3, <1>4

LEMMA ParentLeads ==
  ASSUME NEW d \in Disks, NEW u \in Users, NEW cwd, CwdOK(cwd),
         Leads(d, u, Base(cwd)), Stays(d, u, Base(cwd))
  PROVE  /\ CwdOK(ParentOf(cwd))
         /\ Leads(d, u, Base(ParentOf(cwd))) /\ Stays(d, u, Base(ParentOf(cwd)))
<1>1. CASE cwd = Slash
  BY <1>1 DEF ParentOf
<1>2. CASE cwd # Slash
  <2> DEFINE l == LastSlash(cwd)
             c == SubSeq(cwd, 1, l - 1)
  <2>1. /\ l \in 1 .. Len(cwd) /\ Len(cwd) \in Nat /\ cwd[l] = Root
        /\ CwdOK(ParentOf(cwd)) /\ Base(ParentOf(cwd)) = c
    BY <1>2, ParentFacts
  <2>2. cwd \in Seq(Chars) /\ Base(cwd) = cwd
    BY <1>2 DEF CwdOK, Base
  <2> HIDE DEF l
  <2>3. l - 1 \in 0 .. Len(cwd) /\ (l - 1) + 1 = l /\ l - 1 \in Nat
    BY <2>1
  <2>4. c \in Seq(Chars) /\ Len(c) = l - 1 /\ \A i \in 1 .. l - 1 : c[i] = cwd[i]
    BY <2>2, <2>3, PrefixType
  <2>5. RootOf(u) \in Seq(Chars) /\ Len(RootOf(u)) \in Nat /\ MaxPath \in Nat
    BY UserFacts, LenProperties, PathsAssumption
  <2>6. Leads(d, u, c)
    <3>1. SUFFICES ASSUME NEW i \in 0 .. Len(c), i = Len(c) \/ c[i + 1] = Root,
                          Len(RootOf(u)) + i < MaxPath
                   PROVE  LET at == Resolve(d, RootOf(u) \o SubSeq(c, 1, i))
                          IN  at = HomeOf(u) \o NamesOf(SubSeq(c, 1, i)) /\ IsDir(d, at)
      BY DEF Leads
    <3>2. SubSeq(c, 1, i) = SubSeq(cwd, 1, i)
      BY <2>2, <2>3, <2>4, PrefixPrefix
    <3>3. i \in 0 .. Len(cwd)
      BY <2>1, <2>3, <2>4
    <3>4. cwd[i + 1] = Root
      <4>1. CASE i = Len(c)
        BY <2>1, <2>3, <2>4, <4>1
      <4>2. CASE i # Len(c)
        <5>1. i + 1 \in 1 .. l - 1
          BY <2>3, <2>4, <4>2
        <5> QED BY <2>4, <3>1, <4>2, <5>1
      <4> QED BY <4>1, <4>2
    <3>5. LET at == Resolve(d, RootOf(u) \o SubSeq(cwd, 1, i))
          IN  at = HomeOf(u) \o NamesOf(SubSeq(cwd, 1, i)) /\ IsDir(d, at)
      BY <2>2, <3>1, <3>3, <3>4 DEF Leads
    <3> HIDE DEF c
    <3> QED BY <3>2, <3>5
  <2>7. Stays(d, u, c)
    <3>1. SUFFICES ASSUME Len(RootOf(u)) + Len(c) >= MaxPath
                   PROVE  LET at == Resolve(d, Fit(RootOf(u) \o c, MaxPath))
                          IN  IsDir(d, at) /\ Below(HomeOf(u), at)
      BY DEF Stays
    <3>2. PICK q \in Seq(Chars) : cwd = c \o <<cwd[l]>> \o q
      BY <2>1, <2>2, CutAt DEF l
    <3> HIDE DEF c
    <3> DEFINE y == Slash \o q
               x == RootOf(u) \o c
    <3>3. y \in Seq(Chars) /\ cwd = c \o y
      <4>1. Slash \in Seq(Chars) /\ cwd = c \o Slash \o q
        BY <2>1, <3>2 DEF Slash, Chars
      <4> QED BY <2>4, <4>1, ConcatProperties, ConcatAssociative
    <3> HIDE DEF y
    <3>4. x \in Seq(Chars) /\ Len(x) = Len(RootOf(u)) + Len(c) /\ RootOf(u) \o cwd = x \o y
      <4>1. x \in Seq(Chars) /\ Len(x) = Len(RootOf(u)) + Len(c)
        BY <2>4, <2>5, ConcatProperties
      <4>2. (RootOf(u) \o c) \o y = RootOf(u) \o (c \o y)
        BY <2>4, <2>5, <3>3, ConcatAssociative
      <4> QED BY <3>3, <4>1, <4>2
    <3>5. Len(RootOf(u)) + Len(cwd) >= MaxPath
      BY <2>1, <2>3, <2>4, <2>5, <3>1
    <3>6. MaxPath \in Nat \ {0} /\ Len(x) >= MaxPath - 1
      <4>1. MaxPath # 0
        BY <2>1, PathsAssumption DEF CwdOK
      <4> QED BY <2>4, <2>5, <3>1, <3>4, <4>1
    <3> HIDE DEF x
    <3>7. Fit(x \o y, MaxPath) = Fit(x, MaxPath)
      BY <3>3, <3>4, <3>6, FitLong
    <3>8. LET at == Resolve(d, Fit(RootOf(u) \o cwd, MaxPath))
          IN  IsDir(d, at) /\ Below(HomeOf(u), at)
      BY <2>2, <3>5 DEF Stays
    <3> QED BY <3>4, <3>7, <3>8 DEF x
  <2> QED BY <2>1, <2>6, <2>7
<1> QED BY <1>1, <1>2

\* A directory that a path leads to stays where it is.
LEMMA ResolveStable ==
  ASSUME NEW d \in Disks, NEW d2 \in Disks, Grown(d, d2), NEW path \in Seq(Chars),
         IsDir(d, Resolve(d, path))
  PROVE  Resolve(d2, path) = Resolve(d, path) /\ IsDir(d2, Resolve(d2, path))
<1>1. Components(path) \in Seq(Name)
  BY ComponentsType DEF Split
<1>2. Walk(d, Components(path)) # Nowhere
  BY DirIsPlace DEF Resolve
<1>3. Walk(d2, Components(path)) = Walk(d, Components(path))
  BY <1>1, <1>2, WalkStable DEF Grown
<1> QED BY <1>3 DEF Resolve, Grown

LEMMA SlashBetween ==
  ASSUME NEW p \in Seq(Chars), NEW q \in Seq(Chars), NEW r \in Seq(Chars)
  PROVE  /\ p \o (q \o Slash \o r) = (p \o q) \o Slash \o r
         /\ q \o Slash \o r = q \o (Slash \o r) /\ Slash \o r \in Seq(Chars)
<1>1. Slash \in Seq(Chars)
  BY DEF Slash, Chars
<1>2. /\ q \o Slash \in Seq(Chars) /\ p \o q \in Seq(Chars) /\ Slash \o r \in Seq(Chars)
      /\ (q \o Slash) \o r = q \o (Slash \o r)
  BY <1>1, ConcatProperties, ConcatAssociative
<1> DEFINE qs == q \o Slash
<1>3. p \o qs = (p \o q) \o Slash
  BY <1>1, ConcatAssociative
<1>4. qs \in Seq(Chars)
  BY <1>2
<1> HIDE DEF qs
<1>5. p \o (qs \o r) = (p \o qs) \o r
  BY <1>4, ConcatAssociative
<1> QED BY <1>2, <1>3, <1>5 DEF qs

LEMMA AppendAfter ==
  ASSUME NEW A, NEW p \in Seq(A), NEW q \in Seq(A), NEW c \in A
  PROVE  Append(p \o q, c) = p \o Append(q, c) /\ p \o q \in Seq(A)
<1>1. p \o q \in Seq(A) /\ <<c>> \in Seq(A)
  BY ConcatProperties
<1>2. Append(p \o q, c) = (p \o q) \o <<c>> /\ Append(q, c) = q \o <<c>>
  BY <1>1, AppendIsConcat
<1>3. (p \o q) \o <<c>> = p \o (q \o <<c>>)
  BY <1>1, ConcatAssociative
<1> QED BY <1>1, <1>2, <1>3

LEMMA NameAfter ==
  ASSUME NEW p \in Seq(Name), NEW q \in Seq(Name), NEW c \in Name
  PROVE  Append(p \o q, c) = p \o Append(q, c) /\ p \o q \in Seq(Name)
BY AppendAfter

LEMMA WordAfter ==
  ASSUME NEW p \in Seq(Seq(Chars)), NEW q \in Seq(Seq(Chars)), NEW c \in Seq(Chars)
  PROVE  /\ Append(p \o q, c) = p \o Append(q, c) /\ p \o q \in Seq(Seq(Chars))
         /\ Append(q, c) \in Seq(Seq(Chars)) /\ Append(q, c) # <<>>
<1>1. Append(p \o q, c) = p \o Append(q, c) /\ p \o q \in Seq(Seq(Chars))
  BY AppendAfter
<1>2. Append(q, c) \in Seq(Seq(Chars)) /\ Append(q, c) # <<>>
  BY AppendType
<1> QED BY <1>1, <1>2

LEMMA PrefixConcat ==
  ASSUME NEW A, NEW p \in Seq(A), NEW q \in Seq(A), NEW i \in 0 .. Len(p)
  PROVE  SubSeq(p \o q, 1, i) = SubSeq(p, 1, i)
<1> DEFINE x == p \o q
           a == SubSeq(x, 1, i)
           b == SubSeq(p, 1, i)
<1>1. /\ x \in Seq(A) /\ Len(x) = Len(p) + Len(q) /\ Len(p) \in Nat /\ Len(q) \in Nat
      /\ \A j \in 1 .. Len(p) : x[j] = p[j]
  BY ConcatProperties, LenProperties
<1> HIDE DEF x
<1>2. i \in 0 .. Len(x)
  BY <1>1
<1>3. a \in Seq(A) /\ Len(a) = i /\ \A j \in 1 .. i : a[j] = x[j]
  BY <1>1, <1>2, PrefixType
<1>4. b \in Seq(A) /\ Len(b) = i /\ \A j \in 1 .. i : b[j] = p[j]
  BY PrefixType
<1> HIDE DEF a, b
<1>5. \A j \in 1 .. Len(a) : a[j] = b[j]
  BY <1>1, <1>3, <1>4
<1>6. a = b
  BY <1>3, <1>4, <1>5, SeqEqual
<1> QED BY <1>6 DEF a, b, x

\* cd into a child adds its name to the virtual path.
LEMMA ChildFacts ==
  ASSUME NEW cwd, CwdOK(cwd), NEW name \in Seq(STRING), IsValidName(name),
         ChildOf(cwd, name) # cwd
  PROVE  LET c == ChildOf(cwd, name)
         IN  /\ c = Base(cwd) \o Slash \o name /\ CwdOK(c) /\ Base(c) = c
             /\ Len(c) = Len(Base(cwd)) + 1 + Len(name)
<1> DEFINE b == Base(cwd)
           c == b \o Slash \o name
<1>1. /\ b \in Seq(Chars) /\ Len(b) \in Nat /\ (b # <<>> => Len(b) >= 2 /\ b[1] = Root /\ b[2] # Root)
  BY CwdIsVirtual DEF CwdOK, Virtual
<1>2. /\ name \in Seq(Chars) /\ name # <<>> /\ Len(name) \in Nat \ {0} /\ name[1] # Root
  <2>1. name \in Name /\ name \in Seq(Chars) /\ name # <<>>
    BY ValidIsName
  <2>2. Len(name) \in Nat \ {0}
    BY <2>1, EmptySeq, LenProperties
  <2> QED BY <2>1, <2>2 DEF Name
<1>3. ChildOf(cwd, name) = c /\ Len(b) + Len(name) + 2 < MaxPath
  <2>1. ~(Len(b) + Len(name) + 2 >= MaxPath)
    BY DEF ChildOf, Base
  <2>2. MaxPath \in Nat
    BY PathsAssumption
  <2> QED BY <1>1, <1>2, <2>1, <2>2 DEF ChildOf, Base
<1>4. MaxPath \in Nat
  BY PathsAssumption
<1>5. /\ c \in Seq(Chars) /\ Len(c) = Len(b) + 1 + Len(name)
      /\ \A i \in 1 .. Len(b) : c[i] = b[i]
      /\ c[Len(b) + 1] = Root
      /\ \A i \in 1 .. Len(name) : c[Len(b) + 1 + i] = name[i]
  BY <1>1, <1>2, JoinFacts
<1> HIDE DEF c, b
<1>6. Len(c) >= 2 /\ Len(c) < MaxPath
  BY <1>1, <1>2, <1>3, <1>4, <1>5
<1>7. c[1] = Root /\ c[2] # Root
  <2>1. CASE b = <<>>
    <3>1. Len(b) = 0
      BY <2>1, EmptySeq
    <3>2. 1 \in 1 .. Len(name) /\ Len(b) + 1 = 1 /\ Len(b) + 1 + 1 = 2
      BY <1>2, <3>1
    <3> QED BY <1>2, <1>5, <3>2
  <2>2. CASE b # <<>>
    BY <1>1, <1>5, <2>2
  <2> QED BY <2>1, <2>2
<1>8. c # <<>> /\ c # Slash
  <2>1. Len(Slash) = 1
    BY DEF Slash
  <2>2. Len(c) # 0 /\ Len(c) # 1
    BY <1>1, <1>2, <1>5, <1>6
  <2>3. c # <<>>
    BY <2>2, EmptySeq
  <2>4. c # Slash
    BY <2>1, <2>2
  <2> QED BY <2>3, <2>4
<1>9. CwdOK(c) /\ Base(c) = c
  BY <1>5, <1>6, <1>7, <1>8 DEF CwdOK, Base
<1> QED BY <1>3, <1>5, <1>9 DEF b, c

LEMMA ChildLeads ==
  ASSUME NEW d \in Disks, Grown(PreparedDisk, d), NEW u \in Users, NEW cwd, CwdOK(cwd),
         Leads(d, u, Base(cwd)), Stays(d, u, Base(cwd)), NEW name \in Seq(STRING), IsValidName(name),
         IsDir(d, Resolve(d, Fit(RootOf(u) \o Base(cwd) \o Slash \o name, MaxPath)))
  PROVE  LET c == ChildOf(cwd, name)
         IN  CwdOK(c) /\ Leads(d, u, Base(c)) /\ Stays(d, u, Base(c))
<1>1. CASE ChildOf(cwd, name) = cwd
  BY <1>1
<1>2. CASE ChildOf(cwd, name) # cwd
  <2> DEFINE b == Base(cwd)
             c == ChildOf(cwd, name)
             x == RootOf(u) \o b
             z == x \o Slash \o name
             h == HomeOf(u)
             ns == NamesOf(b)
  <2>1. c = b \o Slash \o name /\ CwdOK(c) /\ Base(c) = c /\ Len(c) = Len(b) + 1 + Len(name)
    BY <1>2, ChildFacts
  <2>2. Virtual(b) /\ b \in Seq(Chars) /\ Len(b) \in Nat
    BY CwdIsVirtual DEF Virtual
  <2>3. name \in Name /\ name \in Seq(Chars) /\ Len(name) \in Nat
    BY ValidIsName, LenProperties
  <2>4. /\ x \in Seq(Chars) /\ Len(x) = Len(RootOf(u)) + Len(b) /\ Len(RootOf(u)) \in Nat
        /\ RootOf(u) \in Seq(Chars) /\ h \in Seq(Name)
    BY <2>2, HereFacts, UserFacts, HomeFacts
  <2>5. LET at == Resolve(d, Fit(z, MaxPath))
        IN  /\ IsDir(d, at) /\ Below(h, at)
            /\ Len(x) + 1 + Len(name) < MaxPath => at = Append(h \o ns, name)
    BY <2>2, TargetFacts
  <2>6. c \in Seq(Chars) /\ RootOf(u) \o c = z /\ z \in Seq(Chars) /\ Len(z) = Len(x) + 1 + Len(name)
    <3> HIDE DEF b
    <3>1. x \o Slash \o name \in Seq(Chars) /\ Len(x \o Slash \o name) = Len(x) + 1 + Len(name)
      <4> HIDE DEF x
      <4> QED BY <2>3, <2>4, JoinFacts
    <3>2. RootOf(u) \o (b \o Slash \o name) = (RootOf(u) \o b) \o Slash \o name
      <4>1. b \in Seq(Chars) /\ name \in Seq(Chars) /\ RootOf(u) \in Seq(Chars)
        BY <2>2, <2>3, <2>4
      <4> QED BY <4>1, SlashBetween
    <3>3. b \o Slash \o name \in Seq(Chars)
      BY <2>2, <2>3, JoinFacts
    <3> HIDE DEF c
    <3> QED BY <2>1, <3>1, <3>2, <3>3
  <2>7. NamesOf(c) = Append(ns, name) /\ ns \in Seq(Name)
    BY <2>1, <2>2, <2>3, NamesOfJoin, NamesOfFacts
  <2>8. Append(h \o ns, name) = h \o NamesOf(c)
    <3>1. ns \in Seq(Name) /\ h \in Seq(Name) /\ name \in Name
      BY <2>3, <2>4, <2>7
    <3> HIDE DEF ns, h, c, x, z, b
    <3>2. Append(h \o ns, name) = h \o Append(ns, name)
      BY <3>1, NameAfter
    <3> QED BY <2>7, <3>2, Zenon
  <2>9. Leads(d, u, c)
    <3>1. SUFFICES ASSUME NEW i \in 0 .. Len(c), i = Len(c) \/ c[i + 1] = Root,
                          Len(RootOf(u)) + i < MaxPath
                   PROVE  LET at == Resolve(d, RootOf(u) \o SubSeq(c, 1, i))
                          IN  at = h \o NamesOf(SubSeq(c, 1, i)) /\ IsDir(d, at)
      BY DEF Leads
    <3>2. /\ \A j \in 1 .. Len(b) : c[j] = b[j]
          /\ c[Len(b) + 1] = Root
          /\ \A j \in 1 .. Len(name) : c[Len(b) + 1 + j] = name[j]
      <4> HIDE DEF b, c
      <4> QED BY <2>1, <2>2, <2>3, JoinFacts
    <3>3. CASE i <= Len(b)
      <4>1. i \in 0 .. Len(b)
        BY <2>2, <3>3
      <4>2. SubSeq(c, 1, i) = SubSeq(b, 1, i)
        <5>1. Slash \o name \in Seq(Chars) /\ c = b \o (Slash \o name)
          <6> HIDE DEF b, c
          <6> QED BY <2>1, <2>2, <2>3, SlashBetween
        <5> HIDE DEF c, b
        <5> QED BY <2>2, <4>1, <5>1, PrefixConcat
      <4>3. i = Len(b) \/ b[i + 1] = Root
        <5>1. CASE i # Len(b)
          <6>1. i + 1 \in 1 .. Len(b) /\ i # Len(c)
            BY <2>1, <2>2, <2>3, <4>1, <5>1
          <6> QED BY <3>1, <3>2, <6>1
        <5> QED BY <5>1
      <4>4. LET at == Resolve(d, RootOf(u) \o SubSeq(b, 1, i))
            IN  at = h \o NamesOf(SubSeq(b, 1, i)) /\ IsDir(d, at)
        <5>1. Leads(d, u, b)
          OBVIOUS
        <5> HIDE DEF b
        <5> QED BY <3>1, <4>1, <4>3, <5>1 DEF Leads
      <4> HIDE DEF c, b
      <4> QED BY <4>2, <4>4
    <3>4. CASE ~(i <= Len(b))
      <4>1. i = Len(c)
        <5>1. ASSUME i # Len(c) PROVE FALSE
          <6> DEFINE j == i - Len(b)
          <6>1. j \in 1 .. Len(name) /\ Len(b) + 1 + j = i + 1
            <7> HIDE DEF b, c
            <7>1. Len(c) = Len(b) + 1 + Len(name) /\ Len(b) \in Nat /\ Len(name) \in Nat
              BY <2>1, <2>2, <2>3
            <7>2. i \in 0 .. Len(c)
              BY <3>1
            <7> QED BY <3>4, <5>1, <7>1, <7>2
          <6>2. name[j] = Root
            BY <3>1, <3>2, <5>1, <6>1
          <6> QED BY <2>3, <6>1, <6>2 DEF Name
        <5> QED BY <5>1
      <4>2. SubSeq(c, 1, i) = c
        BY <2>6, <4>1, SubSeqFull
      <4>3. Len(x) + 1 + Len(name) < MaxPath /\ Len(z) < MaxPath
        BY <2>1, <2>2, <2>3, <2>4, <2>6, <3>1, <4>1
      <4>4. Fit(z, MaxPath) = z
        BY <4>3 DEF Fit
      <4>5. Resolve(d, z) = h \o NamesOf(c) /\ IsDir(d, Resolve(d, z))
        BY <2>5, <2>8, <4>3, <4>4
      <4> HIDE DEF c, z
      <4> QED BY <2>6, <4>2, <4>5
    <3> QED BY <3>3, <3>4
  <2>10. Stays(d, u, c)
    BY <2>5, <2>6 DEF Stays
  <2> HIDE DEF c
  <2> QED BY <2>1, <2>9, <2>10 DEF c
<1> QED BY <1>1, <1>2

(***************************************************************************)
(* The sessions.                                                           *)
(***************************************************************************)
Accounts == [login : BOOLEAN, user : Seq(Chars), root : Seq(Chars), cwd : Seq(Chars)]

\* Where a session is, and that its virtual path leads there if it fits.
Placed(d, me) ==
  /\ CwdOK(me.cwd)
  /\ me.login =>
       /\ me.user \in Users /\ me.root = RootOf(me.user)
       /\ Leads(d, me.user, Base(me.cwd)) /\ Stays(d, me.user, Base(me.cwd))

LEMMA PlacedGrown ==
  ASSUME NEW d \in Disks, NEW d2 \in Disks, Grown(d, d2), NEW me, Placed(d, me)
  PROVE  Placed(d2, me)
<1> DEFINE u == me.user
           b == Base(me.cwd)
<1>1. CwdOK(me.cwd)
  BY DEF Placed
<1>2. CASE ~me.login
  BY <1>1, <1>2 DEF Placed
<1>3. CASE me.login
  <2>1. u \in Users /\ me.root = RootOf(u) /\ Leads(d, u, b) /\ Stays(d, u, b)
    BY <1>3 DEF Placed
  <2>2. RootOf(u) \in Seq(Chars) /\ b \in Seq(Chars) /\ MaxPath \in Nat \ {0}
    <3>1. MaxPath # 0 /\ MaxPath \in Nat
      BY PathsAssumption, LenProperties
    <3> QED BY <1>1, <2>1, <3>1, UserFacts, CwdIsVirtual DEF Virtual
  <2> HIDE DEF u, b
  <2>3. Leads(d2, u, b)
    <3>1. SUFFICES ASSUME NEW i \in 0 .. Len(b), i = Len(b) \/ b[i + 1] = Root,
                          Len(RootOf(u)) + i < MaxPath
                   PROVE  LET at == Resolve(d2, RootOf(u) \o SubSeq(b, 1, i))
                          IN  at = HomeOf(u) \o NamesOf(SubSeq(b, 1, i)) /\ IsDir(d2, at)
      BY DEF Leads
    <3> DEFINE path == RootOf(u) \o SubSeq(b, 1, i)
    <3>2. Resolve(d, path) = HomeOf(u) \o NamesOf(SubSeq(b, 1, i)) /\ IsDir(d, Resolve(d, path))
      BY <2>1, <3>1 DEF Leads
    <3>3. path \in Seq(Chars)
      BY <2>2, <3>1, PrefixType, ConcatProperties
    <3> HIDE DEF path
    <3>4. Resolve(d2, path) = Resolve(d, path) /\ IsDir(d2, Resolve(d2, path))
      BY <3>2, <3>3, ResolveStable
    <3> QED BY <3>2, <3>4 DEF path
  <2>4. Stays(d2, u, b)
    <3>1. SUFFICES ASSUME Len(RootOf(u)) + Len(b) >= MaxPath
                   PROVE  LET at == Resolve(d2, Fit(RootOf(u) \o b, MaxPath))
                          IN  IsDir(d2, at) /\ Below(HomeOf(u), at)
      BY DEF Stays
    <3> DEFINE path == Fit(RootOf(u) \o b, MaxPath)
    <3>2. IsDir(d, Resolve(d, path)) /\ Below(HomeOf(u), Resolve(d, path))
      BY <2>1, <3>1 DEF Stays
    <3>3. path \in Seq(Chars)
      <4>1. RootOf(u) \o b \in Seq(Chars)
        BY <2>2, ConcatProperties
      <4> QED BY <2>2, <4>1, FitFacts
    <3> HIDE DEF path
    <3>4. Resolve(d2, path) = Resolve(d, path) /\ IsDir(d2, Resolve(d2, path))
      BY <3>2, <3>3, ResolveStable
    <3> QED BY <3>2, <3>4 DEF path
  <2> QED BY <1>1, <2>1, <2>3, <2>4 DEF Placed, u, b
<1> QED BY <1>2, <1>3

\* The inductive invariant: the disk only gains directories, and every session
\* is placed.
PathsInv ==
  /\ session \in [Sessions -> Accounts]
  /\ kind \in Disks /\ Grown(PreparedDisk, kind)
  /\ \A s \in Sessions : Placed(kind, session[s])

LEMMA RootCwd == CwdOK(Slash) /\ Base(Slash) = <<>> /\ Slash \in Seq(Chars)
<1>1. Slash \in Seq(Chars) /\ Slash # <<>> /\ Slash[1] = Root /\ Len(Slash) = 1
  BY DEF Slash, Chars
<1>2. MaxPath \in Nat /\ Len(DataRoot) \in Nat \ {0} /\ Len(DataRoot) < MaxPath
  BY PathsAssumption, LenProperties, EmptySeq
<1>3. 1 < MaxPath /\ ~(1 >= 2)
  BY <1>2
<1> QED BY <1>1, <1>3 DEF CwdOK, Base

\* What the paths of a session that has logged in are.
LEMMA PathsOf ==
  ASSUME PathsInv, NEW s \in Sessions, session[s].login
  PROVE  LET u == session[s].user
             b == Base(session[s].cwd)
             x == RootOf(u) \o b
         IN  /\ CwdOK(session[s].cwd) /\ session[s] \in Accounts
             /\ u \in Users /\ session[s].root = RootOf(u)
             /\ Virtual(b) /\ Leads(kind, u, b) /\ Stays(kind, u, b)
             /\ x \in Seq(Chars) /\ MaxPath \in Nat \ {0}
             /\ CurrentReal(s) = Fit(x, MaxPath)
             /\ \A name \in Seq(Chars) : Target(s, name) = Fit(x \o Slash \o name, MaxPath)
<1> DEFINE u == session[s].user
           b == Base(session[s].cwd)
           x == RootOf(u) \o b
<1>1. /\ CwdOK(session[s].cwd) /\ session[s] \in Accounts /\ u \in Users
      /\ session[s].root = RootOf(u) /\ Leads(kind, u, b) /\ Stays(kind, u, b)
  BY DEF PathsInv, Placed
<1>2. Virtual(b) /\ b \in Seq(Chars) /\ RootOf(u) \in Seq(Chars)
  BY <1>1, CwdIsVirtual, UserFacts DEF Virtual
<1>3. MaxPath \in Nat \ {0}
  BY PathsAssumption, LenProperties
<1>4. x \in Seq(Chars)
  <2> HIDE DEF u, b
  <2> QED BY <1>2, ConcatProperties
<1>5. CurrentReal(s) = Fit(x, MaxPath)
  BY <1>1 DEF CurrentReal, Base
<1>6. ASSUME NEW name \in Seq(Chars) PROVE Target(s, name) = Fit(x \o Slash \o name, MaxPath)
  <2> DEFINE y == Slash \o name
             r == Fit(x, MaxPath)
  <2> HIDE DEF x
  <2>1. x \o Slash \o name = x \o y /\ y \in Seq(Chars)
    BY <1>4, SlashBetween
  <2>2. r \in Seq(Chars)
    BY <1>3, <1>4, FitFacts
  <2> HIDE DEF r
  <2>3. r \o Slash \o name = r \o y
    BY <2>2, SlashBetween
  <2>4. Target(s, name) = Fit(r \o y, MaxPath)
    BY <1>5, <2>3 DEF Target, r
  <2> HIDE DEF y
  <2>5. Fit(Fit(x, MaxPath) \o y, MaxPath) = Fit(x \o y, MaxPath)
    BY <1>3, <1>4, <2>1, FitFit
  <2> QED BY <2>1, <2>4, <2>5 DEF r
<1> HIDE DEF x, b, u
<1> QED BY <1>1, <1>2, <1>3, <1>4, <1>5, <1>6 DEF x, b, u

\* Where the commands of a session are led.
LEMMA WherePathsLead ==
  ASSUME PathsInv, NEW s \in Sessions, session[s].login
  PROVE  LET u == session[s].user
             b == Base(session[s].cwd)
             x == RootOf(u) \o b
             here == Resolve(kind, CurrentReal(s))
         IN  /\ u \in Users /\ x \in Seq(Chars) /\ Len(x) = Len(session[s].root) + Len(b)
             /\ Len(x) \in Nat /\ NamesOf(b) \in Seq(Name) /\ HomeOf(u) \in Seq(Name)
             /\ IsDir(kind, here) /\ here # Nowhere /\ Below(HomeOf(u), here)
             /\ Len(x) < MaxPath => here = HomeOf(u) \o NamesOf(b)
             /\ \A name \in Seq(STRING) : IsValidName(name) =>
                  /\ At(s, name) \in Seq(Name) /\ Below(HomeOf(u), At(s, name))
                  /\ At(s, name) = Resolve(kind, Fit(x \o Slash \o name, MaxPath))
                  /\ Len(x) + 1 + Len(name) < MaxPath =>
                       At(s, name) = Append(HomeOf(u) \o NamesOf(b), name)
<1> DEFINE u == session[s].user
           b == Base(session[s].cwd)
           x == RootOf(u) \o b
<1>1. /\ u \in Users /\ session[s].root = RootOf(u)
      /\ Virtual(b) /\ Leads(kind, u, b) /\ Stays(kind, u, b) /\ x \in Seq(Chars)
      /\ CurrentReal(s) = Fit(x, MaxPath)
      /\ \A name \in Seq(Chars) : Target(s, name) = Fit(x \o Slash \o name, MaxPath)
  BY PathsOf
<1>2. kind \in Disks /\ Grown(PreparedDisk, kind)
  BY DEF PathsInv
<1> HIDE DEF u, b
<1>3. LET at == Resolve(kind, Fit(x, MaxPath))
      IN  /\ Len(x) = Len(RootOf(u)) + Len(b) /\ Len(RootOf(u)) \in Nat /\ Len(b) \in Nat
          /\ IsDir(kind, at) /\ Below(HomeOf(u), at)
          /\ Len(x) < MaxPath => at = HomeOf(u) \o NamesOf(b)
  BY <1>1, <1>2, HereFacts
<1>4. ASSUME NEW name \in Seq(STRING), IsValidName(name)
      PROVE  LET at == Resolve(kind, Fit(x \o Slash \o name, MaxPath))
             IN  /\ at \in Seq(Name) /\ Below(HomeOf(u), at)
                 /\ Len(x) + 1 + Len(name) < MaxPath => at = Append(HomeOf(u) \o NamesOf(b), name)
  BY <1>1, <1>2, <1>4, TargetFacts
<1>5. ASSUME NEW name \in Seq(STRING), IsValidName(name)
      PROVE  At(s, name) = Resolve(kind, Fit(x \o Slash \o name, MaxPath))
  <2>1. name \in Seq(Chars)
    BY <1>5, ValidIsName
  <2> QED BY <1>1, <2>1 DEF At
<1>6. NamesOf(b) \in Seq(Name) /\ HomeOf(u) \in Seq(Name) /\ Len(x) \in Nat
  BY <1>1, <1>2, <1>3, NamesOfFacts, HomeFacts DEF Virtual
<1>7. Resolve(kind, CurrentReal(s)) # Nowhere
  BY <1>1, <1>2, <1>3, DirIsPlace
<1> HIDE DEF x
<1> QED BY <1>1, <1>3, <1>4, <1>5, <1>6, <1>7 DEF x, u, b

LEMMA InvStaysHome == PathsInv => PathsStayHome
<1> SUFFICES ASSUME PathsInv, NEW s \in Sessions, session[s].login,
                    NEW path \in {CurrentReal(s)} \cup
                                 {Target(s, name) : name \in {n \in Names : IsValidName(n)}}
             PROVE  LET at == Resolve(kind, path)
                    IN  at = Nowhere \/ Below(HomeOf(session[s].user), at)
  BY DEF PathsStayHome
<1>1. CASE path = CurrentReal(s)
  BY <1>1, WherePathsLead
<1>2. CASE path # CurrentReal(s)
  <2>1. PICK name \in Names : IsValidName(name) /\ path = Target(s, name)
    BY <1>2
  <2>2. name \in Seq(STRING)
    BY PathsAssumption
  <2> QED BY <2>1, <2>2, WherePathsLead DEF At
<1> QED BY <1>1, <1>2

LEMMA InvStands == PathsInv => StandsSomewhere
<1> SUFFICES ASSUME PathsInv, NEW s \in Sessions
             PROVE  /\ Len(session[s].cwd) < MaxPath
                    /\ session[s].login =>
                         LET at == Resolve(kind, CurrentReal(s)) IN at # Nowhere /\ IsDir(kind, at)
  BY DEF StandsSomewhere
<1>1. Len(session[s].cwd) < MaxPath
  BY DEF PathsInv, Placed, CwdOK
<1>2. ASSUME session[s].login
      PROVE  LET at == Resolve(kind, CurrentReal(s)) IN at # Nowhere /\ IsDir(kind, at)
  BY <1>2, WherePathsLead
<1> QED BY <1>1, <1>2

-----------------------------------------------------------------------------
LEMMA NewSession ==
  ASSUME NEW d \in Disks, Grown(PreparedDisk, d), NEW u \in Users
  PROVE  /\ EnsureDir(d, RootOf(u)) = d
         /\ Leads(d, u, <<>>) /\ Stays(d, u, <<>>)
<1>1. /\ RootOf(u) \in Seq(Chars) /\ RootOf(u) # <<>> /\ Bare(RootOf(u)) = RootOf(u)
      /\ Len(RootOf(u)) + 4 < MaxPath /\ Len(RootOf(u)) \in Nat /\ MaxPath \in Nat
  BY UserFacts, LenProperties, PathsAssumption
<1>2. Resolve(d, RootOf(u)) = HomeOf(u) /\ IsDir(d, HomeOf(u)) /\ HomeOf(u) \in Seq(Name)
  BY HomeFacts
<1>3. HomeOf(u) # Nowhere
  BY <1>2, DirIsPlace
<1>4. EnsureDir(d, RootOf(u)) = MakeDir(d, RootOf(u))
  <2>1. Len(RootOf(u)) < MaxPath
    BY <1>1
  <2> QED BY <1>1, <1>2, <1>3, <2>1, EnsureLast
<1>5. MakeDir(d, RootOf(u)) = d
  BY <1>2, MakeDirAgain
<1>6. <<>> \in Seq(Chars) /\ <<>> \in Seq(Name) /\ Len(<<>>) = 0
  BY EmptySeq
<1>7. Leads(d, u, <<>>)
  <2>1. SUFFICES ASSUME NEW i \in 0 .. Len(<<>>)
                 PROVE  LET at == Resolve(d, RootOf(u) \o SubSeq(<<>>, 1, i))
                        IN  at = HomeOf(u) \o NamesOf(SubSeq(<<>>, 1, i)) /\ IsDir(d, at)
    BY DEF Leads
  <2>2. i = 0
    BY <1>6, <2>1
  <2>3. SubSeq(<<>>, 1, i) = <<>>
    BY <1>6, <2>2, NoPrefix, Zenon
  <2>4. RootOf(u) \o <<>> = RootOf(u) /\ HomeOf(u) \o <<>> = HomeOf(u) /\ NamesOf(<<>>) = <<>>
    BY <1>1, <1>2, ConcatEmptySeq, NamesOfFacts
  <2> QED BY <1>2, <2>3, <2>4, Zenon
<1>8. Stays(d, u, <<>>)
  <2>1. ~(Len(RootOf(u)) + Len(<<>>) >= MaxPath)
    BY <1>1, <1>6
  <2> QED BY <2>1 DEF Stays
<1> QED BY <1>4, <1>5, <1>7, <1>8

\* A step keeps the invariant if the disk loses no directory and each session
\* is left alone or placed anew.
LEMMA KeepsInv ==
  ASSUME PathsInv, kind' \in Disks, Grown(kind, kind'), session' \in [Sessions -> Accounts],
         \A s \in Sessions : session'[s] = session[s] \/ Placed(kind', session'[s])
  PROVE  PathsInv'
<1>1. Grown(PreparedDisk, kind')
  BY DEF PathsInv, Grown
<1>2. ASSUME NEW s \in Sessions PROVE Placed(kind', session'[s])
  <2>1. CASE session'[s] = session[s]
    <3>1. Placed(kind, session[s]) /\ kind \in Disks
      BY DEF PathsInv
    <3>2. Placed(kind', session[s])
      BY <3>1, PlacedGrown
    <3> QED BY <2>1, <3>2
  <2> QED BY <2>1
<1> QED BY <1>1, <1>2 DEF PathsInv

LEMMA SameDisk ==
  ASSUME NEW d
  PROVE  Grown(d, d)
BY DEF Grown

LEMMA LoginKeeps ==
  ASSUME PathsInv, NEW s \in Sessions, NEW u \in Users, Login(s, u)
  PROVE  PathsInv' /\ kind' = kind
<1> DEFINE me == [login |-> TRUE, user |-> u, root |-> RootOf(u), cwd |-> Slash]
<1>1. kind \in Disks /\ Grown(PreparedDisk, kind) /\ session \in [Sessions -> Accounts]
  BY DEF PathsInv
<1>2. kind' = kind
  BY <1>1, NewSession DEF Login
<1>3. me \in Accounts
  BY UserFacts, RootCwd DEF Accounts
<1>4. Placed(kind, me)
  <2>1. CwdOK(Slash) /\ Leads(kind, u, Base(Slash)) /\ Stays(kind, u, Base(Slash))
    BY <1>1, RootCwd, NewSession, Zenon
  <2> QED BY <2>1 DEF Placed
<1> HIDE DEF me
<1>5. session' = [session EXCEPT ![s] = me]
  BY DEF Login, me
<1>6. session' \in [Sessions -> Accounts]
  BY <1>1, <1>3, <1>5
<1>7. \A t \in Sessions : session'[t] = session[t] \/ Placed(kind', session'[t])
  BY <1>1, <1>2, <1>4, <1>5
<1> QED BY <1>1, <1>2, <1>6, <1>7, SameDisk, KeepsInv

\* A session that moves and changes nothing on the disk.
LEMMA MoveKeeps ==
  ASSUME PathsInv, NEW s \in Sessions, NEW cwd, CwdOK(cwd),
         session' = [session EXCEPT ![s].cwd = cwd], kind' = kind,
         session[s].login => LET u == session[s].user
                             IN  Leads(kind, u, Base(cwd)) /\ Stays(kind, u, Base(cwd))
  PROVE  PathsInv'
<1> DEFINE me == [session[s] EXCEPT !.cwd = cwd]
<1>1. kind \in Disks /\ session \in [Sessions -> Accounts] /\ Placed(kind, session[s])
  BY DEF PathsInv
<1>2. session[s] \in Accounts /\ cwd \in Seq(Chars)
  BY <1>1 DEF CwdOK
<1>3. /\ me \in Accounts /\ me.cwd = cwd /\ me.login = session[s].login
      /\ me.user = session[s].user /\ me.root = session[s].root
  BY <1>2 DEF Accounts
<1>4. session' = [session EXCEPT ![s] = me]
  OBVIOUS
<1> HIDE DEF me
<1>5. Placed(kind, me)
  BY <1>1, <1>3 DEF Placed
<1>6. session' \in [Sessions -> Accounts]
  BY <1>1, <1>3, <1>4
<1>7. \A t \in Sessions : session'[t] = session[t] \/ Placed(kind', session'[t])
  BY <1>1, <1>4, <1>5
<1> QED BY <1>1, <1>6, <1>7, SameDisk, KeepsInv

LEMMA CdKeeps ==
  ASSUME PathsInv, NEW s \in Sessions, NEW name \in Names, Cd(s, name)
  PROVE  PathsInv'
<1> DEFINE cwd == session[s].cwd
           u == session[s].user
           ok == IsValidName(name) /\ At(s, name) # Nowhere /\ IsDir(kind, At(s, name))
<1>1. /\ session[s].login /\ kind' = kind
      /\ session' = IF ok THEN [session EXCEPT ![s].cwd = ChildOf(@, name)] ELSE session
  BY DEF Cd
<1>2. name \in Seq(STRING) /\ kind \in Disks /\ Grown(PreparedDisk, kind)
      /\ session \in [Sessions -> Accounts]
  BY PathsAssumption DEF PathsInv
<1>3. CASE ~ok
  <2>1. session' = session
    BY <1>1, <1>3
  <2> QED BY <1>1, <1>2, <2>1, SameDisk, KeepsInv
<1>4. CASE ok
  <2>1. /\ CwdOK(cwd) /\ u \in Users /\ Leads(kind, u, Base(cwd)) /\ Stays(kind, u, Base(cwd))
    BY <1>1, PathsOf
  <2>2. IsDir(kind, Resolve(kind, Fit(RootOf(u) \o Base(cwd) \o Slash \o name, MaxPath)))
    BY <1>1, <1>2, <1>4, WherePathsLead
  <2>3. LET c == ChildOf(cwd, name)
        IN  CwdOK(c) /\ Leads(kind, u, Base(c)) /\ Stays(kind, u, Base(c))
    <3> HIDE DEF cwd, u
    <3>1. IsValidName(name)
      BY <1>4
    <3> QED BY <1>2, <2>1, <2>2, <3>1, ChildLeads
  <2> DEFINE c == ChildOf(cwd, name)
  <2>4. session' = [session EXCEPT ![s].cwd = c]
    BY <1>1, <1>2, <1>4
  <2>5. CwdOK(c) /\ Leads(kind, u, Base(c)) /\ Stays(kind, u, Base(c))
    BY <2>3
  <2> HIDE DEF c
  <2> QED BY <1>1, <2>4, <2>5, MoveKeeps
<1> QED BY <1>3, <1>4

LEMMA CdParentKeeps ==
  ASSUME PathsInv, NEW s \in Sessions, CdParent(s)
  PROVE  PathsInv'
<1> DEFINE cwd == session[s].cwd
           u == session[s].user
           c == ParentOf(cwd)
<1>1. session[s].login /\ kind' = kind /\ session' = [session EXCEPT ![s].cwd = c]
  BY DEF CdParent, PathsInv
<1>2. /\ CwdOK(cwd) /\ u \in Users /\ Leads(kind, u, Base(cwd)) /\ Stays(kind, u, Base(cwd))
      /\ kind \in Disks
  BY <1>1, PathsOf DEF PathsInv
<1>3. CwdOK(c) /\ Leads(kind, u, Base(c)) /\ Stays(kind, u, Base(c))
  <2> HIDE DEF cwd, u
  <2> QED BY <1>2, ParentLeads
<1> HIDE DEF c
<1> QED BY <1>1, <1>3, MoveKeeps

\* What mkdir, puts and rm make of the disk.
LEMMA DiskKeeps ==
  ASSUME PathsInv, session' = session,
         kind' = kind \/ (kind' \in Disks /\ Grown(kind, kind'))
  PROVE  PathsInv'
<1>1. kind \in Disks /\ session \in [Sessions -> Accounts]
  BY DEF PathsInv
<1>2. kind' \in Disks /\ Grown(kind, kind')
  BY <1>1, SameDisk
<1> QED BY <1>1, <1>2, KeepsInv

LEMMA MkdirKeeps ==
  ASSUME PathsInv, NEW s \in Sessions, NEW name \in Names, Mkdir(s, name)
  PROVE  PathsInv'
<1> DEFINE at == At(s, name)
<1>1. /\ session[s].login /\ session' = session
      /\ \/ kind' = kind
         \/ /\ IsValidName(name) /\ at # Nowhere /\ ~Exists(kind, at)
            /\ kind' = Put(kind, at, "dir")
  BY DEF Mkdir, Change
<1>2. CASE kind' = kind
  BY <1>1, <1>2, DiskKeeps
<1>3. CASE kind' # kind
  <2>1. IsValidName(name) /\ name \in Seq(STRING) /\ kind \in Disks
    BY <1>1, <1>3, PathsAssumption DEF PathsInv
  <2>2. at \in Seq(Name)
    BY <1>1, <2>1, WherePathsLead
  <2>3. ~IsDir(kind, at) /\ at # <<>>
    BY <1>1, <1>3 DEF Exists, IsDir
  <2>4. kind' = Put(kind, at, "dir")
    BY <1>1, <1>3
  <2> HIDE DEF at
  <2>5. Put(kind, at, "dir") \in Disks /\ Grown(kind, Put(kind, at, "dir"))
    BY <2>1, <2>2, <2>3, KindTypes, PutType, PutGrows
  <2> QED BY <1>1, <2>4, <2>5, DiskKeeps
<1> QED BY <1>2, <1>3

LEMMA PutsKeeps ==
  ASSUME PathsInv, NEW s \in Sessions, NEW name \in Names, Puts(s, name)
  PROVE  PathsInv'
<1> DEFINE at == At(s, name)
<1>1. /\ session[s].login /\ session' = session
      /\ \/ kind' = kind
         \/ /\ IsValidName(name) /\ at # Nowhere /\ ~IsDir(kind, at)
            /\ kind' = Put(kind, at, "file")
  BY DEF Puts, Change
<1>2. CASE kind' = kind
  BY <1>1, <1>2, DiskKeeps
<1>3. CASE kind' # kind
  <2>1. IsValidName(name) /\ name \in Seq(STRING) /\ kind \in Disks
    BY <1>1, <1>3, PathsAssumption DEF PathsInv
  <2>2. at \in Seq(Name)
    BY <1>1, <2>1, WherePathsLead
  <2>3. ~IsDir(kind, at) /\ at # <<>>
    BY <1>1, <1>3 DEF IsDir
  <2>4. kind' = Put(kind, at, "file")
    BY <1>1, <1>3
  <2> HIDE DEF at
  <2>5. Put(kind, at, "file") \in Disks /\ Grown(kind, Put(kind, at, "file"))
    BY <2>1, <2>2, <2>3, KindTypes, PutType, PutGrows
  <2> QED BY <1>1, <2>4, <2>5, DiskKeeps
<1> QED BY <1>2, <1>3

LEMMA RemoveType ==
  ASSUME NEW d \in Disks, NEW at, ~IsDir(d, at)
  PROVE  LET d2 == [p \in DOMAIN d \ {at} |-> d[p]]
         IN  d2 \in Disks /\ Grown(d, d2)
<1> DEFINE d2 == [p \in DOMAIN d \ {at} |-> d[p]]
<1>1. DOMAIN d \subseteq Seq(Name) \ {<<>>} /\ d \in [DOMAIN d -> Kinds]
  BY DiskType
<1>2. DOMAIN d2 = DOMAIN d \ {at} /\ \A p \in DOMAIN d2 : d2[p] = d[p]
  OBVIOUS
<1>3. d2 \in [DOMAIN d2 -> Kinds]
  BY <1>1
<1> HIDE DEF d2
<1>4. d2 \in Disks
  BY <1>1, <1>2, <1>3, DiskType
<1>5. Grown(d, d2)
  BY <1>2 DEF Grown, IsDir
<1> QED BY <1>4, <1>5 DEF d2

LEMMA RmKeeps ==
  ASSUME PathsInv, NEW s \in Sessions, NEW name \in Names, Rm(s, name)
  PROVE  PathsInv'
<1> DEFINE at == At(s, name)
<1>1. /\ session[s].login /\ session' = session
      /\ \/ kind' = kind
         \/ /\ IsValidName(name) /\ at \in DOMAIN kind /\ kind[at] = "file"
            /\ kind' = [p \in DOMAIN kind \ {at} |-> kind[p]]
  BY DEF Rm, Change
<1>2. CASE kind' = kind
  BY <1>1, <1>2, DiskKeeps
<1>3. CASE kind' # kind
  <2>1. kind \in Disks
    BY DEF PathsInv
  <2>2. ~IsDir(kind, at)
    <3>1. at # <<>>
      BY <1>1, <1>3, <2>1, DiskType
    <3> QED BY <1>1, <1>3, <3>1 DEF IsDir
  <2>3. kind' = [p \in DOMAIN kind \ {at} |-> kind[p]]
    BY <1>1, <1>3
  <2> HIDE DEF at
  <2> QED BY <1>1, <2>1, <2>2, <2>3, RemoveType, DiskKeeps
<1> QED BY <1>2, <1>3

LEMMA InitPathsInv == Init => PathsInv
<1> SUFFICES ASSUME Init PROVE PathsInv
  OBVIOUS
<1> DEFINE me == [login |-> FALSE, user |-> <<>>, root |-> <<>>, cwd |-> Slash]
<1>1. kind \in Disks /\ Grown(PreparedDisk, kind)
  BY PreparedFacts DEF Init, DirDisks, Grown
<1>2. me \in Accounts
  <2>1. <<>> \in Seq(Chars)
    BY EmptySeq
  <2> QED BY <2>1, RootCwd DEF Accounts
<1>3. Placed(kind, me)
  BY RootCwd DEF Placed
<1> HIDE DEF me
<1>4. session = [s \in Sessions |-> me]
  BY DEF Init, me
<1> QED BY <1>1, <1>2, <1>3, <1>4 DEF PathsInv

LEMMA NextKeepsPaths == PathsInv /\ [Next]_vars => PathsInv'
<1> SUFFICES ASSUME PathsInv, [Next]_vars PROVE PathsInv'
  OBVIOUS
<1>1. CASE session' = session /\ kind' = kind
  BY <1>1, DiskKeeps
<1>2. CASE ~(session' = session /\ kind' = kind)
  <2>1. PICK s \in Sessions :
          \/ \E u \in Users : Login(s, u)
          \/ CdParent(s)
          \/ \E name \in Names : Cd(s, name) \/ Mkdir(s, name) \/ Rm(s, name) \/ Puts(s, name)
    BY <1>2 DEF Next, vars, LoginRefused, TooEarly, Pwd, Ls, Gets
  <2>2. ASSUME NEW u \in Users, Login(s, u) PROVE PathsInv'
    BY <2>2, LoginKeeps
  <2>3. CASE CdParent(s)
    BY <2>3, CdParentKeeps
  <2>4. ASSUME NEW name \in Names, Cd(s, name) PROVE PathsInv'
    BY <2>4, CdKeeps
  <2>5. ASSUME NEW name \in Names, Mkdir(s, name) PROVE PathsInv'
    BY <2>5, MkdirKeeps
  <2>6. ASSUME NEW name \in Names, Rm(s, name) PROVE PathsInv'
    BY <2>6, RmKeeps
  <2>7. ASSUME NEW name \in Names, Puts(s, name) PROVE PathsInv'
    BY <2>7, PutsKeeps
  <2> QED BY <2>1, <2>2, <2>3, <2>4, <2>5, <2>6, <2>7
<1> QED BY <1>1, <1>2

LEMMA SessionsArePlaced == Spec => []PathsInv
<1>1. Init => PathsInv
  BY InitPathsInv
<1>2. PathsInv /\ [Next]_vars => PathsInv'
  BY NextKeepsPaths
<1> QED BY <1>1, <1>2, PTL DEF Spec

\* Whatever names clients send, however deep they descend and wherever a path
\* is cut to its buffer, no lookup of the server leads out of the directory of
\* the session's user: for every data_root, every set of users and every size
\* of the buffers in which the users' own directories fit.
THEOREM SessionsStayHome == Spec => []PathsStayHome
<1>1. PathsInv => PathsStayHome
  BY InvStaysHome
<1> QED BY <1>1, SessionsArePlaced, PTL

\* The virtual path of a session never outgrows its buffer, and the real path
\* made from it always leads to a directory that exists.
THEOREM SessionsStandSomewhere == Spec => []StandsSomewhere
<1>1. PathsInv => StandsSomewhere
  BY InvStands
<1> QED BY <1>1, SessionsArePlaced, PTL

-----------------------------------------------------------------------------
(***************************************************************************)
(* The refinement of Homes.  All entries deeper than the directory of      *)
(* directories are below it, and the tree of Homes is what is below it.    *)
(***************************************************************************)
Deep(d) == \A p \in DOMAIN d : Len(p) > Len(Top) => Below(Top, p)

LEMMA TopType == Top \in Seq(Name) /\ Len(Top) \in Nat
BY PreparedFacts, LenProperties

\* A path cut at a prefix of it, and put together again.
LEMMA CutPrefix ==
  ASSUME NEW A, NEW p \in Seq(A), NEW t \in Seq(A), Below(t, p)
  PROVE  LET q == SubSeq(p, Len(t) + 1, Len(p))
         IN  q \in Seq(A) /\ p = t \o q /\ Len(p) = Len(t) + Len(q)
<1> DEFINE n == Len(t)
           q == SubSeq(p, n + 1, Len(p))
<1>1. n \in Nat /\ Len(p) \in Nat /\ n <= Len(p) /\ SubSeq(p, 1, n) = t
  BY LenProperties DEF Below
<1> HIDE DEF n
<1>2. q \in Seq(A)
  <2>1. \A j \in n + 1 .. Len(p) : p[j] \in A
    BY <1>1, ElementOfSeq
  <2>2. n + 1 \in Int /\ Len(p) \in Int
    BY <1>1
  <2> QED BY <2>1, <2>2, SubSeqProperties
<1>3. p = t \o q
  <2>1. 1 \in 1 .. Len(p) + 1 /\ n \in 1 - 1 .. Len(p) /\ Len(p) \in n .. Len(p)
    BY <1>1
  <2>2. SubSeq(p, 1, n) \o SubSeq(p, n + 1, Len(p)) = SubSeq(p, 1, Len(p))
    BY <2>1, ConcatAdjacentSubSeq
  <2> QED BY <1>1, <2>2, SubSeqFull
<1> HIDE DEF q
<1>4. Len(t \o q) = Len(t) + Len(q)
  BY <1>2, ConcatProperties
<1> QED BY <1>2, <1>3, <1>4 DEF q, n

LEMMA CutConcat ==
  ASSUME NEW A, NEW t \in Seq(A), NEW q \in Seq(A)
  PROVE  /\ SubSeq(t \o q, Len(t) + 1, Len(t \o q)) = q
         /\ t \o q \in Seq(A) /\ Len(t \o q) = Len(t) + Len(q)
         /\ Len(t) \in Nat /\ Len(q) \in Nat
<1> DEFINE p == t \o q
           n == Len(t)
           a == SubSeq(p, n + 1, Len(p))
<1>1. /\ p \in Seq(A) /\ Len(p) = n + Len(q) /\ n \in Nat /\ Len(q) \in Nat
      /\ \A i \in 1 .. n + Len(q) : p[i] = IF i <= n THEN t[i] ELSE q[i - n]
  BY ConcatProperties, LenProperties
<1> HIDE DEF p, n
<1>2. /\ a \in Seq(A)
      /\ Len(a) = IF n + 1 <= Len(p) THEN Len(p) - (n + 1) + 1 ELSE 0
      /\ \A i \in 1 .. Len(p) - (n + 1) + 1 : a[i] = p[n + 1 + i - 1]
  <2>1. \A j \in n + 1 .. Len(p) : p[j] \in A
    BY <1>1, ElementOfSeq
  <2>2. n + 1 \in Int /\ Len(p) \in Int
    BY <1>1
  <2> QED BY <2>1, <2>2, SubSeqProperties
<1> HIDE DEF a
<1>3. Len(a) = Len(q)
  BY <1>1, <1>2
<1>4. \A i \in 1 .. Len(a) : a[i] = q[i]
  <2> SUFFICES ASSUME NEW i \in 1 .. Len(a) PROVE a[i] = q[i]
    OBVIOUS
  <2>1. /\ i \in 1 .. Len(p) - (n + 1) + 1 /\ n + 1 + i - 1 = n + i
        /\ n + i \in 1 .. n + Len(q) /\ ~(n + i <= n) /\ n + i - n = i
    BY <1>1, <1>3
  <2>2. a[i] = p[n + 1 + i - 1]
    BY <1>2, <2>1
  <2>3. p[n + i] = q[n + i - n]
    BY <1>1, <2>1
  <2> QED BY <2>1, <2>2, <2>3
<1>5. a = q
  BY <1>2, <1>3, <1>4, SeqEqual
<1> QED BY <1>1, <1>5 DEF a, p, n

\* The tree, and what changes in it when an entry of the disk does.
LEMMA TreeFacts ==
  ASSUME NEW d \in Disks, Deep(d)
  PROVE  /\ \A q \in DOMAIN TreeOf(d) : q \in Seq(Name) /\ TreeOf(d)[q] = d[Top \o q]
         /\ \A q \in Seq(Seq(Chars)) :
              q \in DOMAIN TreeOf(d) <=> q # <<>> /\ Top \o q \in DOMAIN d
<1> DEFINE Word == Seq(Chars)
           S == {SubSeq(p, Len(Top) + 1, Len(p)) : p \in {e \in DOMAIN d : Len(e) > Len(Top)}}
<1>1. DOMAIN d \subseteq Seq(Name) \ {<<>>}
  BY DiskType
<1>2. DOMAIN TreeOf(d) = S /\ \A q \in S : TreeOf(d)[q] = d[Top \o q]
  BY DEF TreeOf
<1>3. Top \in Seq(Name) /\ Len(Top) \in Nat
  BY TopType
<1>4. Name \subseteq Word /\ Seq(Name) \subseteq Seq(Word)
  <2>1. Name \subseteq Word
    BY DEF Name
  <2> QED BY <2>1
<1>5. ASSUME NEW q \in S PROVE q \in Seq(Name) /\ q # <<>> /\ Top \o q \in DOMAIN d
  <2>1. PICK p \in DOMAIN d : Len(p) > Len(Top) /\ q = SubSeq(p, Len(Top) + 1, Len(p))
    BY <1>5
  <2>2. p \in Seq(Name) /\ Below(Top, p)
    BY <1>1, <2>1 DEF Deep
  <2>3. q \in Seq(Name) /\ p = Top \o q /\ Len(p) = Len(Top) + Len(q)
    BY <1>3, <2>1, <2>2, CutPrefix
  <2>4. q # <<>>
    <3>1. Len(q) # 0
      BY <1>3, <2>1, <2>3, LenProperties
    <3> QED BY <3>1, EmptySeq
  <2> QED BY <2>3, <2>4
<1>6. ASSUME NEW q \in Seq(Word), q # <<>>, Top \o q \in DOMAIN d PROVE q \in S
  <2> DEFINE p == Top \o q
  <2>1. /\ SubSeq(p, Len(Top) + 1, Len(p)) = q /\ Len(p) = Len(Top) + Len(q) /\ Len(q) \in Nat
    <3>1. Top \in Seq(Word)
      BY <1>3, <1>4
    <3> HIDE DEF Word
    <3> QED BY <3>1, CutConcat
  <2>2. Len(p) > Len(Top)
    BY <1>3, <1>6, <2>1, EmptySeq
  <2> HIDE DEF p
  <2> QED BY <1>6, <2>1, <2>2 DEF p
<1> HIDE DEF S
<1> QED BY <1>2, <1>4, <1>5, <1>6

LEMMA TreeEqual ==
  ASSUME NEW d \in Disks, Deep(d), NEW T, T = [q \in DOMAIN T |-> T[q]],
         \A q \in DOMAIN T : q \in Seq(Name) /\ q # <<>> /\ Top \o q \in DOMAIN d /\ T[q] = d[Top \o q],
         \A q \in Seq(Name) : q # <<>> /\ Top \o q \in DOMAIN d => q \in DOMAIN T
  PROVE  TreeOf(d) = T
<1> DEFINE U == TreeOf(d)
<1>1. /\ \A q \in DOMAIN U : q \in Seq(Name) /\ U[q] = d[Top \o q]
      /\ \A q \in Seq(Seq(Chars)) : q \in DOMAIN U <=> q # <<>> /\ Top \o q \in DOMAIN d
  BY TreeFacts
<1>2. U = [q \in DOMAIN U |-> U[q]]
  BY DEF TreeOf
<1>3. \A q \in Seq(Name) : q \in Seq(Seq(Chars))
  <2>1. Name \subseteq Seq(Chars)
    BY DEF Name
  <2> QED BY <2>1
<1> HIDE DEF U
<1>4. DOMAIN U = DOMAIN T
  <2>1. ASSUME NEW q \in DOMAIN U PROVE q \in DOMAIN T
    BY <1>1, <1>3, <2>1
  <2>2. ASSUME NEW q \in DOMAIN T PROVE q \in DOMAIN U
    BY <1>1, <1>3, <2>2
  <2> QED BY <2>1, <2>2
<1>5. \A q \in DOMAIN T : U[q] = T[q]
  BY <1>1, <1>4
<1>6. U = T
  BY <1>2, <1>4, <1>5
<1> QED BY <1>6 DEF U

LEMMA SameBelowTop ==
  ASSUME NEW p \in Seq(Name), NEW q \in Seq(Name), Top \o p = Top \o q
  PROVE  p = q
<1>1. SubSeq(Top \o p, Len(Top) + 1, Len(Top \o p)) = p
  BY TopType, CutConcat
<1>2. SubSeq(Top \o q, Len(Top) + 1, Len(Top \o q)) = q
  BY TopType, CutConcat
<1> QED BY <1>1, <1>2, Zenon

LEMMA TreePut ==
  ASSUME NEW d \in Disks, Deep(d), NEW q \in Seq(Name), q # <<>>, NEW what \in Kinds
  PROVE  LET e == Put(d, Top \o q, what)
         IN  /\ Deep(e)
             /\ TreeOf(e) = [p \in DOMAIN TreeOf(d) \cup {q} |->
                               IF p = q THEN what ELSE TreeOf(d)[p]]
<1> DEFINE at == Top \o q
           e == Put(d, at, what)
           t == TreeOf(d)
           T == [p \in DOMAIN t \cup {q} |-> IF p = q THEN what ELSE t[p]]
<1>1. /\ at \in Seq(Name) /\ Len(at) = Len(Top) + Len(q) /\ Len(Top) \in Nat /\ Len(q) \in Nat
      /\ Below(Top, at)
  BY TopType, CutConcat, BelowConcat
<1>2. at # <<>>
  <2>1. Len(at) # 0
    BY <1>1, EmptySeq
  <2> HIDE DEF at
  <2> QED BY <2>1, EmptySeq
<1>3. \A p \in Seq(Name) : Top \o p = at => p = q
  BY SameBelowTop
<1>4. /\ \A p \in DOMAIN t : p \in Seq(Name) /\ t[p] = d[Top \o p]
      /\ \A p \in Seq(Seq(Chars)) : p \in DOMAIN t <=> p # <<>> /\ Top \o p \in DOMAIN d
  BY TreeFacts
<1>5. \A p \in Seq(Name) : p \in Seq(Seq(Chars))
  <2>1. Name \subseteq Seq(Chars)
    BY DEF Name
  <2> QED BY <2>1
<1> HIDE DEF at, t
<1>6. /\ e \in Disks /\ DOMAIN e = DOMAIN d \cup {at} /\ e[at] = what
      /\ \A p \in DOMAIN d : p # at => e[p] = d[p]
  BY <1>1, <1>2, PutType
<1> HIDE DEF e
<1>7. Deep(e)
  BY <1>1, <1>6 DEF Deep
<1>8. DOMAIN T = DOMAIN t \cup {q} /\ T[q] = what /\ \A p \in DOMAIN t : p # q => T[p] = t[p]
  OBVIOUS
<1>9. T = [p \in DOMAIN T |-> T[p]]
  OBVIOUS
<1> HIDE DEF T
<1>10. at = Top \o q
  BY DEF at
<1>11. \A p \in DOMAIN T : p \in Seq(Name) /\ p # <<>> /\ Top \o p \in DOMAIN e /\ T[p] = e[Top \o p]
  <2> SUFFICES ASSUME NEW p \in DOMAIN T
               PROVE  p \in Seq(Name) /\ p # <<>> /\ Top \o p \in DOMAIN e /\ T[p] = e[Top \o p]
    OBVIOUS
  <2>1. CASE p = q
    BY <1>6, <1>8, <1>10, <2>1
  <2>2. CASE p # q
    <3>1. p \in DOMAIN t
      BY <1>8, <2>2
    <3>2. p \in Seq(Name) /\ p # <<>> /\ Top \o p \in DOMAIN d /\ t[p] = d[Top \o p]
      BY <1>4, <1>5, <3>1
    <3>3. Top \o p # at
      BY <1>3, <2>2, <3>2
    <3> QED BY <1>6, <1>8, <2>2, <3>1, <3>2, <3>3
  <2> QED BY <2>1, <2>2
<1>12. ASSUME NEW p \in Seq(Name), p # <<>>, Top \o p \in DOMAIN e PROVE p \in DOMAIN T
  <2>1. CASE Top \o p = at
    BY <1>3, <1>8, <2>1
  <2>2. CASE Top \o p # at
    <3>1. Top \o p \in DOMAIN d
      BY <1>6, <1>12, <2>2
    <3> QED BY <1>4, <1>5, <1>8, <1>12, <3>1
  <2> QED BY <2>1, <2>2
<1>13. TreeOf(e) = T
  BY <1>6, <1>7, <1>9, <1>11, <1>12, TreeEqual
<1> QED BY <1>7, <1>13 DEF e, T, t, at

LEMMA TreeRemove ==
  ASSUME NEW d \in Disks, Deep(d), NEW q \in Seq(Name), ~IsDir(d, Top \o q)
  PROVE  LET e == [p \in DOMAIN d \ {Top \o q} |-> d[p]]
         IN  /\ Deep(e)
             /\ TreeOf(e) = [p \in DOMAIN TreeOf(d) \ {q} |-> TreeOf(d)[p]]
<1> DEFINE at == Top \o q
           e == [p \in DOMAIN d \ {at} |-> d[p]]
           t == TreeOf(d)
           T == [p \in DOMAIN t \ {q} |-> t[p]]
<1>1. e \in Disks
  BY RemoveType
<1>2. DOMAIN e = DOMAIN d \ {at} /\ \A p \in DOMAIN e : e[p] = d[p]
  OBVIOUS
<1>3. \A p \in Seq(Name) : Top \o p = at => p = q
  BY SameBelowTop
<1>4. /\ \A p \in DOMAIN t : p \in Seq(Name) /\ t[p] = d[Top \o p]
      /\ \A p \in Seq(Seq(Chars)) : p \in DOMAIN t <=> p # <<>> /\ Top \o p \in DOMAIN d
  BY TreeFacts
<1>5. \A p \in Seq(Name) : p \in Seq(Seq(Chars))
  <2>1. Name \subseteq Seq(Chars)
    BY DEF Name
  <2> QED BY <2>1
<1>6. at = Top \o q
  OBVIOUS
<1>7. DOMAIN T = DOMAIN t \ {q} /\ \A p \in DOMAIN T : T[p] = t[p]
  OBVIOUS
<1>8. T = [p \in DOMAIN T |-> T[p]]
  OBVIOUS
<1> HIDE DEF at, e, t, T
<1>9. Deep(e)
  BY <1>2 DEF Deep
<1>10. \A p \in DOMAIN T : p \in Seq(Name) /\ p # <<>> /\ Top \o p \in DOMAIN e /\ T[p] = e[Top \o p]
  <2> SUFFICES ASSUME NEW p \in DOMAIN T
               PROVE  p \in Seq(Name) /\ p # <<>> /\ Top \o p \in DOMAIN e /\ T[p] = e[Top \o p]
    OBVIOUS
  <2>1. p \in DOMAIN t /\ p # q /\ T[p] = t[p]
    BY <1>7
  <2>2. p \in Seq(Name) /\ p # <<>> /\ Top \o p \in DOMAIN d /\ t[p] = d[Top \o p]
    BY <1>4, <1>5, <2>1
  <2>3. Top \o p # at
    BY <1>3, <2>1, <2>2
  <2>4. Top \o p \in DOMAIN e
    BY <1>2, <2>2, <2>3
  <2>5. e[Top \o p] = d[Top \o p]
    BY <1>2, <2>4
  <2> QED BY <2>1, <2>2, <2>4, <2>5
<1>11. ASSUME NEW p \in Seq(Name), p # <<>>, Top \o p \in DOMAIN e PROVE p \in DOMAIN T
  <2>1. Top \o p \in DOMAIN d /\ Top \o p # at
    BY <1>2, <1>11
  <2>2. p # q
    BY <1>6, <2>1
  <2> QED BY <1>4, <1>5, <1>7, <1>11, <2>1, <2>2
<1>12. TreeOf(e) = T
  BY <1>1, <1>8, <1>9, <1>10, <1>11, TreeEqual
<1> QED BY <1>9, <1>12 DEF e, T, t, at

\* The place of a session, seen from the top and from its user's directory.
LEMMA PlaceOf ==
  ASSUME PathsInv, NEW s \in Sessions, session[s].login
  PROVE  LET u == session[s].user
             b == Base(session[s].cwd)
         IN  /\ Place[s] = <<u>> \o NamesOf(b) /\ Place[s] \in Seq(Name) /\ Place[s] # <<>>
             /\ Tail(Place[s]) = NamesOf(b) /\ Len(Place[s]) = 1 + Len(NamesOf(b))
             /\ VirtualNames(session[s].cwd) = NamesOf(b) /\ NamesOf(b) \in Seq(Name)
             /\ HomeOf(u) \o NamesOf(b) = Top \o Place[s]
<1> DEFINE u == session[s].user
           cwd == session[s].cwd
           b == Base(cwd)
           ns == NamesOf(b)
<1>1. u \in Users /\ b \in Seq(Chars)
  BY PathsOf DEF Virtual
<1>2. u \in Name /\ <<u>> \in Seq(Name) /\ Len(<<u>>) = 1 /\ <<u>> # <<>>
  BY <1>1, UserFacts
<1>3. ns \in Seq(Name)
  <2> HIDE DEF b
  <2> QED BY <1>1, NamesOfFacts
<1>4. VirtualNames(cwd) = ns
  <2>1. CASE cwd = Slash
    BY <2>1, NamesOfFacts DEF VirtualNames, Base
  <2>2. CASE cwd # Slash
    BY <2>2 DEF VirtualNames, Base, NamesOf
  <2> QED BY <2>1, <2>2
<1>5. Place[s] = <<u>> \o ns
  BY <1>4 DEF Place
<1> HIDE DEF ns, u
<1> DEFINE w == <<u>>
           pl == w \o ns
<1> HIDE DEF w
<1>6. w \in Seq(Name) /\ Len(w) = 1 /\ w = <<u>> /\ w # <<>>
  BY <1>2 DEF w
<1>7. pl \in Seq(Name) /\ Len(pl) = 1 + Len(ns) /\ Len(ns) \in Nat
      /\ SubSeq(pl, 1 + 1, Len(pl)) = ns
  BY <1>3, <1>6, CutConcat
<1> HIDE DEF pl
<1>8. Len(pl) # 0 /\ pl # <<>>
  <2>1. Len(pl) # 0
    BY <1>7
  <2> QED BY <2>1, EmptySeq
<1>9. Tail(pl) = ns
  <2>1. Tail(pl) = SubSeq(pl, 2, Len(pl))
    BY <1>7, <1>8, TailIsSubSeq
  <2> QED BY <1>7, <2>1
<1>10. HomeOf(u) \o ns = Top \o pl
  <2>1. Top \in Seq(Name) /\ HomeOf(u) = Append(Top, u)
    BY <1>1, TopType, PreparedFacts DEF u
  <2>2. HomeOf(u) = Top \o w
    BY <1>2, <2>1, AppendIsConcat DEF w
  <2>3. (Top \o w) \o ns = Top \o (w \o ns)
    BY <1>3, <1>6, <2>1, ConcatAssociative
  <2> QED BY <2>2, <2>3 DEF pl
<1>11. Place[s] = pl
  BY <1>5 DEF pl, w
<1> QED BY <1>3, <1>4, <1>5, <1>7, <1>8, <1>9, <1>10, <1>11 DEF ns, u

LEMMA PlaceOutside ==
  ASSUME NEW s \in Sessions, ~session[s].login
  PROVE  Place[s] = <<>>
BY DEF Place

\* The entry of a name, when the path of it fits.
LEMMA EntryFacts ==
  ASSUME PathsInv, Deep(kind), NEW s \in Sessions, session[s].login,
         NEW name \in Names, IsValidName(name),
         Len(session[s].root \o session[s].cwd) + (1 + Len(name)) < MaxPath
  PROVE  LET e == Append(Place[s], name)
         IN  /\ e \in Seq(Name) /\ e # <<>> /\ At(s, name) = Top \o e
             /\ At(s, name) # Nowhere /\ At(s, name) # <<>>
             /\ (e \in DOMAIN Tree) = (At(s, name) \in DOMAIN kind)
             /\ e \in DOMAIN Tree => Tree[e] = kind[At(s, name)]
<1> DEFINE u == session[s].user
           cwd == session[s].cwd
           b == Base(cwd)
           x == RootOf(u) \o b
           pl == Place[s]
           e == Append(pl, name)
<1>1. name \in Seq(STRING) /\ kind \in Disks
  BY PathsAssumption DEF PathsInv
<1>2. name \in Name
  BY <1>1, ValidIsName
<1>3. /\ pl \in Seq(Name) /\ HomeOf(u) \o NamesOf(b) = Top \o pl
  BY PlaceOf
<1>4. Len(x) + 1 + Len(name) < MaxPath
  <2>1. session[s].root = RootOf(u) /\ x \in Seq(Chars) /\ MaxPath \in Nat /\ CwdOK(cwd)
        /\ Virtual(b) /\ RootOf(u) \in Seq(Chars)
    BY PathsOf, UserFacts
  <2>2. Len(x) = Len(RootOf(u)) + Len(b) /\ Len(RootOf(u)) \in Nat /\ Len(b) \in Nat
    BY <2>1, ConcatProperties, LenProperties DEF Virtual
  <2>3. /\ Len(RootOf(u) \o cwd) = Len(RootOf(u)) + Len(cwd) /\ Len(cwd) \in Nat
    BY <2>1, ConcatProperties, LenProperties DEF CwdOK
  <2>4. Len(b) <= Len(cwd)
    BY <2>2, <2>3, EmptySeq DEF Base
  <2>5. Len(name) \in Nat
    BY <1>1, LenProperties
  <2> HIDE DEF x, b, cwd, u
  <2>6. Len(RootOf(u) \o cwd) + (1 + Len(name)) < MaxPath
    BY <2>1 DEF u, cwd
  <2> QED BY <2>1, <2>2, <2>3, <2>4, <2>5, <2>6
<1>5. At(s, name) = Append(HomeOf(u) \o NamesOf(b), name)
  BY <1>1, <1>4, WherePathsLead
<1> HIDE DEF u, b, pl
<1>6. Append(Top \o pl, name) = Top \o e
  BY <1>2, <1>3, TopType, NameAfter
<1>7. e \in Seq(Name) /\ e # <<>>
  BY <1>2, <1>3, AppendProperties
<1>8. At(s, name) = Top \o e
  BY <1>3, <1>5, <1>6
<1> HIDE DEF e
<1>9. Top \o e \in Seq(Name) /\ Len(Top \o e) = Len(Top) + Len(e) /\ Len(Top) \in Nat
      /\ Len(e) \in Nat \ {0}
  BY <1>7, TopType, CutConcat, EmptySeq
<1>10. Top \o e # Nowhere
  BY <1>9, NowhereIsNoPlace
<1>11. Top \o e # <<>>
  <2>1. Len(Top \o e) # 0
    BY <1>9
  <2> QED BY <2>1, EmptySeq
<1>12. e \in Seq(Seq(Chars))
  <2>1. Name \subseteq Seq(Chars)
    BY DEF Name
  <2> QED BY <1>7, <2>1
<1>13. /\ \A q \in DOMAIN Tree : Tree[q] = kind[Top \o q]
       /\ \A q \in Seq(Seq(Chars)) : q \in DOMAIN Tree <=> q # <<>> /\ Top \o q \in DOMAIN kind
  BY <1>1, TreeFacts DEF Tree
<1>14. (e \in DOMAIN Tree) <=> (Top \o e \in DOMAIN kind)
  BY <1>7, <1>12, <1>13
<1> QED BY <1>7, <1>8, <1>10, <1>11, <1>13, <1>14 DEF e, pl

LEMMA SaidReply ==
  ASSUME NEW s, NEW ask, NEW ok, answer' = Reply(s, ask, ok)
  PROVE  Said' = Reply(s, ask, ok) /\ Said' = Homes!Reply(s, ask, ok)
BY DEF Said, Reply, Homes!Reply

LEMMA SamePlace ==
  ASSUME session' = session
  PROVE  Place' = Place
BY DEF Place

LEMMA SameTree ==
  ASSUME kind' = kind
  PROVE  Tree' = Tree
BY DEF Tree

\* What it means that the path of a command with a name fits, and of one without.
LEMMA FitsWithName ==
  ASSUME PathFits, NEW s, NEW cmd, NEW name, NEW ok, answer' = Reply(s, <<cmd, name>>, ok)
  PROVE  Len(session[s].root \o session[s].cwd) + (1 + Len(name)) < MaxPath
<1>1. answer'.to = s /\ answer'.ask = <<cmd, name>>
  BY DEF Reply
<1>2. Len(<<cmd, name>>) = 2 /\ <<cmd, name>>[2] = name
  OBVIOUS
<1> QED BY <1>1, <1>2 DEF PathFits

LEMMA RefineLogin ==
  ASSUME PathsInv, NEW s \in Sessions, NEW u \in Users, Login(s, u)
  PROVE  Homes!Next
<1>1. kind' = kind
  BY LoginKeeps
<1>2. /\ ~session[s].login /\ answer' = Reply(s, <<"login", u>>, TRUE)
      /\ session' = [session EXCEPT ![s] =
                       [login |-> TRUE, user |-> u, root |-> RootOf(u), cwd |-> Slash]]
      /\ session \in [Sessions -> Accounts]
  BY DEF Login, PathsInv
<1>3. <<u>> \o VirtualNames(Slash) = <<u>>
  <2>1. <<u>> \in Seq(Name) /\ VirtualNames(Slash) = <<>>
    BY UserFacts DEF VirtualNames
  <2> QED BY <2>1, ConcatEmptySeq
<1>4. Place' = [Place EXCEPT ![s] = <<u>>]
  <2>1. session'[s].login /\ session'[s].user = u /\ session'[s].cwd = Slash
    BY <1>2
  <2>2. \A t \in Sessions \ {s} : session'[t] = session[t]
    BY <1>2
  <2>3. Place' = [t \in Sessions |-> IF t = s THEN <<u>> ELSE Place[t]]
    BY <1>3, <2>1, <2>2 DEF Place
  <2> QED BY <2>3 DEF Place
<1>5. Homes!Login(s, u)
  BY <1>1, <1>2, <1>4, PlaceOutside, SaidReply, SameTree DEF Homes!Login, Homes!Outside
<1> QED BY <1>5 DEF Homes!Next

LEMMA RefineRefused ==
  ASSUME PathsInv, NEW s \in Sessions, NEW u \in Users \cup Names, LoginRefused(s, u)
  PROVE  Homes!Next
<1>1. /\ session[s].login \/ u \notin Users
      /\ answer' = Reply(s, <<"login", u>>, FALSE) /\ session' = session /\ kind' = kind
  BY DEF LoginRefused
<1>2. Said' = Homes!Reply(s, <<"login", u>>, FALSE) /\ Place' = Place /\ Tree' = Tree
  BY <1>1, SaidReply, SamePlace, SameTree
<1>3. Place[s] # <<>> \/ u \notin Users
  BY <1>1, PlaceOf
<1>4. Homes!Deny(s)
  BY <1>2, <1>3 DEF Homes!Deny, Homes!Outside
<1> QED BY <1>4 DEF Homes!Next

LEMMA RefineTooEarly ==
  ASSUME NEW s \in Sessions, TooEarly(s)
  PROVE  Homes!Next
<1>1. /\ ~session[s].login /\ answer' = Reply(s, <<"other">>, FALSE)
      /\ session' = session /\ kind' = kind
  BY DEF TooEarly
<1>2. Said' = Homes!Reply(s, <<"other">>, FALSE) /\ Place' = Place /\ Tree' = Tree
  BY <1>1, SaidReply, SamePlace, SameTree
<1>3. Homes!Deny(s)
  BY <1>1, <1>2, PlaceOutside DEF Homes!Deny, Homes!Outside
<1> QED BY <1>3 DEF Homes!Next

LEMMA RefinePwd ==
  ASSUME PathsInv, NEW s \in Sessions, Pwd(s)
  PROVE  Homes!Next
<1> DEFINE cwd == session[s].cwd
<1>1. /\ session[s].login /\ answer' = [Reply(s, <<"pwd">>, TRUE) EXCEPT !.text = cwd]
      /\ session' = session /\ kind' = kind
  BY DEF Pwd
<1>2. cwd # <<>> /\ VirtualNames(cwd) = Tail(Place[s]) /\ Place[s] # <<>>
  BY <1>1, PlaceOf DEF PathsInv, Placed, CwdOK
<1> HIDE DEF cwd
<1>3. Said' = [Homes!Reply(s, <<"pwd">>, TRUE) EXCEPT !.text = Tail(Place[s])]
  BY <1>1, <1>2 DEF Said, Reply, Homes!Reply
<1>4. Place' = Place /\ Tree' = Tree
  BY <1>1, SamePlace, SameTree
<1>5. Homes!Where(s)
  BY <1>3, <1>4 DEF Homes!Where
<1> QED BY <1>2, <1>5 DEF Homes!Next, Homes!Outside

LEMMA RefineLs ==
  ASSUME PathsInv, Deep(kind), NEW s \in Sessions, Ls(s), PathFits
  PROVE  Homes!Next
<1> DEFINE u == session[s].user
           b == Base(session[s].cwd)
           x == RootOf(u) \o b
           dir == Resolve(kind, CurrentReal(s))
           pl == Place[s]
           found == {name \in Names : Append(dir, name) \in DOMAIN kind}
<1>1. session[s].login /\ session' = session /\ kind' = kind
  BY DEF Ls
<1>2. answer'.to = s /\ answer'.ask = <<"ls">>
  BY DEF Ls, Reply
<1>3. IsDir(kind, dir) /\ (Len(x) < MaxPath => dir = HomeOf(u) \o NamesOf(b))
  BY <1>1, WherePathsLead
<1>4. Len(x) < MaxPath
  <2>1. session[s].root = RootOf(u) /\ MaxPath \in Nat /\ CwdOK(session[s].cwd)
        /\ Virtual(b) /\ RootOf(u) \in Seq(Chars)
    BY <1>1, PathsOf, UserFacts
  <2>2. Len(x) = Len(RootOf(u)) + Len(b) /\ Len(RootOf(u)) \in Nat /\ Len(b) \in Nat
    BY <2>1, ConcatProperties, LenProperties DEF Virtual
  <2>3. /\ Len(RootOf(u) \o session[s].cwd) = Len(RootOf(u)) + Len(session[s].cwd)
        /\ Len(session[s].cwd) \in Nat
    BY <2>1, ConcatProperties, LenProperties DEF CwdOK
  <2>4. Len(b) <= Len(session[s].cwd)
    BY <2>2, <2>3, EmptySeq DEF Base
  <2>5. Len(RootOf(u) \o session[s].cwd) + 0 < MaxPath
    <3>1. Len(<<"ls">>) # 2
      OBVIOUS
    <3>2. Len(session[s].root \o session[s].cwd) + 0 < MaxPath
      BY <1>2, <3>1 DEF PathFits
    <3> QED BY <2>1, <3>2
  <2> HIDE DEF x, b, u
  <2> QED BY <2>1, <2>2, <2>3, <2>4, <2>5
<1>5. pl \in Seq(Name) /\ pl # <<>> /\ dir = Top \o pl
  BY <1>1, <1>3, <1>4, PlaceOf
<1> HIDE DEF dir, pl
<1>6. \A name \in Names : (Append(dir, name) \in DOMAIN kind) <=> (Append(pl, name) \in DOMAIN Tree)
  <2> SUFFICES ASSUME NEW name \in Names
               PROVE  (Append(dir, name) \in DOMAIN kind) <=> (Append(pl, name) \in DOMAIN Tree)
    OBVIOUS
  <2>1. name \in Seq(Chars)
    <3>1. name \in Seq(STRING) /\ STRING \subseteq Chars
      BY PathsAssumption DEF Chars
    <3> QED BY <3>1, SeqMonotonic
  <2>2. Top \in Seq(Seq(Chars)) /\ pl \in Seq(Seq(Chars))
    <3>1. Name \subseteq Seq(Chars)
      BY DEF Name
    <3> QED BY <1>5, <3>1, TopType
  <2>3. /\ Append(Top \o pl, name) = Top \o Append(pl, name)
        /\ Append(pl, name) \in Seq(Seq(Chars)) /\ Append(pl, name) # <<>>
    BY <2>1, <2>2, WordAfter
  <2>4. \A q \in Seq(Seq(Chars)) : q \in DOMAIN Tree <=> q # <<>> /\ Top \o q \in DOMAIN kind
    BY TreeFacts DEF Tree, PathsInv
  <2> QED BY <1>5, <2>3, <2>4
<1>7. found = {name \in Names : Append(pl, name) \in DOMAIN Tree}
  BY <1>6
<1>8. answer' = [Reply(s, <<"ls">>, TRUE) EXCEPT !.names = found]
  BY <1>3 DEF Ls, dir
<1> HIDE DEF found
<1>9. Said' = [Homes!Reply(s, <<"ls">>, TRUE) EXCEPT !.names = found]
  BY <1>8 DEF Said, Reply, Homes!Reply
<1>10. Place' = Place /\ Tree' = Tree
  BY <1>1, SamePlace, SameTree
<1>11. Homes!List(s)
  BY <1>7, <1>9, <1>10 DEF Homes!List, Homes!Entry, pl
<1> QED BY <1>5, <1>11 DEF Homes!Next, Homes!Outside, pl

LEMMA RefineUp ==
  ASSUME PathsInv, NEW s \in Sessions, CdParent(s)
  PROVE  Homes!Next
<1> DEFINE cwd == session[s].cwd
           c == ParentOf(cwd)
           u == session[s].user
           pl == Place[s]
           new == IF Len(pl) = 1 THEN pl ELSE SubSeq(pl, 1, Len(pl) - 1)
<1>1. /\ session[s].login /\ kind' = kind /\ session' = [session EXCEPT ![s].cwd = c]
      /\ answer' = Reply(s, <<"cd">>, TRUE) /\ session \in [Sessions -> Accounts]
  BY DEF CdParent, PathsInv
<1>2. CwdOK(cwd) /\ Place[s] = <<u>> \o NamesOf(Base(cwd)) /\ pl \in Seq(Name) /\ pl # <<>>
      /\ Len(pl) = 1 + Len(NamesOf(Base(cwd))) /\ NamesOf(Base(cwd)) \in Seq(Name) /\ u \in Users
  BY <1>1, PathsOf, PlaceOf
<1>3. <<u>> \o VirtualNames(c) = new
  <2>0. u \in Name /\ <<u>> \in Seq(Name)
    BY <1>2, UserFacts
  <2>1. CASE cwd = Slash
    <3>1. c = Slash /\ Base(cwd) = <<>> /\ NamesOf(<<>>) = <<>> /\ Len(<<>>) = 0
      BY <2>1, NamesOfFacts DEF ParentOf, Base
    <3>2. VirtualNames(c) = <<>>
      BY <3>1 DEF VirtualNames
    <3>3. Len(pl) = 1 /\ pl = <<u>> \o <<>>
      <4> HIDE DEF cwd, u, pl
      <4>1. NamesOf(Base(cwd)) = <<>>
        BY <3>1, Zenon
      <4>2. Len(pl) = 1 + 0
        BY <1>2, <3>1, <4>1
      <4> QED BY <1>2, <4>1, <4>2 DEF pl
    <3> HIDE DEF pl, c
    <3> QED BY <3>2, <3>3
  <2>2. CASE cwd # Slash
    <3> DEFINE l == LastSlash(cwd)
               a == SubSeq(cwd, 1, l - 1)
    <3>1. /\ l \in 1 .. Len(cwd) /\ cwd[l] = Root /\ CwdOK(c) /\ Base(c) = a /\ Len(cwd) \in Nat
          /\ \A j \in l + 1 .. Len(cwd) : cwd[j] # Root
      BY <1>2, <2>2, ParentFacts, LastSlashFacts
    <3>2. cwd \in Seq(Chars) /\ Base(cwd) = cwd
      BY <1>2, <2>2 DEF CwdOK, Base
    <3> HIDE DEF cwd, c, l
    <3>3. PICK q \in Seq(Chars) : cwd = a \o <<cwd[l]>> \o q
      BY <3>1, <3>2, CutAt
    <3>4. a \in Seq(Chars) /\ Len(a) = l - 1
      <4>1. l - 1 \in 0 .. Len(cwd)
        BY <3>1
      <4> QED BY <3>2, <4>1, PrefixType
    <3> HIDE DEF a
    <3>5. cwd = a \o Slash \o q
      BY <3>1, <3>3 DEF Slash
    <3>6. /\ Len(cwd) = Len(a) + 1 + Len(q) /\ Len(q) \in Nat
          /\ \A i \in 1 .. Len(q) : cwd[Len(a) + 1 + i] = q[i]
      BY <3>4, <3>5, JoinFacts
    <3>7. q \in Name
      <4>1. \A i \in 1 .. Len(q) : q[i] \in Chars \ {Root}
        <5> SUFFICES ASSUME NEW i \in 1 .. Len(q) PROVE q[i] \in Chars \ {Root}
          OBVIOUS
        <5>1. Len(a) + 1 + i \in l + 1 .. Len(cwd)
          BY <3>1, <3>4, <3>6
        <5>2. q[i] # Root
          BY <3>1, <3>6, <5>1
        <5>3. q[i] \in Chars
          BY ElementOfSeq
        <5> QED BY <5>2, <5>3
      <4>2. q \in [1 .. Len(q) -> Chars \ {Root}]
        BY <4>1, LenProperties
      <4> QED BY <3>6, <4>2, IsASeq DEF Name
    <3>8. NamesOf(cwd) = Append(NamesOf(a), q) /\ NamesOf(a) \in Seq(Name)
      BY <3>4, <3>5, <3>7, NamesOfJoin, NamesOfFacts
    <3>9. VirtualNames(c) = NamesOf(a)
      <4>1. CASE c = Slash
        <5>1. a = <<>>
          BY <3>1, <4>1 DEF Base
        <5> QED BY <4>1, <5>1, NamesOfFacts DEF VirtualNames
      <4>2. CASE c # Slash
        <5>1. a = c
          BY <3>1, <4>2 DEF Base
        <5> QED BY <4>2, <5>1 DEF VirtualNames, NamesOf
      <4> QED BY <4>1, <4>2
    <3> DEFINE na == NamesOf(a)
    <3>10. na \in Seq(Name) /\ pl = <<u>> \o Append(na, q)
      BY <1>2, <3>2, <3>8
    <3> HIDE DEF na, pl, u
    <3> DEFINE w == <<u>>
    <3>11. w \in Seq(Name) /\ Len(w) = 1
      BY <2>0
    <3> HIDE DEF w
    <3>12. w \o Append(na, q) = Append(w \o na, q) /\ w \o na \in Seq(Name)
      BY <3>7, <3>10, <3>11, NameAfter
    <3>13. pl = Append(w \o na, q) /\ Len(w \o na) = 1 + Len(na) /\ Len(na) \in Nat
      BY <3>10, <3>11, <3>12, CutConcat DEF w
    <3> DEFINE v == w \o na
    <3>14. v \in Seq(Name) /\ pl = Append(v, q) /\ Len(v) \in Nat \ {0}
      BY <3>12, <3>13
    <3> HIDE DEF v
    <3>15. Len(pl) # 1 /\ Front(pl) = v
      BY <3>7, <3>14, FrontAppend, AppendProperties
    <3>16. new = v
      BY <3>15 DEF Front
    <3> HIDE DEF new
    <3> QED BY <3>9, <3>16 DEF v, w, na
  <2> QED BY <2>1, <2>2
<1> HIDE DEF new, c
<1>4. Place' = [Place EXCEPT ![s] = new]
  <2>1. session'[s].login /\ session'[s].user = u /\ session'[s].cwd = c
    BY <1>1 DEF Accounts
  <2>2. \A t \in Sessions \ {s} : session'[t] = session[t]
    BY <1>1
  <2>3. Place' = [t \in Sessions |-> IF t = s THEN new ELSE Place[t]]
    BY <1>3, <2>1, <2>2 DEF Place
  <2> QED BY <2>3 DEF Place
<1>5. [Place EXCEPT ![s] = new] =
        [Place EXCEPT ![s] = IF Len(@) = 1 THEN @ ELSE SubSeq(@, 1, Len(@) - 1)]
  BY DEF new
<1>6. Homes!Up(s)
  BY <1>1, <1>4, <1>5, SaidReply, SameTree DEF Homes!Up
<1> QED BY <1>2, <1>6 DEF Homes!Next, Homes!Outside

LEMMA RefineCd ==
  ASSUME PathsInv, Deep(kind), NEW s \in Sessions, NEW name \in Names, Cd(s, name), PathFits
  PROVE  Homes!Next
<1> DEFINE cwd == session[s].cwd
           c == ChildOf(cwd, name)
           u == session[s].user
           e == Append(Place[s], name)
           at == At(s, name)
           ok == IsValidName(name) /\ at # Nowhere /\ IsDir(kind, at)
           may == IsValidName(name) /\ e \in DOMAIN Tree /\ Tree[e] = "dir"
<1>1. /\ session[s].login /\ kind' = kind
      /\ session' = IF ok THEN [session EXCEPT ![s].cwd = c] ELSE session
      /\ answer' = Reply(s, <<"cd", name>>, ok) /\ session \in [Sessions -> Accounts]
  BY DEF Cd, PathsInv
<1>2. Len(session[s].root \o cwd) + (1 + Len(name)) < MaxPath
  BY <1>1, FitsWithName
<1>3. ok = may
  <2>1. CASE IsValidName(name)
    <3>1. /\ at # Nowhere /\ at # <<>> /\ (e \in DOMAIN Tree) = (at \in DOMAIN kind)
          /\ e \in DOMAIN Tree => Tree[e] = kind[at]
      BY <1>1, <1>2, <2>1, EntryFacts
    <3> HIDE DEF at, e
    <3> QED BY <2>1, <3>1 DEF IsDir
  <2>2. CASE ~IsValidName(name)
    BY <2>2
  <2> QED BY <2>1, <2>2
<1>4. CASE ~ok
  <2>1. session' = session
    BY <1>1, <1>4
  <2>2. Place' = Place /\ Tree' = Tree /\ Said' = Homes!Reply(s, <<"cd", name>>, ok)
    BY <1>1, <2>1, SamePlace, SameTree, SaidReply
  <2> HIDE DEF ok
  <2>3. ~may /\ Said' = Homes!Reply(s, <<"cd", name>>, may)
    BY <1>3, <1>4, <2>2
  <2>4. Homes!Enter(s, name)
    BY <2>2, <2>3 DEF Homes!Enter, Homes!Is, Homes!Entry
  <2>5. Place[s] # <<>>
    BY <1>1, PlaceOf
  <2> QED BY <2>4, <2>5 DEF Homes!Next, Homes!Outside
<1>5. CASE ok
  <2>1. CwdOK(cwd) /\ Place[s] = <<u>> \o NamesOf(Base(cwd)) /\ Place[s] # <<>>
        /\ NamesOf(Base(cwd)) \in Seq(Name) /\ u \in Users /\ session[s].root = RootOf(u)
    BY <1>1, PathsOf, PlaceOf
  <2>2. name \in Seq(STRING) /\ IsValidName(name) /\ name \in Name /\ Len(name) \in Nat
    BY <1>5, PathsAssumption, ValidIsName, LenProperties
  <2>3. /\ RootOf(u) \in Seq(Chars) /\ Len(RootOf(u)) \in Nat /\ Len(RootOf(u)) >= 2
        /\ cwd \in Seq(Chars) /\ Len(cwd) \in Nat /\ Base(cwd) \in Seq(Chars)
        /\ Len(Base(cwd)) \in Nat /\ MaxPath \in Nat
    <3>1. Len(RootOf(u)) = Len(DataRoot) + 1 + Len(u) /\ Len(u) \in Nat \ {0}
          /\ Len(DataRoot) \in Nat /\ RootOf(u) \in Seq(Chars) /\ MaxPath \in Nat
      BY <2>1, UserFacts, PathsAssumption, LenProperties
    <3>2. cwd \in Seq(Chars) /\ Base(cwd) \in Seq(Chars)
      BY <2>1, CwdIsVirtual DEF CwdOK, Virtual
    <3> HIDE DEF cwd, u
    <3> QED BY <3>1, <3>2, LenProperties
  <2>4. Len(Base(cwd)) <= Len(cwd)
    BY <2>3, EmptySeq DEF Base
  <2>5. c # cwd
    <3>1. Len(RootOf(u) \o cwd) = Len(RootOf(u)) + Len(cwd)
      BY <2>3, ConcatProperties
    <3>2. Len(RootOf(u) \o cwd) + (1 + Len(name)) < MaxPath
      BY <1>2, <2>1
    <3>3. ~(Len(Base(cwd)) + Len(name) + 2 >= MaxPath)
      <4> HIDE DEF cwd, u
      <4> QED BY <2>2, <2>3, <2>4, <3>1, <3>2
    <3>4. c = Base(cwd) \o Slash \o name
      BY <3>3 DEF ChildOf, Base
    <3>5. Len(c) = Len(Base(cwd)) + 1 + Len(name) /\ \A n \in Nat : n >= 2 => n # 1
      <4>1. name \in Seq(Chars)
        BY <2>2, ValidIsName
      <4>2. Len(Base(cwd) \o Slash \o name) = Len(Base(cwd)) + 1 + Len(name)
        <5> HIDE DEF cwd
        <5> QED BY <2>3, <4>1, JoinFacts
      <4> QED BY <3>4, <4>2
    <3>6. Len(name) # 0 /\ (cwd = Slash => Len(cwd) = 1 /\ Base(cwd) = <<>>)
      <4>1. name # <<>>
        BY <2>2, ValidIsName
      <4> QED BY <2>2, <4>1, EmptySeq DEF Base, Slash
    <3>7. cwd # Slash => Base(cwd) = cwd
      BY DEF Base
    <3> HIDE DEF c, cwd
    <3> QED BY <2>2, <2>3, <3>5, <3>6, <3>7, EmptySeq
  <2>6. c = Base(cwd) \o Slash \o name /\ CwdOK(c) /\ Base(c) = c
    BY <2>1, <2>2, <2>5, ChildFacts
  <2>7. VirtualNames(c) = Append(NamesOf(Base(cwd)), name)
    <3>1. NamesOf(c) = Append(NamesOf(Base(cwd)), name)
      <4> HIDE DEF c, cwd
      <4> QED BY <2>2, <2>3, <2>6, NamesOfJoin
    <3>2. c # Slash
      <4>1. Base(Slash) = <<>> /\ CwdOK(<<>>) = FALSE
        BY DEF Base, CwdOK
      <4> HIDE DEF c
      <4> QED BY <2>6, <4>1
    <3> QED BY <3>1, <3>2 DEF VirtualNames, NamesOf
  <2>8. <<u>> \o VirtualNames(c) = e
    <3> DEFINE w == <<u>>
               ns == NamesOf(Base(cwd))
    <3>1. w \in Seq(Name) /\ ns \in Seq(Name) /\ Place[s] = w \o ns
      BY <2>1, UserFacts
    <3> HIDE DEF w, ns, cwd, u
    <3>2. Append(w \o ns, name) = w \o Append(ns, name)
      BY <2>2, <3>1, NameAfter
    <3> HIDE DEF c
    <3> QED BY <2>7, <3>1, <3>2 DEF w, ns
  <2>9. session' = [session EXCEPT ![s].cwd = c] /\ answer' = Reply(s, <<"cd", name>>, TRUE)
    BY <1>1, <1>5
  <2>10. may = TRUE
    BY <1>3, <1>5
  <2> HIDE DEF c, e, ok, may
  <2>11. Place' = [Place EXCEPT ![s] = e]
    <3>1. session'[s].login /\ session'[s].user = u /\ session'[s].cwd = c
      BY <1>1, <2>9 DEF Accounts
    <3>2. \A t \in Sessions \ {s} : session'[t] = session[t]
      BY <1>1, <2>9
    <3>3. Place' = [t \in Sessions |-> IF t = s THEN e ELSE Place[t]]
      BY <2>8, <3>1, <3>2 DEF Place
    <3> QED BY <3>3 DEF Place
  <2>12. Place' = [Place EXCEPT ![s] = Append(@, name)]
    BY <2>11 DEF e
  <2>13. Said' = Homes!Reply(s, <<"cd", name>>, TRUE) /\ Tree' = Tree
    BY <1>1, <2>9, SaidReply, SameTree
  <2>14. Homes!Enter(s, name)
    BY <2>10, <2>12, <2>13 DEF Homes!Enter, Homes!Is, Homes!Entry, may, e
  <2> QED BY <2>1, <2>14 DEF Homes!Next, Homes!Outside
<1> QED BY <1>4, <1>5

LEMMA RefineGets ==
  ASSUME PathsInv, Deep(kind), NEW s \in Sessions, NEW name \in Names, Gets(s, name), PathFits
  PROVE  Homes!Next
<1> DEFINE e == Append(Place[s], name)
           at == At(s, name)
           ok == IsValidName(name) /\ at \in DOMAIN kind /\ kind[at] = "file"
           may == IsValidName(name) /\ e \in DOMAIN Tree /\ Tree[e] = "file"
<1>1. /\ session[s].login /\ kind' = kind /\ session' = session
      /\ answer' = Reply(s, <<"gets", name>>, ok)
  BY DEF Gets
<1>2. Len(session[s].root \o session[s].cwd) + (1 + Len(name)) < MaxPath
  BY <1>1, FitsWithName
<1>3. ok = may
  <2>1. CASE IsValidName(name)
    <3>1. /\ (e \in DOMAIN Tree) = (at \in DOMAIN kind)
          /\ e \in DOMAIN Tree => Tree[e] = kind[at]
      BY <1>1, <1>2, <2>1, EntryFacts
    <3> HIDE DEF at, e
    <3> QED BY <2>1, <3>1
  <2>2. CASE ~IsValidName(name)
    BY <2>2
  <2> QED BY <2>1, <2>2
<1>4. Place' = Place /\ Tree' = Tree /\ Said' = Homes!Reply(s, <<"gets", name>>, ok)
  BY <1>1, SamePlace, SameTree, SaidReply
<1> HIDE DEF ok
<1>5. Said' = Homes!Reply(s, <<"gets", name>>, may)
  BY <1>3, <1>4
<1>6. Homes!Fetch(s, name)
  BY <1>4, <1>5 DEF Homes!Fetch, Homes!Is, Homes!Entry
<1>7. Place[s] # <<>>
  BY <1>1, PlaceOf
<1> QED BY <1>6, <1>7 DEF Homes!Next, Homes!Outside

LEMMA RefineMkdir ==
  ASSUME PathsInv, Deep(kind), NEW s \in Sessions, NEW name \in Names, Mkdir(s, name), PathFits
  PROVE  Homes!Next
<1> DEFINE e == Append(Place[s], name)
           at == At(s, name)
           ask == <<"mkdir", name>>
<1>1. /\ session[s].login /\ session' = session
      /\ \/ /\ IsValidName(name) /\ at # Nowhere /\ ~Exists(kind, at)
            /\ kind' = Put(kind, at, "dir") /\ answer' = Reply(s, ask, TRUE)
         \/ kind' = kind /\ answer' = Reply(s, ask, FALSE)
  BY DEF Mkdir, Change
<1>2. Len(session[s].root \o session[s].cwd) + (1 + Len(name)) < MaxPath
  BY <1>1, FitsWithName
<1>3. Place[s] # <<>> /\ Place' = Place
  BY <1>1, PlaceOf, SamePlace
<1>4. CASE kind' = kind /\ answer' = Reply(s, ask, FALSE)
  <2>1. Tree' = Tree /\ Said' = Homes!Reply(s, ask, FALSE)
    BY <1>4, SameTree, SaidReply
  <2>2. Homes!Make(s, name)
    BY <1>3, <2>1 DEF Homes!Make, Homes!Change
  <2> QED BY <1>3, <2>2 DEF Homes!Next, Homes!Outside
<1>5. CASE /\ IsValidName(name) /\ at # Nowhere /\ ~Exists(kind, at)
           /\ kind' = Put(kind, at, "dir") /\ answer' = Reply(s, ask, TRUE)
  <2>1. /\ e \in Seq(Name) /\ e # <<>> /\ at = Top \o e
        /\ (e \in DOMAIN Tree) = (at \in DOMAIN kind)
    BY <1>1, <1>2, <1>5, EntryFacts
  <2>2. e \notin DOMAIN Tree
    BY <1>5, <2>1 DEF Exists
  <2>3. kind \in Disks
    BY DEF PathsInv
  <2>4. kind' = Put(kind, at, "dir")
    BY <1>5
  <2> HIDE DEF e, at
  <2>5. Tree' = [p \in DOMAIN Tree \cup {e} |-> IF p = e THEN "dir" ELSE Tree[p]]
    BY <2>1, <2>3, <2>4, KindTypes, TreePut DEF Tree
  <2>6. Said' = Homes!Reply(s, ask, TRUE)
    BY <1>5, SaidReply
  <2>7. Homes!Make(s, name)
    BY <1>3, <1>5, <2>2, <2>5, <2>6 DEF Homes!Make, Homes!Change, Homes!Put, Homes!Entry, e
  <2> QED BY <1>3, <2>7 DEF Homes!Next, Homes!Outside
<1> QED BY <1>1, <1>4, <1>5

LEMMA RefinePuts ==
  ASSUME PathsInv, Deep(kind), NEW s \in Sessions, NEW name \in Names, Puts(s, name), PathFits
  PROVE  Homes!Next
<1> DEFINE e == Append(Place[s], name)
           at == At(s, name)
           ask == <<"puts", name>>
<1>1. /\ session[s].login /\ session' = session
      /\ \/ /\ IsValidName(name) /\ at # Nowhere /\ ~IsDir(kind, at)
            /\ kind' = Put(kind, at, "file") /\ answer' = Reply(s, ask, TRUE)
         \/ kind' = kind /\ answer' = Reply(s, ask, FALSE)
  BY DEF Puts, Change
<1>2. Len(session[s].root \o session[s].cwd) + (1 + Len(name)) < MaxPath
  BY <1>1, FitsWithName
<1>3. Place[s] # <<>> /\ Place' = Place
  BY <1>1, PlaceOf, SamePlace
<1>4. CASE kind' = kind /\ answer' = Reply(s, ask, FALSE)
  <2>1. Tree' = Tree /\ Said' = Homes!Reply(s, ask, FALSE)
    BY <1>4, SameTree, SaidReply
  <2>2. Homes!Store(s, name)
    BY <1>3, <2>1 DEF Homes!Store, Homes!Change
  <2> QED BY <1>3, <2>2 DEF Homes!Next, Homes!Outside
<1>5. CASE /\ IsValidName(name) /\ at # Nowhere /\ ~IsDir(kind, at)
           /\ kind' = Put(kind, at, "file") /\ answer' = Reply(s, ask, TRUE)
  <2>1. /\ e \in Seq(Name) /\ e # <<>> /\ at = Top \o e
        /\ (e \in DOMAIN Tree) = (at \in DOMAIN kind)
        /\ e \in DOMAIN Tree => Tree[e] = kind[at]
    BY <1>1, <1>2, <1>5, EntryFacts
  <2>2. ~(e \in DOMAIN Tree /\ Tree[e] = "dir")
    BY <1>5, <2>1 DEF IsDir
  <2>3. kind \in Disks
    BY DEF PathsInv
  <2>4. kind' = Put(kind, at, "file")
    BY <1>5
  <2> HIDE DEF e, at
  <2>5. Tree' = [p \in DOMAIN Tree \cup {e} |-> IF p = e THEN "file" ELSE Tree[p]]
    BY <2>1, <2>3, <2>4, KindTypes, TreePut DEF Tree
  <2>6. Said' = Homes!Reply(s, ask, TRUE)
    BY <1>5, SaidReply
  <2>7. Homes!Store(s, name)
    BY <1>3, <1>5, <2>2, <2>5, <2>6
       DEF Homes!Store, Homes!Change, Homes!Put, Homes!Is, Homes!Entry, e
  <2> QED BY <1>3, <2>7 DEF Homes!Next, Homes!Outside
<1> QED BY <1>1, <1>4, <1>5

LEMMA RefineRm ==
  ASSUME PathsInv, Deep(kind), NEW s \in Sessions, NEW name \in Names, Rm(s, name), PathFits
  PROVE  Homes!Next
<1> DEFINE e == Append(Place[s], name)
           at == At(s, name)
           ask == <<"rm", name>>
<1>1. /\ session[s].login /\ session' = session
      /\ \/ /\ IsValidName(name) /\ at \in DOMAIN kind /\ kind[at] = "file"
            /\ kind' = [p \in DOMAIN kind \ {at} |-> kind[p]] /\ answer' = Reply(s, ask, TRUE)
         \/ kind' = kind /\ answer' = Reply(s, ask, FALSE)
  BY DEF Rm, Change
<1>2. Len(session[s].root \o session[s].cwd) + (1 + Len(name)) < MaxPath
  BY <1>1, FitsWithName
<1>3. Place[s] # <<>> /\ Place' = Place
  BY <1>1, PlaceOf, SamePlace
<1>4. CASE kind' = kind /\ answer' = Reply(s, ask, FALSE)
  <2>1. Tree' = Tree /\ Said' = Homes!Reply(s, ask, FALSE)
    BY <1>4, SameTree, SaidReply
  <2>2. Homes!Remove(s, name)
    BY <1>3, <2>1 DEF Homes!Remove, Homes!Change
  <2> QED BY <1>3, <2>2 DEF Homes!Next, Homes!Outside
<1>5. CASE /\ IsValidName(name) /\ at \in DOMAIN kind /\ kind[at] = "file"
           /\ kind' = [p \in DOMAIN kind \ {at} |-> kind[p]] /\ answer' = Reply(s, ask, TRUE)
  <2> session[s].login /\ IsValidName(name)
    BY <1>1, <1>5
  <2>0. at # <<>>
    BY <1>2, EntryFacts
  <2>1. /\ e \in Seq(Name) /\ e # <<>> /\ at = Top \o e
        /\ (e \in DOMAIN Tree) = (at \in DOMAIN kind)
        /\ e \in DOMAIN Tree => Tree[e] = kind[at]
    BY <1>2, EntryFacts
  <2>2. e \in DOMAIN Tree /\ Tree[e] = "file"
    BY <1>5, <2>1
  <2>3. kind \in Disks /\ ~IsDir(kind, at)
    BY <1>5, <2>0 DEF PathsInv, IsDir
  <2>4. kind' = [p \in DOMAIN kind \ {at} |-> kind[p]]
    BY <1>5
  <2> HIDE DEF e, at
  <2>5. Tree' = [p \in DOMAIN Tree \ {e} |-> Tree[p]]
    BY <2>1, <2>3, <2>4, TreeRemove DEF Tree
  <2>6. Said' = Homes!Reply(s, ask, TRUE)
    BY <1>5, SaidReply
  <2>7. Homes!Remove(s, name)
    BY <1>3, <1>5, <2>2, <2>5, <2>6 DEF Homes!Remove, Homes!Change, Homes!Is, Homes!Entry, e
  <2> QED BY <1>3, <2>7 DEF Homes!Next, Homes!Outside
<1> QED BY <1>1, <1>4, <1>5

\* Nothing is ever made outside the users' directories.
LEMMA BelowHome ==
  ASSUME NEW u \in Users, NEW at \in Seq(Name), Below(HomeOf(u), at)
  PROVE  \E q \in Seq(Name) : at = Top \o q /\ q # <<>>
<1> DEFINE h == HomeOf(u)
           w == <<u>>
<1>0. h = Append(Top, u) /\ u \in Name /\ Top \in Seq(Name)
  BY PreparedFacts, UserFacts
<1>1. h = Append(Top, u) /\ h \in Seq(Name) /\ u \in Name /\ Top \in Seq(Name)
  BY <1>0, AppendProperties
<1>2. w \in Seq(Name) /\ Len(w) = 1
  BY <1>1
<1>3. h = Top \o w
  BY <1>1, AppendIsConcat
<1> HIDE DEF h, w
<1>4. PICK r \in Seq(Name) : at = h \o r
  <2>1. Below(h, at)
    BY DEF h
  <2>2. at = h \o SubSeq(at, Len(h) + 1, Len(at)) /\ SubSeq(at, Len(h) + 1, Len(at)) \in Seq(Name)
    BY <1>1, <2>1, CutPrefix
  <2> QED BY <2>2
<1>5. at = Top \o (w \o r)
  BY <1>1, <1>2, <1>3, <1>4, ConcatAssociative
<1>6. w \o r \in Seq(Name) /\ Len(w \o r) = 1 + Len(r) /\ Len(r) \in Nat
  BY <1>2, CutConcat
<1>7. w \o r # <<>>
  <2>1. Len(w \o r) # 0
    BY <1>6
  <2> QED BY <2>1, EmptySeq
<1> QED BY <1>5, <1>6, <1>7

LEMMA PutKeepsDeep ==
  ASSUME PathsInv, Deep(kind), NEW s \in Sessions, session[s].login,
         NEW name \in Names, IsValidName(name), NEW what \in Kinds
  PROVE  Deep(Put(kind, At(s, name), what))
<1>1. name \in Seq(STRING) /\ kind \in Disks
  BY PathsAssumption DEF PathsInv
<1>2. session[s].user \in Users /\ At(s, name) \in Seq(Name)
      /\ Below(HomeOf(session[s].user), At(s, name))
  BY <1>1, WherePathsLead
<1>3. PICK q \in Seq(Name) : At(s, name) = Top \o q /\ q # <<>>
  BY <1>2, BelowHome
<1>4. Deep(Put(kind, Top \o q, what))
  BY <1>1, <1>3, TreePut
<1> QED BY <1>3, <1>4

LEMMA NextKeepsDeep ==
  ASSUME PathsInv, Deep(kind), [Next]_vars
  PROVE  Deep(kind')
<1>1. CASE kind' = kind
  BY <1>1
<1>2. CASE kind' # kind
  <2>1. PICK s \in Sessions :
          \/ \E u \in Users : Login(s, u)
          \/ \E name \in Names : Mkdir(s, name) \/ Rm(s, name) \/ Puts(s, name)
    BY <1>2 DEF Next, vars, LoginRefused, TooEarly, Pwd, Ls, Gets, Cd, CdParent
  <2>2. ASSUME NEW u \in Users, Login(s, u) PROVE Deep(kind')
    BY <1>2, <2>2, LoginKeeps
  <2>3. ASSUME NEW name \in Names, Mkdir(s, name) PROVE Deep(kind')
    <3>1. session[s].login /\ IsValidName(name) /\ kind' = Put(kind, At(s, name), "dir")
      BY <1>2, <2>3 DEF Mkdir, Change
    <3> QED BY <3>1, PutKeepsDeep, KindTypes
  <2>4. ASSUME NEW name \in Names, Puts(s, name) PROVE Deep(kind')
    <3>1. session[s].login /\ IsValidName(name) /\ kind' = Put(kind, At(s, name), "file")
      BY <1>2, <2>4 DEF Puts, Change
    <3> QED BY <3>1, PutKeepsDeep, KindTypes
  <2>5. ASSUME NEW name \in Names, Rm(s, name) PROVE Deep(kind')
    <3>1. kind' = [p \in DOMAIN kind \ {At(s, name)} |-> kind[p]]
      BY <1>2, <2>5 DEF Rm, Change
    <3> QED BY <3>1 DEF Deep
  <2> QED BY <2>1, <2>2, <2>3, <2>4, <2>5
<1> QED BY <1>1, <1>2

LEMMA PreparedDeep ==
  /\ Deep(PreparedDisk)
  /\ TreeOf(PreparedDisk) = [p \in {<<u>> : u \in Users} |-> "dir"]
<1> DEFINE d == PreparedDisk
           T == [p \in {<<u>> : u \in Users} |-> "dir"]
<1>1. /\ d \in Disks /\ OnlyDirs(d) /\ Top \in Seq(Name) /\ Len(Top) \in Nat
      /\ \A u \in Users : HomeOf(u) = Append(Top, u) /\ HomeOf(u) \in DOMAIN d
  BY PreparedFacts, LenProperties DEF DirDisks
<1>2. Straight(Components(DataRoot))
  BY DataRootAssumption DEF Straight
<1>3. \A p \in DOMAIN d : Len(p) <= Len(Top) \/ \E u \in Users : p = Append(Top, u)
  BY <1>2, PreparedFacts
<1>4. ASSUME NEW u \in Users
      PROVE  <<u>> \in Seq(Name) /\ <<u>> # <<>> /\ Append(Top, u) = Top \o <<u>>
  BY <1>1, UserFacts, AppendIsConcat
<1>5. \A p \in DOMAIN d : p \in Seq(Name) /\ Len(p) \in Nat
  BY <1>1, DiskType, LenProperties
<1>6. Deep(d)
  <2> SUFFICES ASSUME NEW p \in DOMAIN d, Len(p) > Len(Top) PROVE Below(Top, p)
    BY DEF Deep
  <2>1. PICK u \in Users : p = Append(Top, u)
    <3>1. ~(Len(p) <= Len(Top))
      BY <1>1, <1>5
    <3> QED BY <1>3, <3>1
  <2>2. Below(Top, Top \o <<u>>)
    BY <1>1, <1>4, BelowConcat
  <2> QED BY <1>4, <2>1, <2>2
<1> HIDE DEF d
<1>7. T = [p \in DOMAIN T |-> T[p]] /\ DOMAIN T = {<<u>> : u \in Users}
      /\ \A p \in DOMAIN T : T[p] = "dir"
  OBVIOUS
<1> HIDE DEF T
<1>8. \A p \in DOMAIN T : p \in Seq(Name) /\ p # <<>> /\ Top \o p \in DOMAIN d /\ T[p] = d[Top \o p]
  <2> SUFFICES ASSUME NEW p \in DOMAIN T
               PROVE  p \in Seq(Name) /\ p # <<>> /\ Top \o p \in DOMAIN d /\ T[p] = d[Top \o p]
    OBVIOUS
  <2>1. PICK u \in Users : p = <<u>>
    BY <1>7
  <2>2. Top \o p \in DOMAIN d /\ p \in Seq(Name) /\ p # <<>>
    BY <1>1, <1>4, <2>1
  <2> QED BY <1>1, <1>7, <2>2 DEF OnlyDirs
<1>9. ASSUME NEW q \in Seq(Name), q # <<>>, Top \o q \in DOMAIN d PROVE q \in DOMAIN T
  <2>1. Len(Top \o q) = Len(Top) + Len(q) /\ Len(q) \in Nat \ {0}
    BY <1>1, <1>9, CutConcat, EmptySeq
  <2>2. ~(Len(Top \o q) <= Len(Top))
    BY <1>1, <2>1
  <2>3. PICK u \in Users : Top \o q = Append(Top, u)
    BY <1>3, <1>9, <2>2 DEF d
  <2>4. q = <<u>>
    BY <1>4, <2>3, SameBelowTop
  <2> QED BY <1>7, <2>4
<1>10. TreeOf(d) = T
  BY <1>1, <1>6, <1>7, <1>8, <1>9, TreeEqual DEF d
<1> QED BY <1>6, <1>10 DEF d, T

LEMMA InitHomes == Init => Homes!Init /\ Deep(kind)
<1> SUFFICES ASSUME Init PROVE Homes!Init /\ Deep(kind)
  OBVIOUS
<1>1. kind = PreparedDisk
  BY DEF Init
<1>2. Deep(kind) /\ Tree = [p \in {<<u>> : u \in Users} |-> "dir"]
  BY <1>1, PreparedDeep DEF Tree
<1>3. Place = [s \in Sessions |-> <<>>]
  BY DEF Init, Place
<1>4. PICK s \in Sessions : answer = Reply(s, <<>>, FALSE)
  BY DEF Init
<1>5. Said = Homes!Reply(s, <<>>, FALSE)
  BY <1>4 DEF Said, Reply, Homes!Reply
<1> QED BY <1>2, <1>3, <1>5 DEF Homes!Init, Homes!Outside

LEMMA NextHomes ==
  ASSUME PathsInv, Deep(kind), [Next]_vars
  PROVE  [PathFits => [Homes!Next]_(Homes!homeVars)]_vars
<1> SUFFICES ASSUME Next, PathFits PROVE Homes!Next
  OBVIOUS
<1>1. PICK s \in Sessions :
    \/ \E u \in Users : Login(s, u)
    \/ \E u \in Users \cup Names : LoginRefused(s, u)
    \/ TooEarly(s) \/ Pwd(s) \/ Ls(s) \/ CdParent(s)
    \/ \E name \in Names : Cd(s, name) \/ Mkdir(s, name) \/ Rm(s, name) \/ Puts(s, name) \/ Gets(s, name)
  BY DEF Next
<1>2. ASSUME NEW u \in Users, Login(s, u) PROVE Homes!Next
  BY <1>2, RefineLogin
<1>3. ASSUME NEW u \in Users \cup Names, LoginRefused(s, u) PROVE Homes!Next
  BY <1>3, RefineRefused
<1>4. CASE TooEarly(s)
  BY <1>4, RefineTooEarly
<1>5. CASE Pwd(s)
  BY <1>5, RefinePwd
<1>6. CASE Ls(s)
  BY <1>6, RefineLs
<1>7. CASE CdParent(s)
  BY <1>7, RefineUp
<1>8. ASSUME NEW name \in Names, Cd(s, name) PROVE Homes!Next
  BY <1>8, RefineCd
<1>9. ASSUME NEW name \in Names, Mkdir(s, name) PROVE Homes!Next
  BY <1>9, RefineMkdir
<1>10. ASSUME NEW name \in Names, Rm(s, name) PROVE Homes!Next
  BY <1>10, RefineRm
<1>11. ASSUME NEW name \in Names, Puts(s, name) PROVE Homes!Next
  BY <1>11, RefinePuts
<1>12. ASSUME NEW name \in Names, Gets(s, name) PROVE Homes!Next
  BY <1>12, RefineGets
<1> QED BY <1>1, <1>2, <1>3, <1>4, <1>5, <1>6, <1>7, <1>8, <1>9, <1>10, <1>11, <1>12

\* A command whose path fits its buffer is about the entry of that name where
\* its session stands, as if there were no strings and no buffers: each such
\* step of the server is one of Homes, whatever commands with paths that were
\* cut have done before.
THEOREM SessionsRefineHomes == Spec => HomesSpec
<1>1. Init => Homes!Init /\ Deep(kind)
  BY InitHomes
<1>2. PathsInv /\ Deep(kind) /\ [Next]_vars => Deep(kind')
  BY NextKeepsDeep
<1>3. PathsInv /\ Deep(kind) /\ [Next]_vars => [PathFits => [Homes!Next]_(Homes!homeVars)]_vars
  BY NextHomes
<1>4. Deep(kind)' <=> Deep(kind')
  BY DEF Deep
<1> DEFINE D == Deep(kind)
<1>5. PathsInv /\ D /\ [Next]_vars => D'
  BY <1>2, <1>4
<1>6. Init => Homes!Init /\ D
  BY <1>1
<1>7. PathsInv /\ D /\ [Next]_vars => [PathFits => [Homes!Next]_(Homes!homeVars)]_vars
  BY <1>3
<1> HIDE DEF D
<1> QED BY <1>5, <1>6, <1>7, SessionsArePlaced, PTL DEF Spec, HomesSpec

=============================================================================
