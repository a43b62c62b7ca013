-------------------------- MODULE CommandLineProofs --------------------------
(***************************************************************************)
(* What the files and the lines typed come to, for any files, lines and    *)
(* buffers.                                                                *)
(*                                                                         *)
(* First the string functions: each is a recursive function of a position, *)
(* and is replaced by the place where it stops.  Then fgets: of a file of  *)
(* lines none longer than the buffer, what is not read is the lines after  *)
(* the k-th, perhaps with a newline before them; each read takes the next  *)
(* line or no word at all.  From that follow the settings and the users    *)
(* after k lines, and the commands that the server has run after k lines.  *)
(***************************************************************************)
EXTENDS CommandLine, FiniteSetTheorems, SequenceTheorems, WellFoundedInduction, TLAPS

-----------------------------------------------------------------------------
(* Induction and recursion.                                                *)

\* A set that 0 is in, and with each number below n the next, has all up to n.
LEMMA UpTo ==
  ASSUME NEW n \in Nat, NEW S, 0 \in S, \A i \in 0 .. n - 1 : i \in S => i + 1 \in S
  PROVE  0 .. n \subseteq S
<1> DEFINE Less == {p \in Nat \X Nat : p[1] < p[2]}
           T == {i \in 0 .. n : i \notin S}
<1>1. IsWellFoundedOn(Less, Nat)
  BY NatLessThanWellFounded DEF OpToRel
<1>2. ASSUME T # {} PROVE FALSE
  <2>1. PICK m \in T : \A k \in T : ~(<<k, m>> \in Less)
    BY <1>1, <1>2, WFMin
  <2>2. m # 0 /\ m \in 0 .. n /\ m - 1 \in 0 .. n - 1 /\ m - 1 \in Nat /\ (m - 1) + 1 = m
    BY <2>1
  <2>3. <<m - 1, m>> \in Less
    BY <2>2
  <2>4. m - 1 \in S
    BY <2>1, <2>2, <2>3
  <2> QED BY <2>1, <2>2, <2>4
<1> QED BY <1>2

\* The least and the greatest number of a set.
LEMMA MinIs ==
  ASSUME NEW S \in SUBSET Nat, S # {}
  PROVE  Min(S) \in S /\ \A i \in S : Min(S) <= i
<1> DEFINE Less == {p \in Nat \X Nat : p[1] < p[2]}
<1>1. IsWellFoundedOn(Less, Nat)
  BY NatLessThanWellFounded DEF OpToRel
<1>2. PICK m \in S : \A k \in S : ~(<<k, m>> \in Less)
  BY <1>1, WFMin
<1>3. \A k \in S : m <= k
  <2> TAKE k \in S
  <2>1. k < m => <<k, m>> \in Less
    OBVIOUS
  <2>2. m \in Nat /\ k \in Nat
    OBVIOUS
  <2> QED BY <1>2, <2>1, <2>2
<1> QED BY <1>3 DEF Min

\* The smallest is what is in the set and under all of it.
LEMMA MinUnique ==
  ASSUME NEW S \in SUBSET Nat, NEW m \in S, \A i \in S : m <= i
  PROVE  Min(S) = m
<1>1. S # {}
  OBVIOUS
<1>2. Min(S) \in S /\ Min(S) <= m
  BY <1>1, MinIs
<1>3. m <= Min(S) /\ m \in Nat /\ Min(S) \in Nat
  BY <1>2
<1> QED BY <1>2, <1>3

\* A set of numbers that is not empty and has a bound has a largest.
LEMMA MaxIs ==
  ASSUME NEW n \in Nat, NEW S \in SUBSET (0 .. n), S # {}
  PROVE  Max(S) \in S /\ \A i \in S : i <= Max(S)
<1> DEFINE T == {n - i : i \in S}
<1>1. T \in SUBSET Nat /\ T # {}
  <2>1. ASSUME NEW i \in S PROVE n - i \in Nat
    <3>1. i \in 0 .. n
      OBVIOUS
    <3> QED BY <3>1
  <2> QED BY <2>1
<1>2. Min(T) \in T /\ \A j \in T : Min(T) <= j
  BY <1>1, MinIs
<1>3. PICK m \in S : Min(T) = n - m
  BY <1>2
<1>4. \A i \in S : i <= m
  <2> TAKE i \in S
  <2>1. n - i \in T
    OBVIOUS
  <2>2. n - m <= n - i
    BY <1>2, <1>3, <2>1
  <2> QED BY <2>2
<1>5. \A i \in S : m >= i
  BY <1>4
<1> QED BY <1>5 DEF Max

\* The largest is what is in the set and over all of it.
LEMMA MaxUnique ==
  ASSUME NEW n \in Nat, NEW S \in SUBSET (0 .. n), NEW m \in S, \A i \in S : i <= m
  PROVE  Max(S) = m
<1>1. S # {}
  OBVIOUS
<1>2. Max(S) \in S /\ \A i \in S : i <= Max(S)
  BY <1>1, MaxIs
<1>3. Max(S) <= m /\ m <= Max(S) /\ m \in Nat /\ Max(S) \in Nat
  <2>1. Max(S) <= m /\ m <= Max(S)
    BY <1>2
  <2>2. Max(S) \in 0 .. n /\ m \in 0 .. n
    BY <1>2
  <2> QED BY <2>1, <2>2
<1> QED BY <1>3

\* A search upwards, and one downwards, past the members of G.
Up(m, n, G, f) == f = [i \in m .. n |-> IF i \in G THEN f[i + 1] ELSE i]
Down(m, n, G, f) == f = [i \in m .. n |-> IF i \in G THEN f[i - 1] ELSE i]

\* A scan upwards that goes on as long as it is in G, as a recursive function.
LEMMA UpExists ==
  ASSUME NEW m \in Nat, NEW n \in Nat, m <= n, NEW G \in SUBSET (m .. n - 1)
  PROVE  \E f : Up(m, n, G, f)
<1> DEFINE Ends(i) == {j \in i .. n : j \notin G}
           f == [i \in m .. n |-> Min(Ends(i))]
<1>1. \A i \in m .. n : Ends(i) \in SUBSET Nat /\ n \in Ends(i)
  OBVIOUS
<1>2. ASSUME NEW i \in m .. n, i \in G PROVE f[i] = f[i + 1]
  <2>1. i + 1 \in m .. n /\ Ends(i + 1) = Ends(i)
    BY <1>2
  <2> QED BY <2>1
<1>3. ASSUME NEW i \in m .. n, i \notin G PROVE f[i] = i
  <2>1. i \in Ends(i) /\ \A j \in Ends(i) : i <= j
    BY <1>3
  <2>2. Ends(i) \in SUBSET Nat
    BY <1>1
  <2> HIDE DEF Ends
  <2>3. Min(Ends(i)) = i
    BY <2>1, <2>2, MinUnique
  <2> QED BY <2>3
<1>4. f = [i \in m .. n |-> f[i]]
  OBVIOUS
<1>5. [i \in m .. n |-> f[i]] = [i \in m .. n |-> IF i \in G THEN f[i + 1] ELSE i]
  <2> HIDE DEF f
  <2> QED BY <1>2, <1>3
<1> HIDE DEF f
<1> QED BY <1>4, <1>5 DEF Up

\* It ends at the first place outside G.
LEMMA UpEnds ==
  ASSUME NEW m \in Nat, NEW n \in Nat, m <= n, NEW G \in SUBSET (m .. n - 1),
         NEW f, Up(m, n, G, f)
  PROVE  f[m] \in m .. n /\ f[m] \notin G /\ m .. f[m] - 1 \subseteq G
<1> DEFINE Ends(i) == f[i] \in i .. n /\ f[i] \notin G /\ i .. f[i] - 1 \subseteq G
           S == {j \in 0 .. n - m : Ends(n - j)}
<1>1. \A i \in m .. n : f[i] = IF i \in G THEN f[i + 1] ELSE i
  BY DEF Up
<1>2. 0 \in S
  <2>1. n \in m .. n /\ n \notin G /\ n - 0 = n
    OBVIOUS
  <2>2. f[n] = n
    BY <1>1, <2>1
  <2> QED BY <2>1, <2>2
<1>3. ASSUME NEW j \in 0 .. (n - m) - 1, j \in S PROVE j + 1 \in S
  <2> DEFINE i == n - (j + 1)
  <2>1. i \in m .. n /\ i + 1 = n - j /\ i + 1 \in m .. n /\ j + 1 \in 0 .. n - m
    OBVIOUS
  <2>2. Ends(i + 1)
    BY <1>3, <2>1
  <2> HIDE DEF i
  <2>3. CASE i \in G
    <3>1. f[i] = f[i + 1]
      BY <1>1, <2>1, <2>3
    <3>2. i .. f[i + 1] - 1 \subseteq G
      BY <2>1, <2>2, <2>3
    <3>3. Ends(i)
      BY <2>1, <2>2, <3>1, <3>2
    <3> QED BY <2>1, <3>3 DEF i
  <2>4. CASE i \notin G
    <3>1. f[i] = i
      BY <1>1, <2>1, <2>4
    <3>2. Ends(i)
      BY <2>1, <2>4, <3>1
    <3> QED BY <2>1, <3>2 DEF i
  <2> QED BY <2>3, <2>4
<1>4. 0 .. n - m \subseteq S
  <2>1. n - m \in Nat
    OBVIOUS
  <2> HIDE DEF S
  <2> QED BY <1>2, <1>3, <2>1, UpTo
<1>5. n - m \in S /\ n - (n - m) = m
  BY <1>4
<1> QED BY <1>5

\* A scan downwards.
LEMMA DownExists ==
  ASSUME NEW m \in Nat, NEW n \in Nat, m <= n, NEW G \in SUBSET (m + 1 .. n)
  PROVE  \E f : Down(m, n, G, f)
<1> DEFINE Ends(i) == {j \in m .. i : j \notin G}
           f == [i \in m .. n |-> Max(Ends(i))]
<1>1. \A i \in m .. n : Ends(i) \in SUBSET (0 .. n) /\ m \in Ends(i)
  OBVIOUS
<1>2. ASSUME NEW i \in m .. n, i \in G PROVE f[i] = f[i - 1]
  <2>1. i - 1 \in m .. n /\ Ends(i - 1) = Ends(i)
    BY <1>2
  <2> QED BY <2>1
<1>3. ASSUME NEW i \in m .. n, i \notin G PROVE f[i] = i
  <2>1. i \in Ends(i) /\ \A j \in Ends(i) : j <= i
    BY <1>3
  <2>2. Ends(i) \in SUBSET (0 .. n)
    BY <1>1
  <2> HIDE DEF Ends
  <2>3. Max(Ends(i)) = i
    BY <2>1, <2>2, MaxUnique
  <2> QED BY <2>3
<1>4. f = [i \in m .. n |-> f[i]]
  OBVIOUS
<1>5. [i \in m .. n |-> f[i]] = [i \in m .. n |-> IF i \in G THEN f[i - 1] ELSE i]
  <2> HIDE DEF f
  <2> QED BY <1>2, <1>3
<1> HIDE DEF f
<1> QED BY <1>4, <1>5 DEF Down

\* It ends at the last place outside G.
LEMMA DownEnds ==
  ASSUME NEW m \in Nat, NEW n \in Nat, m <= n, NEW G \in SUBSET (m + 1 .. n),
         NEW f, Down(m, n, G, f)
  PROVE  f[n] \in m .. n /\ f[n] \notin G /\ f[n] + 1 .. n \subseteq G
<1> DEFINE Ends(i) == f[i] \in m .. i /\ f[i] \notin G /\ f[i] + 1 .. i \subseteq G
           S == {j \in 0 .. n - m : Ends(m + j)}
<1>1. \A i \in m .. n : f[i] = IF i \in G THEN f[i - 1] ELSE i
  BY DEF Down
<1>2. 0 \in S
  <2>1. m \in m .. n /\ m \notin G /\ m + 0 = m
    OBVIOUS
  <2>2. f[m] = m
    BY <1>1, <2>1
  <2> QED BY <2>1, <2>2
<1>3. ASSUME NEW j \in 0 .. (n - m) - 1, j \in S PROVE j + 1 \in S
  <2> DEFINE i == m + (j + 1)
  <2>1. i \in m .. n /\ i - 1 = m + j /\ i - 1 \in m .. n /\ j + 1 \in 0 .. n - m
    OBVIOUS
  <2>2. Ends(i - 1)
    BY <1>3, <2>1
  <2> HIDE DEF i
  <2>3. CASE i \in G
    <3>1. f[i] = f[i - 1]
      BY <1>1, <2>1, <2>3
    <3>2. f[i - 1] + 1 .. i \subseteq G
      BY <2>1, <2>2, <2>3
    <3>3. Ends(i)
      BY <2>1, <2>2, <3>1, <3>2
    <3> QED BY <2>1, <3>3 DEF i
  <2>4. CASE i \notin G
    <3>1. f[i] = i
      BY <1>1, <2>1, <2>4
    <3>2. Ends(i)
      BY <2>1, <2>4, <3>1
    <3> QED BY <2>1, <3>2 DEF i
  <2> QED BY <2>3, <2>4
<1>4. 0 .. n - m \subseteq S
  <2>1. n - m \in Nat
    OBVIOUS
  <2> HIDE DEF S
  <2> QED BY <1>2, <1>3, <2>1, UpTo
<1>5. n - m \in S /\ m + (n - m) = n
  BY <1>4
<1> QED BY <1>5

-----------------------------------------------------------------------------
(* Parts of a string.                                                      *)

\* (the provers do not know what is in STRING)
Char == STRING \cup Space \cup {"=", "#", "l", "o", "g", "i", "n"}
Str == Seq(Char)

\* What a part of a string is, by its characters.
LEMMA PartIs ==
  ASSUME NEW s \in Str, NEW m \in 1 .. Len(s) + 1, NEW n \in m - 1 .. Len(s)
  PROVE  /\ SubSeq(s, m, n) \in Str
         /\ Len(SubSeq(s, m, n)) = n - m + 1
         /\ \A i \in 1 .. n - m + 1 : SubSeq(s, m, n)[i] = s[m + i - 1]
<1>1. Len(s) \in Nat /\ m \in Int /\ n \in Int
  BY LenProperties DEF Str
<1>2. \A i \in m .. n : s[i] \in Char
  <2> TAKE i \in m .. n
  <2>1. i \in 1 .. Len(s)
    BY <1>1
  <2> QED BY <2>1, ElementOfSeq DEF Str
<1>3. /\ SubSeq(s, m, n) \in Seq(Char)
      /\ Len(SubSeq(s, m, n)) = IF m <= n THEN n - m + 1 ELSE 0
      /\ \A i \in 1 .. n - m + 1 : SubSeq(s, m, n)[i] = s[m + i - 1]
  BY <1>1, <1>2, SubSeqProperties
<1>4. (IF m <= n THEN n - m + 1 ELSE 0) = n - m + 1
  BY <1>1
<1> QED BY <1>3, <1>4 DEF Str

\* Strings with the same characters are the same.
LEMMA SameStr ==
  ASSUME NEW s \in Str, NEW t \in Str, Len(s) = Len(t),
         \A i \in 1 .. Len(s) : s[i] = t[i]
  PROVE  s = t
BY SeqEqual DEF Str

\* A part of a part is a part.
LEMMA PartOfPart ==
  ASSUME NEW s \in Str, NEW m \in 1 .. Len(s) + 1, NEW n \in m - 1 .. Len(s),
         NEW i \in 1 .. n - m + 2, NEW j \in i - 1 .. n - m + 1
  PROVE  SubSeq(SubSeq(s, m, n), i, j) = SubSeq(s, m + i - 1, m + j - 1)
<1> DEFINE p == SubSeq(s, m, n)
           q == SubSeq(p, i, j)
           r == SubSeq(s, m + i - 1, m + j - 1)
<1>1. Len(s) \in Nat
  BY LenProperties DEF Str
<1>2. /\ p \in Str /\ Len(p) = n - m + 1
      /\ \A k \in 1 .. n - m + 1 : p[k] = s[m + k - 1]
  BY PartIs
<1> HIDE DEF p
<1>3. i \in 1 .. Len(p) + 1 /\ j \in i - 1 .. Len(p)
      /\ m + i - 1 \in 1 .. Len(s) + 1 /\ m + j - 1 \in (m + i - 1) - 1 .. Len(s)
  BY <1>1, <1>2
<1>4. /\ q \in Str /\ Len(q) = j - i + 1
      /\ \A k \in 1 .. j - i + 1 : q[k] = p[i + k - 1]
  BY <1>2, <1>3, PartIs
<1>5. /\ r \in Str /\ Len(r) = (m + j - 1) - (m + i - 1) + 1
      /\ \A k \in 1 .. (m + j - 1) - (m + i - 1) + 1 : r[k] = s[(m + i - 1) + k - 1]
  BY <1>3, PartIs
<1> HIDE DEF q, r
<1>6. (m + j - 1) - (m + i - 1) + 1 = j - i + 1
  OBVIOUS
<1>7. \A k \in 1 .. Len(q) : q[k] = r[k]
  <2> TAKE k \in 1 .. Len(q)
  <2>1. i + k - 1 \in 1 .. n - m + 1 /\ m + (i + k - 1) - 1 = (m + i - 1) + k - 1
    BY <1>1, <1>3, <1>4
  <2> QED BY <1>2, <1>4, <1>5, <1>6, <2>1
<1>8. q = r
  BY <1>4, <1>5, <1>6, <1>7, SameStr
<1> QED BY <1>8 DEF q, r, p

\* From the first character to the last it is the string.
LEMMA PartFull ==
  ASSUME NEW s \in Str
  PROVE  SubSeq(s, 1, Len(s)) = s
BY SubSeqFull DEF Str

\* From a character to the one before it is nothing.
LEMMA NoPart ==
  ASSUME NEW s, NEW m \in Int
  PROVE  SubSeq(s, m, m - 1) = <<>>
BY SubSeqEmpty

\* The facts about a string that the provers need at hand.
LEMMA StrIs ==
  ASSUME NEW s \in Str
  PROVE  /\ Len(s) \in Nat /\ DOMAIN s = 1 .. Len(s)
         /\ \A i \in 1 .. Len(s) : s[i] \in Char
         /\ (s = <<>> <=> Len(s) = 0)
<1>1. Len(s) \in Nat /\ DOMAIN s = 1 .. Len(s) /\ \A i \in 1 .. Len(s) : s[i] \in Char
  BY LenProperties, ElementOfSeq DEF Str
<1>2. s = <<>> <=> Len(s) = 0
  BY EmptySeq DEF Str
<1> QED BY <1>1, <1>2

\* What remains after n characters.
LEMMA DropIs ==
  ASSUME NEW s \in Str, NEW n \in 0 .. Len(s)
  PROVE  /\ Drop(s, n) \in Str /\ Len(Drop(s, n)) = Len(s) - n
         /\ \A i \in 1 .. Len(s) - n : Drop(s, n)[i] = s[n + i]
         /\ Drop(s, n) = <<>> <=> n = Len(s)
<1>1. Len(s) \in Nat /\ n + 1 \in 1 .. Len(s) + 1 /\ Len(s) \in (n + 1) - 1 .. Len(s)
      /\ Len(s) - (n + 1) + 1 = Len(s) - n
  BY StrIs
<1>2. /\ SubSeq(s, n + 1, Len(s)) \in Str
      /\ Len(SubSeq(s, n + 1, Len(s))) = Len(s) - (n + 1) + 1
      /\ \A i \in 1 .. Len(s) - (n + 1) + 1 : SubSeq(s, n + 1, Len(s))[i] = s[(n + 1) + i - 1]
  BY <1>1, PartIs
<1>3. \A i \in 1 .. Len(s) - n : (n + 1) + i - 1 = n + i
  OBVIOUS
<1>4. /\ Drop(s, n) \in Str /\ Len(Drop(s, n)) = Len(s) - n
      /\ \A i \in 1 .. Len(s) - n : Drop(s, n)[i] = s[n + i]
  BY <1>1, <1>2, <1>3 DEF Drop
<1>5. Drop(s, n) = <<>> <=> n = Len(s)
  <2> DEFINE d == Drop(s, n)
  <2>1. d \in Str /\ Len(d) = Len(s) - n
    BY <1>4
  <2> HIDE DEF d
  <2>2. d = <<>> <=> Len(d) = 0
    BY <2>1, StrIs
  <2>3. Len(d) = 0 <=> n = Len(s)
    <3>1. Len(d) = Len(s) - n
      BY <2>1
    <3> QED BY <1>1, <3>1
  <2> QED BY <2>2, <2>3, Zenon DEF d
<1> QED BY <1>4, <1>5

\* Where a span ends: at a character that is none of `chars`, or at the limit.
IsSpan(str, chars, limit, n) ==
  /\ n \in 0 .. Len(str) /\ n <= limit
  /\ \A i \in 1 .. n : str[i] \in chars
  /\ n < Len(str) /\ n < limit => str[n + 1] \notin chars

\* Every span stops somewhere.
LEMMA SpanExists ==
  ASSUME NEW str \in Str, NEW chars, NEW limit \in Nat
  PROVE  \E n : IsSpan(str, chars, limit, n) /\ Span(str, chars, limit) = SubSeq(str, 1, n)
<1> DEFINE N == Len(str)
           G == {i \in 0 .. N - 1 : i < limit /\ str[i + 1] \in chars}
           Eq(f) == f = [i \in 0 .. N |->
                           IF i < N /\ i < limit /\ str[i + 1] \in chars THEN f[i + 1] ELSE i]
           g == CHOOSE f : Eq(f)
<1>1. N \in Nat
  BY StrIs
<1>2. ASSUME NEW f PROVE Eq(f) <=> Up(0, N, G, f)
  <2>1. \A i \in 0 .. N : i < N /\ i < limit /\ str[i + 1] \in chars <=> i \in G
    BY <1>1
  <2> HIDE DEF G, N
  <2>2. [i \in 0 .. N |-> IF i < N /\ i < limit /\ str[i + 1] \in chars THEN f[i + 1] ELSE i]
          = [i \in 0 .. N |-> IF i \in G THEN f[i + 1] ELSE i]
    BY <2>1
  <2> QED BY <2>2 DEF Up
<1>3. 0 \in Nat /\ 0 <= N /\ G \in SUBSET (0 .. N - 1)
  BY <1>1
<1>4. Span(str, chars, limit) = SubSeq(str, 1, g[0])
  BY DEF Span
<1>5. Up(0, N, G, g)
  <2> HIDE DEF G, N, Eq
  <2>1. PICK f : Eq(f)
    BY <1>1, <1>2, <1>3, UpExists
  <2>2. Eq(g)
    BY <2>1
  <2> QED BY <1>2, <2>2
<1> HIDE DEF g
<1>6. g[0] \in 0 .. N /\ g[0] \notin G /\ 0 .. g[0] - 1 \subseteq G
  <2> HIDE DEF G, N
  <2> QED BY <1>1, <1>3, <1>5, UpEnds
<1> DEFINE n == g[0]
<1>7. n \in 0 .. N /\ n \notin G /\ 0 .. n - 1 \subseteq G
  BY <1>6
<1> HIDE DEF n
<1>8. n <= limit
  <2>1. CASE n = 0
    BY <2>1
  <2>2. CASE n # 0
    <3>1. n - 1 \in 0 .. n - 1
      BY <1>1, <1>7, <2>2
    <3>2. n - 1 < limit
      BY <1>7, <3>1
    <3> QED BY <1>1, <1>7, <3>2
  <2> QED BY <2>1, <2>2
<1>9. \A i \in 1 .. n : str[i] \in chars
  <2> TAKE i \in 1 .. n
  <2>1. i - 1 \in 0 .. n - 1 /\ (i - 1) + 1 = i
    BY <1>1, <1>7
  <2> QED BY <1>7, <2>1
<1>10. n < Len(str) /\ n < limit => str[n + 1] \notin chars
  BY <1>1, <1>7
<1>11. IsSpan(str, chars, limit, n)
  BY <1>7, <1>8, <1>9, <1>10 DEF IsSpan
<1> QED BY <1>4, <1>11 DEF n

\* It stops in one place only.
LEMMA SpanIs ==
  ASSUME NEW str \in Str, NEW chars, NEW limit \in Nat, NEW n, IsSpan(str, chars, limit, n)
  PROVE  Span(str, chars, limit) = SubSeq(str, 1, n)
<1>1. PICK m : IsSpan(str, chars, limit, m) /\ Span(str, chars, limit) = SubSeq(str, 1, m)
  BY SpanExists
<1>2. Len(str) \in Nat
  BY StrIs
<1>3. ~(m < n)
  <2> SUFFICES ASSUME m < n PROVE FALSE
    OBVIOUS
  <2>1. m + 1 \in 1 .. n /\ m < Len(str) /\ m < limit
    BY <1>1, <1>2 DEF IsSpan
  <2> QED BY <1>1, <2>1 DEF IsSpan
<1>4. ~(n < m)
  <2> SUFFICES ASSUME n < m PROVE FALSE
    OBVIOUS
  <2>1. n + 1 \in 1 .. m /\ n < Len(str) /\ n < limit
    BY <1>1, <1>2 DEF IsSpan
  <2> QED BY <1>1, <2>1 DEF IsSpan
<1>5. n = m
  <2>1. n \in Nat /\ m \in Nat
    BY <1>1, <1>2 DEF IsSpan
  <2> QED BY <1>3, <1>4, <2>1
<1> QED BY <1>1, <1>5

\* trim_newline stops before the line ends behind the text.
LEMMA TrimNewlineIs ==
  ASSUME NEW str \in Str, NEW n \in 0 .. Len(str), n # 0 => str[n] \notin NewLine,
         \A i \in n + 1 .. Len(str) : str[i] \in NewLine
  PROVE  TrimNewline(str) = SubSeq(str, 1, n)
<1> DEFINE N == Len(str)
           G == {i \in 0 + 1 .. N : str[i] \in NewLine}
           Eq(f) == f = [i \in 0 .. N |-> IF i > 0 /\ str[i] \in NewLine THEN f[i - 1] ELSE i]
           g == CHOOSE f : Eq(f)
<1>1. N \in Nat
  BY StrIs
<1>2. ASSUME NEW f PROVE Eq(f) <=> Down(0, N, G, f)
  <2>1. \A i \in 0 .. N : i > 0 /\ str[i] \in NewLine <=> i \in G
    BY <1>1
  <2> HIDE DEF G, N
  <2>2. [i \in 0 .. N |-> IF i > 0 /\ str[i] \in NewLine THEN f[i - 1] ELSE i]
          = [i \in 0 .. N |-> IF i \in G THEN f[i - 1] ELSE i]
    BY <2>1
  <2> QED BY <2>2 DEF Down
<1>3. 0 \in Nat /\ 0 <= N /\ G \in SUBSET (0 + 1 .. N)
  BY <1>1
<1>4. TrimNewline(str) = SubSeq(str, 1, g[N])
  BY DEF TrimNewline
<1>5. Down(0, N, G, g)
  <2> HIDE DEF G, N, Eq
  <2>1. PICK f : Eq(f)
    BY <1>1, <1>2, <1>3, DownExists
  <2>2. Eq(g)
    BY <2>1
  <2> QED BY <1>2, <2>2
<1> HIDE DEF g
<1>6. g[N] \in 0 .. N /\ g[N] \notin G /\ g[N] + 1 .. N \subseteq G
  <2> HIDE DEF G, N
  <2> QED BY <1>1, <1>3, <1>5, DownEnds
<1> DEFINE m == g[N]
<1>7. m \in 0 .. N /\ m \notin G /\ m + 1 .. N \subseteq G
  BY <1>6
<1> HIDE DEF m
<1>8. ~(m < n)
  BY <1>1, <1>7
<1>9. ~(n < m)
  BY <1>1, <1>7
<1>10. m = n
  BY <1>1, <1>7, <1>8, <1>9
<1> QED BY <1>4, <1>10 DEF m

-----------------------------------------------------------------------------
(* Words and the blanks around them.                                       *)

\* The words between two places.
TextIn(str, p, q) == {i \in p .. q : str[i] \notin Blank}
Words(str, p, q) ==
  IF TextIn(str, p, q) = {} THEN <<>>
  ELSE SubSeq(str, Min(TextIn(str, p, q)), Max(TextIn(str, p, q)))

\* The first and the last character of the words.
LEMMA TextInIs ==
  ASSUME NEW str \in Str, NEW p \in 1 .. Len(str) + 1, NEW q \in p - 1 .. Len(str),
         TextIn(str, p, q) # {}
  PROVE  LET a == Min(TextIn(str, p, q))
             z == Max(TextIn(str, p, q))
         IN  /\ a \in p .. q /\ z \in a .. q /\ a \in TextIn(str, p, q) /\ z \in TextIn(str, p, q)
             /\ TextIn(str, p, q) \subseteq a .. z
<1> DEFINE T == TextIn(str, p, q)
<1>1. Len(str) \in Nat /\ q \in Nat
  <2>1. Len(str) \in Nat
    BY StrIs
  <2> QED BY <2>1
<1>2. T \in SUBSET Nat /\ T \in SUBSET (0 .. q) /\ T \in SUBSET (p .. q)
  BY <1>1 DEF TextIn
<1> HIDE DEF T
<1>3. T # {}
  BY DEF T
<1>4. Min(T) \in T /\ \A i \in T : Min(T) <= i
  BY <1>2, <1>3, MinIs
<1>5. Max(T) \in T /\ \A i \in T : i <= Max(T)
  BY <1>1, <1>2, <1>3, MaxIs
<1>6. Min(T) \in p .. q /\ Max(T) \in p .. q /\ Min(T) <= Max(T)
  BY <1>2, <1>4, <1>5
<1>7. T \subseteq Min(T) .. Max(T)
  <2> SUFFICES ASSUME NEW i \in T PROVE i \in Min(T) .. Max(T)
    OBVIOUS
  <2>1. i \in p .. q /\ Min(T) <= i /\ i <= Max(T)
    BY <1>2, <1>4, <1>5
  <2> QED BY <1>1, <1>6, <2>1
<1>8. Max(T) \in Min(T) .. q
  BY <1>1, <1>6
<1> QED BY <1>4, <1>5, <1>6, <1>7, <1>8 DEF T

\* trim_space takes the blanks off both ends.
LEMMA TrimSpaceIs ==
  ASSUME NEW str \in Str
  PROVE  TrimSpace(str) = Words(str, 1, Len(str))
<1> DEFINE N == Len(str)
           G == {i \in 1 .. (N + 1) - 1 : str[i] \in Blank}
           EqS(f) == f = [i \in 1 .. N + 1 |->
                            IF i <= N /\ str[i] \in Blank THEN f[i + 1] ELSE i]
           s == CHOOSE f : EqS(f)
           H == {i \in 0 + 1 .. N : i >= s[1] /\ str[i] \in Blank}
           EqE(f) == f = [i \in 0 .. N |->
                            IF i >= s[1] /\ str[i] \in Blank THEN f[i - 1] ELSE i]
           e == CHOOSE f : EqE(f)
<1>1. N \in Nat
  BY StrIs
<1>2. ASSUME NEW f PROVE EqS(f) <=> Up(1, N + 1, G, f)
  <2>1. \A i \in 1 .. N + 1 : i <= N /\ str[i] \in Blank <=> i \in G
    BY <1>1
  <2> HIDE DEF G, N
  <2>2. [i \in 1 .. N + 1 |-> IF i <= N /\ str[i] \in Blank THEN f[i + 1] ELSE i]
          = [i \in 1 .. N + 1 |-> IF i \in G THEN f[i + 1] ELSE i]
    BY <2>1
  <2> QED BY <2>2 DEF Up
<1>3. 1 \in Nat /\ N + 1 \in Nat /\ 1 <= N + 1 /\ G \in SUBSET (1 .. (N + 1) - 1)
  BY <1>1
<1>4. TrimSpace(str) = SubSeq(str, s[1], e[N])
  BY DEF TrimSpace
<1> HIDE DEF e
<1>5. Up(1, N + 1, G, s)
  <2> HIDE DEF G, N, EqS
  <2>1. PICK f : EqS(f)
    BY <1>2, <1>3, UpExists
  <2>2. EqS(s)
    BY <2>1
  <2> QED BY <1>2, <2>2
<1> HIDE DEF s
<1>6. s[1] \in 1 .. N + 1 /\ s[1] \notin G /\ 1 .. s[1] - 1 \subseteq G
  <2> HIDE DEF G, N
  <2> QED BY <1>3, <1>5, UpEnds
<1> DEFINE a == s[1]
           K == {i \in 0 + 1 .. N : i >= a /\ str[i] \in Blank}
           EqK(f) == f = [i \in 0 .. N |-> IF i >= a /\ str[i] \in Blank THEN f[i - 1] ELSE i]
           k == CHOOSE f : EqK(f)
<1>7. a \in 1 .. N + 1 /\ a \notin G /\ 1 .. a - 1 \subseteq G
  BY <1>6
<1>8. e = k
  BY DEF e
<1>9. TrimSpace(str) = SubSeq(str, a, k[N])
  BY <1>4, <1>8
<1> HIDE DEF a
<1>10. ASSUME NEW f PROVE EqK(f) <=> Down(0, N, K, f)
  <2>1. \A i \in 0 .. N : i >= a /\ str[i] \in Blank <=> i \in K
    BY <1>1, <1>7
  <2> HIDE DEF K, N
  <2>2. [i \in 0 .. N |-> IF i >= a /\ str[i] \in Blank THEN f[i - 1] ELSE i]
          = [i \in 0 .. N |-> IF i \in K THEN f[i - 1] ELSE i]
    BY <2>1
  <2> QED BY <2>2 DEF Down
<1>11. 0 \in Nat /\ 0 <= N /\ K \in SUBSET (0 + 1 .. N)
  BY <1>1
<1>12. Down(0, N, K, k)
  <2> HIDE DEF K, N, EqK
  <2>1. PICK f : EqK(f)
    BY <1>1, <1>10, <1>11, DownExists
  <2>2. EqK(k)
    BY <2>1
  <2> QED BY <1>10, <2>2
<1> HIDE DEF k
<1>13. k[N] \in 0 .. N /\ k[N] \notin K /\ k[N] + 1 .. N \subseteq K
  <2> HIDE DEF K, N
  <2> QED BY <1>1, <1>11, <1>12, DownEnds
<1> DEFINE z == k[N]
           T == TextIn(str, 1, N)
<1>14. z \in 0 .. N /\ z \notin K /\ z + 1 .. N \subseteq K
  BY <1>13
<1> HIDE DEF z
<1>15. CASE T = {}
  <2>1. a = N + 1
    <3>1. \A i \in 1 .. N : str[i] \in Blank
      BY <1>15 DEF TextIn
    <3> QED BY <1>1, <1>7, <3>1
  <2>2. K = {}
    BY <1>1, <2>1
  <2>3. z = N
    BY <1>1, <1>14, <2>2
  <2>4. SubSeq(str, a, z) = <<>>
    BY <1>1, <2>1, <2>3, SubSeqEmpty
  <2> QED BY <1>9, <1>15, <2>4 DEF Words, z
<1>16. CASE T # {}
  <2>1. a \in T /\ \A i \in T : a <= i
    <3>1. \A i \in T : i \in 1 .. N /\ str[i] \notin Blank
      BY DEF TextIn
    <3>2. \A i \in T : a <= i
      <4> TAKE i \in T
      <4>1. i \notin G /\ i \in 1 .. N
        BY <3>1
      <4> QED BY <1>1, <1>7, <4>1
    <3>3. a <= N
      BY <1>1, <1>7, <1>16, <3>1, <3>2
    <3>4. a \in 1 .. N /\ str[a] \notin Blank
      BY <1>1, <1>7, <3>3
    <3> QED BY <3>2, <3>4 DEF TextIn
  <2>2. a \in 1 .. N /\ str[a] \notin Blank
    BY <2>1 DEF TextIn
  <2>3. a <= z
    <3> SUFFICES ASSUME z < a PROVE FALSE
      BY <1>1, <1>14, <2>2
    <3>1. a \in z + 1 .. N
      BY <1>1, <1>14, <2>2
    <3> QED BY <1>14, <2>2, <3>1
  <2>4. z \in T /\ \A i \in T : i <= z
    <3>1. z \in 1 .. N /\ str[z] \notin Blank
      BY <1>1, <1>14, <2>2, <2>3
    <3>2. ASSUME NEW i \in T PROVE i <= z
      <4>1. i \in 1 .. N /\ str[i] \notin Blank
        BY DEF TextIn
      <4>2. i \notin z + 1 .. N
        BY <1>14, <4>1
      <4> QED BY <1>1, <1>14, <4>1, <4>2
    <3> QED BY <3>1, <3>2 DEF TextIn
  <2>5. T \in SUBSET Nat /\ T \in SUBSET (0 .. N)
    BY <1>1 DEF TextIn
  <2>6. Min(T) = a /\ Max(T) = z
    <3> HIDE DEF T, N
    <3> QED BY <1>1, <2>1, <2>4, <2>5, MinUnique, MaxUnique
  <2> QED BY <1>9, <1>16, <2>6 DEF Words, z
<1> QED BY <1>15, <1>16

\* Bare, which the properties speak of, is those words too.
LEMMA BareIs ==
  ASSUME NEW str \in Str
  PROVE  Bare(str) = Words(str, 1, Len(str))
BY StrIs DEF Bare, Words, TextIn

\* So trim_space leaves what a line says.
LEMMA BareIsTrim ==
  ASSUME NEW str \in Str
  PROVE  TrimSpace(str) = Bare(str)
BY TrimSpaceIs, BareIs

\* The words of a part are the words between its ends.
LEMMA BareOfPart ==
  ASSUME NEW s \in Str, NEW p \in 1 .. Len(s) + 1, NEW q \in p - 1 .. Len(s)
  PROVE  Bare(SubSeq(s, p, q)) = Words(s, p, q)
<1> DEFINE t == SubSeq(s, p, q)
           S == TextIn(s, p, q)
           T == TextIn(t, 1, Len(t))
<1>1. Len(s) \in Nat /\ p \in Nat /\ q \in Nat
  <2>1. Len(s) \in Nat
    BY StrIs
  <2> QED BY <2>1
<1>2. t \in Str /\ Len(t) = q - p + 1 /\ \A i \in 1 .. q - p + 1 : t[i] = s[p + i - 1]
  BY PartIs
<1> HIDE DEF t
<1>3. Bare(t) = Words(t, 1, Len(t))
  BY <1>2, BareIs
<1>4. ASSUME NEW i \in S PROVE i - p + 1 \in T
  <2>1. i \in p .. q /\ s[i] \notin Blank
    BY DEF TextIn
  <2>2. i - p + 1 \in 1 .. q - p + 1 /\ p + (i - p + 1) - 1 = i
    BY <1>1, <2>1
  <2>3. t[i - p + 1] = s[i]
    BY <1>2, <2>2
  <2> QED BY <1>2, <2>1, <2>2, <2>3 DEF TextIn
<1>5. ASSUME NEW j \in T PROVE p + j - 1 \in S /\ j \in 1 .. q - p + 1
  <2>1. j \in 1 .. q - p + 1 /\ t[j] \notin Blank
    BY <1>2 DEF TextIn
  <2>2. p + j - 1 \in p .. q
    BY <1>1, <2>1
  <2> QED BY <1>2, <2>1, <2>2 DEF TextIn
<1>6. CASE S = {}
  <2>1. T = {}
    BY <1>5, <1>6
  <2> QED BY <1>3, <1>6, <2>1 DEF Words, t
<1>7. CASE S # {}
  <2> DEFINE a == Min(S)
             z == Max(S)
  <2>1. a \in p .. q /\ z \in a .. q /\ a \in S /\ z \in S /\ S \subseteq a .. z
    BY <1>7, TextInIs
  <2> HIDE DEF a, z, S
  <2>2. a - p + 1 \in T /\ z - p + 1 \in T
    BY <1>4, <2>1
  <2>3. T \in SUBSET Nat /\ T \in SUBSET (0 .. q)
    <3> SUFFICES ASSUME NEW j \in T PROVE j \in Nat /\ j \in 0 .. q
      OBVIOUS
    <3> QED BY <1>1, <1>5
  <2>4. \A j \in T : a - p + 1 <= j /\ j <= z - p + 1
    <3> TAKE j \in T
    <3>1. p + j - 1 \in a .. z /\ j \in Nat
      BY <1>5, <2>1, <2>3
    <3> QED BY <1>1, <2>1, <3>1
  <2> HIDE DEF T
  <2>5. Min(T) = a - p + 1 /\ Max(T) = z - p + 1
    BY <1>1, <2>2, <2>3, <2>4, MinUnique, MaxUnique
  <2>6. Words(t, 1, Len(t)) = SubSeq(t, a - p + 1, z - p + 1)
    BY <2>2, <2>5 DEF Words, T
  <2>7. /\ a - p + 1 \in 1 .. q - p + 2 /\ z - p + 1 \in (a - p + 1) - 1 .. q - p + 1
        /\ p + (a - p + 1) - 1 = a /\ p + (z - p + 1) - 1 = z
    BY <1>1, <2>1
  <2>8. SubSeq(t, a - p + 1, z - p + 1) = SubSeq(s, p + (a - p + 1) - 1, p + (z - p + 1) - 1)
    BY <2>7, PartOfPart DEF t
  <2>9. SubSeq(t, a - p + 1, z - p + 1) = SubSeq(s, a, z)
    BY <2>7, <2>8
  <2> QED BY <1>3, <1>7, <2>6, <2>9 DEF Words, t, S, a, z
<1> QED BY <1>6, <1>7

\* Words of the same places are the same words.
LEMMA SameWords ==
  ASSUME NEW s, NEW p, NEW q, NEW m, NEW n, TextIn(s, p, q) = TextIn(s, m, n)
  PROVE  Words(s, p, q) = Words(s, m, n)
BY DEF Words

\* A line with words is what stands around them; another has none.
LEMMA BareParts ==
  ASSUME NEW s \in Str, TextIn(s, 1, Len(s)) # {}
  PROVE  LET a == Min(TextIn(s, 1, Len(s)))
             z == Max(TextIn(s, 1, Len(s)))
         IN  /\ Bare(s) = SubSeq(s, a, z)
             /\ a \in 1 .. Len(s) /\ z \in a .. Len(s)
             /\ Bare(s) \in Str /\ Len(Bare(s)) = z - a + 1
             /\ \A i \in 1 .. z - a + 1 : Bare(s)[i] = s[a + i - 1]
             /\ s[a] \notin Blank /\ s[z] \notin Blank
             /\ TextIn(s, 1, Len(s)) \subseteq a .. z
<1> DEFINE T == TextIn(s, 1, Len(s))
           a == Min(T)
           z == Max(T)
<1>1. Len(s) \in Nat
  BY StrIs
<1>2. 1 \in 1 .. Len(s) + 1 /\ Len(s) \in 1 - 1 .. Len(s)
  BY <1>1
<1>3. a \in 1 .. Len(s) /\ z \in a .. Len(s) /\ a \in T /\ z \in T /\ T \subseteq a .. z
  BY <1>2, TextInIs
<1>4. Bare(s) = SubSeq(s, a, z)
  BY BareIs DEF Words
<1>5. s[a] \notin Blank /\ s[z] \notin Blank
  BY <1>3 DEF TextIn
<1> HIDE DEF a, z
<1>6. a \in 1 .. Len(s) + 1 /\ z \in a - 1 .. Len(s)
  BY <1>1, <1>3
<1>7. /\ SubSeq(s, a, z) \in Str /\ Len(SubSeq(s, a, z)) = z - a + 1
      /\ \A i \in 1 .. z - a + 1 : SubSeq(s, a, z)[i] = s[a + i - 1]
  BY <1>6, PartIs
<1> QED BY <1>3, <1>4, <1>5, <1>7 DEF a, z

\* Of blanks nothing is left.
LEMMA BareNone ==
  ASSUME NEW s \in Str, TextIn(s, 1, Len(s)) = {}
  PROVE  Bare(s) = <<>>
BY BareIs DEF Words

\* What is left of a string is a string, and no longer.
LEMMA BareType ==
  ASSUME NEW s \in Str
  PROVE  Bare(s) \in Str /\ Len(Bare(s)) <= Len(s)
<1>1. Len(s) \in Nat
  BY StrIs
<1>2. CASE TextIn(s, 1, Len(s)) = {}
  <2>1. Bare(s) = <<>>
    BY <1>2, BareNone
  <2>2. <<>> \in Str /\ Len(<<>>) = 0
    BY EmptySeq DEF Str
  <2>3. 0 <= Len(s)
    BY <1>1
  <2> QED BY <2>1, <2>2, <2>3, Zenon
<1>3. CASE TextIn(s, 1, Len(s)) # {}
  <2> DEFINE a == Min(TextIn(s, 1, Len(s)))
             z == Max(TextIn(s, 1, Len(s)))
  <2>1. a \in 1 .. Len(s) /\ z \in a .. Len(s) /\ Bare(s) \in Str /\ Len(Bare(s)) = z - a + 1
    BY <1>3, BareParts
  <2> HIDE DEF a, z
  <2>2. z - a + 1 <= Len(s)
    BY <1>1, <2>1
  <2> QED BY <2>1, <2>2
<1> QED BY <1>2, <1>3

\* A buffer keeps a beginning.
LEMMA FitIs ==
  ASSUME NEW s \in Str, NEW size \in Nat \ {0}
  PROVE  LET n == IF Len(s) < size THEN Len(s) ELSE size - 1
         IN  /\ n \in 0 .. Len(s) /\ Fit(s, size) = SubSeq(s, 1, n)
             /\ Fit(s, size) \in Str /\ Len(Fit(s, size)) = n
             /\ \A i \in 1 .. n : Fit(s, size)[i] = s[i]
<1> DEFINE n == IF Len(s) < size THEN Len(s) ELSE size - 1
<1>1. Len(s) \in Nat
  BY StrIs
<1>2. n \in 0 .. Len(s)
  BY <1>1
<1>3. Fit(s, size) = SubSeq(s, 1, n)
  BY PartFull DEF Fit
<1> HIDE DEF n
<1>4. 1 \in 1 .. Len(s) + 1 /\ n \in 1 - 1 .. Len(s) /\ n - 1 + 1 = n
      /\ \A i \in 1 .. n : 1 + i - 1 = i
  BY <1>1, <1>2
<1>5. /\ SubSeq(s, 1, n) \in Str /\ Len(SubSeq(s, 1, n)) = n - 1 + 1
      /\ \A i \in 1 .. n - 1 + 1 : SubSeq(s, 1, n)[i] = s[1 + i - 1]
  BY <1>4, PartIs
<1>6. Fit(s, size) \in Str /\ Len(Fit(s, size)) = n /\ \A i \in 1 .. n : Fit(s, size)[i] = s[i]
  BY <1>3, <1>4, <1>5
<1> QED BY <1>2, <1>3, <1>6 DEF n

-----------------------------------------------------------------------------
(* A file is read line by line.                                            *)

\* Concatenation is associative.
LEMMA StrAssoc ==
  ASSUME NEW s \in Str, NEW t \in Str, NEW u \in Str
  PROVE  (s \o t) \o u = s \o (t \o u)
BY ConcatAssociative DEF Str

\* What FlattenSeq builds up.
Flat(seqs, n, f) ==
  \A i \in 1 .. n : f[i] = IF i = 1 THEN seqs[i] ELSE f[i - 1] \o seqs[i]

\* FlattenSeq as a recursive function.
LEMMA FlatExists ==
  ASSUME NEW seqs \in Seq(Str), NEW n \in 1 .. Len(seqs)
  PROVE  \E f \in [1 .. n -> Str] : Flat(seqs, n, f)
<1> DEFINE S == {k \in 0 .. n - 1 : \E f \in [1 .. k + 1 -> Str] : Flat(seqs, k + 1, f)}
<1>1. Len(seqs) \in Nat /\ n \in Nat /\ \A i \in 1 .. n : seqs[i] \in Str
  <2>1. Len(seqs) \in Nat
    BY LenProperties
  <2>2. \A i \in 1 .. n : i \in 1 .. Len(seqs)
    BY <2>1
  <2> QED BY <2>1, <2>2, ElementOfSeq
<1>2. 0 \in S
  <2> DEFINE f == [i \in 1 .. 1 |-> seqs[1]]
  <2>1. \A i \in 1 .. 1 : i = 1
    OBVIOUS
  <2>2. f \in [1 .. 1 -> Str] /\ f[1] = seqs[1]
    BY <1>1
  <2> HIDE DEF f
  <2>3. Flat(seqs, 1, f)
    BY <2>1, <2>2 DEF Flat
  <2>4. 0 \in 0 .. n - 1 /\ 0 + 1 = 1
    BY <1>1
  <2>5. \E h \in [1 .. 0 + 1 -> Str] : Flat(seqs, 0 + 1, h)
    BY <2>2, <2>3, <2>4
  <2> QED BY <2>4, <2>5
<1>3. ASSUME NEW k \in 0 .. (n - 1) - 1, k \in S PROVE k + 1 \in S
  <2> DEFINE m == k + 1
  <2>1. PICK f \in [1 .. m -> Str] : Flat(seqs, m, f)
    BY <1>3
  <2>2. m \in 1 .. m /\ m + 1 \in 1 .. n /\ m \in 0 .. n - 1 /\ m + 1 # 1 /\ m \in Nat
    BY <1>1
  <2> HIDE DEF m
  <2>3. f[m] \o seqs[m + 1] \in Str
    BY <1>1, <2>1, <2>2, ConcatProperties DEF Str
  <2> DEFINE g == [i \in 1 .. m + 1 |-> IF i = m + 1 THEN f[m] \o seqs[m + 1] ELSE f[i]]
  <2>4. g \in [1 .. m + 1 -> Str]
    BY <2>1, <2>2, <2>3
  <2>5. ASSUME NEW i \in 1 .. m + 1
        PROVE  g[i] = IF i = 1 THEN seqs[i] ELSE g[i - 1] \o seqs[i]
    <3>1. CASE i = m + 1
      <4>1. g[i] = f[m] \o seqs[m + 1] /\ i - 1 = m /\ m \in 1 .. m + 1 /\ m # m + 1
        BY <2>2, <3>1
      <4>2. g[m] = f[m]
        BY <4>1
      <4> HIDE DEF g
      <4> QED BY <2>2, <3>1, <4>1, <4>2
    <3>2. CASE i # m + 1
      <4>1. i \in 1 .. m /\ (i # 1 => i - 1 \in 1 .. m)
        BY <2>2, <3>2
      <4>2. f[i] = IF i = 1 THEN seqs[i] ELSE f[i - 1] \o seqs[i]
        BY <2>1, <4>1 DEF Flat
      <4>3. g[i] = f[i] /\ (i # 1 => g[i - 1] = f[i - 1])
        BY <2>2, <3>2, <4>1
      <4> HIDE DEF g
      <4> QED BY <4>2, <4>3
    <3> QED BY <3>1, <3>2
  <2> HIDE DEF g
  <2>6. Flat(seqs, m + 1, g)
    BY <2>5 DEF Flat
  <2> QED BY <2>2, <2>4, <2>6 DEF m
<1>4. 0 .. n - 1 \subseteq S
  <2>1. n - 1 \in Nat
    BY <1>1
  <2> HIDE DEF S
  <2> QED BY <1>2, <1>3, <2>1, UpTo
<1>5. n - 1 \in 0 .. n - 1 /\ (n - 1) + 1 = n
  BY <1>1
<1>6. n - 1 \in S
  <2> HIDE DEF S
  <2> QED BY <1>4, <1>5
<1> QED BY <1>5, <1>6

\* Its last value is the concatenation of all.
LEMMA FlattenSeqIs ==
  ASSUME NEW seqs \in Seq(Str), Len(seqs) # 0
  PROVE  \E f : /\ Flat(seqs, Len(seqs), f)
                /\ \A i \in 1 .. Len(seqs) : f[i] \in Str
                /\ FlattenSeq(seqs) = f[Len(seqs)]
<1> DEFINE n == Len(seqs)
           Eq(f) == f = [i \in 1 .. n |-> IF i = 1 THEN seqs[i] ELSE f[i - 1] \o seqs[i]]
           g == CHOOSE f : Eq(f)
<1>1. n \in Nat /\ n \in 1 .. n /\ n # 0
  BY LenProperties
<1>2. FlattenSeq(seqs) = g[n]
  BY DEF FlattenSeq
<1>3. PICK f \in [1 .. n -> Str] : Flat(seqs, n, f)
  BY <1>1, FlatExists
<1>4. Eq(f)
  BY <1>3 DEF Flat
<1>5. Eq(g)
  BY <1>4
<1>6. Flat(seqs, n, g)
  BY <1>5 DEF Flat
<1>7. \A i \in 1 .. n : g[i] \in Str
  <2> HIDE DEF g, n, Eq
  <2> DEFINE S == {k \in 0 .. n - 1 : g[k + 1] = f[k + 1]}
  <2>1. 0 \in S
    <3>1. 1 \in 1 .. n /\ 0 \in 0 .. n - 1 /\ 0 + 1 = 1
      BY <1>1
    <3>2. f[1] = seqs[1] /\ g[1] = seqs[1]
      BY <1>3, <1>6, <3>1 DEF Flat
    <3> QED BY <3>1, <3>2
  <2>2. ASSUME NEW k \in 0 .. (n - 1) - 1, k \in S PROVE k + 1 \in S
    <3>1. (k + 1) + 1 \in 1 .. n /\ (k + 1) + 1 # 1 /\ ((k + 1) + 1) - 1 = k + 1
          /\ k + 1 \in 0 .. n - 1
      BY <1>1
    <3>2. f[(k + 1) + 1] = f[k + 1] \o seqs[(k + 1) + 1]
          /\ g[(k + 1) + 1] = g[k + 1] \o seqs[(k + 1) + 1]
      BY <1>3, <1>6, <3>1 DEF Flat
    <3>3. g[k + 1] = f[k + 1]
      BY <2>2
    <3> QED BY <3>1, <3>2, <3>3
  <2>3. 0 .. n - 1 \subseteq S
    <3>1. n - 1 \in Nat
      BY <1>1
    <3> HIDE DEF S
    <3> QED BY <2>1, <2>2, <3>1, UpTo
  <2> SUFFICES ASSUME NEW i \in 1 .. n PROVE g[i] = f[i]
    BY <1>3
  <2>4. i - 1 \in 0 .. n - 1 /\ (i - 1) + 1 = i
    BY <1>1
  <2> QED BY <2>3, <2>4
<1> HIDE DEF g
<1> QED BY <1>2, <1>6, <1>7

\* Lines without a newline character inside.
TextLines(lines) ==
  /\ lines \in Seq(Str)
  /\ \A i \in 1 .. Len(lines) : \A j \in 1 .. Len(lines[i]) : lines[i][j] \notin NewLine

Ended(lines) == [i \in DOMAIN lines |-> Append(lines[i], "\n")]

\* The lines of a file with their newlines.
LEMMA EndedIs ==
  ASSUME NEW lines \in Seq(Str)
  PROVE  /\ Ended(lines) \in Seq(Str) /\ Len(Ended(lines)) = Len(lines)
         /\ \A i \in 1 .. Len(lines) : /\ Ended(lines)[i] = Append(lines[i], "\n")
                                       /\ Ended(lines)[i] \in Str
         /\ Stream(lines) = FlattenSeq(Ended(lines))
<1>1. Len(lines) \in Nat /\ DOMAIN lines = 1 .. Len(lines)
      /\ \A i \in 1 .. Len(lines) : lines[i] \in Str
  BY LenProperties, ElementOfSeq
<1>2. "\n" \in Char
  BY DEF Char, Space, NewLine
<1>3. \A i \in 1 .. Len(lines) : Append(lines[i], "\n") \in Str
  BY <1>1, <1>2, AppendProperties DEF Str
<1>4. Ended(lines) \in [1 .. Len(lines) -> Str]
  BY <1>1, <1>3 DEF Ended
<1>5. Ended(lines) \in Seq(Str) /\ Len(Ended(lines)) = Len(lines)
  BY <1>1, <1>4
<1> QED BY <1>1, <1>3, <1>5 DEF Ended, Stream

\* A file without lines is empty.
LEMMA StreamNone ==
  ASSUME NEW lines \in Seq(Str), Len(lines) = 0
  PROVE  Stream(lines) = <<>>
<1>1. Ended(lines) \in Seq(Str) /\ Len(Ended(lines)) = 0 /\ Stream(lines) = FlattenSeq(Ended(lines))
  BY EndedIs
<1>2. Ended(lines) = <<>>
  BY <1>1, EmptySeq
<1>3. FlattenSeq(Ended(lines)) = Ended(lines)
  BY <1>1 DEF FlattenSeq
<1> QED BY <1>1, <1>2, <1>3

\* A file is a string.
LEMMA StreamType ==
  ASSUME NEW lines \in Seq(Str)
  PROVE  Stream(lines) \in Str
<1>1. Ended(lines) \in Seq(Str) /\ Len(Ended(lines)) = Len(lines)
      /\ Stream(lines) = FlattenSeq(Ended(lines))
  BY EndedIs
<1>2. Len(lines) \in Nat
  BY LenProperties
<1>3. CASE Len(lines) = 0
  BY <1>3, StreamNone, EmptySeq DEF Str
<1>4. CASE Len(lines) # 0
  <2> DEFINE e == Ended(lines)
  <2>1. e \in Seq(Str) /\ Len(e) # 0 /\ Len(e) \in 1 .. Len(e) /\ Stream(lines) = FlattenSeq(e)
    BY <1>1, <1>2, <1>4
  <2> HIDE DEF e
  <2> QED BY <2>1, FlattenSeqIs
<1> QED BY <1>3, <1>4

\* t is what is left of l after its first line.
Rest(l, t) == /\ l \in Seq(Str) /\ t \in Seq(Str) /\ Len(l) = Len(t) + 1
              /\ \A i \in 1 .. Len(t) : t[i] = l[i + 1]

\* It begins with its first line and goes on with the others.
LEMMA StreamCons ==
  ASSUME NEW l, NEW t, Rest(l, t)
  PROVE  Stream(l) = Append(l[1], "\n") \o Stream(t)
<1> DEFINE e == Ended(l)
           d == Ended(t)
           m == Len(t)
<1>1. m \in Nat /\ l \in Seq(Str) /\ t \in Seq(Str) /\ Len(l) = m + 1
      /\ \A i \in 1 .. m : t[i] = l[i + 1]
  BY LenProperties DEF Rest
<1>2. /\ e \in Seq(Str) /\ Len(e) = m + 1 /\ Stream(l) = FlattenSeq(e)
      /\ \A i \in 1 .. m + 1 : e[i] = Append(l[i], "\n") /\ e[i] \in Str
  BY <1>1, EndedIs
<1>3. /\ d \in Seq(Str) /\ Len(d) = m /\ Stream(t) = FlattenSeq(d)
      /\ \A i \in 1 .. m : d[i] = Append(t[i], "\n") /\ d[i] \in Str
  BY <1>1, EndedIs
<1> HIDE DEF e, d
<1>4. \A i \in 1 .. m : d[i] = e[i + 1]
  <2> TAKE i \in 1 .. m
  <2>1. i + 1 \in 1 .. m + 1
    BY <1>1
  <2> QED BY <1>1, <1>2, <1>3, <2>1
<1> HIDE DEF m
<1>5. Len(e) # 0 /\ 1 \in 1 .. m + 1
  BY <1>1, <1>2
<1>6. PICK f : /\ Flat(e, m + 1, f) /\ FlattenSeq(e) = f[m + 1]
               /\ \A i \in 1 .. m + 1 : f[i] \in Str
  BY <1>2, <1>5, FlattenSeqIs
<1>7. f[1] = e[1]
  BY <1>5, <1>6 DEF Flat
<1>8. CASE m = 0
  <2>1. Stream(t) = <<>>
    BY <1>1, <1>8, StreamNone DEF m
  <2>2. m + 1 = 1
    BY <1>8
  <2>3. Stream(l) = e[1] /\ e[1] \in Str /\ e[1] = Append(l[1], "\n")
    BY <1>2, <1>5, <1>6, <1>7, <2>2
  <2> QED BY <2>1, <2>3, ConcatEmptySeq DEF Str
<1>9. CASE m # 0
  <2>1. PICK g : /\ Flat(d, m, g) /\ FlattenSeq(d) = g[m]
                 /\ \A i \in 1 .. m : g[i] \in Str
    BY <1>3, <1>9, FlattenSeqIs
  <2> DEFINE S == {j \in 0 .. m - 1 : f[j + 2] = e[1] \o g[j + 1]}
  <2>2. 0 \in S
    <3>1. 2 \in 1 .. m + 1 /\ 2 # 1 /\ 2 - 1 = 1 /\ 1 \in 1 .. m /\ 0 \in 0 .. m - 1
          /\ 0 + 2 = 2 /\ 0 + 1 = 1 /\ 1 + 1 = 2
      BY <1>1, <1>9
    <3>2. f[2] = f[1] \o e[2]
      BY <1>6, <3>1 DEF Flat
    <3>3. g[1] = d[1]
      BY <2>1, <3>1 DEF Flat
    <3>4. d[1] = e[2]
      BY <1>4, <3>1
    <3> QED BY <1>7, <3>1, <3>2, <3>3, <3>4
  <2>3. ASSUME NEW j \in 0 .. (m - 1) - 1, j \in S PROVE j + 1 \in S
    <3>1. /\ j + 1 \in 0 .. m - 1 /\ j + 1 \in 1 .. m /\ j + 2 \in 1 .. m
          /\ j + 3 \in 1 .. m + 1 /\ j + 3 # 1 /\ j + 2 # 1
          /\ (j + 3) - 1 = j + 2 /\ (j + 2) - 1 = j + 1 /\ (j + 2) + 1 = j + 3
          /\ (j + 1) + 2 = j + 3 /\ (j + 1) + 1 = j + 2
      BY <1>1, <1>9
    <3>2. f[j + 3] = f[j + 2] \o e[j + 3]
      BY <1>6, <3>1 DEF Flat
    <3>3. g[j + 2] = g[j + 1] \o d[j + 2]
      BY <2>1, <3>1 DEF Flat
    <3>4. d[j + 2] = e[j + 3]
      BY <1>4, <3>1
    <3>5. f[j + 2] = e[1] \o g[j + 1]
      BY <2>3
    <3>6. e[1] \in Str /\ g[j + 1] \in Str /\ d[j + 2] \in Str
      BY <1>2, <1>3, <1>5, <2>1, <3>1
    <3>7. (e[1] \o g[j + 1]) \o d[j + 2] = e[1] \o (g[j + 1] \o d[j + 2])
      BY <3>6, StrAssoc, Zenon
    <3>8. f[j + 3] = e[1] \o g[j + 2]
      BY <3>2, <3>3, <3>4, <3>5, <3>7
    <3> QED BY <3>1, <3>8
  <2>4. 0 .. m - 1 \subseteq S
    <3>1. m - 1 \in Nat
      BY <1>1, <1>9
    <3> HIDE DEF S
    <3> QED BY <2>2, <2>3, <3>1, UpTo
  <2>5. m - 1 \in 0 .. m - 1 /\ (m - 1) + 2 = m + 1 /\ (m - 1) + 1 = m
    BY <1>1, <1>9
  <2>6. f[m + 1] = e[1] \o g[m]
    <3>1. m - 1 \in S
      <4> HIDE DEF S
      <4> QED BY <2>4, <2>5
    <3> QED BY <2>5, <3>1
  <2>7. e[1] = Append(l[1], "\n")
    BY <1>2, <1>5
  <2> QED BY <1>2, <1>3, <1>6, <2>1, <2>6, <2>7
<1> QED BY <1>8, <1>9

\* A concatenation, and its two parts.
LEMMA JoinIs ==
  ASSUME NEW s \in Str, NEW t \in Str
  PROVE  /\ s \o t \in Str /\ Len(s \o t) = Len(s) + Len(t)
         /\ \A i \in 1 .. Len(s) : (s \o t)[i] = s[i]
         /\ \A i \in 1 .. Len(t) : (s \o t)[Len(s) + i] = t[i]
         /\ SubSeq(s \o t, 1, Len(s)) = s
         /\ Drop(s \o t, Len(s)) = t
<1> DEFINE j == s \o t
<1>1. Len(s) \in Nat /\ Len(t) \in Nat
  BY StrIs
<1>2. /\ j \in Str /\ Len(j) = Len(s) + Len(t)
      /\ \A i \in 1 .. Len(s) + Len(t) : j[i] = IF i <= Len(s) THEN s[i] ELSE t[i - Len(s)]
  BY ConcatProperties DEF Str
<1> HIDE DEF j
<1>3. \A i \in 1 .. Len(s) : j[i] = s[i]
  <2> TAKE i \in 1 .. Len(s)
  <2>1. i \in 1 .. Len(s) + Len(t) /\ i <= Len(s)
    BY <1>1
  <2> QED BY <1>2, <2>1
<1>4. \A i \in 1 .. Len(t) : j[Len(s) + i] = t[i]
  <2> TAKE i \in 1 .. Len(t)
  <2>1. Len(s) + i \in 1 .. Len(s) + Len(t) /\ ~(Len(s) + i <= Len(s)) /\ (Len(s) + i) - Len(s) = i
    BY <1>1
  <2> QED BY <1>2, <2>1
<1>5. SubSeq(j, 1, Len(s)) = s
  <2> DEFINE p == SubSeq(j, 1, Len(s))
  <2>1. 1 \in 1 .. Len(j) + 1 /\ Len(s) \in 1 - 1 .. Len(j) /\ Len(s) - 1 + 1 = Len(s)
        /\ \A i \in 1 .. Len(s) : 1 + i - 1 = i
    BY <1>1, <1>2
  <2>2. /\ p \in Str /\ Len(p) = Len(s) - 1 + 1
        /\ \A i \in 1 .. Len(s) - 1 + 1 : p[i] = j[1 + i - 1]
    BY <1>2, <2>1, PartIs
  <2> HIDE DEF p
  <2>3. p \in Str /\ Len(p) = Len(s) /\ \A i \in 1 .. Len(p) : p[i] = s[i]
    BY <1>3, <2>1, <2>2
  <2>4. p = s
    BY <2>3, SameStr
  <2> QED BY <2>4 DEF p
<1>6. Drop(j, Len(s)) = t
  <2> DEFINE d == Drop(j, Len(s))
  <2>1. Len(s) \in 0 .. Len(j) /\ Len(j) - Len(s) = Len(t)
    BY <1>1, <1>2
  <2>2. /\ d \in Str /\ Len(d) = Len(j) - Len(s)
        /\ \A i \in 1 .. Len(j) - Len(s) : d[i] = j[Len(s) + i]
    BY <1>2, <2>1, DropIs
  <2> HIDE DEF d
  <2>3. \A i \in 1 .. Len(d) : d[i] = t[i]
    BY <1>4, <2>1, <2>2
  <2>4. d = t
    BY <2>1, <2>2, <2>3, SameStr
  <2> QED BY <2>4 DEF d
<1> QED BY <1>2, <1>3, <1>4, <1>5, <1>6 DEF j

\* The newline, the empty string, and their lengths.
LEMMA NewLineIs ==
  /\ <<"\n">> \in Str /\ Len(<<"\n">>) = 1 /\ <<"\n">>[1] = "\n"
  /\ <<>> \in Str /\ Len(<<>>) = 0 /\ "\n" \in NewLine /\ "\n" \in Char
<1>1. "\n" \in Char /\ "\n" \in NewLine
  BY DEF Char, Space, NewLine
<1>2. <<"\n">> \in Str /\ Len(<<"\n">>) = 1 /\ <<"\n">>[1] = "\n"
  BY <1>1 DEF Str
<1> QED BY <1>1, <1>2, EmptySeq DEF Str

Plain(h) == h \in Str /\ \A i \in 1 .. Len(h) : h[i] \notin NewLine

\* fgets takes a line, and its newline if the buffer has room for it.
LEMMA FgetsIs ==
  ASSUME NEW r \in Str, NEW size \in Nat \ {0, 1}, NEW n \in 0 .. Len(r), n <= size - 1,
         \A i \in 1 .. n : r[i] # "\n",
         n < Len(r) /\ n < size - 1 => r[n + 1] = "\n"
  PROVE  Fgets(r, size) = IF n < size - 1 /\ n < Len(r) THEN Append(SubSeq(r, 1, n), "\n")
                          ELSE SubSeq(r, 1, n)
<1> DEFINE chars == Range(r) \ {"\n"}
<1>1. Len(r) \in Nat /\ DOMAIN r = 1 .. Len(r) /\ size - 1 \in Nat
  BY StrIs
<1>2. \A i \in 1 .. n : r[i] \in chars
  BY <1>1 DEF Range
<1>3. n < Len(r) /\ n < size - 1 => r[n + 1] \notin chars
  OBVIOUS
<1> HIDE DEF chars
<1>4. IsSpan(r, chars, size - 1, n)
  BY <1>2, <1>3 DEF IsSpan
<1>5. Span(r, chars, size - 1) = SubSeq(r, 1, n)
  BY <1>1, <1>4, SpanIs
<1>6. 1 \in 1 .. Len(r) + 1 /\ n \in 1 - 1 .. Len(r) /\ n - 1 + 1 = n
  BY <1>1
<1>7. Len(SubSeq(r, 1, n)) = n - 1 + 1
  BY <1>6, PartIs
<1> QED BY <1>5, <1>6, <1>7 DEF Fgets, chars

\* The last line is taken whole when it has no newline.
LEMMA FgetsWhole ==
  ASSUME NEW h, Plain(h), NEW size \in Nat \ {0, 1}, Len(h) < size
  PROVE  Fgets(h, size) = h
<1>1. h \in Str /\ Len(h) \in Nat /\ \A i \in 1 .. Len(h) : h[i] \notin NewLine
  BY StrIs DEF Plain
<1>2. Len(h) \in 0 .. Len(h) /\ Len(h) <= size - 1 /\ ~(Len(h) < Len(h))
  BY <1>1
<1>3. \A i \in 1 .. Len(h) : h[i] # "\n"
  BY <1>1, NewLineIs
<1>4. Fgets(h, size) = SubSeq(h, 1, Len(h))
  BY <1>1, <1>2, <1>3, FgetsIs
<1> QED BY <1>1, <1>4, PartFull

TakesLine(h, q, r, size) ==
  \/ Fgets(r, size) = h \o <<"\n">> /\ Drop(r, Len(h \o <<"\n">>)) = q
  \/ Fgets(r, size) = h /\ Drop(r, Len(h)) = <<"\n">> \o q

\* A line that fits the buffer is taken whole; its newline if there is room.
LEMMA FgetsLine ==
  ASSUME NEW h, Plain(h), NEW size, size \in Nat \ {0, 1}, Len(h) < size, NEW q, q \in Str
  PROVE  TakesLine(h, q, h \o (<<"\n">> \o q), size)
<1> DEFINE r == h \o (<<"\n">> \o q)
<1> SUFFICES TakesLine(h, q, r, size)
  OBVIOUS
<1>0. r = h \o (<<"\n">> \o q)
  OBVIOUS
<1> HIDE DEF r
<1> USE <1>0 DEF TakesLine
<1> DEFINE x == <<"\n">> \o q
           n == Len(h)
<1>1. h \in Str /\ n \in Nat /\ (\A i \in 1 .. n : h[i] \notin NewLine) /\ Len(q) \in Nat
  BY StrIs DEF Plain
<1>2. x \in Str /\ Len(x) = 1 + Len(q) /\ x[1] = "\n"
  <2>1. x \in Str /\ Len(x) = Len(<<"\n">>) + Len(q)
        /\ \A i \in 1 .. Len(<<"\n">>) : x[i] = <<"\n">>[i]
    BY NewLineIs, JoinIs
  <2>2. 1 \in 1 .. Len(<<"\n">>)
    BY NewLineIs
  <2> QED BY <2>1, <2>2, NewLineIs
<1> HIDE DEF x
<1>3. r = h \o x
  BY DEF x
<1>4. /\ r \in Str /\ Len(r) = n + Len(x) /\ SubSeq(r, 1, n) = h /\ Drop(r, n) = x
      /\ \A i \in 1 .. n : r[i] = h[i]
      /\ \A i \in 1 .. Len(x) : r[n + i] = x[i]
  <2>1. /\ h \o x \in Str /\ Len(h \o x) = Len(h) + Len(x)
        /\ SubSeq(h \o x, 1, Len(h)) = h /\ Drop(h \o x, Len(h)) = x
        /\ \A i \in 1 .. Len(h) : (h \o x)[i] = h[i]
        /\ \A i \in 1 .. Len(x) : (h \o x)[Len(h) + i] = x[i]
    BY <1>1, <1>2, JoinIs
  <2> QED BY <1>3, <2>1, Zenon
<1>5. 1 \in 1 .. Len(x) /\ n \in 0 .. Len(r) /\ n < Len(r) /\ n <= size - 1
  BY <1>1, <1>2, <1>4
<1>6. r[n + 1] = "\n" /\ \A i \in 1 .. n : r[i] # "\n"
  BY <1>1, <1>2, <1>4, <1>5, NewLineIs
<1> HIDE DEF n
<1>7. Fgets(r, size) = IF n < size - 1 /\ n < Len(r) THEN Append(SubSeq(r, 1, n), "\n")
                       ELSE SubSeq(r, 1, n)
  BY <1>4, <1>5, <1>6, FgetsIs
<1>8. CASE n < size - 1
  <2> DEFINE a == h \o <<"\n">>
  <2>1. Fgets(r, size) = Append(h, "\n")
    BY <1>4, <1>5, <1>7, <1>8
  <2>2. Append(h, "\n") = a
    BY <1>1, NewLineIs, AppendIsConcat DEF Str
  <2>3. r = a \o q
    BY <1>1, NewLineIs, StrAssoc
  <2>4. a \in Str
    BY <1>1, NewLineIs, JoinIs
  <2> HIDE DEF a
  <2>5. Drop(r, Len(a)) = q
    <3>1. Drop(a \o q, Len(a)) = q
      BY <2>4, JoinIs
    <3> QED BY <2>3, <3>1, Zenon
  <2> QED BY <2>1, <2>2, <2>5 DEF a
<1>9. CASE ~(n < size - 1)
  BY <1>4, <1>7, <1>9 DEF x, n
<1> QED BY <1>8, <1>9

\* trim_newline gives the line back.
LEMMA TrimPlain ==
  ASSUME NEW h, Plain(h)
  PROVE  TrimNewline(h) = h /\ TrimNewline(h \o <<"\n">>) = h
<1> DEFINE n == Len(h)
           a == h \o <<"\n">>
<1>1. h \in Str /\ n \in Nat /\ (\A i \in 1 .. n : h[i] \notin NewLine)
  BY StrIs DEF Plain
<1>2. TrimNewline(h) = h
  <2>1. n \in 0 .. Len(h) /\ (n # 0 => n \in 1 .. n) /\ n + 1 .. Len(h) = {}
    BY <1>1
  <2>2. n # 0 => h[n] \notin NewLine
    BY <1>1, <2>1
  <2>3. TrimNewline(h) = SubSeq(h, 1, n)
    BY <1>1, <2>1, <2>2, TrimNewlineIs
  <2> QED BY <1>1, <2>3, PartFull
<1>3. /\ a \in Str /\ Len(a) = n + 1 /\ SubSeq(a, 1, n) = h
      /\ \A i \in 1 .. n : a[i] = h[i]
      /\ a[n + 1] = "\n"
  <2>1. /\ a \in Str /\ Len(a) = n + Len(<<"\n">>) /\ SubSeq(a, 1, n) = h
        /\ \A i \in 1 .. n : a[i] = h[i]
        /\ \A i \in 1 .. Len(<<"\n">>) : a[n + i] = <<"\n">>[i]
    BY <1>1, NewLineIs, JoinIs
  <2>2. 1 \in 1 .. Len(<<"\n">>)
    BY NewLineIs
  <2> QED BY <2>1, <2>2, NewLineIs
<1> HIDE DEF a
<1>4. n \in 0 .. Len(a) /\ (n # 0 => n \in 1 .. n) /\ \A i \in n + 1 .. Len(a) : i = n + 1
  BY <1>1, <1>3
<1> HIDE DEF n
<1>5. n # 0 => a[n] \notin NewLine
  BY <1>1, <1>3, <1>4
<1>6. \A i \in n + 1 .. Len(a) : a[i] \in NewLine
  BY <1>3, <1>4, NewLineIs
<1>7. TrimNewline(a) = SubSeq(a, 1, n)
  BY <1>3, <1>4, <1>5, <1>6, TrimNewlineIs
<1> QED BY <1>2, <1>3, <1>7 DEF a

\* What follows a line in its file.
LEMMA NewLineJoin ==
  ASSUME NEW h \in Str, NEW q \in Str
  PROVE  /\ <<"\n">> \o q \in Str /\ <<"\n">> \o q # <<>>
         /\ h \o (<<"\n">> \o q) \in Str /\ h \o (<<"\n">> \o q) # <<>>
<1> DEFINE x == <<"\n">> \o q
<1>1. x \in Str /\ Len(x) = Len(<<"\n">>) + Len(q)
  BY NewLineIs, JoinIs
<1>2. Len(q) \in Nat /\ Len(h) \in Nat
  BY StrIs
<1> HIDE DEF x
<1>3. Len(x) \in Nat /\ Len(x) # 0
  BY <1>1, <1>2, NewLineIs
<1>4. x # <<>>
  BY <1>1, <1>3, StrIs
<1>5. h \o x \in Str /\ Len(h \o x) = Len(h) + Len(x)
  BY <1>1, JoinIs
<1>6. Len(h \o x) # 0
  BY <1>2, <1>3, <1>5
<1>7. h \o x # <<>>
  BY <1>5, <1>6, StrIs
<1> QED BY <1>1, <1>4, <1>5, <1>7 DEF x

\* The last character of a concatenation is the last of its second part.
LEMMA FrontJoin ==
  ASSUME NEW s \in Str, NEW t \in Str, t # <<>>
  PROVE  /\ Front(s \o t) = s \o Front(t)
         /\ Front(t) \in Str
<1> DEFINE n == Len(t)
           j == s \o t
           f == Front(t)
           a == Front(j)
           b == s \o f
<1>1. Len(s) \in Nat /\ n \in Nat /\ n # 0
  BY StrIs
<1>2. /\ j \in Str /\ Len(j) = Len(s) + n
      /\ \A i \in 1 .. Len(s) : j[i] = s[i]
      /\ \A i \in 1 .. n : j[Len(s) + i] = t[i]
  BY JoinIs
<1> HIDE DEF n
<1>3. /\ f \in Str /\ Len(f) = n - 1 /\ \A i \in 1 .. n - 1 : f[i] = t[i]
  <2>1. 1 \in 1 .. Len(t) + 1 /\ n - 1 \in 1 - 1 .. Len(t) /\ n - 1 - 1 + 1 = n - 1
        /\ \A i \in 1 .. n - 1 : 1 + i - 1 = i
    BY <1>1 DEF n
  <2>2. /\ SubSeq(t, 1, n - 1) \in Str /\ Len(SubSeq(t, 1, n - 1)) = n - 1 - 1 + 1
        /\ \A i \in 1 .. n - 1 - 1 + 1 : SubSeq(t, 1, n - 1)[i] = t[1 + i - 1]
    BY <2>1, PartIs
  <2>3. f = SubSeq(t, 1, n - 1)
    BY DEF Front, n
  <2> QED BY <2>1, <2>2, <2>3
<1> HIDE DEF j
<1>4. /\ a \in Str /\ Len(a) = Len(s) + n - 1 /\ \A i \in 1 .. Len(s) + n - 1 : a[i] = j[i]
  <2> DEFINE m == Len(s) + n - 1
  <2>1. 1 \in 1 .. Len(j) + 1 /\ m \in 1 - 1 .. Len(j) /\ m - 1 + 1 = m
        /\ \A i \in 1 .. m : 1 + i - 1 = i
    BY <1>1, <1>2
  <2>2. Len(j) - 1 = m
    BY <1>1, <1>2
  <2> HIDE DEF m
  <2>3. /\ SubSeq(j, 1, m) \in Str /\ Len(SubSeq(j, 1, m)) = m - 1 + 1
        /\ \A i \in 1 .. m - 1 + 1 : SubSeq(j, 1, m)[i] = j[1 + i - 1]
    BY <1>2, <2>1, PartIs
  <2>4. a = SubSeq(j, 1, m)
    BY <2>2 DEF Front
  <2>5. a \in Str /\ Len(a) = m /\ \A i \in 1 .. m : a[i] = j[i]
    BY <2>1, <2>3, <2>4
  <2> QED BY <2>5 DEF m
<1> HIDE DEF f, a
<1>5. /\ b \in Str /\ Len(b) = Len(s) + (n - 1)
      /\ \A i \in 1 .. Len(s) : b[i] = s[i]
      /\ \A i \in 1 .. n - 1 : b[Len(s) + i] = f[i]
  <2>1. f \in Str /\ Len(f) = n - 1
    BY <1>3
  <2>2. /\ s \o f \in Str /\ Len(s \o f) = Len(s) + Len(f)
        /\ \A i \in 1 .. Len(s) : (s \o f)[i] = s[i]
        /\ \A i \in 1 .. Len(f) : (s \o f)[Len(s) + i] = f[i]
    BY <2>1, JoinIs
  <2> QED BY <2>1, <2>2, Zenon
<1> HIDE DEF b
<1>6. Len(a) = Len(b)
  BY <1>1, <1>4, <1>5
<1>7. \A i \in 1 .. Len(a) : a[i] = b[i]
  <2> TAKE i \in 1 .. Len(a)
  <2>1. i \in 1 .. Len(s) + n - 1
    BY <1>4
  <2>2. a[i] = j[i]
    BY <1>4, <2>1
  <2>3. CASE i <= Len(s)
    <3>1. i \in 1 .. Len(s)
      BY <1>1, <2>1, <2>3
    <3> QED BY <1>2, <1>5, <2>2, <3>1
  <2>4. CASE ~(i <= Len(s))
    <3> DEFINE k == i - Len(s)
    <3>1. k \in 1 .. n - 1 /\ k \in 1 .. n /\ Len(s) + k = i
      BY <1>1, <2>1, <2>4
    <3> HIDE DEF k
    <3>2. j[Len(s) + k] = t[k] /\ b[Len(s) + k] = f[k] /\ f[k] = t[k]
      BY <1>2, <1>3, <1>5, <3>1
    <3> QED BY <2>2, <3>1, <3>2
  <2> QED BY <2>3, <2>4
<1>8. a = b
  BY <1>4, <1>5, <1>6, <1>7, SameStr
<1> QED BY <1>3, <1>8 DEF a, b, f, j

\* A file with a line is that line, or that line and another file.
LEMMA FilesCons ==
  ASSUME NEW l, NEW t, Rest(l, t), NEW r \in Files(l)
  PROVE  \/ Len(t) = 0 /\ r = l[1]
         \/ \E q \in Files(t) : q \in Str /\ r = l[1] \o (<<"\n">> \o q)
<1> DEFINE h == l[1]
           a == h \o <<"\n">>
           b == Stream(t)
<1>1. /\ l \in Seq(Str) /\ t \in Seq(Str) /\ Len(t) \in Nat /\ Len(l) = Len(t) + 1
      /\ \A i \in 1 .. Len(t) : t[i] = l[i + 1]
  BY LenProperties DEF Rest
<1>2. h \in Str
  <2>1. 1 \in 1 .. Len(l)
    BY <1>1
  <2> QED BY <1>1, <2>1, ElementOfSeq
<1>3. a \in Str /\ b \in Str /\ Append(h, "\n") = a
  BY <1>1, <1>2, NewLineIs, JoinIs, StreamType, AppendIsConcat DEF Str
<1>4. Stream(l) = a \o b
  BY <1>3, StreamCons
<1>5. b \in Files(t)
  BY DEF Files
<1>6. a \o b = h \o (<<"\n">> \o b)
  BY <1>2, <1>3, NewLineIs, StrAssoc
<1>7. r = Stream(l) \/ r = Front(Stream(l))
  BY DEF Files
<1>8. CASE r = Stream(l)
  BY <1>3, <1>4, <1>5, <1>6, <1>8
<1>9. CASE r = Front(Stream(l)) /\ Len(t) = 0
  <2>1. b = <<>>
    BY <1>1, <1>9, StreamNone
  <2>2. a \o b = a
    BY <1>3, <2>1, ConcatEmptySeq DEF Str
  <2>3. Front(a) = h \o Front(<<"\n">>)
    <3>1. <<"\n">> # <<>>
      BY NewLineIs
    <3> QED BY <1>2, <3>1, NewLineIs, FrontJoin
  <2>4. Front(<<"\n">>) = <<>>
    <3>1. Front(<<"\n">>) = SubSeq(<<"\n">>, 1, 0)
      BY NewLineIs DEF Front
    <3> QED BY <3>1, SubSeqEmpty
  <2>5. h \o <<>> = h
    BY <1>2, ConcatEmptySeq DEF Str
  <2>6. r = h
    BY <1>4, <1>9, <2>2, <2>3, <2>4, <2>5
  <2> QED BY <1>9, <2>6
<1>10. CASE r = Front(Stream(l)) /\ Len(t) # 0
  <2> DEFINE u == Tail(t)
  <2>1. t # <<>>
    BY <1>10, EmptySeq
  <2>2. Rest(t, u)
    <3>1. u \in Seq(Str) /\ Len(u) = Len(t) - 1 /\ \A i \in 1 .. Len(u) : u[i] = t[i + 1]
      BY <1>1, <2>1, HeadTailProperties
    <3>2. Len(t) = Len(u) + 1
      BY <1>1, <3>1
    <3> QED BY <1>1, <3>1, <3>2 DEF Rest
  <2>3. b # <<>>
    <3> DEFINE c == Append(t[1], "\n")
    <3>1. t[1] \in Str
      <4>1. 1 \in 1 .. Len(t)
        BY <1>1, <1>10
      <4> QED BY <1>1, <4>1, ElementOfSeq
    <3>2. c \in Str /\ Len(c) = Len(t[1]) + 1 /\ Len(t[1]) \in Nat
      BY <3>1, NewLineIs, AppendProperties, StrIs DEF Str
    <3>3. b = c \o Stream(u)
      BY <2>2, StreamCons
    <3>4. Stream(u) \in Str
      BY <2>2, StreamType DEF Rest
    <3> HIDE DEF c
    <3>5. Len(b) = Len(c) + Len(Stream(u)) /\ Len(Stream(u)) \in Nat
      <4>1. Len(c \o Stream(u)) = Len(c) + Len(Stream(u))
        BY <3>2, <3>4, JoinIs
      <4>2. Len(Stream(u)) \in Nat
        BY <3>4, StrIs
      <4> QED BY <3>3, <4>1, <4>2, Zenon
    <3>6. Len(b) # 0
      BY <3>2, <3>5
    <3> QED BY <1>3, <3>6, StrIs
  <2> DEFINE q == Front(b)
  <2>4. Front(a \o b) = a \o q /\ q \in Str
    BY <1>3, <2>3, FrontJoin
  <2>5. q \in Files(t)
    BY <2>1 DEF Files
  <2> HIDE DEF q
  <2>6. a \o q = h \o (<<"\n">> \o q)
    BY <1>2, <2>4, NewLineIs, StrAssoc
  <2>7. r = h \o (<<"\n">> \o q)
    BY <1>4, <1>10, <2>4, <2>6
  <2> QED BY <2>4, <2>5, <2>7
<1> QED BY <1>7, <1>8, <1>9, <1>10

\* There is one file without lines.
LEMMA FilesNone ==
  ASSUME NEW l \in Seq(Str), Len(l) = 0
  PROVE  Files(l) = {<<>>}
<1>1. l = <<>>
  BY EmptySeq
<1>2. Stream(l) = <<>>
  BY StreamNone
<1> QED BY <1>1, <1>2 DEF Files

\* The lines after the k-th.
LEMMA DropLines ==
  ASSUME NEW lines \in Seq(Str), NEW k \in 0 .. Len(lines)
  PROVE  /\ Drop(lines, k) \in Seq(Str) /\ Len(Drop(lines, k)) = Len(lines) - k
         /\ \A i \in 1 .. Len(lines) - k : Drop(lines, k)[i] = lines[k + i]
<1>1. Len(lines) \in Nat
  BY LenProperties
<1>2. \A i \in k + 1 .. Len(lines) : lines[i] \in Str
  <2> TAKE i \in k + 1 .. Len(lines)
  <2>1. i \in 1 .. Len(lines)
    BY <1>1
  <2> QED BY <2>1, ElementOfSeq
<1>3. k + 1 \in Int /\ Len(lines) \in Int
  BY <1>1
<1>4. /\ Drop(lines, k) \in Seq(Str)
      /\ Len(Drop(lines, k)) = IF k + 1 <= Len(lines) THEN Len(lines) - (k + 1) + 1 ELSE 0
      /\ \A i \in 1 .. Len(lines) - (k + 1) + 1 : Drop(lines, k)[i] = lines[(k + 1) + i - 1]
  BY <1>2, <1>3, SubSeqProperties DEF Drop
<1>5. /\ (IF k + 1 <= Len(lines) THEN Len(lines) - (k + 1) + 1 ELSE 0) = Len(lines) - k
      /\ Len(lines) - (k + 1) + 1 = Len(lines) - k
      /\ \A i \in 1 .. Len(lines) - k : (k + 1) + i - 1 = k + i
  BY <1>1
<1> QED BY <1>4, <1>5

\* They begin with the one after the k-th.
LEMMA RestLines ==
  ASSUME NEW lines \in Seq(Str), NEW k \in 0 .. Len(lines), k < Len(lines)
  PROVE  /\ Rest(Drop(lines, k), Drop(lines, k + 1))
         /\ Drop(lines, k)[1] = lines[k + 1]
         /\ k + 1 \in 0 .. Len(lines)
         /\ Len(Drop(lines, k + 1)) = Len(lines) - (k + 1)
<1> DEFINE a == Drop(lines, k)
           b == Drop(lines, k + 1)
           n == Len(lines)
<1>1. n \in Nat
  BY LenProperties
<1>2. k + 1 \in 0 .. n /\ 1 \in 1 .. n - k /\ n - k = (n - (k + 1)) + 1
  BY <1>1
<1>3. a \in Seq(Str) /\ Len(a) = n - k /\ \A i \in 1 .. n - k : a[i] = lines[k + i]
  BY DropLines
<1>4. b \in Seq(Str) /\ Len(b) = n - (k + 1) /\ \A i \in 1 .. n - (k + 1) : b[i] = lines[(k + 1) + i]
  BY <1>2, DropLines
<1> HIDE DEF a, b, n
<1>5. \A i \in 1 .. Len(b) : b[i] = a[i + 1]
  <2> TAKE i \in 1 .. Len(b)
  <2>1. i \in 1 .. n - (k + 1) /\ i + 1 \in 1 .. n - k /\ k + (i + 1) = (k + 1) + i
    BY <1>1, <1>2, <1>4
  <2> QED BY <1>3, <1>4, <2>1
<1>6. Rest(a, b)
  BY <1>2, <1>3, <1>4, <1>5 DEF Rest
<1>7. a[1] = lines[k + 1]
  BY <1>2, <1>3
<1> QED BY <1>2, <1>4, <1>6, <1>7 DEF a, b, n

\* What of a file is not read when k lines are: the lines behind them, and the
\* newline of the k-th if it found no room.
Unread(lines, k, r) ==
  /\ k \in 0 .. Len(lines)
  /\ \E q \in Files(Drop(lines, k)) : q \in Str /\ (r = q \/ r = <<"\n">> \o q)

\* What a file may be is a string.
LEMMA FilesType ==
  ASSUME NEW lines \in Seq(Str), NEW q \in Files(lines)
  PROVE  q \in Str
<1>1. Len(lines) \in Nat
  BY LenProperties
<1>2. CASE Len(lines) = 0
  <2>1. q = <<>>
    <3>1. Files(lines) = {<<>>}
      BY <1>2, FilesNone
    <3> QED BY <3>1
  <2> QED BY <2>1, NewLineIs, Zenon
<1>3. CASE Len(lines) # 0
  <2>1. 0 \in 0 .. Len(lines) /\ 0 < Len(lines) /\ 0 + 1 = 1 /\ 1 \in 1 .. Len(lines)
    BY <1>1, <1>3
  <2>2. Rest(Drop(lines, 0), Drop(lines, 1)) /\ Drop(lines, 0)[1] = lines[1]
    BY <2>1, RestLines
  <2>3. Drop(lines, 0) = lines
    BY SubSeqFull DEF Drop
  <2>4. lines[1] \in Str
    BY <2>1, ElementOfSeq
  <2>5. \/ q = lines[1]
        \/ \E p : p \in Str /\ q = lines[1] \o (<<"\n">> \o p)
    <3>1. Rest(lines, Drop(lines, 1))
      BY <2>2, <2>3, Zenon
    <3> HIDE DEF Drop
    <3> QED BY <3>1, FilesCons, Zenon
  <2> QED BY <2>4, <2>5, NewLineJoin, Zenon
<1> QED BY <1>2, <1>3

\* At first nothing is read.
LEMMA UnreadFirst ==
  ASSUME NEW lines \in Seq(Str), NEW r \in Files(lines)
  PROVE  Unread(lines, 0, r)
<1>1. Drop(lines, 0) = lines
  BY SubSeqFull DEF Drop
<1>2. 0 \in 0 .. Len(lines)
  BY LenProperties
<1>3. r \in Str
  BY FilesType
<1> QED BY <1>1, <1>2, <1>3 DEF Unread

\* When nothing is left, no line with a character is.
LEMMA UnreadLast ==
  ASSUME NEW lines \in Seq(Str), NEW k, Unread(lines, k, <<>>)
  PROVE  k \in 0 .. Len(lines) /\ \A i \in k + 1 .. Len(lines) : lines[i] = <<>>
<1>1. k \in 0 .. Len(lines) /\ Len(lines) \in Nat
  BY LenProperties DEF Unread
<1>2. PICK q \in Files(Drop(lines, k)) : q \in Str /\ (<<>> = q \/ <<>> = <<"\n">> \o q)
  BY DEF Unread
<1>3. \A p \in Str : <<>> # <<"\n">> \o p
  BY NewLineJoin, Zenon
<1>4. q = <<>>
  BY <1>2, <1>3
<1> SUFFICES ASSUME NEW i \in k + 1 .. Len(lines) PROVE lines[i] = <<>>
  BY <1>1
<1>5. k < Len(lines)
  BY <1>1
<1>6. /\ Rest(Drop(lines, k), Drop(lines, k + 1))
      /\ Drop(lines, k)[1] = lines[k + 1]
      /\ Len(Drop(lines, k + 1)) = Len(lines) - (k + 1)
  BY <1>1, <1>5, RestLines
<1>7. lines[k + 1] \in Str
  <2>1. k + 1 \in 1 .. Len(lines)
    BY <1>1, <1>5
  <2> QED BY <2>1, ElementOfSeq
<1>8. ASSUME NEW p \in Str PROVE <<>> # lines[k + 1] \o (<<"\n">> \o p)
  BY <1>7, NewLineJoin, Zenon
<1>9. Len(Drop(lines, k + 1)) = 0 /\ <<>> = lines[k + 1]
  <2> DEFINE l == Drop(lines, k)
             t == Drop(lines, k + 1)
  <2>1. Rest(l, t) /\ <<>> \in Files(l) /\ l[1] = lines[k + 1]
    BY <1>2, <1>4, <1>6
  <2> HIDE DEF l, t
  <2>2. \/ Len(t) = 0 /\ <<>> = l[1]
        \/ \E p \in Files(t) : p \in Str /\ <<>> = l[1] \o (<<"\n">> \o p)
    BY <2>1, FilesCons, Zenon
  <2>3. Len(t) = 0 /\ <<>> = lines[k + 1]
    BY <1>8, <2>1, <2>2, Zenon
  <2> QED BY <2>3 DEF t
<1>10. i = k + 1
  BY <1>1, <1>6, <1>9
<1> QED BY <1>9, <1>10

\* One call of fgets takes the next line, or the newline that the last found no
\* room for.
Reads(lines, k, r, size) ==
  LET took == Fgets(r, size)
      left == Drop(r, Len(took))
  IN  \/ TrimNewline(took) = <<>> /\ Unread(lines, k, left)
      \/ k < Len(lines) /\ TrimNewline(took) = lines[k + 1] /\ Unread(lines, k + 1, left)

\* So it is for every call, if no line is longer than the buffer.
LEMMA ReadsALine ==
  ASSUME NEW lines, TextLines(lines), NEW size \in Nat \ {0, 1},
         \A i \in 1 .. Len(lines) : Len(lines[i]) < size,
         NEW k, NEW r, Unread(lines, k, r), r # <<>>
  PROVE  Reads(lines, k, r, size)
<1>1. lines \in Seq(Str) /\ k \in 0 .. Len(lines) /\ Len(lines) \in Nat
  BY LenProperties DEF TextLines, Unread
<1>2. PICK q \in Files(Drop(lines, k)) : q \in Str /\ (r = q \/ r = <<"\n">> \o q)
  BY DEF Unread
<1>3. CASE r = <<"\n">> \o q
  <2>1. Plain(<<>>) /\ Len(<<>>) < size
    BY NewLineIs DEF Plain
  <2>2. r = <<>> \o (<<"\n">> \o q) /\ <<>> \o <<"\n">> = <<"\n">>
    BY <1>2, <1>3, NewLineJoin, NewLineIs, ConcatEmptySeq DEF Str
  <2>3. TrimNewline(<<"\n">>) = <<>> /\ TrimNewline(<<>>) = <<>>
    BY <2>1, <2>2, TrimPlain
  <2>4. Unread(lines, k, q) /\ Unread(lines, k, <<"\n">> \o q)
    BY <1>1, <1>2 DEF Unread
  <2>5. \/ Fgets(r, size) = <<>> \o <<"\n">> /\ Drop(r, Len(<<>> \o <<"\n">>)) = q
        \/ Fgets(r, size) = <<>> /\ Drop(r, Len(<<>>)) = <<"\n">> \o q
    <3>1. TakesLine(<<>>, q, <<>> \o (<<"\n">> \o q), size)
      BY <1>2, <2>1, FgetsLine
    <3>2. TakesLine(<<>>, q, r, size)
      BY <2>2, <3>1, Zenon
    <3> QED BY <3>2 DEF TakesLine
  <2>6. \/ Fgets(r, size) = <<"\n">> /\ Drop(r, Len(<<"\n">>)) = q
        \/ Fgets(r, size) = <<>> /\ Drop(r, Len(<<>>)) = <<"\n">> \o q
    BY <2>2, <2>5, Zenon
  <2> QED BY <2>3, <2>4, <2>6, Zenon DEF Reads
<1>4. CASE r = q
  <2>1. k < Len(lines)
    <3> SUFFICES ASSUME ~(k < Len(lines)) PROVE FALSE
      OBVIOUS
    <3>1. Drop(lines, k) \in Seq(Str) /\ Len(Drop(lines, k)) = Len(lines) - k
      BY <1>1, DropLines
    <3>2. Len(lines) - k = 0
      BY <1>1
    <3>3. Files(Drop(lines, k)) = {<<>>}
      BY <3>1, <3>2, FilesNone
    <3>4. q = <<>>
      BY <3>3
    <3> QED BY <1>4, <3>4
  <2> DEFINE l == Drop(lines, k)
             t == Drop(lines, k + 1)
             h == lines[k + 1]
  <2>2. Rest(l, t) /\ l[1] = h /\ k + 1 \in 0 .. Len(lines)
    BY <1>1, <2>1, RestLines
  <2>3. Plain(h) /\ Len(h) < size
    <3>1. k + 1 \in 1 .. Len(lines)
      BY <1>1, <2>1
    <3> QED BY <1>1, <3>1, ElementOfSeq DEF TextLines, Plain
  <2>4. r \in Files(l)
    BY <1>2, <1>4
  <2>5. t \in Seq(Str)
    BY <2>2 DEF Rest
  <2>6. TrimNewline(h) = h /\ TrimNewline(h \o <<"\n">>) = h
    BY <2>3, TrimPlain
  <2> HIDE DEF l, h, t
  <2>7. \/ Len(t) = 0 /\ r = h
        \/ \E p \in Files(t) : p \in Str /\ r = h \o (<<"\n">> \o p)
    BY <2>2, <2>4, FilesCons, Zenon
  <2>8. CASE Len(t) = 0 /\ r = h
    <3>1. Fgets(r, size) = h
      BY <2>3, <2>8, FgetsWhole
    <3>2. Drop(r, Len(h)) = <<>>
      <4>1. h \in Str
        BY <2>3 DEF Plain
      <4>2. Len(h) \in Nat
        BY <4>1, StrIs
      <4>3. Len(h) + 1 \in Int /\ Len(h) < Len(h) + 1
        BY <4>2
      <4> QED BY <2>8, <4>2, <4>3, SubSeqEmpty DEF Drop
    <3>3. Files(t) = {<<>>}
      BY <2>5, <2>8, FilesNone
    <3>4. <<>> \in Files(t) /\ <<>> \in Str
      BY <3>3, NewLineIs
    <3>5. Unread(lines, k + 1, <<>>)
      BY <2>2, <3>4, Zenon DEF Unread, t
    <3>6. TrimNewline(Fgets(r, size)) = lines[k + 1]
      BY <2>6, <3>1, Zenon DEF h
    <3>7. Unread(lines, k + 1, Drop(r, Len(Fgets(r, size))))
      BY <3>1, <3>2, <3>5, Zenon
    <3> QED BY <2>1, <3>6, <3>7, Zenon DEF Reads
  <2>9. ASSUME NEW p \in Files(t), p \in Str, r = h \o (<<"\n">> \o p)
        PROVE  Reads(lines, k, r, size)
    <3>1. \/ Fgets(r, size) = h \o <<"\n">> /\ Drop(r, Len(h \o <<"\n">>)) = p
          \/ Fgets(r, size) = h /\ Drop(r, Len(h)) = <<"\n">> \o p
      <4>1. TakesLine(h, p, h \o (<<"\n">> \o p), size)
        BY <2>3, <2>9, FgetsLine
      <4>2. TakesLine(h, p, r, size)
        BY <2>9, <4>1, Zenon
      <4> QED BY <4>2 DEF TakesLine
    <3>2. Unread(lines, k + 1, p) /\ Unread(lines, k + 1, <<"\n">> \o p)
      BY <2>2, <2>9, Zenon DEF Unread, t
    <3>3. TrimNewline(Fgets(r, size)) = lines[k + 1]
      BY <2>6, <3>1, Zenon DEF h
    <3>4. Unread(lines, k + 1, Drop(r, Len(Fgets(r, size))))
      BY <3>1, <3>2, Zenon
    <3> QED BY <2>1, <3>3, <3>4, Zenon DEF Reads
  <2> QED BY <2>7, <2>8, <2>9
<1> QED BY <1>2, <1>3, <1>4

-----------------------------------------------------------------------------
(* What a line of a file says, and what is read from it.                   *)

\* The characters that matter are not each other.
LEMMA CharsDiffer ==
  /\ "=" \notin Blank /\ "#" \notin Blank /\ "=" # "\n" /\ "\n" \notin Blank
  /\ "\n" \in NewLine /\ "=" # "#"
BY DEF Blank, NewLine

\* The places of the words of a line, by the names used above.
LEMMA TextIs ==
  ASSUME NEW l \in Str
  PROVE  /\ {i \in DOMAIN l : l[i] \notin Blank} = TextIn(l, 1, Len(l))
         /\ IsEntry(l) <=> /\ TextIn(l, 1, Len(l)) # {}
                           /\ l[Min(TextIn(l, 1, Len(l)))] # "#"
<1>1. {i \in DOMAIN l : l[i] \notin Blank} = TextIn(l, 1, Len(l))
  BY StrIs DEF TextIn
<1> QED BY <1>1, Zenon DEF IsEntry

\* The code skips what is no entry.
LEMMA SkippedIs ==
  ASSUME NEW l \in Str
  PROVE  Skipped(Bare(l)) <=> ~IsEntry(l)
<1> DEFINE T == TextIn(l, 1, Len(l))
           b == Bare(l)
<1>1. IsEntry(l) <=> T # {} /\ l[Min(T)] # "#"
  BY TextIs
<1>2. CASE T = {}
  <2>1. b = <<>>
    BY <1>2, BareNone
  <2>2. Fit(<<>>, 2) = <<>>
    BY NewLineIs DEF Fit
  <2>3. Skipped(b)
    BY <2>1, <2>2 DEF Skipped
  <2> QED BY <1>1, <1>2, <2>3
<1>3. CASE T # {}
  <2> DEFINE a == Min(T)
             z == Max(T)
             f == Fit(b, 2)
  <2>1. /\ a \in 1 .. Len(l) /\ z \in a .. Len(l) /\ b \in Str /\ Len(b) = z - a + 1
        /\ \A i \in 1 .. z - a + 1 : b[i] = l[a + i - 1]
    BY <1>3, BareParts
  <2>2. IsEntry(l) <=> l[a] # "#"
    BY <1>1, <1>3
  <2> HIDE DEF a, z, b
  <2>3. 1 \in 1 .. z - a + 1 /\ a + 1 - 1 = a /\ Len(b) \in Nat /\ Len(b) # 0
    BY <2>1, StrIs
  <2>4. b[1] = l[a]
    BY <2>1, <2>3
  <2>5. f \in Str /\ Len(f) = 1 /\ f[1] = b[1]
    <3> DEFINE n == IF Len(b) < 2 THEN Len(b) ELSE 2 - 1
    <3>1. f \in Str /\ Len(f) = n /\ \A i \in 1 .. n : f[i] = b[i]
      <4>1. b \in Str /\ 2 \in Nat \ {0}
        BY <2>1
      <4> QED BY <4>1, FitIs, Zenon
    <3>2. n = 1
      <4>1. Len(b) \in Nat /\ Len(b) # 0
        BY <2>3
      <4>2. \A x \in Nat : x # 0 => (IF x < 2 THEN x ELSE 2 - 1) = 1
        OBVIOUS
      <4> QED BY <4>1, <4>2, Zenon
    <3>3. 1 \in 1 .. n
      BY <3>2
    <3> QED BY <3>1, <3>2, <3>3
  <2> HIDE DEF f
  <2>6. f # <<>>
    <3>1. f \in Str /\ Len(f) # 0
      BY <2>5
    <3> QED BY <3>1, StrIs
  <2>7. f = <<"#">> <=> b[1] = "#"
    <3>1. <<"#">> \in Str /\ Len(<<"#">>) = 1 /\ <<"#">>[1] = "#"
      <4>1. "#" \in Char
        BY DEF Char
      <4> QED BY <4>1 DEF Str
    <3>2. ASSUME f[1] = "#" PROVE f = <<"#">>
      <4>1. \A i \in 1 .. 1 : i = 1
        OBVIOUS
      <4>2. \A i \in 1 .. Len(f) : f[i] = <<"#">>[i]
        BY <2>5, <3>1, <3>2, <4>1
      <4> QED BY <2>5, <3>1, <4>2, SameStr
    <3> QED BY <2>5, <3>1, <3>2
  <2>8. Skipped(b) <=> b[1] = "#"
    BY <2>6, <2>7 DEF Skipped, f
  <2> QED BY <2>2, <2>4, <2>8 DEF b
<1> QED BY <1>2, <1>3

\* What is not blank is in the line if it is in its words.
LEMMA RangeOfBare ==
  ASSUME NEW l \in Str, NEW c, c \notin Blank
  PROVE  c \in Range(Bare(l)) <=> c \in Range(l)
<1> DEFINE T == TextIn(l, 1, Len(l))
           b == Bare(l)
<1>1. Len(l) \in Nat /\ DOMAIN l = 1 .. Len(l)
  BY StrIs
<1>2. CASE T = {}
  <2>1. b = <<>> /\ DOMAIN <<>> = 1 .. Len(<<>>)
    BY <1>2, BareNone, NewLineIs, StrIs
  <2>2. Range(b) = {}
    BY <2>1, NewLineIs DEF Range
  <2>3. c \notin Range(l)
    BY <1>1, <1>2 DEF Range, TextIn
  <2> QED BY <2>2, <2>3
<1>3. CASE T # {}
  <2> DEFINE a == Min(T)
             z == Max(T)
  <2>1. /\ a \in 1 .. Len(l) /\ z \in a .. Len(l) /\ b \in Str /\ Len(b) = z - a + 1
        /\ \A i \in 1 .. z - a + 1 : b[i] = l[a + i - 1]
        /\ T \subseteq a .. z
    BY <1>3, BareParts
  <2>2. DOMAIN b = 1 .. z - a + 1
    BY <2>1, StrIs
  <2> HIDE DEF a, z, b
  <2>3. ASSUME NEW i \in 1 .. Len(l), l[i] = c PROVE c \in Range(b)
    <3>1. i \in T
      BY <2>3 DEF TextIn
    <3>2. i - a + 1 \in 1 .. z - a + 1 /\ a + (i - a + 1) - 1 = i
      BY <1>1, <2>1, <3>1
    <3>3. b[i - a + 1] = l[i]
      BY <2>1, <3>2
    <3> QED BY <2>2, <2>3, <3>2, <3>3 DEF Range
  <2>4. ASSUME NEW j \in 1 .. z - a + 1, b[j] = c PROVE c \in Range(l)
    <3>1. a + j - 1 \in 1 .. Len(l)
      BY <1>1, <2>1
    <3> QED BY <1>1, <2>1, <2>4, <3>1 DEF Range
  <2> QED BY <1>1, <2>2, <2>3, <2>4 DEF Range, b
<1> QED BY <1>2, <1>3

\* The first "=" of a line is one of its words' characters.
LEMMA CutIs ==
  ASSUME NEW l \in Str, "=" \in Range(l)
  PROVE  LET T == TextIn(l, 1, Len(l))
         IN  /\ T # {} /\ Cut(l) \in Min(T) .. Max(T) /\ Cut(l) \in 1 .. Len(l)
             /\ l[Cut(l)] = "="
             /\ \A i \in 1 .. Cut(l) - 1 : l[i] # "="
<1> DEFINE T == TextIn(l, 1, Len(l))
           E == {i \in DOMAIN l : l[i] = "="}
           c == Cut(l)
<1>1. Len(l) \in Nat /\ DOMAIN l = 1 .. Len(l)
  BY StrIs
<1>2. E \in SUBSET Nat /\ E # {}
  BY <1>1 DEF Range
<1>3. c \in E /\ \A i \in E : c <= i
  BY <1>2, MinIs DEF Cut
<1>4. c \in 1 .. Len(l) /\ l[c] = "="
  BY <1>1, <1>3
<1>5. \A i \in 1 .. c - 1 : l[i] # "="
  <2> SUFFICES ASSUME NEW i \in 1 .. c - 1, l[i] = "=" PROVE FALSE
    OBVIOUS
  <2>1. i \in E /\ c \in Nat
    BY <1>1, <1>4
  <2> QED BY <1>3, <2>1
<1>6. c \in T
  BY <1>4, CharsDiffer DEF TextIn
<1>7. T # {}
  BY <1>6
<1>8. c \in Min(T) .. Max(T)
  <2>1. T \subseteq Min(T) .. Max(T)
    BY <1>7, BareParts
  <2> QED BY <1>6, <2>1
<1> QED BY <1>4, <1>5, <1>7, <1>8

ShortKey(l) == Len(KeyUntrimmed(l)) < KeySize - 1

\* A key with the blanks behind it that fits its buffer ends before the "=".
LEMMA CutFits ==
  ASSUME NEW l \in Str, "=" \in Range(l), ShortKey(l)
  PROVE  Cut(l) - 1 < KeySize - 1
<1> DEFINE chars == Range(l) \ {"="}
           c == Cut(l)
<1>1. Len(l) \in Nat /\ DOMAIN l = 1 .. Len(l) /\ KeySize \in Nat \ {0, 1}
  BY StrIs, ConfigAssumption
<1>2. c \in 1 .. Len(l) /\ l[c] = "=" /\ \A i \in 1 .. c - 1 : l[i] # "="
  BY CutIs
<1>3. PICK n : IsSpan(l, chars, KeySize - 1, n) /\ Span(l, chars, KeySize - 1) = SubSeq(l, 1, n)
  <2>1. KeySize - 1 \in Nat
    BY <1>1
  <2> HIDE DEF chars
  <2> QED BY <2>1, SpanExists
<1>4. n \in 0 .. Len(l) /\ (n < Len(l) /\ n < KeySize - 1 => l[n + 1] \notin chars)
  BY <1>3 DEF IsSpan
<1>5. Len(SubSeq(l, 1, n)) = n
  <2>1. 1 \in 1 .. Len(l) + 1 /\ n \in 1 - 1 .. Len(l) /\ n - 1 + 1 = n
    BY <1>1, <1>4
  <2>2. Len(SubSeq(l, 1, n)) = n - 1 + 1
    BY <2>1, PartIs
  <2> QED BY <2>1, <2>2
<1>6. n < KeySize - 1
  BY <1>3, <1>5 DEF ShortKey, KeyUntrimmed
<1> HIDE DEF c
<1>7. ~(n < c - 1)
  <2> SUFFICES ASSUME n < c - 1 PROVE FALSE
    OBVIOUS
  <2>1. n < Len(l) /\ n + 1 \in 1 .. Len(l) /\ n + 1 \in 1 .. c - 1
    BY <1>1, <1>2, <1>4
  <2>2. l[n + 1] \notin chars
    BY <1>4, <1>6, <2>1
  <2>3. l[n + 1] \in Range(l)
    BY <1>1, <2>1 DEF Range
  <2>4. l[n + 1] = "="
    BY <2>2, <2>3
  <2> QED BY <1>2, <2>1, <2>4
<1>8. c - 1 < KeySize - 1
  BY <1>1, <1>2, <1>4, <1>6, <1>7
<1> QED BY <1>8 DEF c

\* The key of a line that is read, and where it ends.
LEMMA KeyIs ==
  ASSUME NEW l \in Str, "=" \in Range(l), ShortKey(l)
  PROVE  LET a == Min(TextIn(l, 1, Len(l)))
         IN  /\ Span(Bare(l), Range(Bare(l)) \ {"="}, KeySize - 1) = SubSeq(l, a, Cut(l) - 1)
             /\ Len(SubSeq(l, a, Cut(l) - 1)) = Cut(l) - a
             /\ Key(Bare(l)) = Bare(SubSeq(l, 1, Cut(l) - 1))
             /\ Cut(l) = a => Key(Bare(l)) = <<>>
<1> DEFINE T == TextIn(l, 1, Len(l))
           a == Min(T)
           z == Max(T)
           b == Bare(l)
           c == Cut(l)
           chars == Range(b) \ {"="}
<1>1. Len(l) \in Nat /\ KeySize - 1 \in Nat
  BY StrIs, ConfigAssumption
<1>2. /\ T # {} /\ c \in a .. z /\ c \in 1 .. Len(l) /\ l[c] = "="
      /\ \A i \in 1 .. c - 1 : l[i] # "="
  BY CutIs
<1>3. /\ b = SubSeq(l, a, z) /\ a \in 1 .. Len(l) /\ z \in a .. Len(l)
      /\ b \in Str /\ Len(b) = z - a + 1
      /\ \A i \in 1 .. z - a + 1 : b[i] = l[a + i - 1]
      /\ T \subseteq a .. z
  BY <1>2, BareParts
<1>4. c - 1 < KeySize - 1
  BY CutFits
<1>5. DOMAIN b = 1 .. Len(b)
  BY <1>3, StrIs
<1>6. \A i \in 1 .. Len(l) : l[i] \notin Blank => i \in a .. z
  BY <1>3 DEF TextIn
<1> HIDE DEF T, a, z, b, c
<1>7. c - a \in 0 .. Len(b) /\ c - a <= KeySize - 1
  BY <1>1, <1>2, <1>3, <1>4
<1>8. \A i \in 1 .. c - a : b[i] \in chars
  <2> TAKE i \in 1 .. c - a
  <2>1. i \in 1 .. z - a + 1 /\ a + i - 1 \in 1 .. c - 1
    BY <1>1, <1>2, <1>3
  <2>2. b[i] # "=" /\ b[i] \in Range(b)
    BY <1>2, <1>3, <1>5, <2>1 DEF Range
  <2> QED BY <2>2
<1>9. b[c - a + 1] \notin chars
  <2>1. c - a + 1 \in 1 .. z - a + 1 /\ a + (c - a + 1) - 1 = c
    BY <1>1, <1>2, <1>3
  <2> QED BY <1>2, <1>3, <2>1
<1>10. Span(b, chars, KeySize - 1) = SubSeq(b, 1, c - a)
  <2> HIDE DEF chars
  <2>1. IsSpan(b, chars, KeySize - 1, c - a)
    BY <1>7, <1>8, <1>9 DEF IsSpan
  <2> QED BY <1>1, <1>3, <2>1, SpanIs
<1>11. SubSeq(b, 1, c - a) = SubSeq(l, a, c - 1)
  <2>1. /\ a \in 1 .. Len(l) + 1 /\ z \in a - 1 .. Len(l)
        /\ 1 \in 1 .. z - a + 2 /\ c - a \in 1 - 1 .. z - a + 1
        /\ a + 1 - 1 = a /\ a + (c - a) - 1 = c - 1
    BY <1>1, <1>2, <1>3
  <2>2. SubSeq(SubSeq(l, a, z), 1, c - a) = SubSeq(l, a + 1 - 1, a + (c - a) - 1)
    BY <2>1, PartOfPart
  <2> QED BY <1>3, <2>1, <2>2
<1>12. a \in 1 .. Len(l) + 1 /\ c - 1 \in a - 1 .. Len(l) /\ c - 1 - a + 1 = c - a
       /\ 1 \in 1 .. Len(l) + 1 /\ c - 1 \in 1 - 1 .. Len(l)
  BY <1>1, <1>2, <1>3
<1>13. Len(SubSeq(l, a, c - 1)) = c - a /\ SubSeq(l, a, c - 1) \in Str
  BY <1>12, PartIs
<1>14. Key(b) = Bare(SubSeq(l, a, c - 1))
  BY <1>10, <1>11, <1>13, BareIsTrim DEF Key, chars
<1>15. Bare(SubSeq(l, a, c - 1)) = Bare(SubSeq(l, 1, c - 1))
  <2>1. TextIn(l, a, c - 1) = TextIn(l, 1, c - 1)
    <3> SUFFICES ASSUME NEW i \in 1 .. c - 1, l[i] \notin Blank PROVE i \in a .. c - 1
      BY <1>1, <1>2, <1>3 DEF TextIn
    <3>1. i \in 1 .. Len(l)
      BY <1>1, <1>2
    <3> QED BY <1>1, <1>2, <1>3, <1>6, <3>1
  <2>2. Words(l, a, c - 1) = Words(l, 1, c - 1)
    BY <2>1, SameWords
  <2> QED BY <1>12, <2>2, BareOfPart
<1>16. c = a => Key(b) = <<>>
  <2> SUFFICES ASSUME c = a PROVE Bare(SubSeq(l, a, c - 1)) = <<>>
    BY <1>14
  <2>1. SubSeq(l, a, c - 1) = <<>>
    BY <1>1, <1>2, <1>3, SubSeqEmpty
  <2>2. TextIn(<<>>, 1, Len(<<>>)) = {}
    BY NewLineIs DEF TextIn
  <2>3. Bare(<<>>) = <<>>
    BY <2>2, NewLineIs, BareNone
  <2> QED BY <2>1, <2>3
<1> QED BY <1>10, <1>11, <1>13, <1>14, <1>15, <1>16 DEF T, a, b, c, chars

\* The value: what stands behind the "=", as much of it as its buffer holds.
LEMMA ValueIs ==
  ASSUME NEW l, Plain(l), "=" \in Range(l), ShortKey(l), Key(Bare(l)) # <<>>
  PROVE  Value(Bare(l)) = Bare(Fit(Drop(l, Cut(l)), ValueSize))
<1> DEFINE T == TextIn(l, 1, Len(l))
           a == Min(T)
           z == Max(T)
           b == Bare(l)
           c == Cut(l)
           tail == Drop(b, Len(Span(b, Range(b) \ {"="}, KeySize - 1)))
           v == SubSeq(l, c + 1, z)
           size == ValueSize - 1
           n == IF z - c < size THEN z - c ELSE size
           m == IF Len(l) - c < ValueSize THEN Len(l) - c ELSE size
           chars == Range(tail) \ {"\n"}
<1>0. l \in Str /\ \A i \in 1 .. Len(l) : l[i] \notin NewLine
  BY DEF Plain
<1>1. Len(l) \in Nat /\ ValueSize \in Nat \ {0, 1} /\ size \in Nat
  BY <1>0, StrIs, ConfigAssumption
<1>2. /\ T # {} /\ c \in a .. z /\ c \in 1 .. Len(l) /\ l[c] = "="
      /\ \A i \in 1 .. c - 1 : l[i] # "="
  BY <1>0, CutIs
<1>3. /\ b = SubSeq(l, a, z) /\ a \in 1 .. Len(l) /\ z \in a .. Len(l)
      /\ b \in Str /\ Len(b) = z - a + 1
      /\ \A i \in 1 .. z - a + 1 : b[i] = l[a + i - 1]
      /\ T \subseteq a .. z
  BY <1>0, <1>2, BareParts
<1>4. /\ Span(b, Range(b) \ {"="}, KeySize - 1) = SubSeq(l, a, c - 1)
      /\ Len(SubSeq(l, a, c - 1)) = c - a
      /\ c # a
  BY <1>0, KeyIs
<1>5. tail = Drop(b, c - a)
  BY <1>4
<1>6. \A i \in 1 .. Len(l) : l[i] \notin Blank => i \in a .. z
  BY <1>3 DEF TextIn
<1> HIDE DEF T, a, z, b, c
<1>7. a < c /\ c - a \in 0 .. Len(b) /\ c - a # Len(b) /\ Len(b) - (c - a) = z - c + 1
  BY <1>1, <1>2, <1>3, <1>4
<1>8. /\ tail \in Str /\ Len(tail) = z - c + 1 /\ tail # <<>>
      /\ \A i \in 1 .. z - c + 1 : tail[i] = b[c - a + i]
  <2>1. /\ Drop(b, c - a) \in Str /\ Len(Drop(b, c - a)) = Len(b) - (c - a)
        /\ \A i \in 1 .. Len(b) - (c - a) : Drop(b, c - a)[i] = b[(c - a) + i]
        /\ (Drop(b, c - a) = <<>> <=> c - a = Len(b))
    BY <1>3, <1>7, DropIs
  <2> QED BY <1>5, <1>7, <2>1
<1>9. tail = SubSeq(l, c, z)
  <2>1. /\ a \in 1 .. Len(l) + 1 /\ z \in a - 1 .. Len(l)
        /\ c - a + 1 \in 1 .. z - a + 2 /\ z - a + 1 \in (c - a + 1) - 1 .. z - a + 1
        /\ a + (c - a + 1) - 1 = c /\ a + (z - a + 1) - 1 = z
    BY <1>1, <1>2, <1>3
  <2>2. SubSeq(SubSeq(l, a, z), c - a + 1, z - a + 1)
          = SubSeq(l, a + (c - a + 1) - 1, a + (z - a + 1) - 1)
    BY <1>0, <2>1, PartOfPart
  <2>3. tail = SubSeq(b, c - a + 1, z - a + 1)
    BY <1>3, <1>5 DEF Drop
  <2> QED BY <1>3, <2>1, <2>2, <2>3
<1> HIDE DEF tail
<1>10. tail[1] = "=" /\ b[1] # "="
  <2>1. 1 \in 1 .. z - c + 1 /\ c - a + 1 \in 1 .. z - a + 1 /\ a + (c - a + 1) - 1 = c
        /\ 1 \in 1 .. z - a + 1 /\ a + 1 - 1 = a /\ a \in 1 .. c - 1
    BY <1>1, <1>2, <1>3, <1>7
  <2>2. tail[1] = b[c - a + 1] /\ b[c - a + 1] = l[c] /\ b[1] = l[a]
    <3>1. b[c - a + 1] = l[a + (c - a + 1) - 1] /\ b[1] = l[a + 1 - 1]
      BY <1>3, <2>1
    <3> QED BY <1>8, <2>1, <3>1
  <2> QED BY <1>2, <2>1, <2>2
<1>11. Value(b) = TrimSpace(Span(Tail(tail), chars, size))
  BY <1>8, <1>10, Zenon DEF Value, tail, chars
<1>12. Tail(tail) = v
  <2>1. c \in 1 .. Len(l) /\ z \in c .. Len(l)
    BY <1>1, <1>2, <1>3
  <2>2. Tail(SubSeq(l, c, z)) = SubSeq(l, c + 1, z)
    BY <1>0, <2>1, HeadTailOfSubSeq DEF Str
  <2> QED BY <1>9, <2>2
<1>13. c + 1 \in 1 .. Len(l) + 1 /\ z \in (c + 1) - 1 .. Len(l) /\ z - (c + 1) + 1 = z - c
  BY <1>1, <1>2, <1>3
<1>14. v \in Str /\ Len(v) = z - c /\ \A i \in 1 .. z - c : v[i] = l[c + i]
  <2>1. /\ v \in Str /\ Len(v) = z - (c + 1) + 1
        /\ \A i \in 1 .. z - (c + 1) + 1 : v[i] = l[(c + 1) + i - 1]
    BY <1>0, <1>13, PartIs
  <2>2. \A i \in 1 .. z - c : (c + 1) + i - 1 = c + i
    BY <1>1, <1>2, <1>13
  <2> QED BY <1>13, <2>1, <2>2
<1>15. \A i \in 1 .. z - c : v[i] \in chars
  <2> TAKE i \in 1 .. z - c
  <2>1. i + 1 \in 1 .. z - c + 1 /\ c - a + (i + 1) \in 1 .. z - a + 1
        /\ a + (c - a + (i + 1)) - 1 = c + i /\ c + i \in 1 .. Len(l)
    BY <1>1, <1>2, <1>3
  <2>2. tail[i + 1] = b[c - a + (i + 1)] /\ b[c - a + (i + 1)] = l[c + i]
    <3>1. b[c - a + (i + 1)] = l[a + (c - a + (i + 1)) - 1]
      BY <1>3, <2>1
    <3> QED BY <1>8, <2>1, <3>1
  <2>3. DOMAIN tail = 1 .. z - c + 1
    BY <1>8, StrIs
  <2>4. v[i] \in Range(tail)
    BY <1>14, <2>1, <2>2, <2>3 DEF Range
  <2>5. v[i] # "\n"
    BY <1>0, <1>14, <2>1, CharsDiffer
  <2> QED BY <2>4, <2>5
<1> HIDE DEF v, chars
<1>16. n \in 0 .. z - c /\ n <= size /\ (n < z - c => ~(n < size))
  BY <1>1, <1>13
<1> HIDE DEF n
<1>17. Span(v, chars, size) = SubSeq(v, 1, n)
  <2>1. IsSpan(v, chars, size, n)
    <3>1. \A i \in 1 .. n : v[i] \in chars
      <4> TAKE i \in 1 .. n
      <4>1. i \in 1 .. z - c
        BY <1>13, <1>16
      <4> QED BY <1>15, <4>1
    <3> QED BY <1>14, <1>16, <3>1 DEF IsSpan
  <2> HIDE DEF size
  <2> QED BY <1>1, <1>14, <2>1, SpanIs
<1>18. SubSeq(v, 1, n) = SubSeq(l, c + 1, c + n)
  <2>1. /\ 1 \in 1 .. z - (c + 1) + 2 /\ n \in 1 - 1 .. z - (c + 1) + 1
        /\ (c + 1) + 1 - 1 = c + 1 /\ (c + 1) + n - 1 = c + n
    BY <1>1, <1>2, <1>3, <1>13, <1>16
  <2>2. SubSeq(SubSeq(l, c + 1, z), 1, n) = SubSeq(l, (c + 1) + 1 - 1, (c + 1) + n - 1)
    BY <1>0, <1>13, <2>1, PartOfPart
  <2> QED BY <2>1, <2>2 DEF v
<1>19. c + 1 \in 1 .. Len(l) + 1 /\ c + n \in (c + 1) - 1 .. Len(l)
  BY <1>1, <1>2, <1>3, <1>13, <1>16
<1>20. Value(b) = Words(l, c + 1, c + n)
  <2> DEFINE w == SubSeq(l, c + 1, c + n)
  <2>1. w \in Str
    BY <1>0, <1>19, PartIs
  <2>2. Value(b) = TrimSpace(w)
    BY <1>11, <1>12, <1>17, <1>18
  <2> HIDE DEF w
  <2>3. Value(b) = Bare(w)
    BY <2>1, <2>2, BareIsTrim
  <2>4. Bare(SubSeq(l, c + 1, c + n)) = Words(l, c + 1, c + n)
    BY <1>0, <1>19, BareOfPart
  <2> QED BY <2>3, <2>4 DEF w
<1>21. m \in 0 .. Len(l) - c /\ n <= m /\ (n < m => n = z - c)
  BY <1>1, <1>2, <1>13 DEF n
<1>22. Fit(Drop(l, c), ValueSize) = SubSeq(l, c + 1, c + m)
  <2> DEFINE d == Drop(l, c)
  <2>1. c \in 0 .. Len(l)
    BY <1>1, <1>2
  <2>2. d \in Str /\ Len(d) = Len(l) - c
    BY <1>0, <2>1, DropIs
  <2>3. d = SubSeq(l, c + 1, Len(l))
    BY DEF Drop
  <2> HIDE DEF d
  <2>4. Fit(d, ValueSize) = SubSeq(d, 1, m)
    <3>1. ValueSize \in Nat \ {0}
      BY <1>1
    <3>2. Fit(d, ValueSize)
            = SubSeq(d, 1, IF Len(d) < ValueSize THEN Len(d) ELSE ValueSize - 1)
      BY <2>2, <3>1, FitIs
    <3> QED BY <2>2, <3>2
  <2> HIDE DEF m
  <2>5. /\ Len(l) \in (c + 1) - 1 .. Len(l)
        /\ 1 \in 1 .. Len(l) - (c + 1) + 2 /\ m \in 1 - 1 .. Len(l) - (c + 1) + 1
        /\ (c + 1) + 1 - 1 = c + 1 /\ (c + 1) + m - 1 = c + m
    BY <1>1, <1>2, <1>21
  <2>6. SubSeq(SubSeq(l, c + 1, Len(l)), 1, m) = SubSeq(l, (c + 1) + 1 - 1, (c + 1) + m - 1)
    BY <1>0, <1>13, <2>5, PartOfPart
  <2> QED BY <2>3, <2>4, <2>5, <2>6 DEF d
<1> HIDE DEF m
<1>23. c + m \in (c + 1) - 1 .. Len(l)
  BY <1>1, <1>2, <1>21
<1>24. Bare(SubSeq(l, c + 1, c + m)) = Words(l, c + 1, c + m)
  BY <1>0, <1>19, <1>23, BareOfPart
<1>25. TextIn(l, c + 1, c + n) = TextIn(l, c + 1, c + m)
  <2>1. \A i \in c + 1 .. c + n : i \in c + 1 .. c + m
    BY <1>1, <1>2, <1>16, <1>21
  <2>2. ASSUME NEW i \in c + 1 .. c + m, l[i] \notin Blank PROVE i \in c + 1 .. c + n
    <3>1. i \in 1 .. Len(l)
      BY <1>1, <1>2, <1>21
    <3>2. i \in a .. z
      BY <1>6, <2>2, <3>1
    <3> QED BY <1>1, <1>2, <1>3, <1>16, <1>21, <3>2
  <2> QED BY <2>1, <2>2 DEF TextIn
<1>26. Value(b) = Bare(Fit(Drop(l, c), ValueSize))
  BY <1>20, <1>22, <1>24, <1>25, SameWords
<1> QED BY <1>26 DEF b, c

-----------------------------------------------------------------------------
(* mycloud.conf.                                                           *)

\* The lines that are assumed to be text are.
LEMMA LinesAreText ==
  ASSUME NEW lines, lines \in Seq(Seq(STRING)), IsText(lines)
  PROVE  TextLines(lines)
<1>1. STRING \subseteq Char
  BY DEF Char
<1>2. Seq(STRING) \subseteq Str
  BY <1>1, SeqMonotonic DEF Str
<1>3. lines \in Seq(Str) /\ DOMAIN lines = 1 .. Len(lines)
  BY <1>2, SeqMonotonic, LenProperties
<1>4. ASSUME NEW i \in 1 .. Len(lines), NEW j \in 1 .. Len(lines[i])
      PROVE  lines[i][j] \notin NewLine
  <2>1. lines[i] \in Str
    BY <1>3, ElementOfSeq
  <2>2. DOMAIN lines[i] = 1 .. Len(lines[i])
    BY <2>1, StrIs
  <2>3. lines[i][j] \in Range(lines[i])
    BY <2>2 DEF Range
  <2>4. Range(lines[i]) \cap NewLine = {}
    BY <1>3 DEF IsText
  <2> QED BY <2>3, <2>4
<1> QED BY <1>3, <1>4 DEF TextLines

\* Each of them is a line of text.
LEMMA LineOf ==
  ASSUME NEW lines, TextLines(lines), NEW i \in 1 .. Len(lines)
  PROVE  Plain(lines[i]) /\ lines[i] \in Str
BY ElementOfSeq DEF TextLines, Plain

\* An empty line says nothing.
LEMMA EmptyLine ==
  /\ Bare(<<>>) = <<>> /\ TrimSpace(<<>>) = <<>> /\ ~IsEntry(<<>>) /\ Skipped(<<>>)
<1>1. <<>> \in Str /\ Len(<<>>) = 0
  BY NewLineIs
<1>2. TextIn(<<>>, 1, Len(<<>>)) = {}
  BY <1>1 DEF TextIn
<1>3. Bare(<<>>) = <<>>
  BY <1>1, <1>2, BareNone
<1>4. ~IsEntry(<<>>)
  BY <1>1, <1>2, TextIs
<1>5. Skipped(Bare(<<>>))
  BY <1>1, <1>4, SkippedIs
<1> QED BY <1>1, <1>3, <1>4, <1>5, BareIsTrim

\* The line that is read next is the next line of the file, or nothing.
Left == Drop(rest, Len(Fgets(rest, LineSize)))
NextLine(lines, k) ==
  \/ Line = <<>> /\ Unread(lines, k, Left)
  \/ /\ k < Len(lines) /\ k + 1 \in 1 .. Len(lines) /\ k \in Nat
     /\ Line = Bare(lines[k + 1]) /\ Unread(lines, k + 1, Left)

\* What the server reads is the next line, or nothing.
LEMMA LineIsNext ==
  ASSUME NEW lines, TextLines(lines), ShortLines(lines), NEW k, Unread(lines, k, rest),
         rest # <<>>
  PROVE  NextLine(lines, k)
<1>1. lines \in Seq(Str) /\ k \in 0 .. Len(lines) /\ Len(lines) \in Nat
      /\ DOMAIN lines = 1 .. Len(lines)
  BY LenProperties DEF TextLines, Unread
<1>2. \A i \in 1 .. Len(lines) : Len(lines[i]) < LineSize
  BY <1>1 DEF ShortLines
<1>3. LineSize \in Nat \ {0, 1}
  BY ConfigAssumption
<1>4. Reads(lines, k, rest, LineSize)
  BY <1>2, <1>3, ReadsALine
<1>5. CASE TrimNewline(Fgets(rest, LineSize)) = <<>> /\ Unread(lines, k, Left)
  BY <1>5, EmptyLine, Zenon DEF NextLine, Line
<1>6. CASE /\ k < Len(lines) /\ TrimNewline(Fgets(rest, LineSize)) = lines[k + 1]
           /\ Unread(lines, k + 1, Left)
  <2>1. k + 1 \in 1 .. Len(lines) /\ k \in Nat
    BY <1>1, <1>6
  <2>2. lines[k + 1] \in Str
    BY <2>1, LineOf
  <2>3. Line = Bare(lines[k + 1])
    BY <1>6, <2>2, BareIsTrim DEF Line
  <2> QED BY <1>6, <2>1, <2>3, Zenon DEF NextLine
<1> QED BY <1>4, <1>5, <1>6, Zenon DEF Reads, Left

\* The value a line has for its key.
Written(line) == Bare(Fit(Drop(line, Cut(line)), ValueSize))

\* What is read from a line, against what stands in it.
LEMMA LineSets ==
  ASSUME NEW l, Plain(l), "=" \in Range(l) => ShortKey(l)
  PROVE  LET b == Bare(l)
             read == ~(Skipped(b) \/ "=" \notin Range(b) \/ Key(b) \notin Keys)
         IN  /\ read => Key(b) \in Keys /\ Sets(l, Key(b)) /\ Value(b) = Written(l)
             /\ \A key \in Keys : Sets(l, key) => read /\ key = Key(b)
<1> DEFINE b == Bare(l)
<1>1. l \in Str
  BY DEF Plain
<1>2. Skipped(b) <=> ~IsEntry(l)
  BY <1>1, SkippedIs
<1>3. "=" \in Range(b) <=> "=" \in Range(l)
  BY <1>1, CharsDiffer, RangeOfBare
<1>4. "=" \in Range(l) => Key(b) = Bare(SubSeq(l, 1, Cut(l) - 1))
  BY <1>1, KeyIs
<1>5. \A key \in Keys : key # <<>>
  BY ConfigAssumption
<1>6. "=" \in Range(l) /\ Key(b) # <<>> => Value(b) = Written(l)
  BY ValueIs DEF Written
<1> HIDE DEF b
<1> QED BY <1>2, <1>3, <1>4, <1>5, <1>6, Zenon DEF Sets, b

Setting(lines, k, key) == {i \in 1 .. k : Sets(lines[i], key)}
AsWritten(s, lines, k) ==
  /\ DOMAIN s = Keys
  /\ \A key \in Keys :
       s[key] = IF Setting(lines, k, key) = {} THEN Default[key]
                ELSE Converted(key, Written(lines[Max(Setting(lines, k, key))]))

\* Before any line the settings are the defaults.
LEMMA AsWrittenFirst ==
  ASSUME NEW lines
  PROVE  AsWritten(Default, lines, 0)
<1>1. \A key \in Keys : Setting(lines, 0, key) = {}
  BY DEF Setting
<1>2. DOMAIN Default = Keys
  BY ConfigAssumption
<1> QED BY <1>1, <1>2 DEF AsWritten

\* Lines that set nothing change nothing.
LEMMA AsWrittenSame ==
  ASSUME NEW s, NEW lines, NEW k \in Nat, NEW n \in Nat, k <= n, AsWritten(s, lines, k),
         \A i \in k + 1 .. n : \A key \in Keys : ~Sets(lines[i], key)
  PROVE  AsWritten(s, lines, n)
<1>1. ASSUME NEW key \in Keys PROVE Setting(lines, k, key) = Setting(lines, n, key)
  <2>1. \A i \in 1 .. n : i \in 1 .. k \/ i \in k + 1 .. n
    OBVIOUS
  <2>2. 1 .. k \subseteq 1 .. n
    OBVIOUS
  <2> QED BY <2>1, <2>2 DEF Setting
<1> QED BY <1>1 DEF AsWritten

\* A line that sets a key gives it its value.
LEMMA AsWrittenNext ==
  ASSUME NEW s, NEW lines, NEW k \in Nat, AsWritten(s, lines, k),
         NEW key \in Keys, Sets(lines[k + 1], key)
  PROVE  AsWritten([s EXCEPT ![key] = Converted(key, Written(lines[k + 1]))], lines, k + 1)
<1> DEFINE t == [s EXCEPT ![key] = Converted(key, Written(lines[k + 1]))]
<1>1. \A i \in 1 .. k + 1 : i \in 1 .. k \/ i = k + 1
  OBVIOUS
<1>2. 1 .. k \subseteq 1 .. k + 1 /\ k + 1 \in 1 .. k + 1
  OBVIOUS
<1>3. DOMAIN t = Keys
  BY DEF AsWritten
<1>4. ASSUME NEW other \in Keys
      PROVE  t[other] = IF Setting(lines, k + 1, other) = {} THEN Default[other]
                        ELSE Converted(other, Written(lines[Max(Setting(lines, k + 1, other))]))
  <2>1. CASE other = key
    <3> DEFINE L == Setting(lines, k + 1, key)
    <3>1. k + 1 \in L /\ L \in SUBSET (0 .. k + 1) /\ \A i \in L : i <= k + 1
      BY <1>2 DEF Setting
    <3> HIDE DEF L
    <3>2. Max(L) = k + 1
      <4>1. k + 1 \in Nat
        OBVIOUS
      <4> QED BY <3>1, <4>1, MaxUnique
    <3>3. t[key] = Converted(key, Written(lines[k + 1])) /\ L # {}
      BY <3>1 DEF AsWritten
    <3> QED BY <2>1, <3>2, <3>3 DEF L
  <2>2. CASE other # key
    <3>1. ~Sets(lines[k + 1], other)
      BY <2>2 DEF Sets
    <3>2. Setting(lines, k + 1, other) = Setting(lines, k, other)
      BY <1>1, <1>2, <3>1 DEF Setting
    <3>3. t[other] = s[other]
      BY <2>2 DEF AsWritten
    <3> QED BY <3>2, <3>3 DEF AsWritten
  <2> QED BY <2>1, <2>2
<1> HIDE DEF t
<1>5. AsWritten(t, lines, k + 1)
  BY <1>3, <1>4 DEF AsWritten
<1> QED BY <1>5 DEF t

-----------------------------------------------------------------------------
(* users.conf.                                                             *)

\* The name on a line, as it is kept.
Kept(line) == Fit(Bare(line), NameSize)

\* The rows after k lines, and after the last.
Loaded(rows, lines, k) ==
  /\ Len(rows) = Cardinality(Entries(lines, k)) /\ Len(rows) <= MaxUsers
  /\ rows \in Seq(Str)
  /\ Range(rows) = {Kept(lines[i]) : i \in Entries(lines, k)}
First(lines) ==
  {i \in DOMAIN lines : IsEntry(lines[i]) /\ Cardinality(Entries(lines, i)) <= MaxUsers}
AllLoaded(rows, lines) ==
  Range(rows) = {Kept(lines[i]) : i \in First(lines)}

\* There are finitely many entries.
LEMMA EntriesFinite ==
  ASSUME NEW lines, NEW k \in Nat
  PROVE  IsFiniteSet(Entries(lines, k)) /\ Cardinality(Entries(lines, k)) \in Nat
<1>1. IsFiniteSet(1 .. k)
  BY FS_Interval
<1>2. Entries(lines, k) \in SUBSET (1 .. k)
  BY DEF Entries
<1>3. IsFiniteSet(Entries(lines, k))
  BY <1>1, <1>2, FS_Subset
<1> QED BY <1>3, FS_CardinalityType

\* Among more lines there are no fewer of them.
LEMMA EntriesGrow ==
  ASSUME NEW lines, NEW k \in Nat, NEW n \in Nat, k <= n
  PROVE  Cardinality(Entries(lines, k)) <= Cardinality(Entries(lines, n))
<1>1. Entries(lines, k) \in SUBSET Entries(lines, n)
  BY DEF Entries
<1>2. IsFiniteSet(Entries(lines, n))
  BY EntriesFinite
<1> QED BY <1>1, <1>2, FS_Subset

\* The next line is one of them or not.
LEMMA EntriesNext ==
  ASSUME NEW lines, NEW k \in Nat
  PROVE  /\ ~IsEntry(lines[k + 1]) => Entries(lines, k + 1) = Entries(lines, k)
         /\ IsEntry(lines[k + 1]) =>
              /\ Entries(lines, k + 1) = Entries(lines, k) \cup {k + 1}
              /\ Cardinality(Entries(lines, k + 1)) = Cardinality(Entries(lines, k)) + 1
<1>1. \A i \in 1 .. k + 1 : i \in 1 .. k \/ i = k + 1
  OBVIOUS
<1>2. 1 .. k \subseteq 1 .. k + 1 /\ k + 1 \in 1 .. k + 1 /\ k + 1 \notin 1 .. k
  OBVIOUS
<1>3. ~IsEntry(lines[k + 1]) => Entries(lines, k + 1) = Entries(lines, k)
  BY <1>1, <1>2 DEF Entries
<1>4. IsEntry(lines[k + 1]) => Entries(lines, k + 1) = Entries(lines, k) \cup {k + 1}
  BY <1>1, <1>2 DEF Entries
<1>5. k + 1 \notin Entries(lines, k)
  BY <1>2 DEF Entries
<1>6. IsFiniteSet(Entries(lines, k))
  BY EntriesFinite
<1>7. Cardinality(Entries(lines, k) \cup {k + 1}) = Cardinality(Entries(lines, k)) + 1
  BY <1>5, <1>6, FS_AddElement
<1> QED BY <1>3, <1>4, <1>7

\* Before any line no user is loaded.
LEMMA LoadedFirst ==
  ASSUME NEW lines
  PROVE  Loaded(<<>>, lines, 0)
<1>1. Entries(lines, 0) = {}
  BY DEF Entries
<1>2. Cardinality({}) = 0
  BY FS_EmptySet
<1>3. <<>> \in Seq(Str) /\ Len(<<>>) = 0 /\ Range(<<>>) = {} /\ 0 <= MaxUsers
  BY EmptySeq, ConfigAssumption DEF Range
<1> QED BY <1>1, <1>2, <1>3 DEF Loaded

\* A line that is no entry loads none.
LEMMA LoadedSkip ==
  ASSUME NEW rows, NEW lines, NEW k \in Nat, Loaded(rows, lines, k), ~IsEntry(lines[k + 1])
  PROVE  Loaded(rows, lines, k + 1)
BY EntriesNext DEF Loaded

\* An entry is loaded while there is room.
LEMMA LoadedNext ==
  ASSUME NEW rows, NEW lines, NEW k \in Nat, Loaded(rows, lines, k), IsEntry(lines[k + 1]),
         lines[k + 1] \in Str, Len(rows) < MaxUsers
  PROVE  Loaded(Append(rows, Kept(lines[k + 1])), lines, k + 1)
<1> DEFINE name == Kept(lines[k + 1])
           more == Append(rows, name)
<1>1. name \in Str
  <2>1. NameSize \in Nat \ {0} /\ Bare(lines[k + 1]) \in Str
    BY ConfigAssumption, BareType
  <2> QED BY <2>1, FitIs DEF Kept
<1> HIDE DEF name
<1>2. rows \in Seq(Str) /\ Len(rows) \in Nat /\ MaxUsers \in Nat /\ DOMAIN rows = 1 .. Len(rows)
  BY LenProperties, ConfigAssumption DEF Loaded
<1>3. /\ more \in Seq(Str) /\ Len(more) = Len(rows) + 1
      /\ \A i \in 1 .. Len(rows) : more[i] = rows[i]
      /\ more[Len(rows) + 1] = name
  BY <1>1, <1>2, AppendProperties
<1>4. DOMAIN more = 1 .. Len(rows) + 1
  BY <1>3, LenProperties
<1> HIDE DEF more
<1>5. Range(more) = Range(rows) \cup {name}
  <2>1. \A i \in 1 .. Len(rows) + 1 : i \in 1 .. Len(rows) \/ i = Len(rows) + 1
    BY <1>2
  <2>2. 1 .. Len(rows) \subseteq 1 .. Len(rows) + 1 /\ Len(rows) + 1 \in 1 .. Len(rows) + 1
    BY <1>2
  <2> QED BY <1>2, <1>3, <1>4, <2>1, <2>2 DEF Range
<1>6. /\ Entries(lines, k + 1) = Entries(lines, k) \cup {k + 1}
      /\ Cardinality(Entries(lines, k + 1)) = Cardinality(Entries(lines, k)) + 1
  BY EntriesNext
<1>7. {Kept(lines[i]) : i \in Entries(lines, k + 1)}
        = {Kept(lines[i]) : i \in Entries(lines, k)} \cup {name}
  BY <1>6 DEF name
<1>8. Len(more) <= MaxUsers
  BY <1>2, <1>3
<1>9. Loaded(more, lines, k + 1)
  <2>1. Len(more) = Cardinality(Entries(lines, k + 1))
    BY <1>3, <1>6 DEF Loaded
  <2>2. Range(more) = {Kept(lines[i]) : i \in Entries(lines, k + 1)}
    BY <1>5, <1>7 DEF Loaded
  <2> QED BY <1>3, <1>8, <2>1, <2>2 DEF Loaded
<1> QED BY <1>9 DEF more, name

\* The names that are kept are the first ones: the file ends, or the table.
LEMMA LoadedAll ==
  ASSUME NEW rows, NEW lines \in Seq(Str), NEW k \in 0 .. Len(lines), Loaded(rows, lines, k),
         \/ \A i \in k + 1 .. Len(lines) : ~IsEntry(lines[i])
         \/ k + 1 \in 1 .. Len(lines) /\ IsEntry(lines[k + 1]) /\ ~(Len(rows) < MaxUsers)
  PROVE  AllLoaded(rows, lines)
<1>1. Len(lines) \in Nat /\ DOMAIN lines = 1 .. Len(lines) /\ k \in Nat /\ MaxUsers \in Nat
  <2>1. Len(lines) \in Nat
    BY LenProperties
  <2> QED BY <2>1, LenProperties, ConfigAssumption
<1>2. \A i \in Nat : Cardinality(Entries(lines, i)) \in Nat
  BY EntriesFinite
<1>3. Len(rows) = Cardinality(Entries(lines, k)) /\ Len(rows) <= MaxUsers
  BY DEF Loaded
<1>4. ASSUME NEW i \in Entries(lines, k) PROVE i \in First(lines)
  <2>1. i \in 1 .. k /\ IsEntry(lines[i]) /\ i \in Nat /\ i \in DOMAIN lines /\ i <= k
    BY <1>1 DEF Entries
  <2>2. Cardinality(Entries(lines, i)) <= Cardinality(Entries(lines, k))
    BY <1>1, <2>1, EntriesGrow
  <2>3. Cardinality(Entries(lines, i)) <= MaxUsers
    BY <1>1, <1>2, <1>3, <2>1, <2>2
  <2> QED BY <2>1, <2>3 DEF First
<1>5. ASSUME NEW i \in First(lines) PROVE i \in Entries(lines, k)
  <2>1. i \in 1 .. Len(lines) /\ IsEntry(lines[i]) /\ Cardinality(Entries(lines, i)) <= MaxUsers
    BY <1>1 DEF First
  <2> SUFFICES ASSUME i \notin 1 .. k PROVE FALSE
    BY <2>1 DEF Entries
  <2>2. i \in k + 1 .. Len(lines) /\ i \in Nat /\ k + 1 \in Nat /\ k + 1 <= i
    BY <1>1, <2>1
  <2>3. CASE k + 1 \in 1 .. Len(lines) /\ IsEntry(lines[k + 1]) /\ ~(Len(rows) < MaxUsers)
    <3>1. Cardinality(Entries(lines, k + 1)) = Cardinality(Entries(lines, k)) + 1
      BY <1>1, <2>3, EntriesNext
    <3>2. Cardinality(Entries(lines, k + 1)) <= Cardinality(Entries(lines, i))
      BY <2>2, EntriesGrow
    <3>3. Cardinality(Entries(lines, k)) \in Nat /\ Cardinality(Entries(lines, i)) \in Nat
      BY <1>1, <1>2, <2>2
    <3> QED BY <1>1, <1>3, <2>1, <2>3, <3>1, <3>2, <3>3
  <2> QED BY <2>1, <2>2, <2>3
<1>6. Entries(lines, k) = First(lines)
  BY <1>4, <1>5
<1> QED BY <1>6 DEF AllLoaded, Loaded

-----------------------------------------------------------------------------
(* Both files.                                                             *)

ConfRead ==
  /\ phase = "conf" => \E k : Unread(conf, k, rest) /\ AsWritten(settings, conf, k)
  /\ phase \in {"users", "ready"} => AsWritten(settings, conf, Len(conf))

NamesRead ==
  /\ phase = "users" => \E k : Unread(names, k, rest) /\ Loaded(users, names, k)
  /\ phase = "ready" => AllLoaded(users, names)

FilesInv ==
  /\ TextLines(conf) /\ TextLines(names)
  /\ phase = "conf" => users = <<>>
  /\ ShortLines(conf) => ConfRead
  /\ ShortLines(names) => NamesRead

\* So it is when the server starts.
LEMMA FilesInit == Init => FilesInv
<1> SUFFICES ASSUME Init PROVE FilesInv
  OBVIOUS
<1>1. PICK pair \in FilePairs : conf = pair.conf /\ names = pair.names
  BY DEF Init
<1>2. TextLines(conf) /\ TextLines(names)
  BY <1>1, FilesAssumption, LinesAreText
<1>3. conf \in Seq(Str)
  BY <1>2 DEF TextLines
<1>4. Unread(conf, 0, rest)
  BY <1>3, UnreadFirst DEF Init
<1>5. AsWritten(settings, conf, 0)
  BY AsWrittenFirst DEF Init
<1>6. phase \in {"conf", "failed"} /\ users = <<>>
  BY DEF Init
<1>7. phase \notin {"users", "ready"}
  BY <1>6
<1> QED BY <1>2, <1>4, <1>5, <1>6, <1>7 DEF FilesInv, ConfRead, NamesRead

\* A line of mycloud.conf is read.
LEMMA ReadSettingStep ==
  ASSUME FilesInv, ReadSetting
  PROVE  FilesInv'
<1>1. /\ phase = "conf" /\ rest # <<>> /\ rest' = Left
      /\ phase' = phase /\ conf' = conf /\ names' = names /\ users' = users
  BY DEF ReadSetting, ReadLine, Left
<1>2. TextLines(conf) /\ TextLines(names) /\ users = <<>>
  BY <1>1 DEF FilesInv
<1>3. ASSUME ShortLines(conf) PROVE \E k : Unread(conf, k, Left) /\ AsWritten(settings', conf, k)
  <2>1. PICK k : Unread(conf, k, rest) /\ AsWritten(settings, conf, k)
    BY <1>1, <1>3 DEF FilesInv, ConfRead
  <2>2. NextLine(conf, k)
    BY <1>1, <1>2, <1>3, <2>1, LineIsNext
  <2>3. CASE Line = <<>> /\ Unread(conf, k, Left)
    <3>1. settings' = settings
      BY <2>3, EmptyLine DEF ReadSetting
    <3> QED BY <2>1, <2>3, <3>1
  <2>4. CASE /\ k < Len(conf) /\ k + 1 \in 1 .. Len(conf) /\ k \in Nat
             /\ Line = Bare(conf[k + 1]) /\ Unread(conf, k + 1, Left)
    <3> DEFINE l == conf[k + 1]
               b == Bare(l)
               read == ~(Skipped(b) \/ "=" \notin Range(b) \/ Key(b) \notin Keys)
    <3>1. Plain(l)
      BY <1>2, <2>4, LineOf
    <3>2. "=" \in Range(l) => ShortKey(l)
      <4>1. DOMAIN conf = 1 .. Len(conf)
        BY <1>2, LenProperties DEF TextLines
      <4> QED BY <1>3, <2>4, <4>1 DEF ShortLines, ShortKey
    <3>3. /\ read => Key(b) \in Keys /\ Sets(l, Key(b)) /\ Value(b) = Written(l)
          /\ \A key \in Keys : Sets(l, key) => read /\ key = Key(b)
      BY <3>1, <3>2, LineSets
    <3>4. settings' = IF read THEN [settings EXCEPT ![Key(b)] = Converted(Key(b), Value(b))]
                      ELSE settings
      BY <2>4 DEF ReadSetting
    <3> HIDE DEF b, read
    <3>5. CASE read
      <4>1. Key(b) \in Keys /\ Sets(conf[k + 1], Key(b)) /\ Value(b) = Written(conf[k + 1])
        BY <3>3, <3>5
      <4>2. AsWritten([settings EXCEPT ![Key(b)] = Converted(Key(b), Written(conf[k + 1]))],
                      conf, k + 1)
        BY <2>1, <2>4, <4>1, AsWrittenNext
      <4>3. settings' = [settings EXCEPT ![Key(b)] = Converted(Key(b), Written(conf[k + 1]))]
        BY <3>4, <3>5, <4>1
      <4> QED BY <2>4, <4>2, <4>3
    <3>6. CASE ~read
      <4>1. \A i \in k + 1 .. k + 1 : \A key \in Keys : ~Sets(conf[i], key)
        BY <2>4, <3>3, <3>6
      <4>2. k + 1 \in Nat /\ k <= k + 1
        BY <2>4
      <4>3. AsWritten(settings, conf, k + 1)
        BY <2>1, <2>4, <4>1, <4>2, AsWrittenSame
      <4> QED BY <2>4, <3>4, <3>6, <4>3
    <3> QED BY <3>5, <3>6
  <2> QED BY <2>2, <2>3, <2>4 DEF NextLine
<1>4. ShortLines(conf)' <=> ShortLines(conf)
  BY <1>1 DEF ShortLines
<1>5. ShortLines(conf) => ConfRead'
  BY <1>1, <1>3 DEF ConfRead
<1>6. NamesRead'
  BY <1>1 DEF NamesRead
<1> QED BY <1>1, <1>2, <1>4, <1>5, <1>6 DEF FilesInv

\* The second file is opened when all of the first is read.
LEMMA OpenUsersStep ==
  ASSUME FilesInv, OpenUsers
  PROVE  FilesInv'
<1>1. /\ phase = "conf" /\ rest = <<>> /\ phase' = "users" /\ rest' \in Files(names)
      /\ conf' = conf /\ names' = names /\ settings' = settings /\ users' = users
  BY DEF OpenUsers
<1>2. TextLines(conf) /\ TextLines(names) /\ users = <<>>
  BY <1>1 DEF FilesInv
<1>3. ASSUME ShortLines(conf) PROVE AsWritten(settings, conf, Len(conf))
  <2>1. PICK k : Unread(conf, k, rest) /\ AsWritten(settings, conf, k)
    BY <1>1, <1>3 DEF FilesInv, ConfRead
  <2>2. conf \in Seq(Str) /\ Len(conf) \in Nat
    BY <1>2, LenProperties DEF TextLines
  <2>3. k \in 0 .. Len(conf) /\ \A i \in k + 1 .. Len(conf) : conf[i] = <<>>
    BY <1>1, <2>1, <2>2, UnreadLast
  <2>4. \A i \in k + 1 .. Len(conf) : \A key \in Keys : ~Sets(conf[i], key)
    BY <2>3, EmptyLine DEF Sets
  <2>5. k \in Nat /\ k <= Len(conf)
    BY <2>2, <2>3
  <2> QED BY <2>1, <2>2, <2>4, <2>5, AsWrittenSame
<1>4. \E k : Unread(names, k, rest') /\ Loaded(<<>>, names, k)
  <2>1. Unread(names, 0, rest')
    BY <1>1, <1>2, UnreadFirst DEF TextLines
  <2> QED BY <2>1, LoadedFirst
<1>5. NamesRead' /\ (ShortLines(conf) => ConfRead')
  BY <1>1, <1>2, <1>3, <1>4 DEF NamesRead, ConfRead
<1>6. ShortLines(conf)' <=> ShortLines(conf)
  BY <1>1 DEF ShortLines
<1> QED BY <1>1, <1>2, <1>5, <1>6 DEF FilesInv

\* It may not open: then nothing is ready.
LEMMA OpenUsersFailsStep ==
  ASSUME FilesInv, OpenUsersFails
  PROVE  FilesInv'
<1>1. phase' = "failed" /\ conf' = conf /\ names' = names
  BY DEF OpenUsersFails
<1>2. ConfRead' /\ NamesRead'
  BY <1>1 DEF ConfRead, NamesRead
<1> QED BY <1>1, <1>2 DEF FilesInv

\* A line of users.conf is read.
LEMMA SkipUserStep ==
  ASSUME FilesInv, SkipUser
  PROVE  FilesInv'
<1>1. /\ phase = "users" /\ rest # <<>> /\ rest' = Left /\ Skipped(Line)
      /\ phase' = phase /\ conf' = conf /\ names' = names
      /\ users' = users /\ settings' = settings
  BY DEF SkipUser, ReadLine, Left
<1>2. TextLines(conf) /\ TextLines(names)
  BY DEF FilesInv
<1>3. ASSUME ShortLines(names) PROVE \E k : Unread(names, k, Left) /\ Loaded(users, names, k)
  <2>1. PICK k : Unread(names, k, rest) /\ Loaded(users, names, k)
    BY <1>1, <1>3 DEF FilesInv, NamesRead
  <2>2. NextLine(names, k)
    BY <1>1, <1>2, <1>3, <2>1, LineIsNext
  <2>3. CASE /\ k < Len(names) /\ k + 1 \in 1 .. Len(names) /\ k \in Nat
             /\ Line = Bare(names[k + 1]) /\ Unread(names, k + 1, Left)
    <3>1. ~IsEntry(names[k + 1])
      BY <1>1, <1>2, <2>3, LineOf, SkippedIs
    <3>2. Loaded(users, names, k + 1)
      BY <2>1, <2>3, <3>1, LoadedSkip
    <3> QED BY <2>3, <3>2
  <2> QED BY <2>1, <2>2, <2>3 DEF NextLine
<1>4. ShortLines(names)' <=> ShortLines(names)
  BY <1>1 DEF ShortLines
<1>5. ShortLines(conf)' <=> ShortLines(conf)
  BY <1>1 DEF ShortLines
<1>6. ShortLines(names) => NamesRead'
  BY <1>1, <1>3 DEF NamesRead
<1>7. ShortLines(conf) => ConfRead'
  BY <1>1 DEF ConfRead, FilesInv
<1> QED BY <1>1, <1>2, <1>4, <1>5, <1>6, <1>7 DEF FilesInv

\* A user is read.
LEMMA ReadUserStep ==
  ASSUME FilesInv, ReadUser
  PROVE  FilesInv'
<1>1. /\ phase = "users" /\ rest # <<>> /\ rest' = Left /\ ~Skipped(Line) /\ Room
      /\ phase' = phase /\ conf' = conf /\ names' = names
      /\ users' = Append(users, Fit(Line, NameSize)) /\ settings' = settings
  BY DEF ReadUser, ReadLine, Left
<1>2. TextLines(conf) /\ TextLines(names)
  BY DEF FilesInv
<1>3. ASSUME ShortLines(names) PROVE \E k : Unread(names, k, Left) /\ Loaded(users', names, k)
  <2>1. PICK k : Unread(names, k, rest) /\ Loaded(users, names, k)
    BY <1>1, <1>3 DEF FilesInv, NamesRead
  <2>2. NextLine(names, k)
    BY <1>1, <1>2, <1>3, <2>1, LineIsNext
  <2>3. Line # <<>>
    BY <1>1, EmptyLine
  <2>4. /\ k < Len(names) /\ k + 1 \in 1 .. Len(names) /\ k \in Nat
        /\ Line = Bare(names[k + 1]) /\ Unread(names, k + 1, Left)
    BY <2>2, <2>3 DEF NextLine
  <2>5. names[k + 1] \in Str
    BY <1>2, <2>4, LineOf
  <2>6. IsEntry(names[k + 1])
    BY <1>1, <2>4, <2>5, SkippedIs
  <2>7. Loaded(Append(users, Kept(names[k + 1])), names, k + 1)
    BY <1>1, <2>1, <2>4, <2>5, <2>6, LoadedNext DEF Room
  <2>8. users' = Append(users, Kept(names[k + 1]))
    BY <1>1, <2>4 DEF Kept
  <2> QED BY <2>4, <2>7, <2>8
<1>4. ShortLines(names)' <=> ShortLines(names)
  BY <1>1 DEF ShortLines
<1>5. ShortLines(conf)' <=> ShortLines(conf)
  BY <1>1 DEF ShortLines
<1>6. ShortLines(names) => NamesRead'
  BY <1>1, <1>3 DEF NamesRead
<1>7. ShortLines(conf) => ConfRead'
  BY <1>1 DEF ConfRead, FilesInv
<1> QED BY <1>1, <1>2, <1>4, <1>5, <1>6, <1>7 DEF FilesInv

\* The users are loaded at the end of the file, or when there is no room.
LEMMA UsersLoadedStep ==
  ASSUME FilesInv, UsersLoaded
  PROVE  FilesInv'
<1>1. /\ phase = "users" /\ phase' = "ready" /\ (rest = <<>> \/ (~Skipped(Line) /\ ~Room))
      /\ conf' = conf /\ names' = names /\ users' = users /\ settings' = settings
  BY DEF UsersLoaded
<1>2. TextLines(conf) /\ TextLines(names)
  BY DEF FilesInv
<1>3. ASSUME ShortLines(names) PROVE AllLoaded(users, names)
  <2>1. PICK k : Unread(names, k, rest) /\ Loaded(users, names, k)
    BY <1>1, <1>3 DEF FilesInv, NamesRead
  <2>2. names \in Seq(Str) /\ k \in 0 .. Len(names)
    BY <1>2, <2>1 DEF TextLines, Unread
  <2>3. CASE rest = <<>>
    <3>1. \A i \in k + 1 .. Len(names) : names[i] = <<>>
      BY <2>1, <2>2, <2>3, UnreadLast
    <3>2. \A i \in k + 1 .. Len(names) : ~IsEntry(names[i])
      BY <3>1, EmptyLine
    <3> QED BY <2>1, <2>2, <3>2, LoadedAll
  <2>4. CASE rest # <<>> /\ ~Skipped(Line) /\ ~Room
    <3>1. NextLine(names, k)
      BY <1>2, <1>3, <2>1, <2>4, LineIsNext
    <3>2. Line # <<>>
      BY <2>4, EmptyLine
    <3>3. k + 1 \in 1 .. Len(names) /\ Line = Bare(names[k + 1])
      BY <3>1, <3>2 DEF NextLine
    <3>4. IsEntry(names[k + 1])
      BY <1>2, <2>4, <3>3, LineOf, SkippedIs
    <3> QED BY <2>1, <2>2, <2>4, <3>3, <3>4, LoadedAll DEF Room
  <2> QED BY <1>1, <2>3, <2>4
<1>4. ShortLines(names)' <=> ShortLines(names)
  BY <1>1 DEF ShortLines
<1>5. ShortLines(conf)' <=> ShortLines(conf)
  BY <1>1 DEF ShortLines
<1>6. ShortLines(names) => NamesRead'
  BY <1>1, <1>3 DEF NamesRead
<1>7. ShortLines(conf) => ConfRead'
  BY <1>1 DEF ConfRead, FilesInv
<1> QED BY <1>1, <1>2, <1>4, <1>5, <1>6, <1>7 DEF FilesInv

\* Every step of the server keeps that.
LEMMA FilesNext ==
  ASSUME FilesInv, [Next]_vars
  PROVE  FilesInv'
<1>1. CASE UNCHANGED vars
  <2>1. /\ conf' = conf /\ names' = names /\ rest' = rest /\ phase' = phase
        /\ settings' = settings /\ users' = users
    BY <1>1 DEF vars
  <2>2. ConfRead' <=> ConfRead
    BY <2>1 DEF ConfRead
  <2>3. NamesRead' <=> NamesRead
    BY <2>1 DEF NamesRead
  <2>4. (ShortLines(conf)' <=> ShortLines(conf)) /\ (ShortLines(names)' <=> ShortLines(names))
    BY <2>1 DEF ShortLines
  <2> QED BY <2>1, <2>2, <2>3, <2>4 DEF FilesInv
<1> QED BY <1>1, ReadSettingStep, OpenUsersStep, OpenUsersFailsStep, SkipUserStep,
           ReadUserStep, UsersLoadedStep DEF Next

\* In the end the settings are what the file says.
LEMMA FilesSettings ==
  ASSUME FilesInv
  PROVE  SettingsAsWritten
<1> SUFFICES ASSUME phase = "ready", ShortLines(conf), NEW key \in Keys
             PROVE  LET lines == {i \in DOMAIN conf : Sets(conf[i], key)}
                    IN  settings[key] = IF lines = {} THEN Default[key]
                                        ELSE Converted(key, Written(conf[Max(lines)]))
  BY DEF SettingsAsWritten, Written
<1>1. AsWritten(settings, conf, Len(conf))
  BY DEF FilesInv, ConfRead
<1>2. DOMAIN conf = 1 .. Len(conf)
  BY LenProperties DEF FilesInv, TextLines
<1> QED BY <1>1, <1>2 DEF AsWritten, Setting

\* An entry has a name.
LEMMA KeptSome ==
  ASSUME NEW l \in Str, IsEntry(l)
  PROVE  Kept(l) # <<>>
<1> DEFINE b == Bare(l)
           n == IF Len(b) < NameSize THEN Len(b) ELSE NameSize - 1
<1>1. TextIn(l, 1, Len(l)) # {}
  BY TextIs
<1>2. b \in Str /\ Len(b) \in Nat \ {0}
  <2> DEFINE a == Min(TextIn(l, 1, Len(l)))
             z == Max(TextIn(l, 1, Len(l)))
  <2>1. a \in 1 .. Len(l) /\ z \in a .. Len(l) /\ b \in Str /\ Len(b) = z - a + 1
    BY <1>1, BareParts
  <2> HIDE DEF a, z, b
  <2>2. Len(b) # 0 /\ Len(b) \in Nat
    BY <2>1, StrIs
  <2> QED BY <2>1, <2>2
<1> HIDE DEF b
<1>3. NameSize \in Nat \ {0, 1} /\ NameSize \in Nat \ {0}
  BY ConfigAssumption
<1>4. Kept(l) \in Str /\ Len(Kept(l)) = n
  BY <1>2, <1>3, FitIs DEF Kept, b
<1>5. n # 0
  <2>1. \A x, y \in Nat : x # 0 /\ y # 0 /\ y # 1 => (IF x < y THEN x ELSE y - 1) # 0
    OBVIOUS
  <2> QED BY <1>2, <1>3, <2>1, Zenon
<1> QED BY <1>4, <1>5, StrIs

\* And the users are those that the file names first.
LEMMA FilesLogIn ==
  ASSUME FilesInv
  PROVE  LogInAsWritten
<1> SUFFICES ASSUME phase = "ready", ShortLines(names)
             PROVE  LET known == {Kept(names[i]) : i \in First(names)}
                    IN  {name \in known \cup WrittenNames : UserExists(name)} = known
  BY DEF LogInAsWritten, Kept, First
<1> DEFINE known == {Kept(names[i]) : i \in First(names)}
<1>1. Range(users) = known
  BY DEF FilesInv, NamesRead, AllLoaded
<1>2. \A i \in First(names) : Kept(names[i]) # <<>>
  <2> TAKE i \in First(names)
  <2>1. i \in 1 .. Len(names) /\ IsEntry(names[i])
    BY LenProperties DEF First, FilesInv, TextLines
  <2>2. names[i] \in Str
    BY <2>1, LineOf DEF FilesInv
  <2> QED BY <2>1, <2>2, KeptSome
<1>3. \A name : UserExists(name) <=> name # <<>> /\ name \in known
  BY <1>1 DEF UserExists, Range
<1>4. <<>> \notin known
  BY <1>2
<1> HIDE DEF known
<1>5. {name \in known \cup WrittenNames : UserExists(name)} = known
  BY <1>3, <1>4
<1> QED BY <1>5 DEF known

-----------------------------------------------------------------------------
(* What a typed line says, and how it is split.                            *)

\* A line's words stand in a .. z; the first ends at e, the next starts at p.
WordsAt(l, a, z, e, p) ==
  /\ a \in 1 .. Len(l) /\ z \in a .. Len(l) /\ e \in a .. z /\ p \in e + 1 .. z + 1
  /\ \A i \in 1 .. a - 1 : l[i] \in Blank
  /\ \A i \in z + 1 .. Len(l) : l[i] \in Blank
  /\ \A i \in a .. e : l[i] \notin Blank
  /\ \A i \in e + 1 .. p - 1 : l[i] \in Blank
  /\ l[z] \notin Blank
  /\ IF e = z THEN p = z + 1 ELSE p # e + 1 /\ p <= z /\ l[p] \notin Blank

ReadAt(l, a, e, p, z) == [cmd |-> SubSeq(l, a, e), arg |-> SubSeq(l, p, z)]

\* Every line with words has such places.
LEMMA WordsExist ==
  ASSUME NEW l \in Str, Text(l) # {}
  PROVE  \E a, z, e, p : WordsAt(l, a, z, e, p)
<1> DEFINE T == Text(l)
           a == Min(T)
           z == Max(T)
           gap == {i \in a .. z : l[i] \in Blank}
<1>1. Len(l) \in Nat
  BY StrIs
<1>2. T = TextIn(l, 1, Len(l))
  BY TextIs DEF Text
<1>3. /\ a \in 1 .. Len(l) /\ z \in a .. Len(l) /\ l[a] \notin Blank /\ l[z] \notin Blank
      /\ T \subseteq a .. z
  BY <1>2, BareParts
<1>4. \A i \in 1 .. Len(l) : l[i] \notin Blank => i \in a .. z
  BY <1>2, <1>3 DEF TextIn
<1> HIDE DEF a, z, T
<1>5. (\A i \in 1 .. a - 1 : l[i] \in Blank) /\ (\A i \in z + 1 .. Len(l) : l[i] \in Blank)
  BY <1>1, <1>3, <1>4
<1>6. CASE gap = {}
  <2>1. WordsAt(l, a, z, z, z + 1)
    BY <1>1, <1>3, <1>5, <1>6 DEF WordsAt
  <2> QED BY <2>1
<1>7. CASE gap # {}
  <2> DEFINE g == Min(gap)
             U == {i \in g .. z : l[i] \notin Blank}
             p == Min(U)
  <2>1. gap \in SUBSET Nat
    BY <1>1, <1>3
  <2>2. g \in gap /\ \A i \in gap : g <= i
    BY <1>7, <2>1, MinIs
  <2>3. g \in a .. z /\ l[g] \in Blank
    BY <2>2
  <2>4. \A i \in a .. g - 1 : l[i] \notin Blank
    <3> SUFFICES ASSUME NEW i \in a .. g - 1, l[i] \in Blank PROVE FALSE
      OBVIOUS
    <3>1. i \in gap /\ i \in Nat /\ g \in Nat
      BY <1>1, <1>3, <2>3
    <3> QED BY <2>2, <3>1
  <2> HIDE DEF g
  <2>5. U \in SUBSET Nat /\ z \in U
    BY <1>1, <1>3, <2>3
  <2>6. p \in U /\ \A i \in U : p <= i
    <3> HIDE DEF U
    <3> QED BY <2>5, MinIs
  <2>7. p \in g .. z /\ l[p] \notin Blank
    BY <2>6
  <2>8. \A i \in g .. p - 1 : l[i] \in Blank
    <3> SUFFICES ASSUME NEW i \in g .. p - 1, l[i] \notin Blank PROVE FALSE
      OBVIOUS
    <3>1. i \in U /\ i \in Nat /\ p \in Nat
      BY <1>1, <1>3, <2>3, <2>7
    <3> QED BY <2>6, <3>1
  <2> HIDE DEF p, gap
  <2>9. p # g /\ g # a /\ g # z
    BY <1>3, <2>3, <2>7
  <2> DEFINE e == g - 1
  <2>10. e \in a .. z /\ p \in e + 1 .. z + 1 /\ p # e + 1 /\ p <= z /\ e # z /\ e + 1 = g
    BY <1>1, <1>3, <2>3, <2>7, <2>9
  <2>11. (\A i \in a .. e : l[i] \notin Blank) /\ (\A i \in e + 1 .. p - 1 : l[i] \in Blank)
    BY <2>4, <2>8, <2>10
  <2> HIDE DEF e
  <2>12. WordsAt(l, a, z, e, p)
    BY <1>3, <1>5, <2>7, <2>10, <2>11 DEF WordsAt
  <2> QED BY <2>12
<1> QED BY <1>6, <1>7

\* What it says is what stands between them.
LEMMA WordsRead ==
  ASSUME NEW l \in Str, NEW a, NEW z, NEW e, NEW p, WordsAt(l, a, z, e, p)
  PROVE  /\ Text(l) # {} /\ Bare(l) = SubSeq(l, a, z)
         /\ Reading(l) = ReadAt(l, a, e, p, z)
<1> DEFINE T == Text(l)
           gap == {i \in a .. z : l[i] \in Blank}
           U == {i \in T : i > e}
<1>1. Len(l) \in Nat /\ DOMAIN l = 1 .. Len(l)
  BY StrIs
<1>2. /\ a \in 1 .. Len(l) /\ z \in a .. Len(l) /\ e \in a .. z /\ p \in e + 1 .. z + 1
      /\ l[a] \notin Blank /\ l[z] \notin Blank
      /\ \A i \in a .. e : l[i] \notin Blank
      /\ \A i \in e + 1 .. p - 1 : l[i] \in Blank
      /\ IF e = z THEN p = z + 1 ELSE p # e + 1 /\ p <= z /\ l[p] \notin Blank
  BY DEF WordsAt
<1>3. \A i \in T : i \in a .. z /\ i \in 1 .. Len(l) /\ l[i] \notin Blank
  <2> TAKE i \in T
  <2>1. i \in 1 .. Len(l) /\ l[i] \notin Blank
    BY <1>1 DEF Text
  <2>2. i \notin 1 .. a - 1 /\ i \notin z + 1 .. Len(l)
    BY <2>1 DEF WordsAt
  <2> QED BY <1>1, <1>2, <2>1, <2>2
<1>4. a \in T /\ z \in T /\ T \in SUBSET Nat /\ T \in SUBSET (0 .. Len(l))
      /\ \A i \in T : a <= i /\ i <= z
  <2>1. a \in T /\ z \in T
    BY <1>1, <1>2 DEF Text
  <2>2. \A i \in T : i \in Nat /\ i \in 0 .. Len(l) /\ a <= i /\ i <= z
    <3> HIDE DEF T
    <3> TAKE i \in T
    <3>1. i \in a .. z /\ i \in 1 .. Len(l)
      BY <1>3
    <3> QED BY <1>1, <1>2, <3>1
  <2> HIDE DEF T
  <2>3. T \in SUBSET Nat /\ T \in SUBSET (0 .. Len(l))
    BY <2>2
  <2> QED BY <2>1, <2>2, <2>3
<1> HIDE DEF T
<1>5. Min(T) = a /\ Max(T) = z
  BY <1>1, <1>4, MinUnique, MaxUnique
<1>6. T # {} /\ Bare(l) = SubSeq(l, a, z)
  BY <1>4, <1>5 DEF Bare, T, Text
<1>7. CASE e = z
  <2>1. gap = {} /\ p = z + 1
    BY <1>2, <1>7
  <2>2. SubSeq(l, p, z) = <<>>
    BY <1>1, <1>2, <2>1, SubSeqEmpty
  <2>3. Reading(l) = [cmd |-> SubSeq(l, a, z), arg |-> <<>>]
    BY <1>5, <2>1 DEF Reading, T
  <2> QED BY <1>6, <1>7, <2>2, <2>3 DEF ReadAt, T
<1>8. CASE e # z
  <2>1. p # e + 1 /\ p <= z /\ l[p] \notin Blank /\ e + 1 \in e + 1 .. p - 1
    BY <1>1, <1>2, <1>8
  <2>2. e + 1 \in gap /\ \A i \in gap : e + 1 <= i
    <3>1. e + 1 \in gap
      BY <1>1, <1>2, <1>8, <2>1
    <3>2. \A i \in gap : i \notin a .. e
      BY <1>2
    <3> QED BY <1>1, <1>2, <3>1, <3>2
  <2>3. gap \in SUBSET Nat
    BY <1>1, <1>2
  <2>4. Min(gap) = e + 1 /\ gap # {}
    <3> HIDE DEF gap
    <3> QED BY <2>2, <2>3, MinUnique
  <2>5. p \in U /\ U \in SUBSET Nat /\ \A i \in U : p <= i
    <3>1. p \in T /\ p > e
      <4>1. p \in 1 .. Len(l)
        BY <1>1, <1>2, <2>1
      <4> QED BY <1>1, <1>2, <2>1, <4>1 DEF T, Text
    <3>2. ASSUME NEW i \in U PROVE p <= i
      <4>1. i \in a .. z /\ l[i] \notin Blank /\ i > e
        BY <1>3 DEF T
      <4>2. i \notin e + 1 .. p - 1
        BY <1>2, <4>1
      <4> QED BY <1>1, <1>2, <4>1, <4>2
    <3> QED BY <1>4, <3>1, <3>2
  <2>6. Min(U) = p
    <3> HIDE DEF U
    <3> QED BY <2>5, MinUnique
  <2>7. (e + 1) - 1 = e
    BY <1>1, <1>2
  <2>8. Reading(l) = [cmd |-> SubSeq(l, a, e), arg |-> SubSeq(l, p, z)]
    <3>1. Reading(l) = [cmd |-> SubSeq(l, a, (e + 1) - 1),
                        arg |-> SubSeq(l, Min({i \in T : i > (e + 1) - 1}), z)]
      BY <1>5, <2>4 DEF Reading, T
    <3> QED BY <2>6, <2>7, <3>1
  <2> QED BY <1>6, <2>8 DEF ReadAt, T
<1> QED BY <1>7, <1>8

\* The words of the words are the words.
LEMMA WordsOfBare ==
  ASSUME NEW l, Plain(l), NEW a, NEW z, NEW e, NEW p, WordsAt(l, a, z, e, p)
  PROVE  LET b == Bare(l)
         IN  /\ Plain(b) /\ Len(b) = z - a + 1
             /\ WordsAt(b, 1, Len(b), e - a + 1, p - a + 1)
             /\ ReadAt(b, 1, e - a + 1, p - a + 1, Len(b)) = ReadAt(l, a, e, p, z)
<1> DEFINE b == Bare(l)
<1>0. l \in Str /\ \A i \in 1 .. Len(l) : l[i] \notin NewLine
  BY DEF Plain
<1>1. Len(l) \in Nat
  BY <1>0, StrIs
<1>2. /\ a \in 1 .. Len(l) /\ z \in a .. Len(l) /\ e \in a .. z /\ p \in e + 1 .. z + 1
      /\ l[z] \notin Blank
      /\ \A i \in a .. e : l[i] \notin Blank
      /\ \A i \in e + 1 .. p - 1 : l[i] \in Blank
      /\ IF e = z THEN p = z + 1 ELSE p # e + 1 /\ p <= z /\ l[p] \notin Blank
  BY DEF WordsAt
<1>3. b = SubSeq(l, a, z)
  BY <1>0, WordsRead
<1> HIDE DEF b
<1>4. a \in 1 .. Len(l) + 1 /\ z \in a - 1 .. Len(l)
  BY <1>1, <1>2
<1>5. b \in Str /\ Len(b) = z - a + 1 /\ \A i \in 1 .. z - a + 1 : b[i] = l[a + i - 1]
  BY <1>0, <1>3, <1>4, PartIs
<1>6. \A i \in a .. z : i - a + 1 \in 1 .. z - a + 1 /\ a + (i - a + 1) - 1 = i
  BY <1>1, <1>2
<1>7. \A i \in 1 .. z - a + 1 : a + i - 1 \in a .. z /\ a + i - 1 \in 1 .. Len(l)
  BY <1>1, <1>2
<1>8. Plain(b)
  BY <1>0, <1>5, <1>7 DEF Plain
<1>9. WordsAt(b, 1, Len(b), e - a + 1, p - a + 1)
  <2> DEFINE n == z - a + 1
             d == e - a + 1
             q == p - a + 1
  <2>1. 1 \in 1 .. n /\ n \in 1 .. n /\ d \in 1 .. n /\ q \in d + 1 .. n + 1
        /\ 1 .. 1 - 1 = {} /\ n + 1 .. n = {}
    BY <1>1, <1>2
  <2>2. \A i \in 1 .. d : a + i - 1 \in a .. e /\ i \in 1 .. n
    BY <1>1, <1>2
  <2>3. \A i \in d + 1 .. q - 1 : a + i - 1 \in e + 1 .. p - 1 /\ i \in 1 .. n
    BY <1>1, <1>2
  <2>4. \A i \in 1 .. d : b[i] \notin Blank
    BY <1>2, <1>5, <2>2
  <2>5. \A i \in d + 1 .. q - 1 : b[i] \in Blank
    BY <1>2, <1>5, <2>3
  <2>6. b[n] \notin Blank
    <3>1. a + n - 1 = z
      BY <1>1, <1>2
    <3> QED BY <1>2, <1>5, <2>1, <3>1
  <2>7. IF d = n THEN q = n + 1 ELSE q # d + 1 /\ q <= n /\ b[q] \notin Blank
    <3>1. CASE e = z
      BY <1>1, <1>2, <3>1
    <3>2. CASE e # z
      <4>1. d # n /\ q # d + 1 /\ q <= n /\ q \in 1 .. n /\ a + q - 1 = p
        BY <1>1, <1>2, <3>2
      <4>2. b[q] = l[p]
        BY <1>5, <4>1
      <4> QED BY <1>2, <3>2, <4>1, <4>2
    <3> QED BY <3>1, <3>2
  <2> HIDE DEF d, q, n
  <2>8. Len(b) = n
    BY <1>5 DEF n
  <2>9. WordsAt(b, 1, n, d, q)
    BY <2>1, <2>4, <2>5, <2>6, <2>7, <2>8 DEF WordsAt
  <2> QED BY <2>8, <2>9 DEF d, q
<1>10. SubSeq(b, 1, e - a + 1) = SubSeq(l, a, e)
  <2>1. 1 \in 1 .. z - a + 2 /\ e - a + 1 \in 1 - 1 .. z - a + 1
        /\ a + 1 - 1 = a /\ a + (e - a + 1) - 1 = e
    BY <1>1, <1>2
  <2>2. SubSeq(SubSeq(l, a, z), 1, e - a + 1) = SubSeq(l, a + 1 - 1, a + (e - a + 1) - 1)
    BY <1>0, <1>4, <2>1, PartOfPart
  <2> QED BY <1>3, <2>1, <2>2
<1>11. SubSeq(b, p - a + 1, Len(b)) = SubSeq(l, p, z)
  <2>1. p - a + 1 \in 1 .. z - a + 2 /\ z - a + 1 \in (p - a + 1) - 1 .. z - a + 1
        /\ a + (p - a + 1) - 1 = p /\ a + (z - a + 1) - 1 = z
    BY <1>1, <1>2
  <2>2. SubSeq(SubSeq(l, a, z), p - a + 1, z - a + 1)
          = SubSeq(l, a + (p - a + 1) - 1, a + (z - a + 1) - 1)
    BY <1>0, <1>4, <2>1, PartOfPart
  <2> QED BY <1>3, <1>5, <2>1, <2>2
<1> QED BY <1>5, <1>8, <1>9, <1>10, <1>11 DEF ReadAt, b

\* Nothing is taken off a string that has no blanks at its ends.
LEMMA BareSame ==
  ASSUME NEW s \in Str, s # <<>> => s[1] \notin Blank /\ s[Len(s)] \notin Blank
  PROVE  TrimSpace(s) = s
<1>1. CASE s = <<>>
  BY <1>1, EmptyLine
<1>2. CASE s # <<>>
  <2> DEFINE T == TextIn(s, 1, Len(s))
  <2>1. Len(s) \in Nat /\ Len(s) # 0
    BY <1>2, StrIs
  <2>2. 1 \in T /\ Len(s) \in T /\ T \in SUBSET Nat /\ T \in SUBSET (0 .. Len(s))
        /\ \A i \in T : 1 <= i /\ i <= Len(s)
    BY <1>2, <2>1 DEF TextIn
  <2> HIDE DEF T
  <2>3. Min(T) = 1 /\ Max(T) = Len(s) /\ T # {}
    BY <2>1, <2>2, MinUnique, MaxUnique
  <2>4. Words(s, 1, Len(s)) = SubSeq(s, 1, Len(s))
    BY <2>3 DEF Words, T
  <2> QED BY <2>4, TrimSpaceIs, PartFull
<1> QED BY <1>1, <1>2

-----------------------------------------------------------------------------
\* split_command, given what each of its steps comes to.
LEMMA SplitBy ==
  ASSUME NEW b, NEW cmd, NEW text, NEW arg,
         Drop(b, Len(Span(b, Space, Len(b)))) = b,
         Span(b, Range(b) \ Space, CmdSize - 1) = cmd,
         Drop(Drop(b, Len(cmd)), Len(Span(Drop(b, Len(cmd)), Space, Len(Drop(b, Len(cmd)))))) = text,
         Span(text, Range(text) \ {"\n"}, ArgSize - 1) = arg
  PROVE  SplitCommand(b, CmdSize, ArgSize) =
           [cmd |-> TrimSpace(cmd), arg |-> TrimSpace(arg),
            count |-> IF b = <<>> THEN -1 ELSE IF arg = <<>> THEN 1 ELSE 2]
BY Zenon DEF SplitCommand

\* What is assumed of the sizes.
LEMMA SizesAre ==
  /\ CmdSize \in Nat /\ ArgSize \in Nat /\ 6 < CmdSize /\ 1 < ArgSize
  /\ NameSize \in Nat /\ 1 < NameSize /\ LineSize \in Nat /\ 1 < LineSize
  /\ NameSize <= ArgSize /\ NameSize + 6 <= LineSize
  /\ CmdSize - 1 \in Nat /\ ArgSize - 1 \in Nat
<1>1. {CmdSize, ArgSize} \subseteq Nat \ {0, 1} /\ {NameSize, LineSize} \subseteq Nat \ {0, 1}
  BY CommandLineAssumption, ConfigAssumption
<1>2. NameSize <= ArgSize /\ NameSize + 6 <= LineSize /\ 6 < CmdSize
  BY CommandLineAssumption
<1> QED BY <1>1, <1>2

\* In a line what is no blank is no space.
LEMMA NoSpace ==
  ASSUME NEW b, Plain(b), NEW i \in 1 .. Len(b), b[i] \notin Blank
  PROVE  b[i] \notin Space /\ b[i] # "\n"
BY DEF Plain, Space, NewLine

\* Where the words stand, as numbers.
LEMMA WordsPlace ==
  ASSUME NEW l \in Str, NEW e, NEW p, WordsAt(l, 1, Len(l), e, p)
  PROVE  /\ e \in Nat /\ p \in Nat /\ Len(l) \in Nat
         /\ 1 <= e /\ e <= Len(l) /\ e + 1 <= p /\ p <= Len(l) + 1
         /\ e = Len(l) => p = Len(l) + 1
         /\ e # Len(l) => e + 1 < p /\ p <= Len(l)
<1>1. Len(l) \in Nat
  BY StrIs
<1>2. /\ e \in 1 .. Len(l) /\ p \in e + 1 .. Len(l) + 1
      /\ IF e = Len(l) THEN p = Len(l) + 1 ELSE p # e + 1 /\ p <= Len(l)
  BY DEF WordsAt
<1>3. e \in Int /\ p \in Int
  BY <1>1, <1>2
<1> QED BY <1>1, <1>2, <1>3

\* The first word of a line in a buffer of its own, and what is cut of it.
LEMMA FirstWord ==
  ASSUME NEW b, Plain(b), NEW e, NEW p, WordsAt(b, 1, Len(b), e, p)
  PROVE  /\ b # <<>> /\ Drop(b, Len(Span(b, Space, Len(b)))) = b
         /\ Span(b, Range(b) \ Space, CmdSize - 1)
              = SubSeq(b, 1, IF e < CmdSize THEN e ELSE CmdSize - 1)
<1>1. b \in Str /\ Len(b) \in Nat /\ DOMAIN b = 1 .. Len(b)
  BY StrIs DEF Plain
<1>0. e \in Nat /\ 1 <= e /\ e <= Len(b)
  BY <1>1, WordsPlace
<1>2. /\ e \in Nat /\ 1 <= e /\ e <= Len(b)
      /\ \A i \in 1 .. e : b[i] \notin Blank
      /\ e < Len(b) => b[e + 1] \in Blank
  <2>1. /\ \A i \in 1 .. e : b[i] \notin Blank
        /\ \A i \in e + 1 .. p - 1 : b[i] \in Blank
    BY DEF WordsAt
  <2>2. /\ e \in Nat /\ p \in Nat /\ 1 <= e /\ e <= Len(b)
        /\ e < Len(b) => e + 1 < p
    BY <1>1, WordsPlace
  <2>3. e < Len(b) => e + 1 \in e + 1 .. p - 1
    BY <2>2
  <2> QED BY <2>1, <2>2, <2>3
<1>3. b # <<>>
  <2>1. Len(b) # 0
    BY <1>0, <1>1
  <2> QED BY <1>1, <2>1, StrIs
<1>4. IsSpan(b, Space, Len(b), 0)
  <2>1. 1 \in 1 .. e /\ 1 \in 1 .. Len(b)
    BY <1>0, <1>1
  <2>2. b[1] \notin Space
    BY <1>2, <2>1, NoSpace
  <2>3. 0 \in 0 .. Len(b) /\ 0 <= Len(b) /\ 0 + 1 = 1 /\ 1 .. 0 = {}
    BY <1>1
  <2> QED BY <2>2, <2>3 DEF IsSpan
<1>5. Drop(b, Len(Span(b, Space, Len(b)))) = b
  <2>1. Span(b, Space, Len(b)) = SubSeq(b, 1, 0)
    BY <1>1, <1>4, SpanIs
  <2>2. SubSeq(b, 1, 0) = <<>>
    <3>1. 1 - 1 = 0 /\ 1 \in Int
      OBVIOUS
    <3>2. SubSeq(b, 1, 1 - 1) = <<>>
      BY <3>1, NoPart
    <3> QED BY <3>1, <3>2
  <2>3. Drop(b, 0) = SubSeq(b, 1, Len(b))
    <3>1. 0 + 1 = 1
      OBVIOUS
    <3> QED BY <3>1 DEF Drop
  <2> QED BY <1>1, <2>1, <2>2, <2>3, NewLineIs, PartFull
<1> DEFINE n == IF e < CmdSize THEN e ELSE CmdSize - 1
<1>6. n \in 1 .. e /\ n \in 0 .. Len(b) /\ n <= CmdSize - 1 /\ (n < CmdSize - 1 => n = e)
  <2>1. CmdSize \in Nat /\ 6 < CmdSize
    BY SizesAre
  <2> QED BY <1>0, <1>1, <2>1
<1> HIDE DEF n
<1>7. IsSpan(b, Range(b) \ Space, CmdSize - 1, n)
  <2>1. ASSUME NEW i \in 1 .. n PROVE b[i] \in Range(b) \ Space
    <3>1. i \in 1 .. e /\ i \in 1 .. Len(b) /\ i \in DOMAIN b
      BY <1>0, <1>1, <1>6
    <3>2. b[i] \notin Space
      BY <1>2, <3>1, NoSpace
    <3>3. b[i] \in Range(b)
      BY <3>1 DEF Range
    <3> QED BY <3>2, <3>3
  <2>2. n < Len(b) /\ n < CmdSize - 1 => b[n + 1] \in Space
    <3>1. n < CmdSize - 1 => n = e
      BY <1>6
    <3>2. e < Len(b) => b[e + 1] \in Space
      BY <1>2 DEF Space
    <3> QED BY <3>1, <3>2
  <2>3. n < Len(b) /\ n < CmdSize - 1 => b[n + 1] \notin Range(b) \ Space
    BY <2>2
  <2> QED BY <1>6, <2>1, <2>3 DEF IsSpan
<1>8. Span(b, Range(b) \ Space, CmdSize - 1) = SubSeq(b, 1, n)
  BY <1>1, <1>7, SizesAre, SpanIs
<1> QED BY <1>3, <1>5, <1>8 DEF n

\* What follows the first word: the blanks are skipped, the rest fits.
LEMMA OtherWords ==
  ASSUME NEW b, Plain(b), NEW e, NEW p, WordsAt(b, 1, Len(b), e, p),
         Len(b) - p + 1 < ArgSize
  PROVE  LET tail == Drop(b, e)
             text == SubSeq(b, p, Len(b))
         IN  /\ Drop(tail, Len(Span(tail, Space, Len(tail)))) = text
             /\ Span(text, Range(text) \ {"\n"}, ArgSize - 1) = text
             /\ TrimSpace(text) = text
<1> DEFINE tail == Drop(b, e)
           text == SubSeq(b, p, Len(b))
           N == Len(b)
           n == p - e - 1
<1>1. b \in Str /\ N \in Nat
  BY StrIs DEF Plain
<1>2. /\ e \in 1 .. N /\ p \in e + 1 .. N + 1
      /\ \A i \in e + 1 .. p - 1 : b[i] \in Blank
      /\ b[N] \notin Blank
      /\ p <= N => b[p] \notin Blank
  <2>1. /\ e \in 1 .. N /\ p \in e + 1 .. N + 1
        /\ \A i \in e + 1 .. p - 1 : b[i] \in Blank
        /\ b[N] \notin Blank
        /\ IF e = N THEN p = N + 1 ELSE b[p] \notin Blank
    BY DEF WordsAt
  <2> QED BY <1>1, <2>1
<1>3. /\ tail \in Str /\ Len(tail) = N - e /\ tail = SubSeq(b, e + 1, N)
      /\ \A i \in 1 .. N - e : tail[i] = b[e + i]
  <2>1. e \in 0 .. N
    BY <1>1, <1>2
  <2> QED BY <1>1, <2>1, DropIs DEF Drop
<1>4. /\ text \in Str /\ Len(text) = N - p + 1
      /\ \A i \in 1 .. N - p + 1 : text[i] = b[p + i - 1]
  <2>1. p \in 1 .. N + 1 /\ N \in p - 1 .. N
    BY <1>1, <1>2
  <2> QED BY <1>1, <2>1, PartIs
<1> HIDE DEF tail, text
<1>5. IsSpan(tail, Space, Len(tail), n)
  <2>1. n \in 0 .. N - e /\ n <= N - e
    BY <1>1, <1>2
  <2>2. ASSUME NEW i \in 1 .. n PROVE tail[i] \in Space
    <3>1. i \in 1 .. N - e /\ e + i \in e + 1 .. p - 1
      BY <1>1, <1>2
    <3>2. tail[i] \in Blank
      BY <1>2, <1>3, <3>1
    <3> QED BY <3>2 DEF Space
  <2>3. ASSUME n < N - e PROVE tail[n + 1] \notin Space
    <3>1. n + 1 \in 1 .. N - e /\ e + (n + 1) = p /\ p <= N /\ p \in 1 .. N
      BY <1>1, <1>2, <2>3
    <3>2. tail[n + 1] = b[p]
      BY <1>3, <3>1
    <3> QED BY <1>2, <3>1, <3>2, NoSpace
  <2> HIDE DEF n
  <2> QED BY <1>3, <2>1, <2>2, <2>3 DEF IsSpan
<1>6. Drop(tail, Len(Span(tail, Space, Len(tail)))) = text
  <2>1. Len(tail) \in Nat
    BY <1>3, StrIs
  <2>2. Span(tail, Space, Len(tail)) = SubSeq(tail, 1, n)
    BY <1>3, <1>5, <2>1, SpanIs
  <2>3. Len(SubSeq(tail, 1, n)) = n
    <3>1. 1 \in 1 .. Len(tail) + 1 /\ n \in 1 - 1 .. Len(tail) /\ n - 1 + 1 = n
      BY <1>1, <1>2, <1>3
    <3> HIDE DEF n
    <3> QED BY <1>3, <3>1, PartIs
  <2>4. SubSeq(SubSeq(b, e + 1, N), n + 1, N - e) = SubSeq(b, p, N)
    <3>1. e + 1 \in 1 .. N + 1 /\ N \in (e + 1) - 1 .. N
          /\ n + 1 \in 1 .. N - (e + 1) + 2 /\ N - e \in (n + 1) - 1 .. N - (e + 1) + 1
          /\ (e + 1) + (n + 1) - 1 = p /\ (e + 1) + (N - e) - 1 = N
      BY <1>1, <1>2
    <3> HIDE DEF n
    <3>2. SubSeq(SubSeq(b, e + 1, N), n + 1, N - e)
            = SubSeq(b, (e + 1) + (n + 1) - 1, (e + 1) + (N - e) - 1)
      BY <1>1, <3>1, PartOfPart
    <3> QED BY <3>1, <3>2
  <2> HIDE DEF n
  <2> QED BY <1>3, <2>2, <2>3, <2>4 DEF Drop, text
<1>7. ASSUME NEW i \in 1 .. N - p + 1
      PROVE  text[i] = b[p + i - 1] /\ p + i - 1 \in 1 .. N
  BY <1>1, <1>2, <1>4
<1>8. Span(text, Range(text) \ {"\n"}, ArgSize - 1) = text
  <2> DEFINE m == N - p + 1
  <2>0. m \in Nat /\ m = Len(text) /\ m <= ArgSize - 1
    BY <1>1, <1>2, <1>4, SizesAre
  <2>1. IsSpan(text, Range(text) \ {"\n"}, ArgSize - 1, m)
    <3>1. ASSUME NEW i \in 1 .. m PROVE text[i] \in Range(text) \ {"\n"}
      <4>1. text[i] \in Range(text)
        BY <1>4, <2>0, StrIs DEF Range
      <4>2. text[i] \notin NewLine
        BY <1>7 DEF Plain
      <4> QED BY <4>1, <4>2, NewLineIs
    <3> HIDE DEF m
    <3> QED BY <2>0, <3>1 DEF IsSpan
  <2> HIDE DEF m
  <2>2. Span(text, Range(text) \ {"\n"}, ArgSize - 1) = SubSeq(text, 1, m)
    BY <1>4, <2>1, SizesAre, SpanIs
  <2> QED BY <1>4, <2>0, <2>2, PartFull
<1>9. TrimSpace(text) = text
  <2>1. ASSUME text # <<>> PROVE text[1] \notin Blank /\ text[Len(text)] \notin Blank
    <3>1. Len(text) # 0
      BY <1>4, <2>1, StrIs
    <3>2. p <= N /\ 1 \in 1 .. N - p + 1 /\ N - p + 1 \in 1 .. N - p + 1
          /\ p + 1 - 1 = p /\ p + (N - p + 1) - 1 = N
      BY <1>1, <1>2, <1>4, <3>1
    <3>3. text[1] = b[p] /\ text[N - p + 1] = b[N]
      BY <1>4, <3>2
    <3> QED BY <1>2, <1>4, <3>2, <3>3
  <2> QED BY <1>4, <2>1, BareSame
<1> QED BY <1>6, <1>8, <1>9 DEF tail, text

\* How a line of words is split.
LEMMA SplitIs ==
  ASSUME NEW b, Plain(b), NEW e, NEW p, WordsAt(b, 1, Len(b), e, p),
         Len(b) - p + 1 < ArgSize
  PROVE  LET split == SplitCommand(b, CmdSize, ArgSize)
         IN  /\ split.count > 0
             /\ e < CmdSize => /\ split.cmd = SubSeq(b, 1, e)
                               /\ split.arg = SubSeq(b, p, Len(b))
             /\ ~(e < CmdSize) => Len(split.cmd) = CmdSize - 1
<1> DEFINE n == IF e < CmdSize THEN e ELSE CmdSize - 1
           cmd == SubSeq(b, 1, n)
           text == Drop(Drop(b, Len(cmd)), Len(Span(Drop(b, Len(cmd)), Space, Len(Drop(b, Len(cmd))))))
           arg == Span(text, Range(text) \ {"\n"}, ArgSize - 1)
           split == SplitCommand(b, CmdSize, ArgSize)
<1>1. b \in Str /\ Len(b) \in Nat
  BY StrIs DEF Plain
<1>2. e \in 1 .. Len(b) /\ \A i \in 1 .. e : b[i] \notin Blank
  BY DEF WordsAt
<1>3. n \in 1 .. e /\ n \in 1 .. Len(b) /\ 1 \in 1 .. e
  BY <1>1, <1>2, SizesAre
<1>4. b # <<>> /\ Drop(b, Len(Span(b, Space, Len(b)))) = b
      /\ Span(b, Range(b) \ Space, CmdSize - 1) = cmd
  BY FirstWord
<1> HIDE DEF n
<1>5. cmd \in Str /\ Len(cmd) = n /\ \A i \in 1 .. n : cmd[i] = b[i]
  <2>1. 1 \in 1 .. Len(b) + 1 /\ n \in 1 - 1 .. Len(b) /\ n - 1 + 1 = n
        /\ \A i \in 1 .. n : 1 + i - 1 = i
    BY <1>1, <1>3
  <2> QED BY <1>1, <2>1, PartIs
<1>6. TrimSpace(cmd) = cmd
  <2>1. 1 \in 1 .. n /\ n \in 1 .. n
    BY <1>1, <1>2, <1>3
  <2>2. cmd[1] \notin Blank /\ cmd[Len(cmd)] \notin Blank
    BY <1>2, <1>3, <1>5, <2>1
  <2> QED BY <1>5, <2>2, BareSame
<1> HIDE DEF cmd
<1>7. split = [cmd |-> TrimSpace(cmd), arg |-> TrimSpace(arg),
               count |-> IF b = <<>> THEN -1 ELSE IF arg = <<>> THEN 1 ELSE 2]
  <2>1. text = text /\ arg = arg
    OBVIOUS
  <2> QED BY <1>4, SplitBy
<1>8. split.count > 0 /\ split.cmd = cmd /\ split.arg = TrimSpace(arg)
  <2> HIDE DEF split, arg
  <2>1. split.count = IF arg = <<>> THEN 1 ELSE 2
    BY <1>4, <1>7
  <2> QED BY <1>6, <1>7, <2>1
<1>9. CASE e < CmdSize
  <2>1. n = e
    BY <1>9 DEF n
  <2>2. text = SubSeq(b, p, Len(b)) /\ arg = SubSeq(b, p, Len(b))
        /\ TrimSpace(SubSeq(b, p, Len(b))) = SubSeq(b, p, Len(b))
    BY <1>5, <2>1, OtherWords
  <2> HIDE DEF split, arg, text
  <2>3. split.cmd = SubSeq(b, 1, e) /\ split.arg = SubSeq(b, p, Len(b))
    <3>1. split.cmd = SubSeq(b, 1, n)
      BY <1>8, Zenon DEF cmd
    <3>2. split.arg = SubSeq(b, p, Len(b))
      BY <1>8, <2>2, Zenon
    <3> QED BY <2>1, <3>1, <3>2
  <2>4. split.count > 0
    BY <1>8
  <2> QED BY <1>9, <2>3, <2>4 DEF split
<1>10. CASE ~(e < CmdSize)
  <2>1. n = CmdSize - 1
    BY <1>10 DEF n
  <2> HIDE DEF split, arg, text
  <2>2. Len(split.cmd) = CmdSize - 1 /\ split.count > 0
    BY <1>5, <1>8, <2>1
  <2> QED BY <1>10, <2>2 DEF split
<1> QED BY <1>9, <1>10

-----------------------------------------------------------------------------
\* No command is longer than five letters.
LEMMA CommandsShort == \A word \in Commands : Len(word) <= 5
<1>1. /\ Len(<<"c", "d">>) <= 5 /\ Len(<<"m", "k", "d", "i", "r">>) <= 5
      /\ Len(<<"r", "m">>) <= 5 /\ Len(<<"p", "u", "t", "s">>) <= 5
      /\ Len(<<"g", "e", "t", "s">>) <= 5 /\ Len(<<"p", "w", "d">>) <= 5
      /\ Len(<<"l", "s">>) <= 5 /\ Len(<<"q", "u", "i", "t">>) <= 5
  OBVIOUS
<1> QED BY <1>1, Zenon DEF Commands, NeedArg, PutsWord, QuitWord

\* Nothing is split into nothing.
LEMMA SplitNone == ~(SplitCommand(<<>>, CmdSize, ArgSize).count > 0)
<1> DEFINE b == <<>>
           cmd == Span(b, Range(b) \ Space, CmdSize - 1)
           text == Drop(Drop(b, Len(cmd)), Len(Span(Drop(b, Len(cmd)), Space, Len(Drop(b, Len(cmd))))))
           arg == Span(text, Range(text) \ {"\n"}, ArgSize - 1)
           split == SplitCommand(b, CmdSize, ArgSize)
<1>1. b \in Str /\ Len(b) = 0 /\ 0 \in Nat
  BY NewLineIs
<1>2. Drop(b, Len(Span(b, Space, Len(b)))) = b
  <2>0. b = <<>>
    OBVIOUS
  <2> HIDE DEF b
  <2>1. IsSpan(b, Space, 0, 0)
    BY <1>1 DEF IsSpan
  <2>2. Span(b, Space, 0) = SubSeq(b, 1, 0)
    BY <1>1, <2>1, SpanIs
  <2>3. SubSeq(b, 1, 0) = b
    BY <1>1, PartFull
  <2>4. Drop(b, 0) = b
    <3>1. 0 + 1 = 1
      OBVIOUS
    <3> QED BY <1>1, <2>3, <3>1 DEF Drop
  <2> QED BY <1>1, <2>2, <2>3, <2>4
<1>3. split = [cmd |-> TrimSpace(cmd), arg |-> TrimSpace(arg),
               count |-> IF b = <<>> THEN -1 ELSE IF arg = <<>> THEN 1 ELSE 2]
  <2>1. cmd = cmd /\ text = text /\ arg = arg
    OBVIOUS
  <2>2. Span(b, Range(b) \ Space, CmdSize - 1) = cmd
    OBVIOUS
  <2> QED BY <1>2, <2>2, SplitBy
<1>4. split.count = -1
  <2> HIDE DEF split, arg, cmd
  <2> QED BY <1>3
<1> HIDE DEF split
<1>5. ~(split.count > 0)
  BY <1>4
<1> QED BY <1>5 DEF split, b

\* What the words of a line are.
LEMMA BareWords ==
  ASSUME NEW l, Plain(l), Text(l) # {}
  PROVE  LET b == Bare(l)
         IN  /\ Plain(b) /\ b # <<>> /\ b[1] \notin Blank /\ b[Len(b)] \notin Blank
             /\ \E e, p : /\ WordsAt(b, 1, Len(b), e, p)
                          /\ Reading(l) = ReadAt(b, 1, e, p, Len(b))
<1> DEFINE b == Bare(l)
<1>1. l \in Str
  BY DEF Plain
<1>2. PICK a, z, e, p : WordsAt(l, a, z, e, p)
  BY <1>1, WordsExist
<1> DEFINE d == e - a + 1
           q == p - a + 1
<1>3. Plain(b) /\ WordsAt(b, 1, Len(b), d, q) /\ ReadAt(b, 1, d, q, Len(b)) = ReadAt(l, a, e, p, z)
  BY <1>2, WordsOfBare
<1>4. Reading(l) = ReadAt(b, 1, d, q, Len(b))
  BY <1>1, <1>2, <1>3, WordsRead
<1> HIDE DEF b, d, q
<1>5. b \in Str /\ Len(b) \in Nat
  BY <1>3, StrIs DEF Plain
<1>6. 1 <= d /\ d <= Len(b) /\ d \in Nat
  BY <1>3, <1>5, WordsPlace
<1>7. Len(b) # 0 /\ 1 \in 1 .. d
  BY <1>5, <1>6
<1>8. b # <<>>
  BY <1>5, <1>7, StrIs
<1>9. b[1] \notin Blank /\ b[Len(b)] \notin Blank
  BY <1>3, <1>7 DEF WordsAt
<1> QED BY <1>3, <1>4, <1>8, <1>9 DEF b

\* A line is accepted if it is a command, and it is split into what it says.
LEMMA Understood ==
  ASSUME NEW l, Plain(l), Text(l) # {} => Len(Reading(l).arg) < ArgSize
  PROVE  LET its == SplitCommand(Bare(l), CmdSize, ArgSize)
         IN  /\ Accepted(its) <=> IsCommand(l)
             /\ IsCommand(l) => [cmd |-> its.cmd, arg |-> its.arg] = Reading(l)
<1> DEFINE b == Bare(l)
           its == SplitCommand(b, CmdSize, ArgSize)
<1>1. CASE Text(l) = {}
  <2>1. b = <<>>
    BY <1>1 DEF Bare, Text
  <2>2. ~(its.count > 0)
    BY <2>1, SplitNone
  <2> HIDE DEF its
  <2>3. ~Accepted(its) /\ ~IsCommand(l)
    BY <1>1, <2>2 DEF Accepted, IsCommand
  <2> QED BY <2>3 DEF its
<1>2. CASE Text(l) # {}
  <2>1. Plain(b)
    BY <1>2, BareWords
  <2>2. PICK e, p : WordsAt(b, 1, Len(b), e, p) /\ Reading(l) = ReadAt(b, 1, e, p, Len(b))
    BY <1>2, BareWords
  <2> HIDE DEF b
  <2>3. b \in Str
    BY <2>1 DEF Plain
  <2>4. /\ e \in Nat /\ p \in Nat /\ Len(b) \in Nat
        /\ 1 <= e /\ e <= Len(b) /\ e + 1 <= p /\ p <= Len(b) + 1
    BY <2>2, <2>3, WordsPlace
  <2>5. Reading(l) = [cmd |-> SubSeq(b, 1, e), arg |-> SubSeq(b, p, Len(b))]
    BY <2>2 DEF ReadAt
  <2>6. Len(SubSeq(b, p, Len(b))) = Len(b) - p + 1
    <3>1. p \in 1 .. Len(b) + 1 /\ Len(b) \in p - 1 .. Len(b)
      BY <2>4
    <3> QED BY <2>3, <3>1, PartIs
  <2>7. Len(SubSeq(b, 1, e)) = e
    <3>1. 1 \in 1 .. Len(b) + 1 /\ e \in 1 - 1 .. Len(b) /\ e - 1 + 1 = e
      BY <2>4
    <3> QED BY <2>3, <3>1, PartIs
  <2>8. Len(b) - p + 1 < ArgSize
    <3>1. Len(Reading(l).arg) < ArgSize
      BY <1>2
    <3>2. Reading(l).arg = SubSeq(b, p, Len(b))
      <4>1. \A r, x, y : r = [cmd |-> x, arg |-> y] => r.arg = y
        OBVIOUS
      <4> QED BY <2>5, <4>1, Zenon
    <3> QED BY <2>6, <3>1, <3>2, Zenon
  <2>9. /\ its.count > 0
        /\ e < CmdSize => its.cmd = SubSeq(b, 1, e) /\ its.arg = SubSeq(b, p, Len(b))
        /\ ~(e < CmdSize) => Len(its.cmd) = CmdSize - 1
    BY <2>1, <2>2, <2>8, SplitIs
  <2> HIDE DEF its
  <2>10. CASE e < CmdSize
    <3>1. its.cmd = Reading(l).cmd /\ its.arg = Reading(l).arg
      BY <2>5, <2>9, <2>10
    <3>2. Accepted(its) <=> IsCommand(l)
      BY <1>2, <2>9, <3>1, Zenon DEF Accepted, IsCommand
    <3>3. [cmd |-> its.cmd, arg |-> its.arg] = Reading(l)
      BY <2>5, <2>9, <2>10
    <3> QED BY <3>2, <3>3 DEF its, b
  <2>11. CASE ~(e < CmdSize)
    <3>1. Len(its.cmd) > 5 /\ Len(Reading(l).cmd) > 5
      BY <2>4, <2>5, <2>7, <2>9, <2>11, SizesAre
    <3>2. its.cmd \notin Commands /\ Reading(l).cmd \notin Commands
      <4>1. \A word : Len(word) > 5 => ~(Len(word) <= 5) \/ Len(word) \notin Int
        OBVIOUS
      <4>2. Len(its.cmd) \in Int /\ Len(Reading(l).cmd) \in Int
        BY <2>4, <2>5, <2>7, <2>9, <2>11, SizesAre
      <4> QED BY <3>1, <4>1, <4>2, CommandsShort
    <3>3. ~Accepted(its) /\ ~IsCommand(l)
      BY <3>2, Zenon DEF Accepted, IsCommand
    <3> QED BY <3>3 DEF its, b
  <2> QED BY <2>10, <2>11
<1> QED BY <1>1, <1>2

-----------------------------------------------------------------------------
(* The login.                                                              *)

\* The word of the login request.
LEMMA LoginIs ==
  /\ LoginWord \in Str /\ Len(LoginWord) = 5
  /\ \A i \in 1 .. 5 : LoginWord[i] \notin Space
  /\ <<" ">> \in Str /\ Len(<<" ">>) = 1 /\ <<" ">>[1] \in Blank /\ <<" ">>[1] \notin NewLine
<1>0. " " \in Char
  BY DEF Char, Space, Blank
<1>1. "l" \in Char /\ "o" \in Char /\ "g" \in Char /\ "i" \in Char /\ "n" \in Char
  BY DEF Char
<1>2. LoginWord \in Str /\ Len(LoginWord) = 5
  <2>1. Len(LoginWord) = 5
    BY DEF LoginWord
  <2>2. LoginWord \in Seq(Char)
    BY <1>1 DEF LoginWord
  <2> QED BY <2>1, <2>2 DEF Str
<1>3. \A i \in 1 .. 5 : LoginWord[i] \in {"l", "o", "g", "i", "n"}
  BY DEF LoginWord
<1>4. \A c \in {"l", "o", "g", "i", "n"} : c \notin Space
  <2>1. Space = {" ", "\t", "\n", "\r"}
    BY DEF Space, Blank, NewLine
  <2>2. /\ "l" \notin Space /\ "o" \notin Space /\ "g" \notin Space /\ "i" \notin Space
        /\ "n" \notin Space
    BY <2>1
  <2> QED BY <2>2
<1>5. <<" ">> \in Str /\ Len(<<" ">>) = 1 /\ <<" ">>[1] = " "
  <2>1. \A c \in Char : <<c>> \in Seq(Char) /\ Len(<<c>>) = 1 /\ <<c>>[1] = c
    OBVIOUS
  <2> QED BY <1>0, <2>1, Zenon DEF Str
<1>6. " " \in Blank /\ " " \notin NewLine
  BY DEF Blank, NewLine
<1> QED BY <1>2, <1>3, <1>4, <1>5, <1>6

\* The login request for a name that fits its buffer asks for that name.
LEMMA LoginAsks ==
  ASSUME NEW x, Plain(x), x # <<>>, x[1] \notin Blank, x[Len(x)] \notin Blank,
         Len(x) < NameSize
  PROVE  LET request == Fit(LoginWord \o <<" ">> \o x, LineSize)
             its == SplitCommand(request, CmdSize, ArgSize)
         IN  /\ its.cmd = LoginWord /\ its.arg = x
             /\ Fit(x, NameSize) = x
<1> DEFINE H == LoginWord \o <<" ">>
           R == H \o x
           N == Len(x)
<1>1. x \in Str /\ N \in Nat /\ N # 0
  BY StrIs DEF Plain
<1>2. /\ H \in Str /\ Len(H) = 6 /\ SubSeq(H, 1, 5) = LoginWord
      /\ \A i \in 1 .. 5 : H[i] = LoginWord[i]
      /\ H[6] \in Blank /\ H[6] \notin NewLine
  <2>1. /\ H \in Str /\ Len(H) = 5 + 1 /\ SubSeq(H, 1, 5) = LoginWord
        /\ \A i \in 1 .. 5 : H[i] = LoginWord[i]
        /\ \A i \in 1 .. 1 : H[5 + i] = <<" ">>[i]
    <3> DEFINE L == LoginWord
               B == <<" ">>
    <3>1. L \in Str /\ Len(L) = 5 /\ B \in Str /\ Len(B) = 1
      BY LoginIs
    <3> HIDE DEF L, B
    <3>2. /\ L \o B \in Str /\ Len(L \o B) = 5 + 1 /\ SubSeq(L \o B, 1, 5) = L
          /\ \A i \in 1 .. 5 : (L \o B)[i] = L[i]
          /\ \A i \in 1 .. 1 : (L \o B)[5 + i] = B[i]
      <4>1. /\ L \o B \in Str /\ Len(L \o B) = Len(L) + Len(B) /\ SubSeq(L \o B, 1, Len(L)) = L
            /\ \A i \in 1 .. Len(L) : (L \o B)[i] = L[i]
            /\ \A i \in 1 .. Len(B) : (L \o B)[Len(L) + i] = B[i]
        BY <3>1, JoinIs
      <4> QED BY <3>1, <4>1, Zenon
    <3>3. H = L \o B
      BY DEF L, B
    <3>4. /\ H \in Str /\ Len(H) = 5 + 1 /\ SubSeq(H, 1, 5) = L
          /\ \A i \in 1 .. 5 : H[i] = L[i]
          /\ \A i \in 1 .. 1 : H[5 + i] = B[i]
      BY <3>2, <3>3, Zenon
    <3> HIDE DEF H
    <3> QED BY <3>4 DEF L, B
  <2>2. H[5 + 1] = <<" ">>[1] /\ 5 + 1 = 6
    <3>1. 1 \in 1 .. 1 /\ 5 + 1 = 6
      OBVIOUS
    <3> HIDE DEF H
    <3> QED BY <2>1, <3>1
  <2> HIDE DEF H
  <2>3. <<" ">>[1] \in Blank /\ <<" ">>[1] \notin NewLine
    BY LoginIs
  <2>4. H[6] \in Blank /\ H[6] \notin NewLine
    BY <2>2, <2>3, Zenon
  <2> QED BY <2>1, <2>2, <2>4
<1> HIDE DEF H
<1>3. /\ R \in Str /\ Len(R) = 6 + N
      /\ \A i \in 1 .. 6 : R[i] = H[i]
      /\ \A i \in 1 .. N : R[6 + i] = x[i]
      /\ SubSeq(R, 1, 6) = H /\ Drop(R, 6) = x
  <2>1. /\ R \in Str /\ Len(R) = Len(H) + N
        /\ \A i \in 1 .. Len(H) : R[i] = H[i]
        /\ \A i \in 1 .. N : R[Len(H) + i] = x[i]
        /\ SubSeq(R, 1, Len(H)) = H /\ Drop(R, Len(H)) = x
    BY <1>1, <1>2, JoinIs
  <2> HIDE DEF R, N
  <2>2. Len(H) = 6
    BY <1>2
  <2> QED BY <2>1, <2>2, Zenon
<1> HIDE DEF R
<1>4. \A i \in 1 .. 5 : R[i] \notin Blank /\ R[i] \notin NewLine
  <2> TAKE i \in 1 .. 5
  <2>1. i \in 1 .. 6
    OBVIOUS
  <2>2. R[i] = LoginWord[i]
    BY <1>2, <1>3, <2>1
  <2>3. R[i] \notin Space
    BY <2>2, LoginIs
  <2> QED BY <2>3 DEF Space
<1>5. R[6] \in Blank /\ R[6] \notin NewLine
  <2>1. 6 \in 1 .. 6
    OBVIOUS
  <2> QED BY <1>2, <1>3, <2>1
<1>6. R[7] = x[1] /\ R[6 + N] = x[N]
  <2>1. 1 \in 1 .. N /\ N \in 1 .. N /\ 6 + 1 = 7
    BY <1>1
  <2> QED BY <1>3, <2>1
<1>7. Plain(R)
  <2> SUFFICES ASSUME NEW i \in 1 .. 6 + N PROVE R[i] \notin NewLine
    BY <1>3 DEF Plain
  <2>1. CASE i \in 1 .. 5
    BY <1>4, <2>1
  <2>2. CASE i = 6
    BY <1>5, <2>2
  <2>3. CASE i \in 7 .. 6 + N
    <3>1. i - 6 \in 1 .. N /\ 6 + (i - 6) = i
      BY <1>1, <2>3
    <3>2. R[i] = x[i - 6]
      BY <1>3, <3>1
    <3> QED BY <3>1, <3>2 DEF Plain
  <2> QED BY <1>1, <2>1, <2>2, <2>3
<1>8. WordsAt(R, 1, Len(R), 5, 7)
  <2>1. /\ 1 \in 1 .. 6 + N /\ 6 + N \in 1 .. 6 + N /\ 5 \in 1 .. 6 + N
        /\ 7 \in 5 + 1 .. (6 + N) + 1 /\ 1 .. 1 - 1 = {} /\ (6 + N) + 1 .. 6 + N = {}
        /\ 5 # 6 + N /\ 7 # 5 + 1 /\ 7 <= 6 + N
        /\ \A i \in 5 + 1 .. 7 - 1 : i = 6
    BY <1>1
  <2>2. \A i \in 5 + 1 .. 7 - 1 : R[i] \in Blank
    BY <1>5, <2>1
  <2>3. R[6 + N] \notin Blank /\ R[7] \notin Blank
    BY <1>6
  <2>4. WordsAt(R, 1, 6 + N, 5, 7)
    BY <1>3, <1>4, <2>1, <2>2, <2>3 DEF WordsAt
  <2> QED BY <1>3, <2>4
<1>9. SubSeq(R, 1, 5) = LoginWord
  <2>1. 1 \in 1 .. Len(R) + 1 /\ 6 \in 1 - 1 .. Len(R) /\ 1 \in 1 .. 6 - 1 + 2
        /\ 5 \in 1 - 1 .. 6 - 1 + 1 /\ 1 + 1 - 1 = 1 /\ 1 + 5 - 1 = 5
    BY <1>1, <1>3
  <2>2. SubSeq(SubSeq(R, 1, 6), 1, 5) = SubSeq(R, 1 + 1 - 1, 1 + 5 - 1)
    BY <1>3, <2>1, PartOfPart
  <2> QED BY <1>2, <1>3, <2>1, <2>2
<1>10. SubSeq(R, 7, Len(R)) = x
  <2>1. 6 + 1 = 7
    OBVIOUS
  <2> QED BY <1>3, <2>1 DEF Drop
<1>11. /\ SplitCommand(R, CmdSize, ArgSize).cmd = LoginWord
       /\ SplitCommand(R, CmdSize, ArgSize).arg = x
  <2>1. Len(R) - 7 + 1 < ArgSize
    BY <1>1, <1>3, SizesAre
  <2>2. 5 < CmdSize
    BY SizesAre
  <2> QED BY <1>7, <1>8, <1>9, <1>10, <2>1, <2>2, SplitIs
<1>12. Fit(R, LineSize) = R /\ Fit(x, NameSize) = x
  <2>1. Len(R) < LineSize
    BY <1>1, <1>3, SizesAre
  <2> QED BY <2>1 DEF Fit
<1> QED BY <1>11, <1>12 DEF R, H

-----------------------------------------------------------------------------
(* Which of the lines typed the server has run.                            *)

Parts == [cmd : Str, arg : Str]

\* `place` says of each command which line it comes from.
Placed(place, done, lines, from, to) ==
  /\ place \in [DOMAIN done -> from + 1 .. to]
  /\ \A i, j \in DOMAIN done : i < j => place[i] < place[j]
  /\ \A i \in DOMAIN done :
       IsCommand(lines[place[i]]) /\ done[i] = Reading(lines[place[i]])
  /\ \A k \in from + 1 .. to :
       IsCommand(lines[k]) /\ Reading(lines[k]).cmd # PutsWord => k \in Range(place)

Told(done, lines, from, to) ==
  /\ from \in Nat /\ to \in Nat /\ from <= to
  /\ done \in Seq(Parts)
  /\ \E place : Placed(place, done, lines, from, to)

\* What a line says is a command and an argument.
LEMMA ReadingType ==
  ASSUME NEW l, Plain(l), Text(l) # {}
  PROVE  Reading(l) \in Parts
<1> DEFINE b == Bare(l)
<1>1. PICK e, p : /\ Plain(b) /\ WordsAt(b, 1, Len(b), e, p)
                  /\ Reading(l) = ReadAt(b, 1, e, p, Len(b))
  BY BareWords
<1> HIDE DEF b
<1>2. b \in Str
  BY <1>1 DEF Plain
<1>3. /\ e \in Nat /\ p \in Nat /\ Len(b) \in Nat
      /\ 1 <= e /\ e <= Len(b) /\ e + 1 <= p /\ p <= Len(b) + 1
  BY <1>1, <1>2, WordsPlace
<1>4. /\ 1 \in 1 .. Len(b) + 1 /\ e \in 1 - 1 .. Len(b)
      /\ p \in 1 .. Len(b) + 1 /\ Len(b) \in p - 1 .. Len(b)
  BY <1>3
<1>5. SubSeq(b, 1, e) \in Str
  BY <1>2, <1>4, PartIs
<1>6. SubSeq(b, p, Len(b)) \in Str
  BY <1>2, <1>4, PartIs
<1> QED BY <1>1, <1>5, <1>6 DEF ReadAt, Parts

\* When the login is the last line nothing need be run.
LEMMA ToldNone ==
  ASSUME NEW lines, NEW from \in Nat
  PROVE  Told(<<>>, lines, from, from)
<1>1. <<>> \in Seq(Parts) /\ DOMAIN <<>> = {}
  OBVIOUS
<1>2. from + 1 .. from = {}
  OBVIOUS
<1> DEFINE place == [i \in {} |-> 0]
<1>3. place \in [{} -> {}]
  OBVIOUS
<1> HIDE DEF place
<1>4. Placed(place, <<>>, lines, from, from)
  BY <1>1, <1>2, <1>3 DEF Placed
<1> QED BY <1>1, <1>4 DEF Told

\* Other lines may follow.
LEMMA ToldSame ==
  ASSUME NEW done, NEW lines, NEW from, NEW to, Told(done, lines, from, to),
         NEW more, \A i \in from + 1 .. to : more[i] = lines[i]
  PROVE  Told(done, more, from, to)
<1>1. PICK place : Placed(place, done, lines, from, to)
  BY DEF Told
<1>2. \A i \in DOMAIN done : place[i] \in from + 1 .. to
  BY <1>1 DEF Placed
<1>3. Placed(place, done, more, from, to)
  BY <1>1, <1>2 DEF Placed
<1> QED BY <1>3 DEF Told

\* A line that need not be run is passed over.
LEMMA ToldSkip ==
  ASSUME NEW done, NEW lines, NEW from, NEW to, Told(done, lines, from, to),
         ~(IsCommand(lines[to + 1]) /\ Reading(lines[to + 1]).cmd # PutsWord)
  PROVE  Told(done, lines, from, to + 1)
<1>1. PICK place : Placed(place, done, lines, from, to)
  BY DEF Told
<1>2. from \in Nat /\ to \in Nat /\ from <= to /\ done \in Seq(Parts)
  BY DEF Told
<1>3. from + 1 .. to \subseteq from + 1 .. to + 1
  BY <1>2
<1>4. place \in [DOMAIN done -> from + 1 .. to + 1]
  BY <1>1, <1>3 DEF Placed
<1>5. ASSUME NEW k \in from + 1 .. to + 1,
             IsCommand(lines[k]) /\ Reading(lines[k]).cmd # PutsWord
      PROVE  k \in Range(place)
  <2>1. k # to + 1
    BY <1>5
  <2>2. k \in from + 1 .. to
    BY <1>2, <2>1
  <2> QED BY <1>1, <1>5, <2>2 DEF Placed
<1>6. Placed(place, done, lines, from, to + 1)
  BY <1>1, <1>4, <1>5 DEF Placed
<1>7. to + 1 \in Nat /\ from <= to + 1
  BY <1>2
<1> QED BY <1>2, <1>6, <1>7 DEF Told

\* A command is run.
LEMMA ToldNext ==
  ASSUME NEW done, NEW lines, NEW from, NEW to, Told(done, lines, from, to),
         IsCommand(lines[to + 1]), Reading(lines[to + 1]) \in Parts
  PROVE  Told(Append(done, Reading(lines[to + 1])), lines, from, to + 1)
<1> DEFINE said == Reading(lines[to + 1])
           more == Append(done, said)
           n == Len(done)
<1>1. PICK place : Placed(place, done, lines, from, to)
  BY DEF Told
<1>2. from \in Nat /\ to \in Nat /\ from <= to /\ done \in Seq(Parts)
  BY DEF Told
<1>3. n \in Nat /\ DOMAIN done = 1 .. n
  BY <1>2, LenProperties
<1> HIDE DEF said
<1>4. /\ more \in Seq(Parts) /\ DOMAIN more = 1 .. n + 1
      /\ more[n + 1] = said /\ \A i \in 1 .. n : more[i] = done[i]
  <2>1. said \in Parts
    BY DEF said
  <2> QED BY <1>2, <2>1, AppendProperties
<1> HIDE DEF more, n
<1> DEFINE where == [i \in 1 .. n + 1 |-> IF i \in 1 .. n THEN place[i] ELSE to + 1]
<1>5. n + 1 \notin 1 .. n /\ n + 1 \in 1 .. n + 1 /\ 1 .. n \subseteq 1 .. n + 1
      /\ \A i \in 1 .. n + 1 : i \in 1 .. n \/ i = n + 1
  BY <1>3
<1>6. /\ DOMAIN where = 1 .. n + 1
      /\ where[n + 1] = to + 1 /\ \A i \in 1 .. n : where[i] = place[i]
  BY <1>5
<1>7. where \in [1 .. n + 1 -> from + 1 .. to + 1]
  <2>1. \A i \in 1 .. n : place[i] \in from + 1 .. to
    BY <1>1, <1>3 DEF Placed
  <2>2. to + 1 \in from + 1 .. to + 1 /\ from + 1 .. to \subseteq from + 1 .. to + 1
    BY <1>2
  <2> QED BY <2>1, <2>2
<1> HIDE DEF where
<1>8. \A i, j \in 1 .. n + 1 : i < j => where[i] < where[j]
  <2> TAKE i, j \in 1 .. n + 1
  <2> HAVE i < j
  <2>1. i \in 1 .. n
    BY <1>3
  <2>2. CASE j \in 1 .. n
    <3>1. place[i] < place[j]
      BY <1>1, <1>3, <2>1, <2>2 DEF Placed
    <3> QED BY <1>6, <2>1, <2>2, <3>1
  <2>3. CASE j = n + 1
    <3>1. place[i] \in from + 1 .. to
      BY <1>1, <1>3, <2>1 DEF Placed
    <3>2. place[i] < to + 1
      BY <1>2, <3>1
    <3> QED BY <1>6, <2>1, <2>3, <3>2
  <2> QED BY <1>5, <2>2, <2>3
<1>9. \A i \in 1 .. n + 1 : IsCommand(lines[where[i]]) /\ more[i] = Reading(lines[where[i]])
  <2> TAKE i \in 1 .. n + 1
  <2>1. CASE i \in 1 .. n
    <3>1. IsCommand(lines[place[i]]) /\ done[i] = Reading(lines[place[i]])
      BY <1>1, <1>3, <2>1 DEF Placed
    <3> QED BY <1>4, <1>6, <2>1, <3>1
  <2>2. CASE i = n + 1
    BY <1>4, <1>6, <2>2 DEF said
  <2> QED BY <1>5, <2>1, <2>2
<1>10. \A k \in from + 1 .. to + 1 :
         IsCommand(lines[k]) /\ Reading(lines[k]).cmd # PutsWord => k \in Range(where)
  <2> TAKE k \in from + 1 .. to + 1
  <2> HAVE IsCommand(lines[k]) /\ Reading(lines[k]).cmd # PutsWord
  <2>1. CASE k = to + 1
    BY <1>5, <1>6, <2>1 DEF Range
  <2>2. CASE k # to + 1
    <3>1. k \in from + 1 .. to
      BY <1>2, <2>2
    <3>2. k \in Range(place)
      BY <1>1, <3>1 DEF Placed
    <3>3. PICK i \in 1 .. n : k = place[i]
      BY <1>1, <1>3, <3>2 DEF Placed, Range
    <3>4. where[i] = k /\ i \in DOMAIN where
      BY <1>5, <1>6, <3>3
    <3> QED BY <3>4 DEF Range
  <2> QED BY <2>1, <2>2
<1>11. Placed(where, more, lines, from, to + 1)
  BY <1>4, <1>7, <1>8, <1>9, <1>10 DEF Placed
<1>12. to + 1 \in Nat /\ from <= to + 1
  BY <1>2
<1> QED BY <1>2, <1>4, <1>11, <1>12 DEF Told, more, said

-----------------------------------------------------------------------------
(* What the client has read of what was typed.                             *)

\* The last line typed; nothing of it, or all of it but a newline, is read.
Newest == typed[Len(typed)]
Pending(lines, done, from, r) ==
  \E k : /\ Unread(<<lines[Len(lines)]>>, k, r)
         /\ from > 0 => Told(done, lines, from, Len(lines) - 1 + k)

\* The user of a session, by the lines typed and the lines of users.conf.
Entered(shown, own, lines, n, file) ==
  /\ shown = own /\ own = Bare(lines[n])
  /\ ShortLines(file) => \E i \in DOMAIN file :
       IsEntry(file[i]) /\ own = Fit(Bare(file[i]), NameSize)

ClientInv ==
  /\ TextLines(typed)
  /\ since \in Nat /\ since <= Len(typed)
  /\ stage = "login" => since = 0 /\ handled = <<>>
  /\ stage = "loop" => since > 0
  /\ typed = <<>> => input = <<>>
  /\ since > 0 /\ LinesFit => Entered(prompt, user, typed, since, names)
  /\ LinesFit /\ typed # <<>> => Pending(typed, handled, since, input)

\* The facts about the lines typed that the provers need at hand.
LEMMA TypedIs ==
  ASSUME TextLines(typed)
  PROVE  /\ typed \in Seq(Str) /\ Len(typed) \in Nat /\ DOMAIN typed = 1 .. Len(typed)
         /\ typed # <<>> <=> Len(typed) # 0
         /\ typed # <<>> => Len(typed) \in 1 .. Len(typed) /\ Len(typed) \in DOMAIN typed
<1>1. typed \in Seq(Str)
  BY DEF TextLines
<1>2. Len(typed) \in Nat /\ DOMAIN typed = 1 .. Len(typed)
  BY <1>1, LenProperties
<1>3. typed = <<>> <=> Len(typed) = 0
  BY <1>1, EmptySeq
<1>4. Len(typed) # 0 => Len(typed) \in 1 .. Len(typed)
  BY <1>2
<1> QED BY <1>1, <1>2, <1>3, <1>4

\* The last of them is a line of text.
LEMMA LastLine ==
  ASSUME TextLines(typed), typed # <<>>
  PROVE  /\ Plain(Newest) /\ TextLines(<<Newest>>)
         /\ Len(<<Newest>>) = 1 /\ <<Newest>>[1] = Newest
<1>1. Plain(Newest)
  BY TypedIs, LineOf DEF Newest
<1>2. Newest \in Str /\ \A j \in 1 .. Len(Newest) : Newest[j] \notin NewLine
  BY <1>1 DEF Plain
<1> DEFINE h == Newest
<1> HIDE DEF h
<1>3. ASSUME h \in Str, \A j \in 1 .. Len(h) : h[j] \notin NewLine
      PROVE  TextLines(<<h>>) /\ Len(<<h>>) = 1 /\ <<h>>[1] = h
  <2>1. <<h>> \in Seq(Str) /\ Len(<<h>>) = 1 /\ <<h>>[1] = h
    BY <1>3
  <2>2. \A i \in 1 .. 1 : i = 1
    OBVIOUS
  <2> QED BY <1>3, <2>1, <2>2 DEF TextLines
<1> QED BY <1>1, <1>2, <1>3 DEF h

\* A line typed is text, whether a newline follows it or not.
LEMMA TypedLine ==
  ASSUME NEW line \in Lines, NEW r \in {Append(line, "\n"), line}
  PROVE  /\ TextLines(<<line>>) /\ line \in Str
         /\ Unread(<<line>>, 0, r)
<1> DEFINE s == <<line>>
           e == <<>>
<1>1. IsText(s) /\ DOMAIN s = {1} /\ s[1] = line /\ Len(s) = 1
  BY CommandLineAssumption
<1>2. line \in Seq(STRING)
  BY <1>1 DEF IsText
<1>3. s \in Seq(Seq(STRING))
  BY <1>2
<1>4. TextLines(s)
  BY <1>1, <1>3, LinesAreText
<1> HIDE DEF s
<1>5. s \in Seq(Str) /\ 1 \in 1 .. Len(s)
  BY <1>1, <1>4 DEF TextLines
<1>6. line \in Str
  <2>1. s[1] \in Str
    BY <1>4, <1>5, LineOf
  <2> QED BY <1>1, <2>1
<1>7. e \in Seq(Str) /\ Len(e) = 0
  OBVIOUS
<1>8. Rest(s, e)
  <2> HIDE DEF e
  <2>1. Len(s) = Len(e) + 1 /\ \A i \in 1 .. Len(e) : e[i] = s[i + 1]
    BY <1>1, <1>7
  <2> QED BY <1>5, <1>7, <2>1 DEF Rest
<1>9. Stream(s) = Append(line, "\n")
  <2>1. Stream(s) = Append(s[1], "\n") \o Stream(e)
    BY <1>8, StreamCons
  <2>2. Stream(e) = <<>>
    BY <1>7, StreamNone
  <2>3. Append(line, "\n") \in Seq(Char)
    BY <1>6, NewLineIs DEF Str
  <2>4. Append(line, "\n") \o <<>> = Append(line, "\n")
    BY <2>3, ConcatEmptySeq
  <2> QED BY <1>1, <2>1, <2>2, <2>4, Zenon
<1>10. Front(Append(line, "\n")) = line
  <2>1. Append(line, "\n") = line \o <<"\n">>
    BY <1>6, NewLineIs, AppendIsConcat DEF Str
  <2>2. Front(line \o <<"\n">>) = line \o Front(<<"\n">>)
    <3>1. <<"\n">> # <<>> /\ <<"\n">> \in Str
      BY NewLineIs
    <3> QED BY <1>6, <3>1, FrontJoin
  <2>3. Front(<<"\n">>) = <<>>
    <3>1. Front(<<"\n">>) = SubSeq(<<"\n">>, 1, 1 - 1)
      BY NewLineIs DEF Front
    <3>2. SubSeq(<<"\n">>, 1, 1 - 1) = <<>>
      <4>1. 1 \in Int
        OBVIOUS
      <4> QED BY <4>1, NoPart
    <3> QED BY <3>1, <3>2
  <2>4. line \o <<>> = line
    BY <1>6, ConcatEmptySeq DEF Str
  <2> QED BY <2>1, <2>2, <2>3, <2>4, Zenon
<1>11. s # <<>>
  <2>1. Len(s) # 0
    BY <1>1
  <2> QED BY <2>1, NewLineIs
<1>12. r \in Files(s)
  <2>1. Files(s) = {Append(line, "\n")} \cup {line}
    BY <1>9, <1>10, <1>11, Zenon DEF Files
  <2> QED BY <2>1
<1>13. Unread(s, 0, r)
  BY <1>5, <1>12, UnreadFirst
<1> QED BY <1>4, <1>6, <1>13 DEF s

\* No line typed is longer than the buffer it is read into.
LEMMA LastFits ==
  ASSUME ClientInv, LinesFit, typed # <<>>, stage # "left"
  PROVE  /\ Len(Newest) < BufferSize /\ BufferSize \in Nat \ {0, 1}
         /\ Len(Newest) < LineSize
         /\ stage = "login" => Len(Newest) < NameSize
         /\ Text(Newest) # {} => Len(Reading(Newest).arg) < ArgSize
<1>1. TextLines(typed)
  BY DEF ClientInv
<1>2. Len(typed) \in DOMAIN typed
  BY <1>1, TypedIs
<1>3. /\ Len(Newest) < IF since = 0 \/ Len(typed) <= since THEN NameSize ELSE LineSize
      /\ Text(Newest) # {} => Len(Reading(Newest).arg) < ArgSize
  BY <1>2 DEF LinesFit, Newest
<1>4. Len(Newest) \in Nat
  <2>1. Newest \in Str
    BY <1>1, LastLine DEF Plain
  <2> QED BY <2>1, StrIs
<1>5. stage = "login" => Len(Newest) < NameSize
  BY <1>3 DEF ClientInv
<1>6. Len(Newest) < LineSize
  BY <1>3, <1>4, SizesAre
<1>7. BufferSize \in Nat \ {0, 1}
  BY SizesAre DEF BufferSize
<1>8. Len(Newest) < BufferSize
  BY <1>5, <1>6 DEF BufferSize
<1> QED BY <1>3, <1>5, <1>6, <1>7, <1>8

\* What is read: nothing, or the words of the last line.
Took(k, r) ==
  \/ Input = <<>> /\ Unread(<<Newest>>, k, r)
  \/ k = 0 /\ Input = Bare(Newest) /\ Unread(<<Newest>>, 1, r)

\* If the lines fit, each read takes the last line, or nothing.
LEMMA InputIs ==
  ASSUME ClientInv, ReadInput, LinesFit, stage # "left"
  PROVE  /\ typed # <<>>
         /\ \E k \in Nat : /\ Took(k, input')
                           /\ since > 0 => Told(handled, typed, since, Len(typed) - 1 + k)
<1>1. input # <<>> /\ typed # <<>> /\ TextLines(typed)
  BY DEF ClientInv, ReadInput
<1>2. PICK k : /\ Unread(<<Newest>>, k, input)
               /\ since > 0 => Told(handled, typed, since, Len(typed) - 1 + k)
  BY <1>1 DEF ClientInv, Pending, Newest
<1> DEFINE s == <<Newest>>
           took == Fgets(input, BufferSize)
           left == Drop(input, Len(took))
<1>3. TextLines(s) /\ Len(s) = 1 /\ s[1] = Newest /\ Plain(Newest)
  BY <1>1, LastLine
<1>4. Len(Newest) < BufferSize /\ BufferSize \in Nat \ {0, 1}
  BY <1>1, LastFits
<1>5. input' = left
  BY DEF ReadInput
<1>6. k \in 0 .. 1
  BY <1>2, <1>3 DEF Unread
<1>7. k \in Nat /\ (k < 1 => k = 0 /\ k + 1 = 1)
  BY <1>6
<1>8. Input = TrimSpace(TrimNewline(took))
  BY DEF Input
<1>9. Reads(s, k, input, BufferSize)
  <2> HIDE DEF s
  <2>1. \A i \in 1 .. Len(s) : Len(s[i]) < BufferSize
    BY <1>3, <1>4
  <2>2. Unread(s, k, input)
    BY <1>2 DEF s
  <2> QED BY <1>1, <1>3, <1>4, <2>1, <2>2, ReadsALine
<1> HIDE DEF took, left, s
<1>10. \/ TrimNewline(took) = <<>> /\ Unread(s, k, left)
       \/ k < Len(s) /\ TrimNewline(took) = s[k + 1] /\ Unread(s, k + 1, left)
  BY <1>9 DEF Reads, took, left
<1>11. CASE TrimNewline(took) = <<>> /\ Unread(s, k, left)
  <2>1. Input = <<>>
    BY <1>8, <1>11, EmptyLine
  <2>2. Took(k, input')
    BY <1>5, <1>11, <2>1 DEF Took, s
  <2> QED BY <1>1, <1>2, <1>7, <2>2
<1>12. CASE k < Len(s) /\ TrimNewline(took) = s[k + 1] /\ Unread(s, k + 1, left)
  <2>1. k = 0 /\ k + 1 = 1
    BY <1>3, <1>7, <1>12
  <2>2. Input = TrimSpace(Newest)
    BY <1>3, <1>8, <1>12, <2>1
  <2>3. TrimSpace(Newest) = Bare(Newest)
    BY <1>3, BareIsTrim DEF Plain
  <2>4. Unread(<<Newest>>, 1, input')
    BY <1>5, <1>12, <2>1 DEF s
  <2>5. Took(k, input')
    BY <2>1, <2>2, <2>3, <2>4 DEF Took
  <2> QED BY <1>1, <1>2, <1>7, <2>5
<1> QED BY <1>10, <1>11, <1>12

-----------------------------------------------------------------------------
(* Every step of the client keeps that.                                    *)

\* The steps that type nothing and log nobody in.
LEMMA SameLines ==
  ASSUME ClientInv, names' = names,
         UNCHANGED <<typed, prompt, user, since>>, stage' \in {stage, "left"},
         stage' = "login" => handled' = handled,
         typed = <<>> => input' = <<>>,
         LinesFit /\ typed # <<>> => Pending(typed, handled', since, input')
  PROVE  ClientInv'
<1>1. LinesFit' <=> LinesFit
  BY DEF LinesFit
<1>2. Entered(prompt, user, typed, since, names)' <=> Entered(prompt, user, typed, since, names)
  OBVIOUS
<1>3. Pending(typed, handled, since, input)' <=> Pending(typed, handled', since, input')
  BY DEF Pending, Unread, Told, Placed, IsCommand, Reading
<1>4. TextLines(typed)' <=> TextLines(typed)
  BY DEF TextLines
<1>5. (stage' = "login" => stage = "login") /\ (stage' = "loop" => stage = "loop")
  OBVIOUS
<1> QED BY <1>1, <1>2, <1>3, <1>4, <1>5, Zenon DEF ClientInv

\* The steps that read nothing.
LEMMA SameInput ==
  ASSUME ClientInv, names' = names, stage' \in {stage, "left"},
         UNCHANGED <<typed, input, prompt, user, since, handled>>
  PROVE  ClientInv'
<1>1. typed = <<>> => input' = <<>>
  BY DEF ClientInv
<1>2. LinesFit /\ typed # <<>> => Pending(typed, handled', since, input')
  BY Zenon DEF ClientInv
<1> QED BY <1>1, <1>2, SameLines

\* A line is read that is not sent, and need not be.
LEMMA PassedOver ==
  ASSUME ClientInv, names' = names, stage' \in {stage, "left"}, stage # "left", ReadInput,
         UNCHANGED <<prompt, user, since, handled>>,
         since > 0 /\ LinesFit =>
           (Input = Bare(Newest) => ~(IsCommand(Newest) /\ Reading(Newest).cmd # PutsWord))
  PROVE  ClientInv'
<1>1. typed' = typed /\ input # <<>>
  BY DEF ReadInput
<1>2. typed # <<>> /\ TextLines(typed) /\ since \in Nat
  BY <1>1 DEF ClientInv
<1>3. ASSUME LinesFit PROVE Pending(typed, handled', since, input')
  <2>1. PICK k \in Nat : /\ Took(k, input')
                         /\ since > 0 => Told(handled, typed, since, Len(typed) - 1 + k)
    BY <1>3, InputIs
  <2>2. CASE Unread(<<Newest>>, k, input')
    BY <2>1, <2>2 DEF Pending, Newest
  <2>3. CASE k = 0 /\ Input = Bare(Newest) /\ Unread(<<Newest>>, 1, input')
    <3>1. Len(typed) \in Nat
      BY <1>2, TypedIs
    <3>2. Len(typed) - 1 + 0 = Len(typed) - 1 /\ (Len(typed) - 1) + 1 = Len(typed)
          /\ Len(typed) - 1 + 1 = Len(typed)
      BY <3>1
    <3>3. since > 0 => Told(handled, typed, since, Len(typed) - 1)
      BY <2>1, <2>3, <3>2
    <3>4. since > 0 => Told(handled, typed, since, (Len(typed) - 1) + 1)
      <4> SUFFICES ASSUME since > 0 PROVE Told(handled, typed, since, (Len(typed) - 1) + 1)
        OBVIOUS
      <4>1. ~(IsCommand(typed[(Len(typed) - 1) + 1])
                /\ Reading(typed[(Len(typed) - 1) + 1]).cmd # PutsWord)
        BY <1>3, <2>3, <3>2 DEF Newest
      <4> QED BY <3>3, <4>1, ToldSkip
    <3> QED BY <2>3, <3>4 DEF Pending, Newest
  <2> QED BY <2>1, <2>2, <2>3 DEF Took
<1> QED BY <1>1, <1>2, <1>3, SameLines

\* In the loop a line is accepted if it is a command.
LEMMA InLoop ==
  ASSUME ClientInv, LinesFit, typed # <<>>, stage = "loop"
  PROVE  LET its == SplitCommand(Bare(Newest), CmdSize, ArgSize)
         IN  /\ Accepted(its) <=> IsCommand(Newest)
             /\ IsCommand(Newest) => [cmd |-> its.cmd, arg |-> its.arg] = Reading(Newest)
             /\ Fit(Bare(Newest), LineSize) = Bare(Newest)
<1>1. TextLines(typed)
  BY DEF ClientInv
<1>2. Plain(Newest) /\ Newest \in Str
  BY <1>1, LastLine DEF Plain
<1>3. Len(Newest) < LineSize /\ (Text(Newest) # {} => Len(Reading(Newest).arg) < ArgSize)
  BY LastFits
<1>4. Fit(Bare(Newest), LineSize) = Bare(Newest)
  <2>1. Bare(Newest) \in Str /\ Len(Bare(Newest)) <= Len(Newest)
    BY <1>2, BareType
  <2>2. Len(Bare(Newest)) \in Nat /\ Len(Newest) \in Nat
    BY <1>2, <2>1, StrIs
  <2>3. Len(Bare(Newest)) < LineSize
    BY <1>3, <2>1, <2>2, SizesAre
  <2> QED BY <2>3 DEF Fit
<1> QED BY <1>2, <1>3, <1>4, Understood

\* No more is typed.
LEMMA CloseInputStep ==
  ASSUME ClientInv, names' = names, CloseInput
  PROVE  ClientInv'
BY SameInput DEF CloseInput

\* fgets returns NULL.
LEMMA EndOfInputStep ==
  ASSUME ClientInv, names' = names, EndOfInput
  PROVE  ClientInv'
BY SameInput DEF EndOfInput

\* The login fails and is tried again.
LEMMA NotLoggedInStep ==
  ASSUME ClientInv, names' = names, NotLoggedIn
  PROVE  ClientInv'
<1>1. since = 0 /\ stage = "login"
  BY DEF ClientInv, NotLoggedIn
<1>2. ~(since > 0)
  BY <1>1
<1> QED BY <1>1, <1>2, PassedOver DEF NotLoggedIn

\* The user quits at the login.
LEMMA GivesUpStep ==
  ASSUME ClientInv, names' = names, GivesUp
  PROVE  ClientInv'
<1>1. since = 0 /\ stage = "login"
  BY DEF ClientInv, GivesUp
<1>2. ~(since > 0)
  BY <1>1
<1> QED BY <1>1, <1>2, PassedOver DEF GivesUp

\* A line is not sent: it is no command.
LEMMA NotSentStep ==
  ASSUME ClientInv, names' = names, NotSent
  PROVE  ClientInv'
<1>1. /\ stage = "loop" /\ ReadInput /\ ~Accepted(SplitCommand(Input, CmdSize, ArgSize))
      /\ UNCHANGED <<stage, prompt, user, handled, since>>
  BY DEF NotSent
<1>2. typed # <<>>
  BY <1>1 DEF ReadInput, ClientInv
<1>3. ASSUME LinesFit, Input = Bare(Newest) PROVE ~IsCommand(Newest)
  BY <1>1, <1>2, <1>3, InLoop
<1> QED BY <1>1, <1>3, PassedOver

\* A line is not sent: it is a puts.
LEMMA NoLocalFileStep ==
  ASSUME ClientInv, names' = names, NoLocalFile
  PROVE  ClientInv'
<1> DEFINE own == SplitCommand(Input, CmdSize, ArgSize)
<1>1. /\ stage = "loop" /\ ReadInput /\ Accepted(own) /\ own.cmd = PutsWord
      /\ UNCHANGED <<stage, prompt, user, handled, since>>
  BY DEF NoLocalFile
<1>2. typed # <<>>
  BY <1>1 DEF ReadInput, ClientInv
<1>3. ASSUME LinesFit, Input = Bare(Newest) PROVE Reading(Newest).cmd = PutsWord
  <2>1. [cmd |-> own.cmd, arg |-> own.arg] = Reading(Newest)
    BY <1>1, <1>2, <1>3, InLoop
  <2> HIDE DEF own
  <2>2. \A c, a, r : [cmd |-> c, arg |-> a] = r => r.cmd = c
    OBVIOUS
  <2> QED BY <1>1, <2>1, <2>2, Zenon
<1> HIDE DEF own
<1> QED BY <1>1, <1>3, PassedOver

\* A line is sent: it is a command, and the server reads it as it was typed.
LEMMA SentStep ==
  ASSUME ClientInv, names' = names, Sent
  PROVE  ClientInv'
<1> DEFINE its == SplitCommand(Fit(Input, LineSize), CmdSize, ArgSize)
<1>1. /\ stage = "loop" /\ ReadInput /\ Accepted(SplitCommand(Input, CmdSize, ArgSize))
      /\ handled' = Append(handled, [cmd |-> its.cmd, arg |-> its.arg])
      /\ stage' \in {"left", "loop"}
      /\ UNCHANGED <<prompt, user, since>>
  BY DEF Sent
<1>2. typed' = typed /\ typed # <<>> /\ TextLines(typed)
  BY <1>1 DEF ReadInput, ClientInv
<1>3. Len(typed) \in Nat /\ since > 0
  BY <1>1, <1>2, TypedIs DEF ClientInv
<1>4. ASSUME LinesFit PROVE Pending(typed, handled', since, input')
  <2>1. PICK k \in Nat : /\ Took(k, input')
                         /\ since > 0 => Told(handled, typed, since, Len(typed) - 1 + k)
    BY <1>1, <1>4, InputIs
  <2>2. Input # <<>>
    BY <1>1, SplitNone DEF Accepted
  <2>3. k = 0 /\ Input = Bare(Newest) /\ Unread(<<Newest>>, 1, input')
    BY <2>1, <2>2 DEF Took
  <2>4. IsCommand(Newest) /\ [cmd |-> its.cmd, arg |-> its.arg] = Reading(Newest)
    BY <1>1, <1>2, <1>4, <2>3, InLoop
  <2>5. Reading(Newest) \in Parts
    <3>1. Text(Newest) # {}
      BY <2>4 DEF IsCommand
    <3> QED BY <1>2, <3>1, LastLine, ReadingType
  <2> HIDE DEF its
  <2>6. Len(typed) - 1 + 0 = Len(typed) - 1 /\ (Len(typed) - 1) + 1 = Len(typed)
        /\ Len(typed) - 1 + 1 = Len(typed)
    BY <1>3
  <2>7. Told(handled, typed, since, Len(typed) - 1)
    BY <1>3, <2>1, <2>3, <2>6
  <2>8. typed[(Len(typed) - 1) + 1] = Newest
    BY <2>6 DEF Newest
  <2>9. Told(Append(handled, Reading(typed[(Len(typed) - 1) + 1])), typed, since,
             (Len(typed) - 1) + 1)
    BY <2>4, <2>5, <2>7, <2>8, ToldNext
  <2>10. Told(handled', typed, since, Len(typed) - 1 + 1)
    BY <1>1, <2>4, <2>6, <2>8, <2>9
  <2> QED BY <2>3, <2>10 DEF Pending, Newest
<1>5. stage' \in {stage, "left"} /\ stage' # "login"
  BY <1>1
<1> HIDE DEF its
<1> QED BY <1>1, <1>2, <1>4, <1>5, SameLines

-----------------------------------------------------------------------------
\* Who is known to the server stands in users.conf.
LEMMA KnownUser ==
  ASSUME FilesInv, phase = "ready", ShortLines(names), NEW x, UserExists(x)
  PROVE  \E i \in DOMAIN names : IsEntry(names[i]) /\ x = Fit(Bare(names[i]), NameSize)
<1>1. AllLoaded(users, names)
  BY DEF FilesInv, NamesRead
<1>2. x \in Range(users)
  BY DEF UserExists, Range
<1>3. PICK i \in First(names) : x = Kept(names[i])
  BY <1>1, <1>2 DEF AllLoaded
<1>4. i \in DOMAIN names /\ IsEntry(names[i])
  BY <1>3 DEF First
<1> QED BY <1>3, <1>4 DEF Kept

\* The server knows the name that was typed, and keeps it as it is.
LEMMA LoggedInStep ==
  ASSUME FilesInv, ClientInv, phase = "ready", names' = names, LoggedIn
  PROVE  ClientInv'
<1>1. /\ stage = "login" /\ ReadInput /\ Input # <<>> /\ Known
      /\ stage' = "loop" /\ prompt' = Fit(Input, NameSize) /\ user' = Fit(Asked.arg, NameSize)
      /\ since' = Len(typed) /\ handled' = handled
  BY DEF LoggedIn
<1>2. /\ typed' = typed /\ typed # <<>> /\ TextLines(typed) /\ since = 0
      /\ handled = <<>>
  BY <1>1 DEF ReadInput, ClientInv
<1>3. Len(typed) \in Nat /\ Len(typed) > 0 /\ Len(typed) \in DOMAIN typed
      /\ DOMAIN typed = 1 .. Len(typed)
  BY <1>2, TypedIs
<1>4. LinesFit' => LinesFit
  <2> SUFFICES ASSUME LinesFit', NEW i \in DOMAIN typed
               PROVE  /\ Len(typed[i]) < NameSize
                      /\ Text(typed[i]) # {} => Len(Reading(typed[i]).arg) < ArgSize
    BY <1>2 DEF LinesFit
  <2>1. i <= Len(typed)
    BY <1>3
  <2> QED BY <1>1, <1>2, <2>1 DEF LinesFit
<1>5. ASSUME LinesFit PROVE Input = Bare(Newest) /\ Unread(<<Newest>>, 1, input')
  <2>1. PICK k \in Nat : Took(k, input')
    BY <1>1, <1>5, InputIs
  <2> QED BY <1>1, <2>1 DEF Took
<1>6. ASSUME LinesFit PROVE Pending(typed, handled, Len(typed), input')
  <2>1. Told(<<>>, typed, Len(typed), Len(typed))
    BY <1>3, ToldNone
  <2>2. Len(typed) - 1 + 1 = Len(typed)
    BY <1>3
  <2>3. Told(handled, typed, Len(typed), Len(typed) - 1 + 1)
    BY <1>2, <2>1, <2>2
  <2>4. Unread(<<typed[Len(typed)]>>, 1, input')
    BY <1>5, <1>6 DEF Newest
  <2> QED BY <2>3, <2>4 DEF Pending
<1>7. ASSUME LinesFit
      PROVE  Entered(prompt', user', typed, Len(typed), names)
  <2> DEFINE x == Input
  <2>1. x = Bare(Newest) /\ x # <<>>
    BY <1>1, <1>5, <1>7
  <2>2. Plain(Newest) /\ Newest \in Str
    BY <1>2, LastLine DEF Plain
  <2>3. Text(Newest) # {}
    BY <2>1 DEF Bare, Text
  <2>4. Plain(x) /\ x[1] \notin Blank /\ x[Len(x)] \notin Blank
    BY <2>1, <2>2, <2>3, BareWords
  <2>5. Len(x) < NameSize
    <3>1. Len(Newest) < NameSize
      BY <1>1, <1>2, <1>7, LastFits
    <3>2. x \in Str /\ Len(x) <= Len(Newest)
      BY <2>1, <2>2, BareType
    <3>3. Len(x) \in Nat /\ Len(Newest) \in Nat
      BY <2>2, <3>2, StrIs
    <3> QED BY <3>1, <3>2, <3>3, SizesAre
  <2>6. Asked.arg = x /\ Fit(x, NameSize) = x
    <3>1. Asked = SplitCommand(Fit(LoginWord \o <<" ">> \o x, LineSize), CmdSize, ArgSize)
      BY DEF Asked, LoginRequest
    <3> HIDE DEF x
    <3> QED BY <2>1, <2>4, <2>5, <3>1, LoginAsks
  <2>7. prompt' = x /\ user' = x
    BY <1>1, <2>6
  <2>8. UserExists(x)
    BY <1>1, <2>6 DEF Known
  <2> HIDE DEF x
  <2>9. ShortLines(names) => \E i \in DOMAIN names : IsEntry(names[i]) /\ x = Fit(Bare(names[i]), NameSize)
    BY <2>8, KnownUser
  <2> QED BY <2>1, <2>7, <2>9 DEF Entered, Newest
<1>8. TextLines(typed)' /\ (since \in Nat /\ since <= Len(typed))' /\ (since > 0)'
  BY <1>1, <1>2, <1>3
<1>9. LinesFit' => Pending(typed, handled, since, input)'
  BY <1>1, <1>2, <1>4, <1>6
<1>10. LinesFit' => Entered(prompt, user, typed, since, names)'
  BY <1>1, <1>2, <1>4, <1>7
<1> QED BY <1>1, <1>2, <1>8, <1>9, <1>10 DEF ClientInv

\* When no input is left, the last line is dealt with: what is not read of it
\* has no words.
LEMMA AllTold ==
  ASSUME TextLines(typed), typed # <<>>, NEW k, Unread(<<Newest>>, k, <<>>),
         Told(handled, typed, since, Len(typed) - 1 + k)
  PROVE  Told(handled, typed, since, Len(typed))
<1> DEFINE n == Len(typed)
           s == <<Newest>>
<1>1. n \in Nat
  BY TypedIs
<1>2. TextLines(s) /\ Len(s) = 1 /\ s[1] = Newest
  BY LastLine
<1>3. s \in Seq(Str) /\ Unread(s, k, <<>>)
  BY <1>2 DEF TextLines
<1> HIDE DEF s
<1>4. k \in 0 .. 1 /\ \A i \in k + 1 .. 1 : s[i] = <<>>
  <2>1. k \in 0 .. Len(s) /\ \A i \in k + 1 .. Len(s) : s[i] = <<>>
    BY <1>3, UnreadLast
  <2> QED BY <1>2, <2>1
<1>5. CASE k = 1
  <2>1. n - 1 + k = n
    BY <1>1, <1>5
  <2> QED BY <2>1
<1>6. CASE k = 0
  <2>1. n - 1 + k = n - 1 /\ (n - 1) + 1 = n
    BY <1>1, <1>6
  <2>2. 1 \in k + 1 .. 1
    BY <1>6
  <2>3. Newest = <<>>
    BY <1>2, <1>4, <2>2
  <2>4. ~IsCommand(Newest)
    <3>1. Text(<<>>) = {}
      BY DEF Text
    <3> QED BY <2>3, <3>1 DEF IsCommand
  <2>5. typed[(n - 1) + 1] = Newest
    BY <2>1 DEF Newest
  <2>6. Told(handled, typed, since, (n - 1) + 1)
    BY <2>1, <2>4, <2>5, ToldSkip
  <2> QED BY <2>1, <2>6
<1> QED BY <1>4, <1>5, <1>6

\* A line is typed when the one before is dealt with.
LEMMA TypeStep ==
  ASSUME ClientInv, names' = names, NEW line \in Lines, Type(line)
  PROVE  ClientInv'
<1> DEFINE n == Len(typed)
<1>1. /\ input = <<>> /\ typed' = Append(typed, line) /\ stage # "left"
      /\ input' \in {Append(line, "\n"), line}
      /\ UNCHANGED <<stage, prompt, user, handled, since>>
  BY DEF Type
<1>2. TextLines(typed) /\ since \in Nat /\ since <= n
  BY DEF ClientInv
<1>3. typed \in Seq(Str) /\ n \in Nat /\ DOMAIN typed = 1 .. n
  BY <1>2, TypedIs
<1>4. TextLines(<<line>>) /\ line \in Str /\ Unread(<<line>>, 0, input')
  BY <1>1, TypedLine
<1>5. /\ typed' \in Seq(Str) /\ Len(typed') = n + 1 /\ DOMAIN typed' = 1 .. n + 1
      /\ typed'[n + 1] = line /\ \A i \in 1 .. n : typed'[i] = typed[i]
  <2> DEFINE more == Append(typed, line)
  <2>1. /\ more \in Seq(Str) /\ Len(more) = n + 1
        /\ more[n + 1] = line /\ \A i \in 1 .. n : more[i] = typed[i]
    BY <1>3, <1>4, AppendProperties
  <2> HIDE DEF more
  <2>2. DOMAIN more = 1 .. Len(more)
    BY <2>1, LenProperties
  <2>3. typed' = more
    BY <1>1 DEF more
  <2> QED BY <2>1, <2>2, <2>3
<1>6. n + 1 \in Nat /\ n + 1 # 0 /\ 1 .. n \subseteq 1 .. n + 1
      /\ (since > 0 => since \in 1 .. n) /\ since <= n + 1
      /\ \A i \in 1 .. n + 1 : i \in 1 .. n \/ i = n + 1
  BY <1>2, <1>3
<1> HIDE DEF n
<1>7. TextLines(typed)'
  <2>1. Plain(line)
    <3> DEFINE s == <<line>>
    <3>1. 1 \in 1 .. Len(s) /\ s[1] = line
      OBVIOUS
    <3>2. TextLines(s)
      BY <1>4
    <3> HIDE DEF s
    <3> QED BY <3>1, <3>2, LineOf
  <2>2. \A i \in 1 .. n : Plain(typed[i])
    BY <1>2, LineOf DEF n
  <2>3. \A i \in 1 .. n + 1 : Plain(typed'[i])
    BY <1>5, <1>6, <2>1, <2>2
  <2> QED BY <1>5, <2>3 DEF TextLines, Plain
<1>8. LinesFit' => LinesFit
  <2> SUFFICES ASSUME LinesFit', NEW i \in 1 .. n
               PROVE  /\ Len(typed[i]) < IF since = 0 \/ i <= since THEN NameSize ELSE LineSize
                      /\ Text(typed[i]) # {} => Len(Reading(typed[i]).arg) < ArgSize
    BY <1>3 DEF LinesFit, n
  <2>1. i \in DOMAIN typed' /\ typed'[i] = typed[i]
    BY <1>5, <1>6
  <2> QED BY <1>1, <2>1 DEF LinesFit
<1>9. since > 0 /\ LinesFit' => Entered(prompt, user, typed, since, names)'
  <2> SUFFICES ASSUME since > 0, LinesFit'
               PROVE  Entered(prompt', user', typed', since', names')
    OBVIOUS
  <2>1. Entered(prompt, user, typed, since, names)
    BY <1>8 DEF ClientInv
  <2>2. typed'[since] = typed[since]
    BY <1>5, <1>6
  <2> QED BY <1>1, <2>1, <2>2 DEF Entered
<1>10. ASSUME LinesFit', since > 0 PROVE Told(handled, typed', since, n)
  <2>1. typed # <<>>
    BY <1>2, <1>3, <1>10, TypedIs DEF n
  <2>2. PICK k : Unread(<<Newest>>, k, <<>>) /\ Told(handled, typed, since, n - 1 + k)
    BY <1>1, <1>8, <1>10, <2>1 DEF ClientInv, Pending, Newest, n
  <2>3. Told(handled, typed, since, n)
    BY <1>2, <2>1, <2>2, AllTold DEF n
  <2>4. \A i \in since + 1 .. n : typed'[i] = typed[i]
    <3>1. \A i \in since + 1 .. n : i \in 1 .. n
      BY <1>2, <1>3 DEF n
    <3> QED BY <1>5, <3>1
  <2> QED BY <2>3, <2>4, ToldSame
<1>11. LinesFit' => Pending(typed, handled, since, input)'
  <2> SUFFICES ASSUME LinesFit' PROVE Pending(typed', handled', since', input')
    OBVIOUS
  <2>1. (n + 1) - 1 + 0 = n
    BY <1>3 DEF n
  <2>2. since > 0 => Told(handled, typed', since, (n + 1) - 1 + 0)
    BY <1>10, <2>1
  <2>3. Unread(<<typed'[n + 1]>>, 0, input')
    BY <1>4, <1>5
  <2>4. Unread(<<typed'[Len(typed')]>>, 0, input')
        /\ (since' > 0 => Told(handled', typed', since', Len(typed') - 1 + 0))
    BY <1>1, <1>5, <2>2, <2>3
  <2> QED BY <2>4 DEF Pending
<1>12. typed' # <<>>
  <2>1. Len(typed') # 0
    BY <1>5, <1>6
  <2> QED BY <2>1, NewLineIs
<1>13. /\ since' \in Nat /\ since' <= Len(typed')
       /\ stage' = "login" => since' = 0 /\ handled' = <<>>
       /\ stage' = "loop" => since' > 0
  BY <1>1, <1>2, <1>5, <1>6 DEF ClientInv
<1>14. since' = since
  BY <1>1
<1> QED BY <1>7, <1>9, <1>11, <1>12, <1>13, <1>14, Zenon DEF ClientInv

\* So it is when the client starts.
LEMMA ClientFirst == ClientInit => ClientInv
<1> SUFFICES ASSUME ClientInit PROVE ClientInv
  OBVIOUS
<1>1. typed = <<>> /\ input = <<>> /\ stage = "login" /\ handled = <<>> /\ since = 0
  BY DEF ClientInit
<1>2. typed \in Seq(Str) /\ Len(typed) = 0
  BY <1>1
<1>3. TextLines(typed)
  BY <1>2 DEF TextLines
<1> QED BY <1>1, <1>2, <1>3 DEF ClientInv

\* The files stay what they are.
LEMMA NamesStay ==
  ASSUME [Next]_vars
  PROVE  names' = names
BY DEF Next, vars, ReadSetting, OpenUsers, OpenUsersFails, SkipUser, ReadUser, UsersLoaded,
       ReadLine

\* Every step of the client and the server keeps that.
LEMMA ClientNext ==
  ASSUME FilesInv, ClientInv, [ClientRuns \/ (Next /\ UNCHANGED clientVars)]_<<vars, clientVars>>
  PROVE  FilesInv' /\ ClientInv'
<1>1. [Next]_vars
  BY DEF ClientRuns
<1>2. FilesInv'
  BY <1>1, FilesNext
<1>3. names' = names
  BY <1>1, NamesStay
<1>4. CASE UNCHANGED clientVars
  <2>1. UNCHANGED <<typed, input, prompt, user, since, handled>> /\ stage' \in {stage, "left"}
    BY <1>4 DEF clientVars
  <2> QED BY <1>2, <1>3, <2>1, SameInput
<1>5. CASE ClientRuns
  <2>1. phase = "ready"
    BY <1>5 DEF ClientRuns
  <2>2. ASSUME NEW line \in Lines, Type(line) PROVE ClientInv'
    BY <1>2, <1>3, <2>2, TypeStep
  <2>3. CASE CloseInput
    BY <1>2, <1>3, <2>3, CloseInputStep
  <2>4. CASE EndOfInput
    BY <1>2, <1>3, <2>4, EndOfInputStep
  <2>5. CASE LoggedIn
    BY <1>2, <1>3, <2>1, <2>5, LoggedInStep
  <2>6. CASE NotLoggedIn
    BY <1>2, <1>3, <2>6, NotLoggedInStep
  <2>7. CASE GivesUp
    BY <1>2, <1>3, <2>7, GivesUpStep
  <2>8. CASE NotSent
    BY <1>2, <1>3, <2>8, NotSentStep
  <2>9. CASE NoLocalFile
    BY <1>2, <1>3, <2>9, NoLocalFileStep
  <2>10. CASE Sent
    BY <1>2, <1>3, <2>10, SentStep
  <2> QED BY <1>2, <1>5, <2>2, <2>3, <2>4, <2>5, <2>6, <2>7, <2>8, <2>9, <2>10 DEF ClientRuns
<1> QED BY <1>4, <1>5 DEF clientVars

\* The two properties of the client follow.
LEMMA ClientLogin ==
  ASSUME ClientInv
  PROVE  LoginAsTyped
BY DEF ClientInv, Entered, LoginAsTyped

LEMMA ClientCommands ==
  ASSUME ClientInv
  PROVE  OneLineOneCommand
<1> SUFFICES ASSUME since > 0, input = <<>>, LinesFit
             PROVE  \E place : Placed(place, handled, typed, since, Len(typed))
  <2> SUFFICES ASSUME NEW place, Placed(place, handled, typed, since, Len(typed))
               PROVE  OneLineOneCommand
    BY DEF OneLineOneCommand
  <2> QED BY DEF Placed, OneLineOneCommand
<1>1. TextLines(typed) /\ since \in Nat /\ since <= Len(typed)
  BY DEF ClientInv
<1>2. Len(typed) \in Nat /\ typed # <<>>
  BY <1>1, TypedIs
<1>3. PICK k : Unread(<<Newest>>, k, <<>>) /\ Told(handled, typed, since, Len(typed) - 1 + k)
  BY <1>2 DEF ClientInv, Pending, Newest
<1>4. Told(handled, typed, since, Len(typed))
  BY <1>1, <1>2, <1>3, AllTold
<1> QED BY <1>4 DEF Told
-----------------------------------------------------------------------------
(* The theorems: whatever the files, the lines typed and the sizes are.    *)

\* In the end every setting has the value of the last line of mycloud.conf that
\* names it, cut to the buffers it goes through, or its default
\* (config.c:74-111), whatever the clients do.
THEOREM SettingsHold == ClientSpec => []SettingsAsWritten
<1>1. ClientInit => FilesInv
  BY FilesInit DEF ClientInit
<1>2. FilesInv /\ [ClientRuns \/ (Next /\ UNCHANGED clientVars)]_<<vars, clientVars>> => FilesInv'
  <2>1. [ClientRuns \/ (Next /\ UNCHANGED clientVars)]_<<vars, clientVars>> => [Next]_vars
    BY DEF ClientRuns
  <2> QED BY <2>1, FilesNext
<1>3. FilesInv => SettingsAsWritten
  BY FilesSettings
<1> QED BY <1>1, <1>2, <1>3, PTL DEF ClientSpec

\* Who can log in is who is among the first MAX_USERS names of users.conf, and
\* nobody else (config.c:137-155, 233-249).
THEOREM LogInsHold == ClientSpec => []LogInAsWritten
<1>1. ClientInit => FilesInv
  BY FilesInit DEF ClientInit
<1>2. FilesInv /\ [ClientRuns \/ (Next /\ UNCHANGED clientVars)]_<<vars, clientVars>> => FilesInv'
  <2>1. [ClientRuns \/ (Next /\ UNCHANGED clientVars)]_<<vars, clientVars>> => [Next]_vars
    BY DEF ClientRuns
  <2> QED BY <2>1, FilesNext
<1>3. FilesInv => LogInAsWritten
  BY FilesLogIn
<1> QED BY <1>1, <1>2, <1>3, PTL DEF ClientSpec

\* What holds in every state of the client and the server's files.
LEMMA ClientHolds == ClientSpec => [](FilesInv /\ ClientInv)
<1>1. ClientInit => FilesInv /\ ClientInv
  BY FilesInit, ClientFirst DEF ClientInit
<1>2. (FilesInv /\ ClientInv) /\ [ClientRuns \/ (Next /\ UNCHANGED clientVars)]_<<vars, clientVars>>
        => (FilesInv /\ ClientInv)'
  BY ClientNext
<1> QED BY <1>1, <1>2, PTL DEF ClientSpec

\* A session belongs to a user whose name stands in users.conf and was typed as
\* a line of its own, and the prompt shows the name that the server has, whatever
\* lines follow (client.c:107-136, handle.c:155-180).
THEOREM LoginsHold == ClientSpec => []LoginAsTyped
<1>1. ClientInv => LoginAsTyped
  BY ClientLogin
<1> QED BY <1>1, ClientHolds, PTL

\* The commands that the server has run are what the lines typed since the login
\* say, one for one and in order (client.c:149-209, handle.c:65-142).
THEOREM CommandsHold == ClientSpec => []OneLineOneCommand
<1>1. ClientInv => OneLineOneCommand
  BY ClientCommands
<1> QED BY <1>1, ClientHolds, PTL
=============================================================================
