-------------------------------- MODULE Utils --------------------------------
(***************************************************************************)
(* The string functions of src/src/common/utils.c, and the C library's     *)
(* fgets and snprintf as this program uses them.  A string is a sequence   *)
(* of characters without its terminator.                                   *)
(***************************************************************************)
EXTENDS Integers, Sequences, SequencesExt

Blank == {" ", "\t"}
NewLine == {"\n", "\r"}
Space == Blank \cup NewLine

\* The longest prefix over `chars`, of at most `limit` characters.
Span(str, chars, limit) ==
  LET end[i \in 0 .. Len(str)] ==
        IF i < Len(str) /\ i < limit /\ str[i + 1] \in chars THEN end[i + 1] ELSE i
  IN  SubSeq(str, 1, end[0])

Drop(str, n) == SubSeq(str, n + 1, Len(str))

\* snprintf and strncpy into a buffer of `size` bytes.
Fit(str, size) == IF Len(str) < size THEN str ELSE SubSeq(str, 1, size - 1)

\* What fgets takes off a stream into a buffer of `size` bytes.
Fgets(stream, size) ==
  LET text == Span(stream, Range(stream) \ {"\n"}, size - 1)
  IN  IF Len(text) < size - 1 /\ Len(text) < Len(stream) THEN Append(text, "\n") ELSE text

TrimNewline(str) ==
  LET end[i \in 0 .. Len(str)] ==
        IF i > 0 /\ str[i] \in NewLine THEN end[i - 1] ELSE i
  IN  SubSeq(str, 1, end[Len(str)])

\* A faulty trim_space that stops one short at the left.
TrimSpaceRightOnly(str) ==
  LET end[i \in 0 .. Len(str)] ==
        IF i > 0 /\ str[i] \in Blank THEN end[i - 1] ELSE i
  IN  SubSeq(str, 1, end[Len(str)])

TrimSpace(str) ==
  LET start[i \in 1 .. Len(str) + 1] ==
        IF i <= Len(str) /\ str[i] \in Blank THEN start[i + 1] ELSE i
      end[i \in 0 .. Len(str)] ==
        IF i >= start[1] /\ str[i] \in Blank THEN end[i - 1] ELSE i
  IN  SubSeq(str, start[1], end[Len(str)])

\* A faulty is_valid_name that lets the names of directories' own entries through.
IsValidNameDots(name) ==
  name # <<>> /\ Range(name) \cap ({"/", "\\"} \cup Blank) = {}

IsValidName(name) ==
  /\ name \notin {<<>>, <<".">>, <<".", ".">>}
  /\ Range(name) \cap ({"/", "\\"} \cup Blank) = {}

\* sscanf(input, "%31s %255[^\n]"), for buffers of cmdSize and argSize bytes;
\* and one that takes a single word for the argument.
SplitCommandWord(input, cmdSize, argSize) ==
  LET line == Drop(input, Len(Span(input, Space, Len(input))))
      cmd  == Span(line, Range(line) \ Space, cmdSize - 1)
      rest == Drop(line, Len(cmd))
      text == Drop(rest, Len(Span(rest, Space, Len(rest))))
      arg  == Span(text, Range(text) \ Space, argSize - 1)
  IN  [cmd |-> cmd, arg |-> arg,
       count |-> IF line = <<>> THEN -1 ELSE IF arg = <<>> THEN 1 ELSE 2]

SplitCommand(input, cmdSize, argSize) ==
  LET line == Drop(input, Len(Span(input, Space, Len(input))))
      cmd  == Span(line, Range(line) \ Space, cmdSize - 1)
      rest == Drop(line, Len(cmd))
      text == Drop(rest, Len(Span(rest, Space, Len(rest))))
      arg  == Span(text, Range(text) \ {"\n"}, argSize - 1)
  IN  [cmd |-> TrimSpace(cmd), arg |-> TrimSpace(arg),
       count |-> IF line = <<>> THEN -1 ELSE IF arg = <<>> THEN 1 ELSE 2]

\* The paths ensure_dir calls mkdir on, in order: each ends before a '/'
\* (which is never the first character), the last one is the whole path.
DirPrefixes(path, size) ==
  LET cut  == Fit(path, size)
      temp == IF cut[Len(cut)] = "/" THEN Front(cut) ELSE cut
      upTo[i \in 0 .. Len(temp)] ==
        IF i = 0 THEN <<>>
        ELSE upTo[i - 1] \o (IF i > 1 /\ temp[i] = "/" THEN <<SubSeq(temp, 1, i - 1)>> ELSE <<>>)
  IN  Append(upTo[Len(temp)], temp)
=============================================================================
