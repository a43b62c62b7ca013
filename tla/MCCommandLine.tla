---------------------------- MODULE MCCommandLine ----------------------------
(* Files and typed lines for Config and CommandLine.                       *)
EXTENDS CommandLine

Ip == <<"i", "p">>
Threads == <<"t">>
LogLevel == <<"l">>
MCTextKeys == {Ip}
MCNumberKeys == {Threads}
MCDefault == Ip :> <<"h">> @@ Threads :> 4 @@ LogLevel :> "INFO"
MCTextSize == Ip :> 4

\* Settings with and without blanks, a key twice, numbers that are none, a
\* comment, lines without a key or a value.
ConfLines ==
  { <<"i", "p", "=", "a">>, <<" ", "i", "p", " ", "=", " ", "a", "b", "c", "d">>,
    <<"t", "=", "1", "2", "x">>, <<"t", " ", "=", "x">>, <<"t", "=">>,
    <<"l", "=", "D", "E", "B", "U", "G">>, <<"l", "=", "D">>, <<"#", "t", "=", "3">>,
    <<"=", "3">>, <<"t">>, <<>>, <<"i", "p", "=", "=", "\t">>,
    <<"i", "p", "=", "a", " ", " ", " ", " ", " ", "b">> }
UserLines ==
  { <<"a">>, <<"a", "l">>, <<" ", "a", "l", "i", "c", "\t">>, <<"#", "b">>, <<" ">>, <<"\t", "#">>, <<>> }
UpTo(n, lines) == UNION {[1 .. k -> lines] : k \in 0 .. n}

\* Each file in every form, and one server that clients are run against.
MCServed == { [conf |-> <<>>, names |-> << <<"a">>, <<"#", "c">>, <<" ", "b", "o", "b">> >>] }
MCFilePairs == {[conf |-> c, names |-> <<>>] : c \in UpTo(3, ConfLines)}
                 \cup {[conf |-> <<>>, names |-> u] : u \in UpTo(4, UserLines)} \cup MCServed

\* Names, commands with and without arguments, blanks in every place, and a
\* line that does not fit.
MCLines ==
  { <<>>, <<"a">>, <<" ", "a">>, <<"a", " ", "b">>, <<"b", "o", "b">>,
    QuitWord, <<" ", "l", "s", " ", " ">>,
    <<"r", "m">>, <<"r", "m", " ", "a">>, <<"r", "m", " ", " ", "a", " ", "b", "\t">>,
    <<"p", "u", "t", "s", "\t", "x">>, <<"c", "d", " ", "a", "b", "c">>,
    <<"m", "k", "d", "i", "r", "s", " ", "a">>,
    <<"c", "d", " ">> \o [i \in 1 .. 7 |-> "x"] \o <<"l", "s">> }
=============================================================================
