------------------------------- MODULE Channel -------------------------------
(***************************************************************************)
(* What protocol.c promises to its callers: messages arrive one by one, in *)
(* order, each as it was sent, except that a string is cut to fit the      *)
(* buffer of the caller that receives it.  No bytes, lengths or pieces.    *)
(***************************************************************************)
EXTENDS Naturals, Sequences

CONSTANTS Values,     \* lengths of strings, and file sizes
          Limits,     \* sizes of the buffers strings are received into
          SizeTurns   \* the messages, by number, that are file sizes

VARIABLES said, heard

channelVars == <<said, heard>>

\* The first k characters of message m.
Chars(m, k) == [i \in 1 .. k |-> <<m, i>>]

Text(chars) == [text |-> chars, size |-> 0]
FileSize(n) == [text |-> <<>>, size |-> n]

\* What is left of n characters in a buffer of `limit`, with its terminator.
Fitting(n, limit) == IF n < limit THEN n ELSE limit - 1

Init == said = <<>> /\ heard = <<>>

Say(n) ==
  /\ said' = Append(said, n)
  /\ heard' = heard

Hear(limit) ==
  LET m == Len(heard) + 1
  IN  /\ m <= Len(said)
      /\ heard' = Append(heard, IF m \in SizeTurns THEN FileSize(said[m])
                                ELSE Text(Chars(m, Fitting(said[m], limit))))
      /\ said' = said

Next == (\E n \in Values : Say(n)) \/ (\E limit \in Limits : Hear(limit))

Spec == Init /\ [][Next]_channelVars
=============================================================================
