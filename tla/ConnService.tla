----------------------------- MODULE ConnService -----------------------------
(***************************************************************************)
(* What the server promises about client connections, with no mutex,       *)
(* condition variable, linked list or program counter in sight.            *)
(*                                                                         *)
(* A connection that arrives is either turned away at once or put in a     *)
(* line.  A free desk serves the connection at the head of the line and no *)
(* other, keeps it until the session is over, and then closes it.  Every   *)
(* connection is closed exactly once.  A connection that was put in line   *)
(* is dropped without being served only when there is no desk at all.  The *)
(* service ends with nothing in line and nobody at a desk.                 *)
(***************************************************************************)
EXTENDS Naturals, Sequences

CONSTANTS Desks, Conns, None

VARIABLES arriving, line, desk, finished, ended

serviceVars == <<arriving, line, desk, finished, ended>>

InLine(c) == \E i \in DOMAIN line : line[i] = c

AtDesk(c) == \E d \in Desks : desk[d] = c

\* A connection the service has not met yet.
Unknown(c) == c # arriving /\ ~InLine(c) /\ ~AtDesk(c) /\ c \notin finished

Init ==
  /\ arriving = None
  /\ line = <<>>
  /\ desk = [d \in Desks |-> None]
  /\ finished = {}
  /\ ended = FALSE

Arrive(c) ==
  /\ ~ended
  /\ arriving = None
  /\ Unknown(c)
  /\ arriving' = c
  /\ UNCHANGED <<line, desk, finished, ended>>

JoinLine ==
  /\ arriving # None
  /\ line' = Append(line, arriving)
  /\ arriving' = None
  /\ UNCHANGED <<desk, finished, ended>>

TurnAway ==
  /\ arriving # None
  /\ finished' = finished \cup {arriving}
  /\ arriving' = None
  /\ UNCHANGED <<line, desk, ended>>

Serve(d) ==
  /\ line # <<>>
  /\ desk[d] = None
  /\ desk' = [desk EXCEPT ![d] = Head(line)]
  /\ line' = Tail(line)
  /\ UNCHANGED <<arriving, finished, ended>>

Leave(d) ==
  /\ desk[d] # None
  /\ desk[d] \notin finished
  /\ finished' = finished \cup {desk[d]}
  /\ desk' = [desk EXCEPT ![d] = None]
  /\ UNCHANGED <<arriving, line, ended>>

Drop ==
  /\ Desks = {}
  /\ line # <<>>
  /\ Head(line) \notin finished
  /\ finished' = finished \cup {Head(line)}
  /\ line' = Tail(line)
  /\ UNCHANGED <<arriving, desk, ended>>

End ==
  /\ ~ended
  /\ arriving = None
  /\ line = <<>>
  /\ \A d \in Desks : desk[d] = None
  /\ ended' = TRUE
  /\ UNCHANGED <<arriving, line, desk, finished>>

Next ==
  \/ \E c \in Conns : Arrive(c)
  \/ JoinLine \/ TurnAway \/ Drop \/ End
  \/ \E d \in Desks : Serve(d) \/ Leave(d)

Spec == Init /\ [][Next]_serviceVars
=============================================================================
