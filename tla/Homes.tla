-------------------------------- MODULE Homes --------------------------------
(***************************************************************************)
(* What the server promises about directories: each user has a directory   *)
(* of his own, a session stands at a place in or below that of its user,   *)
(* and a command is about the entry of that name at that place.  No path   *)
(* strings, no buffers.                                                    *)
(***************************************************************************)
EXTENDS Naturals, Sequences

CONSTANTS Sessions, Users,
          Names,     \* what may be given as an argument
          Valid(_)   \* the names that may be used

VARIABLES
  place,  \* session -> the path it stands at, which starts with its user's name
  tree,   \* path -> "dir" or "file", for all that exists
  answer  \* the last reply, to whom and to what command

homeVars == <<place, tree, answer>>

\* The place of a session that has not logged in.
Outside == <<>>

Reply(s, ask, ok) == [to |-> s, ask |-> ask, ok |-> ok, text |-> <<>>, names |-> {}]

Entry(s, name) == Append(place[s], name)
Is(s, name, kind) == Entry(s, name) \in DOMAIN tree /\ tree[Entry(s, name)] = kind
Put(path, kind) == [p \in DOMAIN tree \cup {path} |-> IF p = path THEN kind ELSE tree[p]]

Init ==
  /\ place = [s \in Sessions |-> Outside]
  /\ tree = [p \in {<<u>> : u \in Users} |-> "dir"]
  /\ answer \in {Reply(s, <<>>, FALSE) : s \in Sessions}

Login(s, u) ==
  /\ place[s] = Outside
  /\ answer' = Reply(s, <<"login", u>>, TRUE)
  /\ place' = [place EXCEPT ![s] = <<u>>]
  /\ tree' = tree

Deny(s) ==
  /\ \/ \E u \in Users \cup Names :
          (place[s] # Outside \/ u \notin Users) /\ answer' = Reply(s, <<"login", u>>, FALSE)
     \/ place[s] = Outside /\ answer' = Reply(s, <<"other">>, FALSE)
  /\ UNCHANGED <<place, tree>>

Where(s) ==
  /\ answer' = [Reply(s, <<"pwd">>, TRUE) EXCEPT !.text = Tail(place[s])]
  /\ UNCHANGED <<place, tree>>

List(s) ==
  /\ answer' = [Reply(s, <<"ls">>, TRUE) EXCEPT !.names = {n \in Names : Entry(s, n) \in DOMAIN tree}]
  /\ UNCHANGED <<place, tree>>

Up(s) ==
  /\ answer' = Reply(s, <<"cd">>, TRUE)
  /\ place' = [place EXCEPT ![s] = IF Len(@) = 1 THEN @ ELSE SubSeq(@, 1, Len(@) - 1)]
  /\ tree' = tree

\* cd and gets succeed exactly if there is an entry of that kind.
Enter(s, name) ==
  LET ok == Valid(name) /\ Is(s, name, "dir")
  IN  /\ answer' = Reply(s, <<"cd", name>>, ok)
      /\ place' = IF ok THEN [place EXCEPT ![s] = Append(@, name)] ELSE place
      /\ tree' = tree

Fetch(s, name) ==
  /\ answer' = Reply(s, <<"gets", name>>, Valid(name) /\ Is(s, name, "file"))
  /\ UNCHANGED <<place, tree>>

\* mkdir, rm and puts change that entry and no other, or are refused, by the
\* rules or by the disk.
Change(s, ask, possible, newTree) ==
  /\ place' = place
  /\ \/ possible /\ answer' = Reply(s, ask, TRUE) /\ tree' = newTree
     \/ answer' = Reply(s, ask, FALSE) /\ tree' = tree

Make(s, name) ==
  Change(s, <<"mkdir", name>>, Valid(name) /\ Entry(s, name) \notin DOMAIN tree,
         Put(Entry(s, name), "dir"))

Remove(s, name) ==
  Change(s, <<"rm", name>>, Valid(name) /\ Is(s, name, "file"),
         [p \in DOMAIN tree \ {Entry(s, name)} |-> tree[p]])

Store(s, name) ==
  Change(s, <<"puts", name>>, Valid(name) /\ ~Is(s, name, "dir"), Put(Entry(s, name), "file"))

Next ==
  \E s \in Sessions :
    \/ \E u \in Users : Login(s, u)
    \/ Deny(s)
    \/ /\ place[s] # Outside
       /\ \/ Where(s) \/ List(s) \/ Up(s)
          \/ \E name \in Names :
               Enter(s, name) \/ Fetch(s, name) \/ Make(s, name) \/ Remove(s, name) \/ Store(s, name)

Spec == Init /\ [][Next]_homeVars
=============================================================================
