------------------------------- MODULE Listing -------------------------------
(***************************************************************************)
(* handle_ls of src/src/server/handle.c: a directory is read entry by      *)
(* entry into a buffer while other sessions of the user create and remove  *)
(* entries.                                                                *)
(*                                                                         *)
(* A name is a model value with a length.  The buffer is the sequence of   *)
(* what snprintf put into it: a name, where in the buffer, and how many of *)
(* the bytes of the name and its newline found room.                       *)
(***************************************************************************)
EXTENDS Naturals, Sequences

CONSTANTS Names,
          Length,       \* the length of each name
          ResponseSize  \* MAX_RESPONSE_SIZE

\* One name always fits (NAME_MAX is 255).
ASSUME ListingAssumption ==
  /\ Length \in [Names -> Nat \ {0}]
  /\ ResponseSize \in Nat \ {0}
  /\ \A n \in Names : Length[n] + 2 <= ResponseSize

VARIABLES
  entries, \* the directory
  lister,  \* where handle_ls is
  result,  \* its buffer
  used,    \* bytes of it the code counts
  offered, \* names readdir may still return
  steady   \* history: names that were there all the time since opendir

vars == <<entries, lister, result, used, offered, steady>>

Init ==
  /\ entries \in SUBSET Names
  /\ lister = "idle"
  /\ result = <<>>
  /\ used = 0
  /\ offered = {}
  /\ steady = {}

\* Other sessions.  What was created or removed after opendir may be returned,
\* also twice, or not: readdir says nothing of it.
Create(n) ==
  /\ n \notin entries
  /\ entries' = entries \cup {n}
  /\ offered' = offered \cup {n}
  /\ UNCHANGED <<lister, result, used, steady>>

Unlink(n) ==
  /\ n \in entries
  /\ entries' = entries \ {n}
  /\ steady' = steady \ {n}
  /\ UNCHANGED <<lister, result, used, offered>>

OpenDir ==
  /\ lister = "idle"
  /\ lister' = "reading"
  /\ steady' = entries
  /\ offered' = entries
  /\ result' = <<>> /\ used' = 0
  /\ entries' = entries

\* The path cannot be built or opened: an error, not a listing.
OpenDirFails ==
  /\ lister = "idle"
  /\ lister' = "refused"
  /\ UNCHANGED <<entries, result, used, offered, steady>>

Least(m, n) == IF m < n THEN m ELSE n

Line(n, at, bytes) == [name |-> n, at |-> at, bytes |-> bytes]

\* Whether name and newline fit with the terminator; and without it (faulty).
WholeUnterminated(n, room) == Length[n] + 1 <= room
Whole(n, room) == Length[n] + 1 < room

\* snprintf puts the line, or what there is room for, behind the ones before;
\* a line that did not fit ends the loop.
Put(n, room) ==
  LET whole == Whole(n, room)
  IN  /\ lister = "reading"
      /\ n \in offered
      /\ offered' = offered \ {n}
      /\ result' = Append(result, Line(n, used, Least(Length[n] + 1, room - 1)))
      /\ used' = IF whole THEN used + Length[n] + 1 ELSE used
      /\ lister' = IF whole THEN "reading" ELSE "full"
      /\ UNCHANGED <<entries, steady>>

\* One turn of the loop; and one that passes the size of the whole buffer.
ReadDirUnbounded(n) == Put(n, ResponseSize)
ReadDir(n) == Put(n, ResponseSize - used)

\* readdir returns NULL once it is through with what was there all the time.
EndOfDir ==
  /\ lister = "reading"
  /\ steady \cap offered = {}
  /\ lister' = "read"
  /\ UNCHANGED <<entries, result, used, offered, steady>>

\* closedir; an empty listing is told apart by `used`, not by the buffer.
Empty == <<>>
Respond ==
  /\ lister \in {"read", "full"}
  /\ lister' = IF lister = "full" THEN "cut" ELSE "sent"
  /\ result' = IF used = 0 THEN Empty ELSE result
  /\ UNCHANGED <<entries, used, offered, steady>>

Again ==
  /\ lister \in {"cut", "sent", "refused"}
  /\ lister' = "idle"
  /\ UNCHANGED <<entries, result, used, offered, steady>>

Next ==
  \/ OpenDir \/ OpenDirFails \/ EndOfDir \/ Respond \/ Again
  \/ \E n \in Names : Create(n) \/ Unlink(n) \/ ReadDir(n)

Spec == Init /\ [][Next]_vars
-----------------------------------------------------------------------------
Listed == {result[i].name : i \in DOMAIN result}
IsWhole(i) == result[i].bytes = Length[result[i].name] + 1

End(i) == result[i].at + result[i].bytes

\* Each line with the terminator stays inside the buffer, and no line is put
\* over one that is there: it begins where the one before ends (handle.c:228-233).
BufferNeverOverrun ==
  \A i \in DOMAIN result :
    /\ End(i) < ResponseSize
    /\ result[i].at = IF i = 1 THEN 0 ELSE End(i - 1)

\* Whatever other sessions create and remove meanwhile: only the last line of
\* a listing that was cut may be a part of one, a listing that was not cut has
\* every name that was there throughout, and the client reads that the
\* directory is empty only when nothing was there throughout (handle.c:219-241).
ListingIsTrue ==
  /\ \A i \in DOMAIN result :
       IsWhole(i) \/ (i = Len(result) /\ lister \in {"full", "cut", "idle", "refused"})
  /\ lister = "sent" => steady \subseteq Listed
  /\ lister = "cut" => result # Empty
=============================================================================
