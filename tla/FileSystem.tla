----------------------------- MODULE FileSystem -----------------------------
(***************************************************************************)
(* The kernel's lookup of a path, as the program relies on it.  A disk is  *)
(* a function from what exists to what it is ("dir" or "file"), a place on *)
(* it the sequence of names that lead there from the top.                  *)
(***************************************************************************)
EXTENDS Sequences, SequencesExt

Root == "/"
Slash == <<Root>>

\* The names between the slashes.
Components(path) ==
  LET parts[i \in 0 .. Len(path)] ==
        IF i = 0 THEN << <<>> >>
        ELSE LET before == parts[i - 1]
             IN  IF path[i] = Root THEN Append(before, <<>>)
                 ELSE [before EXCEPT ![Len(before)] = Append(@, path[i])]
  IN  parts[Len(path)]

Nowhere == << <<Root>> >>

IsDir(disk, at) == at = <<>> \/ (at \in DOMAIN disk /\ disk[at] = "dir")

\* One step of a lookup, and the lookup of names one after the other.
Step(disk, at, name) ==
  IF ~IsDir(disk, at) THEN Nowhere
  ELSE CASE name \in {<<>>, <<".">>} -> at
         [] name = <<".", ".">>      -> IF at = <<>> THEN at ELSE Front(at)
         [] OTHER                    -> Append(at, name)

Walk(disk, names) ==
  LET reached[i \in 0 .. Len(names)] ==
        IF i = 0 THEN <<>> ELSE Step(disk, reached[i - 1], names[i])
  IN  reached[Len(names)]

Resolve(disk, path) == Walk(disk, Components(path))

Exists(disk, at) == at = <<>> \/ at \in DOMAIN disk
Put(disk, at, what) == [p \in DOMAIN disk \cup {at} |-> IF p = at THEN what ELSE disk[p]]
=============================================================================
