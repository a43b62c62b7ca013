-------------------------------- MODULE Fifo --------------------------------
(***************************************************************************)
(* What callers of the task queue rely on: descriptors come out in the     *)
(* order they went in, each once.                                          *)
(***************************************************************************)
EXTENDS Sequences

CONSTANTS Fds, NoFd

VARIABLES
  line,  \* the descriptors in the queue, oldest first
  got    \* the last one that was taken out

Init == line = <<>> /\ got = NoFd

Put(fd) == line' = Append(line, fd) /\ got' = got

Take == line # <<>> /\ got' = Head(line) /\ line' = Tail(line)

Next == Take \/ \E fd \in Fds : Put(fd)

Spec == Init /\ [][Next]_<<line, got>>
=============================================================================
