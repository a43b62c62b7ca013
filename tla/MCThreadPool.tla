---------------------------- MODULE MCThreadPool ----------------------------
(* Model values for ThreadPool.  Workers and connections are               *)
(* interchangeable, so the safety runs use their permutations; the runs    *)
(* with liveness properties do not.                                        *)
EXTENDS ThreadPool, TLC

Symmetry == Permutations(Workers) \cup Permutations(Conns)
=============================================================================
