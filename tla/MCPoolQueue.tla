----------------------------- MODULE MCPoolQueue -----------------------------
(* Model values for PoolQueue.  Workers, connections and addresses are     *)
(* interchangeable.                                                        *)
EXTENDS PoolQueue, TLC

Symmetry == Permutations(Workers) \cup Permutations(Conns) \cup Permutations(Nodes)
=============================================================================
