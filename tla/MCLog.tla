-------------------------------- MODULE MCLog --------------------------------
EXTENDS Log, TLC

WorkerSymmetry == Permutations(Workers)
=============================================================================
