CONSTANTS
  Workers = {w1, w2}
  Main = main
  Levels = {0, 1}
  MaxMessages = 2
SPECIFICATION Spec
 
INVARIANT NeverAfterClose
SYMMETRY WorkerSymmetry
CHECK_DEADLOCK FALSE
