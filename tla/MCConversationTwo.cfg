CONSTANTS
  s1 = s1
  s2 = s2
  f = f
  Sessions = {s1, s2}
  Names = {f}
  BadNames = {}
  Ops = {"mkdir", "rm", "puts", "gets"}
  FileLens = {1, 3}
  BufLen = 2
  Backlog = 0
  DiskFails = FALSE
  LocalChanges = FALSE
  None = None
SPECIFICATION Spec
SYMMETRY Symmetry
INVARIANTS
  InStepUnlessDisturbed
  HalfDuplexUnlessDisturbed
  WrittenAsReceived
