CONSTANTS
  s1 = s1
  f = f
  bad = bad
  Sessions = {s1}
  Names = {f}
  BadNames = {bad}
  Ops = {"list", "mkdir", "rm", "puts", "gets", "quit"}
  FileLens = {0, 3}
  BufLen = 2
  Backlog = 1
  DiskFails = TRUE
  LocalChanges = TRUE
  None = None
SPECIFICATION FairSpec
INVARIANTS
  InStepUnlessDisturbed
  
PROPERTIES
  EveryCommandEnds
  AbandonedSessionEnds
