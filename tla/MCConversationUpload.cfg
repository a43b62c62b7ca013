CONSTANTS
  s1 = s1
  f = f
  Sessions = {s1}
  Names = {f}
  BadNames = {}
  Ops = {"mkdir", "puts"}
  FileLens = {1}
  BufLen = 1
  Backlog = 1
  DiskFails = FALSE
  LocalChanges = FALSE
  None = None
SPECIFICATION Spec
INVARIANTS
  CommandsAreCommands
