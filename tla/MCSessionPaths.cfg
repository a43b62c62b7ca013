CONSTANTS
  Sessions = {s1, s2}
  Users <- MCUsers
  Names <- MCNames
  DataRoot <- MCDataRoot
  MaxPath = 9
  MaxDepth = 2
  MaxObjects = 5
SPECIFICATION Spec
INVARIANTS
  PathsStayHome
  StandsSomewhere
PROPERTY HomesSpec
CHECK_DEADLOCK FALSE
