CONSTANTS
  Values = {0, 2, 3, 5}
  Limits = {3}
  SizeTurns = {2}
  IntBytes = 2
  OffBytes = 3
  Piece = 2
  Capacity = 3
  Misread <- MCMisread
  SizeMax = 16
  Leftover = 3
  MaxMessages = 3
SPECIFICATION FairSpec
INVARIANTS
  InStep
  BufferNeverOverrun
PROPERTIES
  ChannelSpec
  EveryMessageArrives
