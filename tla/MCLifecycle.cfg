CONSTANTS
  Workers = {w1, w2}
  Clients = {c1, c2, c3}
  Main = main
  Free = free
  MaxFd = 3
  Signals = 1
SPECIFICATION FairSpec
INVARIANTS
  
  EveryNumberIsHeld
PROPERTIES
  SignalStopsServer
  BacklogIsAccepted
