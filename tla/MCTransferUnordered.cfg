SPECIFICATION Spec
CONSTANTS
  N = 3
  FullPacket = 2
  LastPacket = 1
  Cap = 5
  Mishaps <- Unordered
  MaxMishaps = 1
  Timely = FALSE
INVARIANTS
  SafeInv
PROPERTIES
  NeverRefetched
CHECK_DEADLOCK FALSE
