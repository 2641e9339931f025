SPECIFICATION Spec
CONSTANTS
  N = 3
  FullPacket = 2
  LastPacket = 1
  Cap = 3
  Mishaps <- Losses
  MaxMishaps = 2
  Timely = FALSE
INVARIANTS
  TypeOK
  WindowIsARun
  AckedWasReceived
  NeverIdle
  FastRetransmitFindsHead
  FifoInv
PROPERTIES
  NeverRefetched
  ImplementsDelivery
  OverrunNeedsRepeat
