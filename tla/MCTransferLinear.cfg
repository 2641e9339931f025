SPECIFICATION Spec
CONSTANTS
  N = 5
  FullPacket = 2
  LastPacket = 1
  Cap = 5
  Mishaps <- Losses
  MaxMishaps = 1
  Timely = TRUE
PROPERTIES
  LinearAboveHalf
