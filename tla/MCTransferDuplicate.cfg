SPECIFICATION Spec
CONSTANTS
  N = 3
  FullPacket = 2
  LastPacket = 1
  Cap = 3
  Mishaps <- Losses
  MaxMishaps = 1
  Timely = TRUE
PROPERTIES
  IgnoresHistorical
