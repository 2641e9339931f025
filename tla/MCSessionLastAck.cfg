SPECIFICATION FairSpec
CONSTANTS
  Ann = Ann
  Bob = Bob
  N = 3
  FullPacket = 2
  LastPacket = 1
  Downloaders <- One
  Wants <- OneWants
  MaxConn = 2
  Garbage <- Leftovers
  Mishaps <- AckLoss
  MaxMishaps = 1
PROPERTIES
  SerialDownload
CHECK_DEADLOCK FALSE
