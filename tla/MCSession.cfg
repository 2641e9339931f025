SPECIFICATION FairSpec
CONSTANTS
  Ann = Ann
  Bob = Bob
  N = 2
  FullPacket = 2
  LastPacket = 1
  Downloaders <- Pair
  Wants <- PairWants
  MaxConn = 2
  Garbage <- Zero
  Mishaps <- AcksSafe
  MaxMishaps = 3
INVARIANTS
  TypeOK
  OneSlotPerPeer
  ChunksNotMixed
  UploaderSurvives
  CompletedUploads
  StaysServed
PROPERTIES
  ImplementsSerial
  SerialDownload
