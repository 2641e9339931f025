SPECIFICATION FairSpec
CONSTANTS
  N = 7
  FullPacket = 2
  LastPacket = 1
  Cap = 7
  Mishaps <- Losses
  MaxMishaps = 2
  Timely = TRUE
PROPERTIES
  UploadEnds
  DownloadEnds
  EveryPacketArrives
  ChunkIsOwned
