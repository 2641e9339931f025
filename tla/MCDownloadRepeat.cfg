SPECIFICATION FairSpec
CONSTANTS
  Ann = Ann
  Bob = Bob
  Cy = Cy
  NoStream = NoStream
  C = 2
  Peers <- Single
  Owns <- SingleOwns
  Stable <- Single
  Reliable <- Single
  MaxLosses = 0
  MaxConn = 2
  PerPacket = 2
  MaxRequests = 1
  Late = 1
INVARIANTS
  OwnedChunksInFile
