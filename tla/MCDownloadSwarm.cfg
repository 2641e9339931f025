SPECIFICATION FairSpec
CONSTANTS
  Ann = Ann
  Bob = Bob
  Cy = Cy
  NoStream = NoStream
  C = 3
  Peers <- Swarm
  Owns <- SwarmOwns
  Stable <- SwarmStays
  Reliable <- SwarmStays
  MaxLosses = 2
  MaxConn = 3
  PerPacket = 3
  MaxRequests = 2
  Late = 1
INVARIANTS
  TypeOK
  BooksAgree
  NoIdleProvider
  KeepsWorking
  LaterChunksStay
PROPERTIES
  OwnedStaysOwned
  ImplementsRequest
  RequestCompletes
