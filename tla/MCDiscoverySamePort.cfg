SPECIFICATION Spec
CONSTANTS
  h1 = h1
  h2 = h2
  h3 = h3
  key = key
  Hashes = {h1, h2, h3}
  Unset = Unset
  CHUNK_PER_PACKET = 2
  USERBUF_SIZE = 5
  UINT_MAX = 255
  Chars = {key}
  Nodes <- Ids3
  Me = 3
  Address <- OnePort
  AnyIP = 0
  Loopback = 127
  Spiffy = FALSE
  MapFile <- Listed
  MasterFile <- Master
  HasFile <- Held
  GetFile <- Asked
  UCHAR_MAX = 3
  Buffered = 3
  MaxLosses = 1
INVARIANTS
  Attributed
CHECK_DEADLOCK FALSE
