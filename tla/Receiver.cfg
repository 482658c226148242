SPECIFICATION Spec
CONSTANTS
  SeqSize = 32
  capacity = 6
  PeerIsn = 29
  StreamLength = 9
  MaxStored = 4
  Peers <- AnyPeer
INVARIANTS
  AckedIsWritten
  AckFollowsOutput
  AckIsExact
PROPERTIES
  WindowNeverShrinks
CHECK_DEADLOCK FALSE
