SPECIFICATION Spec
CONSTANTS
  SeqSize = 32
  capacity = 6
  PeerIsn = 29
  StreamLength = 9
  MaxStored = 4
  Peers <- PeerFinAlone
INVARIANTS
  AckIsFirstNotReceived
CHECK_DEADLOCK FALSE
