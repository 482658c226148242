SPECIFICATION ReassemblerSpec
CONSTANTS
  capacity = 5
  StreamLength = 7
  MaxStored = 4
  Senders <- EverySender
INVARIANTS
  OutputIsPrefix
  OutputIsContiguous
  EndIsRemembered
  CallsReturn
CHECK_DEADLOCK FALSE
