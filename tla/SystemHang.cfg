SPECIFICATION Spec
CONSTANTS
  SeqSize = 16
  MAX_PAYLOAD_SIZE = 1
  rt_timeout = 1
  WinMod = 4
  TickSizes = {1}
  MaxStored = 2
  MaxSkew = 1
  recv_capacity = 2
  send_capacity = 2
  isn <- Isns
  MAX_RETX_ATTEMPTS = 1
  linger_factor = 2
  Scenarios <- NoFault
INVARIANTS
  NeverHangs
CHECK_DEADLOCK FALSE
