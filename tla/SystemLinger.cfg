SPECIFICATION Spec
CONSTANTS
  SeqSize = 16
  MAX_PAYLOAD_SIZE = 1
  rt_timeout = 1
  WinMod = 4
  TickSizes = {1}
  MaxStored = 2
  MaxSkew = 1
  recv_capacity = 2
  send_capacity = 2
  isn <- Isns
  MAX_RETX_ATTEMPTS = 8
  linger_factor = 10
  Scenarios <- OneLost
INVARIANTS
  LingeringConvinces
CHECK_DEADLOCK FALSE
