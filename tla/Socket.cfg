SPECIFICATION FairSpec
CONSTANTS
  SeqSize = 32
  MAX_PAYLOAD_SIZE = 1
  rt_timeout = 1
  WinMod = 8
  recv_capacity = 4
  send_capacity = 1
  copy_capacity = 1
  pipe_capacity = 1
  MAX_RETX_ATTEMPTS = 1
  linger_factor = 2
  Scenarios <- AllScenarios
INVARIANTS
  DeliveredInFull
  CancelChangesNothing
  NeverKilled
  WaitMeansClosed
PROPERTIES
  OwnerReturns
CHECK_DEADLOCK FALSE
