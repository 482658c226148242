SPECIFICATION FairSpec
CONSTANTS
  SeqSize = 16
  MAX_PAYLOAD_SIZE = 2
  rt_timeout = 2
  send_capacity = 3
  Isn = 13
  MAX_RETX_ATTEMPTS = 1
  Windows = {0, 1, 2, 4}
  TickSizes = {1, 3}
  MaxBytes = 5
INVARIANTS
  UnackedIsOutstanding
  InFlightIsOutstanding
  TimerRunsIffOutstanding
  NothingStranded
  FinFollowsLastByte
PROPERTIES
  WithinWindow
  ResendsOldest
  RetransmitsUntilAcked
