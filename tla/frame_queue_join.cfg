\* The host leaves before the sender thread has started.
CONSTANTS
  N = 2
  Buf = {b1, b2, b3}
  NULL = NULL
  MaxFrames = 2
  MaxConns = 2
  Preempt = FALSE
  Timeouts = FALSE
  SendFails = FALSE
SPECIFICATION FairSpec
PROPERTIES JoinReturns
CHECK_DEADLOCK FALSE
