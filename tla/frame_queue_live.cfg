\* Undisturbed critical sections, fair threads: queued frames move on.
CONSTANTS
  N = 2
  Buf = {b1, b2, b3, b4}
  NULL = NULL
  MaxFrames = 3
  MaxConns = 2
  Preempt = FALSE
  Timeouts = FALSE
  SendFails = TRUE
SPECIFICATION FairSpec
PROPERTIES FramesMove JoinReturnsOnceStarted
CHECK_DEADLOCK FALSE
