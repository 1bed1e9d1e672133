\* FrameQBusy as a semaphore, no wait runs out.
CONSTANTS
  N = 2
  Buf = {b1, b2, b3}
  NULL = NULL
  MaxFrames = 3
  MaxConns = 1
  Preempt = TRUE
  Timeouts = FALSE
  SendFails = FALSE
SPECIFICATION Spec
INVARIANTS OneInside
CHECK_DEADLOCK FALSE
