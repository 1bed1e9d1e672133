\* Critical sections run undisturbed; hosts come and go, sends fail.
CONSTANTS
  N = 3
  Buf = {b1, b2, b3, b4, b5}
  NULL = NULL
  MaxFrames = 5
  MaxConns = 2
  Preempt = FALSE
  Timeouts = FALSE
  SendFails = TRUE
SPECIFICATION Spec
SYMMETRY Blocks
INVARIANTS TypeOK SenderOwnsHead RingAgrees InOrder
PROPERTIES OnlyZeroingLeaks ImplementsFifo
CHECK_DEADLOCK FALSE
