\* The processing thread keeps up with the acquisition's sleeps.
CONSTANTS
  Pieces = 3
  Period = 1
  MaxStarts = 2
  Prompt = TRUE
SPECIFICATION FairSpec

PROPERTIES StopReturns
CHECK_DEADLOCK FALSE
