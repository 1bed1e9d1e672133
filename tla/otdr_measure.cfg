\* The processing thread keeps up with the acquisition's sleeps.
CONSTANTS
  Pieces = 3
  Period = 1
  MaxStarts = 3
  Prompt = TRUE
SPECIFICATION FairSpec
INVARIANTS TypeOK
PROPERTIES FinalDelivered FinalCopyAlone ParametersKept AvgEnds StopReturnsOnceRunning
CHECK_DEADLOCK FALSE
