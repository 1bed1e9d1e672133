SPECIFICATION FairSpec
CONSTANTS
    N = 25
    M = 1
    EventDis = 1
    MinWidth = 1
    MaxCount = 2
    TailLen = 2
    MaxEvents = 6
    MaxPieces = 3
    ConcatPoint = 4
    Gap = 3
    Inputs <- MCInputs
INVARIANTS TypeOK Ordered SatIndicesFresh SaturationKept EmptyOnlyIfNothingFound
INVARIANTS OneEnd NumbersOfTheirEvents 
PROPERTY ReportEnds
CHECK_DEADLOCK FALSE
