\* Either log: two writers and an expiry over three days; three starts in two seconds.
SPECIFICATION EitherSpec
CONSTANTS
  Writers = {w1, w2}
  RecordMax = 3
  NumDateSave = 1
  DayLength = 2
  MaxDay = 2
  MaxWrites = 5
  MaxCrashes = 2
  NoOne = NoOne
  s_log = 3
  s_total = 3
  MAX_LAST_LOG = 2
  Base = 2
  Sizes = {2, 7}
  MaxStarts = 3
  MaxSeconds = 1
  MaxWritten = 7
SYMMETRY Threads
INVARIANTS TypeOK NewestKept ReadBack FilesJoin
PROPERTIES OldestExpires LogsReachDisk
CHECK_DEADLOCK FALSE
