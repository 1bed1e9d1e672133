\* A frame that fits the ring but not what is left of it after a wrap.
CONSTANTS
  BufLen = 9
  MinFrame = 3
  Tag = 1
  FirstRead = 5
  Lens = {3, 8}
  Lies = {}
  Noise = {1}
  MaxItems = 3
SPECIFICATION FairSpec
PROPERTIES FittingDelivered
CHECK_DEADLOCK FALSE
