\* Short frames, frames that nearly fill the ring, larger ones; bad frames and noise between.
CONSTANTS
  BufLen = 9
  MinFrame = 3
  Tag = 1
  FirstRead = 5
  Lens = {3, 8, 11}
  Lies <- MCLies
  Noise = {1}
  MaxItems = 3
SPECIFICATION FairSpec
INVARIANTS TypeOK BytesInOrder DeliveredInOrder RingBack StuckOnlyOnLong
PROPERTIES FollowedDelivered
CHECK_DEADLOCK FALSE
