SPECIFICATION FairSpec
CONSTANTS
  Buttons = {0}
  Debounce = 1
  OtaInterval = 3
  LongPress = 3
  OtaThreshold = 4
  Wrap = 6
INVARIANTS TypeOK RestReported
PROPERTIES EdgeReported NoChatter LongIsLong UpdateNeedsGesture
