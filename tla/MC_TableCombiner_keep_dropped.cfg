CONSTANTS
  FrameIds = {1, 2}
  Poses = {1, 2}
  Times = {1, 2, 3}
  FrameIndexes = {0, 1}
  MaxAccesses = 2
  ClientTrackingArgs = {FALSE}
  KeepDroppedArgs = {TRUE}
  NaN = NaN
  None = None
SPECIFICATION MCSpec
INVARIANT AtMostOneRowPerFrame
CHECK_DEADLOCK FALSE
