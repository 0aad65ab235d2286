CONSTANTS
  FrameIds = {1, 2}
  Poses = {1, 2}
  Times = {1, 2, 3}
  FrameIndexes = {0, 1}
  MaxAccesses = 2
  ClientTrackingArgs = {FALSE, TRUE}
  KeepDroppedArgs = {FALSE, TRUE}
  NaN = NaN
  None = None
SPECIFICATION MCSpec
INVARIANT TypeOK
INVARIANT OneRowPerFrameWithLatestAccess
INVARIANT DroppedFramesSurfaced
\* Each behaviour is one call of a function that returns.
CHECK_DEADLOCK FALSE
