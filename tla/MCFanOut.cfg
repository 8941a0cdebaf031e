SPECIFICATION Spec
CONSTANTS
  v1 = v1
  v2 = v2
  Viewers = {v1, v2}
  QueueMax = 2
  MaxEmptyReads = 2
  MaxFrames = 3
  MaxSelects = 1
INVARIANT NewestKept
INVARIANT EofReachesViewers
INVARIANT InOrder
PROPERTY ClosedFeedEnds
PROPERTY PicturesDecode
