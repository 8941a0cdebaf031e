SPECIFICATION Spec
CONSTANTS
  c1 = c1
  c2 = c2
  Calls = {c1, c2}
  Levels = {0, 7}
  MaxChanges = 3
  MaxFaults = 1
INVARIANT NoBounce
PROPERTY Confirmed
PROPERTY OtherVolumeKept
