CHECK_DEADLOCK FALSE
SPECIFICATION Spec
CONSTANTS
  old = old
  new = new
  c1 = c1
  c2 = c2
  Credentials = {old, new}
  MaxChanges = 5
  MaxFaults = 2
  NumDoors = 2
  Calls = {c1, c2}
INVARIANT DoorsRelock
INVARIANT NothingElseLeft
INVARIANT LoadedMatchesData
PROPERTY ReturnsToService
