SPECIFICATION Spec
CONSTANTS
  front = front
  back = back
  v1 = v1
  Channels = {front, back}
  Viewers = {v1}
  MaxStreams = 2
  MaxRotations = 2
  MaxFaults = 1
INVARIANT TypeOK
PROPERTY OpensUnlessDisturbed
PROPERTY SelfHeals
