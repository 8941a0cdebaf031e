SPECIFICATION FairSpec
CONSTANTS
  front = front
  back = back
  v1 = v1
  v2 = v2
  v3 = v3
  v4 = v4
  Linger = Linger
  Channels = {front, back}
  Viewers = {v1, v2, v3}
  ChannelOf <- Watching
  MaxStreams = 1
  Interrupts = {"lock", "slot"}
INVARIANT SlotsConserved
INVARIANT Served
PROPERTY KeepsPromise
PROPERTY HandlersProgress
PROPERTY ClosedWhenUnwatched
