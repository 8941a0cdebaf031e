SPECIFICATION Spec
CONSTANTS
  front = front
  back = back
  v1 = v1
  v2 = v2
  v3 = v3
  v4 = v4
  Linger = Linger
  Channels = {front, back}
  Viewers = {v1, v2, v3}
  ChannelOf <- Watching
  MaxStreams = 1
  Interrupts = {"opening"}
PROPERTY TimeoutMeansBusy
CHECK_DEADLOCK FALSE
