SPECIFICATION Spec
CONSTANTS
  front = front
  back = back
  p1 = p1
  Devices <- Account
  Presses = {p1}
  MaxChanges = 2
  MaxFaults = 0
PROPERTY PushTriggersPoll
