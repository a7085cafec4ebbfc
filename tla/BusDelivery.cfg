SPECIFICATION FairSpec
CONSTANTS
  a1 = a1
  a2 = a2
  f1 = f1
  s1 = s1
  s2 = s2
  Appenders = {a1, a2}
  Foreign = {f1}
  Subscribers = {s1}
  Capacity = 2
  MaxEvents = 4
  MaxRestarts = 2
PROPERTY GapFree
PROPERTY EventuallyDelivered
CHECK_DEADLOCK FALSE
