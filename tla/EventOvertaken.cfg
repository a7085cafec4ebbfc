SPECIFICATION FairSpec
CONSTANTS
  a1 = a1
  a2 = a2
  f1 = f1
  s1 = s1
  s2 = s2
  Appenders = {a1, a2}
  Foreign = {}
  Subscribers = {s1}
  Capacity = 2
  MaxEvents = 2
  MaxRestarts = 0
PROPERTY NoEventMissed
CHECK_DEADLOCK FALSE
