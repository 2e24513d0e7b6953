SPECIFICATION FairSpec
CONSTANTS
  w1 = w1
  w2 = w2
  s1 = s1
  s2 = s2
  Worker = {w1}
  Slot = {s1, s2}
  NoSlot = NoSlot
  Free = Free
  LeaseShared = TRUE
  Manual = TRUE
  MaxCommands = 1
  MaxPauses = 1
  MaxStops = 0
  MaxDups = 0
  MaxFaults = 1
PROPERTIES RunEnds
