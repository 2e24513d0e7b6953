SPECIFICATION Spec
SYMMETRY Interchangeable
CONSTANTS
  w1 = w1
  w2 = w2
  s1 = s1
  s2 = s2
  Worker = {w1, w2}
  Slot = {s1, s2}
  NoSlot = NoSlot
  Free = Free
  LeaseShared = TRUE
  Manual = TRUE
  MaxCommands = 2
  MaxPauses = 0
  MaxStops = 1
  MaxDups = 1
  MaxFaults = 1
INVARIANTS ClaimedOnce ClaimIsRunning
PROPERTIES EndedStays
