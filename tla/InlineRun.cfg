SPECIFICATION Spec
SYMMETRY LoopSymmetry
CONSTANTS
  a = a
  b = b
  c = c
  d = d
  l1 = l1
  l2 = l2
  l3 = l3
  none = none
  Node <- MCNode
  Loop <- MCLoop
  NoNode <- none
  GraphSet <- MCGraphs
INVARIANTS StartedOnce AskedOnce RestIsRecorded
