SPECIFICATION Spec
CONSTANTS
  a = a
  b = b
  c = c
  worker = worker
  none = none
  Node <- MCNode
  Loop <- MCLoop
  Worker <- worker
  NoNode <- none
  GraphSet <- MCGraphs
  MaxCrashes = 0
SYMMETRY Symmetry
VIEW View
INVARIANTS NeverStalled OutcomeByVerdicts DoneIsDone
PROPERTIES NothingStartsAfterHalt
