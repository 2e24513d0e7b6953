SPECIFICATION FairSpec
CONSTANTS
  a = a
  b = b
  c = c
  d = d
  worker = worker
  none = none
  Node <- MCNode
  Loop <- MCLoop
  Worker <- worker
  NoNode <- none
  GraphSet <- MCGraphs
  MaxCrashes = 2
INVARIANTS TypeOK WaitingIsDecidable CheckpointComplete DecisionsAgree
PROPERTIES ApprovalsStay RunsSettle Refines
