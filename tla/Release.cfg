SPECIFICATION Spec
CONSTANTS
  Run = {r1, r2}
  MaxWrites = 2
  MaxEvents = 2
SYMMETRY Symmetry
CONSTRAINT OneRewrites
INVARIANTS MergedIsHead ReleasedIsTrunk FixIsReal
PROPERTIES RetriesSucceed
CHECK_DEADLOCK FALSE
