SPECIFICATION FairSpec
CONSTANTS
  Run = {r1}
  Config <- MCConfig
  NoKey = NoKey
  ContentKey = ContentKey
  MaxRetry = 1
  MaxCrashes = 2
  MaxFaults = 1
INVARIANTS TypeOK DoneIsOnRecord EffectsAreOnRecord VerdictStands ContinueGoesOn
PROPERTIES RecordedOnce NodeSettles
