SPECIFICATION Spec
CONSTANTS
  SlotsPerEpoch = 2
  WatchSlots = 2
  SlackSlots = 1
  RecoverySlots = 1
  PostEPBS = TRUE
  Duties <- OneDuty
  Copies = {c1, c2}
  Chains <- SparseChain
  Skews <- InTime
  MaxTime = 5
  MaxStarts = 2
  MaxClockSteps = 0
INVARIANTS TypeOK OneCompletion DutyTrackedOnce VerdictMatchesChain BlockRowsMatchChain
PROPERTY ImplementsLedger
CHECK_DEADLOCK FALSE
SYMMETRY CopySymmetry
