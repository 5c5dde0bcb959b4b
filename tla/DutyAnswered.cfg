SPECIFICATION Spec
CONSTANTS
  SlotsPerEpoch = 2
  WatchSlots = 2
  SlackSlots = 1
  RecoverySlots = 1
  PostEPBS = FALSE
  Duties <- OneDuty
  Copies = {c1, c2}
  Chains <- SparseChain
  Skews <- InTime
  MaxTime = 5
  MaxStarts = 1
  MaxClockSteps = 0
INVARIANT CompletionMeansAnswered
CHECK_DEADLOCK FALSE
SYMMETRY CopySymmetry
