SPECIFICATION FairSpec
CONSTANTS
  SlotsPerEpoch = 1
  WatchSlots = 1
  SlackSlots = 0
  RecoverySlots = 0
  PostEPBS = FALSE
  Duties <- OneDuty
  Copies = {c1}
  Chains <- LateChain
  Skews <- InTime
  MaxTime = 4
  MaxStarts = 1
  MaxClockSteps = 1
PROPERTY EveryTaskEnds
CHECK_DEADLOCK FALSE
