SPECIFICATION Spec
CONSTANTS
  SlotTicks = 1
  LastSlot = 3
  DutySlots = {2}
  Offset = 1
  ClockMaxAge = 1
  ProcessedCap = 2
  SampleEvery = 2
  MaxTime = 2
  MaxFaults = 1
INVARIANT CallsOfOwnBlock
CHECK_DEADLOCK FALSE
