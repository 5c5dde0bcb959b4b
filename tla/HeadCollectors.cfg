SPECIFICATION Spec
CONSTANTS
  SlotTicks = 1
  LastSlot = 3
  DutySlots = {1}
  Offset = 1
  ClockMaxAge = 1
  ProcessedCap = 2
  SampleEvery = 2
  MaxTime = 2
  MaxFaults = 1
INVARIANTS TypeOK RecentWork SeenBeforeHead
CHECK_DEADLOCK FALSE
