SPECIFICATION FairSpec
CONSTANTS
  Calls = {1, 2}
  Keys = {1, 2, 3}
  Asked <- Slots
  Moving = {2}
  First <- Start
  Versions = {0, 1, 2}
  MaxVersion <- Moves
  MaxTime = 2
  TTL = 1
  Timeout = 1
  MaxLookback = 1
  PollDeadline = 1
  FetchCap <- Fetches
  EntryCap = 1
INVARIANTS TypeOK SingleFlight CacheBounded WaitersHaveLeader
PROPERTIES ImplementsReadThrough CallsReturn
CHECK_DEADLOCK FALSE
