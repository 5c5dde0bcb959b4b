SPECIFICATION Spec
CONSTANTS
  Scenarios <- MCScenarios
  Nodes = {n1, n2}
  Candidates = 2
  MinSamples = 1
  PeerAttempts = 2
INVARIANTS
  TypeOK
  NoFaultLeft
  RecordedAfterRevert
  OneStory
  AcceptedIsOneRun
  PublishedIsAccepted
PROPERTY RunReturns
CHECK_DEADLOCK FALSE
