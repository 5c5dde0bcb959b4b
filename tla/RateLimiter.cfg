SPECIFICATION FairSpec
CONSTANTS
  Callers = {a, b, c}
  Runners = {r1, r2}
  MinInterval <- Interval
  MaxTime = 1
INVARIANTS TypeOK Spacing NoOvertaking OneRunner
PROPERTY WaitReturns
CHECK_DEADLOCK FALSE
