SPECIFICATION Spec
CONSTANTS
    Rows <- SmallRows
    Repeated <- SmallRepeated
    ClockReadings <- SmallClockReadings
    AttestationDeadline = 4
    Dominance = 50
    NetworkDeviation = 1
    EngineSpikeMultiplier = 2
    PeerCountMin = 40
CHECK_DEADLOCK FALSE
INVARIANTS TypeOK ClockGate CompleteBeforeBlame OutcomeAgreement LayersExclusive
