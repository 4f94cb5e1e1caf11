\* Four attempts, a breaker that opens at the second failure and half-opens
\* after two units of time.
SPECIFICATION Spec
CONSTANTS
    MaxAttempts = 4
    Threshold = 2
    RecoveryTimeout = 2
    SameKey = FALSE
    MaxTime = 6
INVARIANTS
    TypeOK
    FallbackBounded
    GivenUpMeansBoth
    PrimarySpared
    PolledInVain
CHECK_DEADLOCK FALSE
