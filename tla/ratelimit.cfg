\* Two requests in four seconds, blocks of six, and clocks that are wrong by
\* one second.
SPECIFICATION Spec
CONSTANTS
    x1 = x1
    x2 = x2
    MaxRequests = 2
    Window = 4
    BlockDuration = 6
    Lag = 1
    Nonce = {x1, x2}
    MaxTime = 7
    MaxCalls = 6
SYMMETRY NonceSymmetry
INVARIANTS
    TypeOK
    WindowBound
    BlockObeyed
    BlockEnds
    BlockIsJustified
    EveryBlockIsEarned
CHECK_DEADLOCK FALSE
