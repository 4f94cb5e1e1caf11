\* Two calls for one task, one retry, a message to spare for every way they can go, every hazard.
SPECIFICATION FairSpec
CONSTANTS
    c1 = c1
    c2 = c2
    d1 = d1
    d2 = d2
    Call = {c1, c2}
    Hook = {c1}
    Slot = {1, 2, 3}
    Delivery = {d1, d2}
    MaxRetries = 1
    MaxFaults = 1
    Hazards = {"lost", "redelivery"}
INVARIANTS
    TypeOK
    StatusIsTrue
    AttemptsWereMade
    PostsBounded
    PendingIsWorkedOn
    ToldOutcome
PROPERTY MessageEnds
CHECK_DEADLOCK FALSE
