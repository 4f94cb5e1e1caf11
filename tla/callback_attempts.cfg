\* One call and the MaxRetries of core/config.py, nothing goes wrong but
\* the client's answers.
SPECIFICATION Spec
CONSTANTS
    c1 = c1
    c2 = c2
    d1 = d1
    d2 = d2
    Call = {c1}
    Hook = {c1}
    Slot = {1, 2, 3, 4, 5, 6}
    Delivery = {d1}
    MaxRetries = 5
    MaxFaults = 0
    Hazards = {}
INVARIANT AttemptsAsDocumented
CHECK_DEADLOCK FALSE
