\* Two tasks and one monitor in a benign environment: the life cycle is TaskContract's.
SPECIFICATION Spec
CONSTANTS
    t1 = t1
    t2 = t2
    k1 = k1
    k2 = k2
    m1 = m1
    m2 = m2
    p1 = p1
    p2 = p2
    Task = {t1, t2}
    WithCallback = {t1}
    Job = {k1, k2}
    Null = Null
    Monitor = {m1}
    Poller = {p1}
    MaxRetries = 2
    MaxPolls = 1
    MaxFaults = 2
    Outcome = {"media", "empty", "error"}
    Hazards = {"early_delivery", "error", "hook_lost"}
SYMMETRY IdleSymmetry
INVARIANTS
    SettledOnce
    BenignInv
    OutcomeIsAnnounced
PROPERTY ContractSpec
CHECK_DEADLOCK FALSE
