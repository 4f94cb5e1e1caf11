\* One task, every hazard and any two failures, with the fairness of the scheduler,
\* the broker and the provider.
SPECIFICATION FairSpec
CONSTANTS
    t1 = t1
    t2 = t2
    k1 = k1
    k2 = k2
    m1 = m1
    m2 = m2
    p1 = p1
    p2 = p2
    Task = {t1}
    WithCallback = {t1}
    Job = {k1, k2}
    Null = Null
    Monitor = {m1}
    Poller = {p1}
    MaxRetries = 2
    MaxPolls = 1
    MaxFaults = 2
    Outcome = {"media", "empty", "error"}
    Hazards = {"early_delivery", "early_hook", "slow_submit", "error", "worker_lost",
               "redelivery", "response_lost", "hook_lost", "hook_dup"}
INVARIANTS
    TypeOK
    OnlyCommittedTasksRun
    ProcessingNamesJob
    ResultOfOwnJob
    RefundsBounded
    Linked
PROPERTIES
    RefundStep
    SettlesOrStranded
CHECK_DEADLOCK FALSE
