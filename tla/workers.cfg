\* Two tasks of one user on two slots; the monitor reads one row
\* or two.
SPECIFICATION FairSpec
CONSTANTS
    u1 = u1
    s1 = s1
    s2 = s2
    Tasks = 2
    User = {u1}
    Owner <- OwnerOf
    Slot = {s1, s2}
    Limits = {1, 2}
    MaxBacklog = 0
INVARIANTS
    TypeOK
    MonitorsLockInOrder
PROPERTY EveryTaskEnds
