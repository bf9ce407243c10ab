CONSTANTS
    Worker = {w1, w2}
    Outside = {o1}
    Task = {t1, t2}
    HighPriority = {t1}
    None = None
    MaxWakes = 4
SPECIFICATION Spec
SYMMETRY Symmetry
INVARIANTS
    TypeOK
    OneRecruiter
    IdleAccounting
    NoLostWakeup
    LocalTasksServed
    OwnedOnce
    ParkProtocol
CHECK_DEADLOCK FALSE
