CONSTANTS
    t1 = t1
    t2 = t2
    t3 = t3
    Main = Main
    None = None
    Task = {t1, t2, t3}
    Scoped = {t1, t2}
    Joiner <- Nested
    Runner = {w1, w2}
SPECIFICATION Spec
SYMMETRY Symmetry
INVARIANTS
    TypeOK
    ScheduledOnce
    ScopeRespected
    RunnersSurvive
    JoinNotLost
CHECK_DEADLOCK FALSE
