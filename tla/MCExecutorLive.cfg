CONSTANTS
    Worker = {w1, w2}
    Outside = {o1}
    Task = {t1, t2}
    HighPriority = {t1}
    None = None
    MaxWakes = 2
SPECIFICATION FairSpec
PROPERTIES
    ScheduledRuns
CHECK_DEADLOCK FALSE
