CONSTANTS
    NumReceivers = 2
    BufSize = 1
    HeadMod = 2
    MaxSends = 3
    Actor <- MCActor
SPECIFICATION Spec
INVARIANTS
    TypeOK
    QueueContents
    SlotExclusive
    FreedOnce
    RefusedWhenClosed
    NoLostWakeup
