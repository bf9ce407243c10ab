CONSTANTS
    NumReceivers = 1
    BufSize = 3
    HeadMod = 8
    MaxSends = 9
    Actor <- MCActor
SPECIFICATION FairSpec
INVARIANTS
    QueueContents
    FreedOnce
PROPERTIES
    WaitersProceed
