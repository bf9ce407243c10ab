CONSTANT MaxSends = 3
SPECIFICATION FairSpec
INVARIANTS
    TypeOK
    CellExclusive
    FreedOnce
PROPERTIES
    ImplementsChannel
    WaitersProceed
