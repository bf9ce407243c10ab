CONSTANTS
    NumReceivers = 1
    BufSize = 1
    HeadMod = 2
    MaxSends = 1
    Actor <- MCActor
SPECIFICATION Spec
INVARIANT EndsAfterLast
