CONSTANTS
    NumReceivers = 1
    BufSize = 1
    HeadMod = 2
    MaxSends = 2
    Actor <- MCActor
SPECIFICATION FairSpec
PROPERTY PollReturns
