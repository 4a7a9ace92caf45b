SPECIFICATION FairSpec
CONSTANTS
    LastCycle = 2
    Initial = 1
    Ahead = 2
    Capacity = 2
    MaxPerCycle = 2
INVARIANTS
    TypeOK
    ReceiveComplete
PROPERTIES
    ImplementsMailbox
