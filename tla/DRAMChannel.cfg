SPECIFICATION FairSpec
CONSTANTS
    NumRequests = 5
    NumBanks = 2
    NumRows = 2
    RQSize = 3
    WQSize = 3
    TRP = 1
    TRCD = 1
    TCAS = 2
    TRAS = 3
    Workloads <- MCWorkloads
    LastArrival = 12
    MaxCycle = 90
INVARIANTS
    TypeOK
    AnsweredOnce
    ScheduledInBank
    OneModeAtATime
    BusTurnaround
    OvertakenWhenRescheduled
PROPERTIES
    ImplementsMemoryService
