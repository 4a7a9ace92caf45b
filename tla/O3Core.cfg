SPECIFICATION Spec
CONSTANTS
    x = x
    y = y
    z = z
    Blocks = {x, y, z}
    Arch <- MCArch
    Programs <- MCPrograms
    ProgramLength = 4
    NPhys = 4
    FetchWidth = 2
    DecodeWidth = 2
    DispatchWidth = 2
    ScheduleWidth = 2
    ExecuteWidth = 2
    RetireWidth = 2
    FetchQueueSize = 2
    DecodeQueueSize = 2
    ROBSize = 3
    LQSize = 2
    SQSize = 1
    FetchLatency = 1
    DecodeLatency = 1
    DispatchLatency = 1
    ExecuteLatency = 1
    Ways = 1
    MSHRSize = 2
    HitLatency = 1
    FillLatency = 2
    MaxDelay = 3
    MaxCycle = 40
INVARIANTS
    TypeOK
    RegistersConserved
    DataFlow
    PreciseState
    OpsCounted
    MSHRTracksRequests
PROPERTIES
    AllRetire
