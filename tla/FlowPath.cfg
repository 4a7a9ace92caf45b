SPECIFICATION FairSpec
CONSTANTS
    LastCycle = 7
    Latency = 2
    Bandwidth = 2
    OutCapacity = 12
    OutBandwidth = 2
    InCapacity = 4
    InBandwidth = 2
    Burst = 3
    BurstAt = {{0}, {0, 1, 2, 3}, {0, 2, 3}, {1, 3}}
    StallAt = {{}, {0, 1, 2, 3, 4, 5, 6}, {2, 3, 5}, {2, 4}, {1, 2, 3}}
    DelayAt = {{0}, {0, 1, 2}, {1, 3}, {0, 3}, {2}}
    Workloads <- MCWorkloads
INVARIANTS
    TypeOK
    NoFault
    Conserved
    StrandedOnlyWhenRefused
    PendingBounded
    Deterministic
PROPERTIES
    Terminates
