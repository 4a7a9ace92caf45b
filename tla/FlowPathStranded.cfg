SPECIFICATION FairSpec
CONSTANTS
    LastCycle = 5
    Latency = 1
    Bandwidth = 1
    OutCapacity = 8
    OutBandwidth = 1
    InCapacity = 1
    InBandwidth = 1
    Burst = 2
    BurstAt = {{0, 1}}
    StallAt = {{0, 1, 2}}
    DelayAt = {}
    Workloads <- MCWorkloads
INVARIANTS
    NoneStranded
