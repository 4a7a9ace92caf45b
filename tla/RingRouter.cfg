SPECIFICATION FairSpec
CONSTANTS
    NumRouters = 3
    Bandwidth = 1
    Capacity = 2
    BufferCapacity = 1
    Refusing = TRUE
    Workloads <- MCWorkloads
INVARIANTS
    TypeOK
    Conserved
PROPERTIES
    Leaves
