SPECIFICATION Spec
CONSTANTS
    NumRouters = 3
    Bandwidth = 1
    Capacity = 2
    BufferCapacity = 1
    Refusing = FALSE
    Workloads <- MCWorkloads
INVARIANTS
    NothingDropped
