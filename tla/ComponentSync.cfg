SPECIFICATION FairSpec
CONSTANTS
    LastCycle = 3
    Initial = 1
    Ahead = 2
    MaxAsks = 2
    RetryRefused = FALSE
INVARIANTS
    TypeOK
    AnswerIsDecision
    NoLostReadyWakeup
    NoLostDoneWakeup
    NoPanic
PROPERTIES
    ImplementsHandshake
