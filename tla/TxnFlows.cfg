SPECIFICATION FairSpec
CONSTANTS
    Nodes <- MCNodes
    Txns <- FlowTxns
    Origin <- FlowOrigin
    Program <- FlowProgram
    Reply <- MCReply
    NoReply = "none"
    ChannelSize = 1
INVARIANTS
    TypeOK
    ManagedOnce
PROPERTIES
    Terminates
    CleanedUp
