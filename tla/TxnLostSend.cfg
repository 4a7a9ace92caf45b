SPECIFICATION Spec
CONSTANTS
    Nodes <- MCNodes
    Txns <- HandlerTxns
    Origin <- HandlerOrigin
    Program <- HandlerProgram
    Reply <- MCReply
    NoReply = "none"
    ChannelSize = 10
INVARIANTS
    NoLostSend
