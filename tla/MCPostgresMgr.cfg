CONSTANTS
    p1 = p1
    p2 = p2
    Nil = Nil
    Peers <- MCPeers
    TaskSlots <- MCTaskSlots
    OneNodeWriteMode = FALSE
    ReplTimeoutPolls = 1
SPECIFICATION FairSpec
INVARIANT TypeOK
INVARIANT NoUnprotectedWrites
INVARIANT AtMostOneMonitor
INVARIANT IInv
 
INVARIANT WInv
PROPERTY TransitionFuncHandover
PROPERTY ContractSpec
