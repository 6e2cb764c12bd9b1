CONSTANTS
    p1 = p1
    p2 = p2
    Nil = Nil
    Peers <- MCPeers
    TaskSlots <- MCTaskSlots
    OneNodeWriteMode = FALSE
    ReplTimeoutPolls = 1
SYMMETRY MCSymmetry
SPECIFICATION Spec
INVARIANT WritesOnlyAfterCatchUp
