CONSTANTS
    null = null
    kcd = kcd
    m1 = m1
    m2 = m2
    m3 = m3
    Main = Main
    NoProc = NoProc
    Proc <- MCProc
    NullProc = null
    InitPriority <- MCInitPriority
    Pibs <- MCPibs
    PriorityArg = {2}
    MemBlock <- MCMemBlock
    BlockOrder <- MCBlockOrder
    NoBlock = NoBlock
    NoOwner = NoOwner
    Kcd = kcd
    Receivers <- MCReceivers
    Delays = {0, 2}
    Ending = {}
SPECIFICATION RtxFairSpec
INVARIANTS RtxTypeOK OnTime
PROPERTY DelayedArrives
