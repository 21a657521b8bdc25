CONSTANTS
    null = null
    kcd = kcd
    a = a
    m1 = m1
    m2 = m2
    Main = Main
    NoProc = NoProc
    Proc <- MCProc
    NullProc = null
    InitPriority <- MCInitPriority
    Pibs <- MCPibs
    PriorityArg = {}
    MemBlock <- MCMemBlock
    BlockOrder <- MCBlockOrder
    NoBlock = NoBlock
    NoOwner = NoOwner
    Kcd = kcd
    Receivers <- MCReceivers
    Delays = {1}
    Ending = {}
SPECIFICATION RtxSpec
PROPERTY TickDeliversAll
