CONSTANTS
    null = null
    kcd = kcd
    a = a
    b = b
    m1 = m1
    m2 = m2
    m3 = m3
    Main = Main
    NoProc = NoProc
    Proc <- MCProc
    NullProc = null
    InitPriority <- MCInitPriority
    Pibs <- MCPibs
    PriorityArg = {}
    MemBlock <- MCMemBlock
    BlockOrder <- MCBlockOrder
    NoBlock = NoBlock
    NoOwner = NoOwner
    Kcd = kcd
    Receivers <- MCReceivers
    Delays = {}
    Ending = {}
SPECIFICATION RtxSpec
SYMMETRY MCSymmetry
INVARIANT NoHoles
PROPERTIES ImplementsPost StarvesInGapOnly
