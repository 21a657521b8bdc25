CONSTANTS
    null = null
    kcd = kcd
    a = a
    b = b
    m1 = m1
    m2 = m2
    Main = Main
    NoProc = NoProc
    Proc <- MCProc
    NullProc = null
    InitPriority <- MCInitPriority
    Pibs <- MCPibs
    Kcd = kcd
    BlockOrder <- OneBlock
    NoBlock = NoBlock
    Keys = 1
SPECIFICATION Spec
CHECK_DEADLOCK FALSE
INVARIANT NoBlockShared
