CONSTANTS
    null = null
    kcd = kcd
    a = a
    b = b
    m1 = m1
    m2 = m2
    Main = Main
    NoProc = NoProc
    Proc <- MCProc
    NullProc = null
    InitPriority <- MCInitPriority
    Pibs <- MCPibs
    Kcd = kcd
    BlockOrder <- TwoBlocks
    NoBlock = NoBlock
    Keys = 2
SPECIFICATION Spec
SYMMETRY MCSymmetry
CHECK_DEADLOCK FALSE
INVARIANTS PreemptTypeOK CountMatches UserModeOpen FirstBracketExcludes
   
