CONSTANTS
    null = null
    a = a
    b = b
    c = c
    Main = Main
    NoProc = NoProc
    Proc <- MCProc
    NullProc = null
    InitPriority <- MCInitPriority
    Pibs <- MCPibs
    PriorityArg <- MCPriorityArg
SPECIFICATION Spec
INVARIANTS TypeOK Placement PriorityRespected MainNotResumed
PROPERTY NoOvertaking
