CONSTANTS
    null = null
    kcd = kcd
    crt = crt
    uart = uart
    prio = prio
    m1 = m1
    m2 = m2
    m3 = m3
    Main = Main
    NoProc = NoProc
    Proc <- MCProc
    NullProc = null
    InitPriority <- MCInitPriority
    Pibs <- MCPibs
    PriorityArg = {}
    MemBlock <- MCMemBlock
    BlockOrder <- MCBlockOrder
    NoBlock = NoBlock
    NoOwner = NoOwner
    Kcd = kcd
    Receivers = {}
    Delays = {}
    Ending = {}
    Crt = crt
    Uart = uart
    Prio = prio
    Pid <- MCPid
    BufferSize = 8
    Word = 16
    Reply <- MCReply
    Ahead = 3
    Script <- MCScript
SPECIFICATION ConsoleFairSpec
INVARIANTS
    ConsoleTypeOK
    HoldsWhatItNames
    LostForWantOfBlocksOnly
    
    RegisteredOnlyAsAsked
    JamsAsKnownOnly
PROPERTIES
    
    ChangedAsTyped
    ComesToRest
CHECK_DEADLOCK FALSE
