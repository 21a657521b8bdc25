CONSTANTS
    null = null
    kcd = kcd
    crt = crt
    uart = uart
    prio = prio
    sa = sa
    sb = sb
    sc = sc
    m1 = m1
    m2 = m2
    m3 = m3
    Main = Main
    NoProc = NoProc
    Proc <- MCProc
    NullProc = null
    InitPriority <- MCInitPriority
    Pibs <- MCPibs
    PriorityArg = {}
    MemBlock <- MCMemBlock
    BlockOrder <- MCBlockOrder
    NoBlock = NoBlock
    NoOwner = NoOwner
    Kcd = kcd
    Receivers = {}
    Delays = {}
    Ending = {}
    Crt = crt
    Uart = uart
    Prio = prio
    Pid <- MCPid
    BufferSize = 8
    Word = 32
    Reply <- MCReply
    Ahead = 1
    Script <- MCScript
    StressA = sa
    StressB = sb
    StressC = sc
    Period = 2
    Sleep = 1
    Announcement <- MCAnnouncement
SPECIFICATION StressFairSpec
INVARIANTS
    StressHoldsWhatItNames
    NumbersInOrder
    
    
PROPERTIES
    AnnouncesAgain
CHECK_DEADLOCK FALSE
