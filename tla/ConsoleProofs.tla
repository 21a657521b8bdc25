---------------------------- MODULE ConsoleProofs ----------------------------
(***************************************************************************)
(* The programs of module Console: every step of theirs is one of the      *)
(* kernel, whose invariants therefore hold of them, and what they add to   *)
(* it - who holds which block, what the messages contain, whom the others  *)
(* wait for - for any table of processes, any number of blocks and any     *)
(* text that is typed.                                                     *)
(***************************************************************************)
EXTENDS Console, RtxProofs

-----------------------------------------------------------------------------
(* The programs' steps are steps of the kernel. *)

\* The running process and what is in the queues are processes, so a pid that is
\* found is the pid of one.
LEMMA ValidIsProc ==
  ASSUME RtxIInv, NEW p, NEW points, Running(p, points), NEW q, IsPidValid(kernel, q)
  PROVE  p \in Proc /\ q \in Proc
<1>1. kernel \in KernelType /\ kernel.running \in Proc /\ p = kernel.running
  BY DEF RtxIInv, IInv, TypeOK, Running, Calling
<1>2. CASE q = kernel.running
  BY <1>1, <1>2
<1>3. ASSUME NEW kind \in Kind, NEW l \in Level, InQueue(kernel, kind, l, q)
      PROVE  q \in Proc
  <2>1. kernel.queue[kind][l] \in Seq(Proc)
    BY <1>1, QueueIsSeq
  <2>. QED BY <1>3, <2>1, ElementOfSeq, LenProperties DEF InQueue, Contains
<1>. QED BY <1>1, <1>2, <1>3 DEF IsPidValid

LEMMA SendCalls ==
  ASSUME RtxIInv, NEW p, NEW b, NEW q, Send(p, b, q)
  PROVE  p \in Proc /\ q \in Proc /\ b \in MemBlock /\ b \in held[p] /\ Primitives(p)
<1>1. Running(p, {"run"}) /\ IsPidValid(kernel, q) /\ b \in held[p]
  BY DEF Send, Address
<1>2. p \in Proc /\ q \in Proc
  BY <1>1, ValidIsProc
<1>3. b \in MemBlock
  BY <1>1, <1>2 DEF RtxIInv, Accounts, DataTypeOK
<1>. QED BY <1>1, <1>2, <1>3 DEF Primitives

LEMMA ReleaseCalls ==
  ASSUME RtxIInv, NEW p, NEW b, Release(p, b)
  PROVE  p \in Proc /\ b \in MemBlock /\ b \in held[p] /\ owner[b] = p /\ Primitives(p)
<1>1. p \in Proc /\ b \in MemBlock /\ b \in held[p] /\ owner[b] = p
  BY DEF Release, MayRelease, Running, Calling, RtxIInv, Accounts, DataTypeOK
<1>. QED BY <1>1 DEF Primitives

LEMMA ClientsAreProc == Client \subseteq Proc \ {NullProc}
BY ConsoleAssumption

LEMMA ClientCalls ==
  ASSUME NEW p \in Proc, ClientStep(p)
  PROVE  Primitives(p)
BY DEF ClientStep, Waits, Gets, Obtains, Primitives

\* What the console does but for its changing of priorities.
LEMMA ConsoleActs ==
  ASSUME RtxIInv, [ConsoleNext]_consoleVars, ~PrioSets
  PROVE  SystemActs \/ \E p \in Proc : Primitives(p)
<1>1. CASE Boot \/ UNCHANGED rtxVars \/ Types \/ TypesInVain \/ UNCHANGED consoleVars
  BY <1>1 DEF SystemActs, Types, TypesInVain, consoleVars
<1>2. CASE \E p \in Client : ClientStep(p)
  BY <1>2, ClientsAreProc, ClientCalls
<1>3. CASE Decoder
  BY <1>1, <1>3, SendCalls, ReleaseCalls
     DEF Decoder, KcdStarts, KcdRegisters, KcdClears, KcdSendsClear, KcdEchoes,
         KcdSendsCommand, Mail, Free
<1>4. CASE Output
  BY <1>1, <1>4, SendCalls, ReleaseCalls
     DEF Output, CrtLoops, CrtSends, CrtReleases, UartTakes, UartWrites, Mail, Free
<1>5. CASE PrioRegisters \/ PrioComplains \/ PrioReplies
  BY <1>5, SendCalls DEF PrioRegisters, PrioComplains, PrioReplies, Mail, Register
<1>. QED BY <1>1, <1>2, <1>3, <1>4, <1>5 DEF ConsoleNext, Processor, Command

LEMMA ConsoleCalls == RtxIInv /\ [ConsoleNext]_consoleVars => CallsNext
<1>. SUFFICES ASSUME RtxIInv, [ConsoleNext]_consoleVars PROVE CallsNext
  OBVIOUS
<1>1. CASE PrioSets
  <2>1. \/ UNCHANGED rtxVars
        \/ \E q \in Proc : \E n : ChangePriority(Prio, q, n)
    BY <1>1 DEF PrioSets, Target
  <2>2. Prio \in Proc
    BY ClientsAreProc DEF Client
  <2>. QED BY <2>1, <2>2 DEF CallsNext, ProcessActs, SystemActs
<1>. QED BY <1>1, ConsoleActs DEF CallsNext, ProcessActs

KernelInv == RtxIInv /\ Sleepers

LEMMA InitKernelInv == RtxInit => KernelInv
BY InitIInv, InitAccounts, InitTimely DEF RtxInit, RtxIInv, KernelInv, Init, Sleepers, Asleep

\* Whatever the console's processes do and the user types, the queues, the blocks and
\* the mailboxes are right, and whoever sleeps will look again when woken.
THEOREM ConsoleKeepsTheKernel == ConsoleSpec => [](RtxIInv /\ Sleepers)
<1>1. ConsoleInit => KernelInv
  BY InitKernelInv DEF ConsoleInit, ProgramInit
<1>2. KernelInv /\ [ConsoleNext]_consoleVars => KernelInv'
  BY ConsoleCalls, StepRtxIInv, StepSleepers DEF KernelInv
<1>. QED BY <1>1, <1>2, PTL DEF ConsoleSpec, KernelInv

-----------------------------------------------------------------------------
(* Who holds which block. *)

BlockOrNone == MemBlock \cup {NoBlock}

Stages == {"start", "receive", "got", "request", "fill", "request2", "fill2", "write",
           "reply", "yield", "dequeue", "sleep", "stale"}

Pointers == /\ pc \in [Proc -> Stages]
            /\ msg \in [Proc -> BlockOrNone] /\ new \in [Proc -> BlockOrNone]

\* A process whose program uses exactly what it holds.
Tidy(p) == held[p] = Named(p) /\ (p = Crt /\ pc[p] = "fill" => msg[p] # new[p])

\* A step of p's program leaves the others where they are, with what they hold.
OthersStay(p) ==
    \A q \in Proc \ {p} : /\ held'[q] = held[q] /\ pc'[q] = pc[q]
                          /\ msg'[q] = msg[q] /\ new'[q] = new[q]

LEMMA OthersStayTidy ==
  ASSUME NEW p, OthersStay(p), NEW q \in Proc, q # p, Tidy(q)
  PROVE  Tidy(q)'
BY DEF OthersStay, Tidy, Named

LEMMA ClientsDiffer ==
  /\ Kcd # Crt /\ Kcd # Uart /\ Kcd # Prio /\ Crt # Uart /\ Crt # Prio /\ Uart # Prio
<1>1. \A a, b, c : IsFiniteSet({a, b, c}) /\ Cardinality({a, b, c}) <= 3
  <2>1. SUFFICES ASSUME NEW a, NEW b, NEW c
                 PROVE  IsFiniteSet({a, b, c}) /\ Cardinality({a, b, c}) <= 3
    OBVIOUS
  <2>2. IsFiniteSet({a}) /\ Cardinality({a}) = 1
    BY FS_Singleton
  <2>3. IsFiniteSet({a} \cup {b}) /\ Cardinality({a} \cup {b}) <= 2
    BY <2>2, FS_AddElement
  <2>4. Cardinality({a} \cup {b}) \in Nat
    BY <2>3, FS_CardinalityType
  <2>5. IsFiniteSet(({a} \cup {b}) \cup {c}) /\ Cardinality(({a} \cup {b}) \cup {c}) <= 3
    BY <2>3, <2>4, FS_AddElement
  <2>6. {a, b, c} = ({a} \cup {b}) \cup {c}
    OBVIOUS
  <2>. QED BY <2>5, <2>6
<1>3. \A a, b, c : Client # {a, b, c}
  <2>1. SUFFICES ASSUME NEW a, NEW b, NEW c, Client = {a, b, c} PROVE FALSE
    OBVIOUS
  <2>2. Cardinality({a, b, c}) <= 3
    BY <1>1
  <2>. QED BY <2>1, <2>2, ConsoleAssumption
<1>5. /\ Kcd = Crt => Client = {Kcd, Uart, Prio}
      /\ Kcd = Uart => Client = {Kcd, Crt, Prio}
      /\ Kcd = Prio => Client = {Kcd, Crt, Uart}
      /\ Crt = Uart => Client = {Kcd, Crt, Prio}
      /\ Crt = Prio => Client = {Kcd, Crt, Uart}
      /\ Uart = Prio => Client = {Kcd, Crt, Uart}
  BY DEF Client
<1>. QED BY <1>3, <1>5

LEMMA GoesOn ==
  ASSUME NEW c, NEW p \in Proc, NEW point, c \in [Proc -> Stages], point \in Stages
  PROVE  [c EXCEPT ![p] = point] \in [Proc -> Stages]
OBVIOUS

LEMMA Points ==
  ASSUME NEW m, NEW p \in Proc, NEW b \in MemBlock, m \in [Proc -> BlockOrNone]
  PROVE  [m EXCEPT ![p] = b] \in [Proc -> BlockOrNone]
BY DEF BlockOrNone

\* What receive_message returns is a block that nobody has held.
LEMMA GetsHolds ==
  ASSUME RtxIInv, Pointers, NEW p \in Proc, Gets(p)
  PROVE  \E b \in MemBlock :
            /\ InBox(mailbox, b) /\ rx[b] = p /\ \A q \in Proc : b \notin held[q]
            /\ held' = [held EXCEPT ![p] = @ \cup {b}]
            /\ msg' = [msg EXCEPT ![p] = b]
            /\ pc[p] = "receive" /\ pc' = [pc EXCEPT ![p] = "got"] /\ new' = new
<1>1. PICK i \in FirstMail(p) : held' = [held EXCEPT ![p] = @ \cup {mailbox[i]}]
  BY DEF Gets, Receive
<1>2. /\ i \in Slot /\ mailbox[i] \in MemBlock
      /\ InBox(mailbox, mailbox[i]) /\ rx[mailbox[i]] = p
  BY <1>1 DEF InBox, FirstMail, RtxIInv, Accounts, DataTypeOK, Box
<1>3. \A q \in Proc : mailbox[i] \notin held[q]
  BY <1>2, HeldProperties DEF InBox, RtxIInv
<1>4. held'[p] = held[p] \cup {mailbox[i]}
  BY <1>1 DEF RtxIInv, Accounts, DataTypeOK
<1>5. msg' = [msg EXCEPT ![p] = CHOOSE b \in MemBlock : b \in held'[p] \ held[p]]
  BY DEF Gets
<1>6. (CHOOSE b \in MemBlock : b \in held'[p] \ held[p]) = mailbox[i]
  BY <1>2, <1>3, <1>4
<1>. QED BY <1>1, <1>2, <1>3, <1>5, <1>6 DEF Gets, GoOn

\* What request_memory_block returns is a free one.
LEMMA ObtainsHolds ==
  ASSUME RtxIInv, Pointers, NEW p \in Proc, Obtains(p)
  PROVE  \E b \in MemBlock :
            /\ IsFree(b) /\ \A q \in Proc : b \notin held[q]
            /\ held' = [held EXCEPT ![p] = @ \cup {b}]
            /\ new' = [new EXCEPT ![p] = b] /\ msg' = msg
            /\ \/ pc[p] = "request" /\ pc' = [pc EXCEPT ![p] = "fill"]
               \/ pc[p] = "request2" /\ pc' = [pc EXCEPT ![p] = "fill2"]
<1>1. Head(available) \in MemBlock /\ IsFree(Head(available))
  BY HeadIsFree DEF Obtains, Request, RtxIInv
<1>2. \A q \in Proc : Head(available) \notin held[q]
  BY <1>1, HeldProperties DEF RtxIInv
<1>. QED BY <1>1, <1>2 DEF Obtains, Request, GoOn

\* The steps that are the same in every program.
LEMMA ClientTidies ==
  ASSUME RtxIInv, Pointers, NEW p \in Proc, ClientStep(p)
  PROVE  Pointers' /\ OthersStay(p) /\ (Tidy(p) => Tidy(p)')
<1>0. held \in [Proc -> SUBSET MemBlock]
  BY DEF RtxIInv, Accounts, DataTypeOK
<1>1. CASE Waits(p)
  <2>1. UNCHANGED <<held, pc, msg, new>>
    BY <1>1 DEF Waits, localVars, ReceiveFindsNone, ReceiveBlocks, RequestFindsNone,
                RequestBlocks, SendUnblocks, ReleaseUnblocks
  <2>. QED BY <2>1 DEF Pointers, OthersStay, Tidy, Named
<1>2. CASE Gets(p)
  <2>1. PICK b \in MemBlock :
          /\ \A q \in Proc : b \notin held[q]
          /\ held' = [held EXCEPT ![p] = @ \cup {b}]
          /\ msg' = [msg EXCEPT ![p] = b]
          /\ pc[p] = "receive" /\ pc' = [pc EXCEPT ![p] = "got"] /\ new' = new
    BY <1>2, GetsHolds
  <2>2. Pointers'
    <3>1. pc' \in [Proc -> Stages]
      BY <2>1, GoesOn DEF Pointers, Stages
    <3>2. msg' \in [Proc -> BlockOrNone]
      BY <2>1, Points DEF Pointers
    <3>3. new' \in [Proc -> BlockOrNone]
      BY <2>1, Points DEF Pointers
    <3>. QED BY <3>1, <3>2, <3>3 DEF Pointers
  <2>3. OthersStay(p)
    BY <1>0, <2>1 DEF Pointers, OthersStay
  <2>4. held'[p] = held[p] \cup {b} /\ msg'[p] = b /\ pc'[p] = "got"
    BY <1>0, <2>1 DEF Pointers
  <2>5. Named(p) = {} /\ Named(p)' = {b}
    BY <2>1, <2>4 DEF Named
  <2>. QED BY <2>2, <2>3, <2>4, <2>5 DEF Tidy
<1>3. CASE Obtains(p)
  <2>1. PICK b \in MemBlock :
          /\ IsFree(b) /\ \A q \in Proc : b \notin held[q]
          /\ held' = [held EXCEPT ![p] = @ \cup {b}]
          /\ new' = [new EXCEPT ![p] = b] /\ msg' = msg
          /\ \/ pc[p] = "request" /\ pc' = [pc EXCEPT ![p] = "fill"]
             \/ pc[p] = "request2" /\ pc' = [pc EXCEPT ![p] = "fill2"]
    BY <1>3, ObtainsHolds
  <2>2. Pointers'
    <3>1. pc' \in [Proc -> Stages]
      BY <2>1, GoesOn DEF Pointers, Stages
    <3>2. msg' \in [Proc -> BlockOrNone]
      BY <2>1, Points DEF Pointers
    <3>3. new' \in [Proc -> BlockOrNone]
      BY <2>1, Points DEF Pointers
    <3>. QED BY <3>1, <3>2, <3>3 DEF Pointers
  <2>3. OthersStay(p)
    BY <1>0, <2>1 DEF Pointers, OthersStay
  <2>4. /\ held'[p] = held[p] \cup {b} /\ new'[p] = b /\ msg'[p] = msg[p]
        /\ \/ pc[p] = "request" /\ pc'[p] = "fill"
           \/ pc[p] = "request2" /\ pc'[p] = "fill2"
        /\ b \notin held[p]
    BY <1>0, <2>1 DEF Pointers
  <2>5. Named(p)' = Named(p) \cup {b}
    BY <2>4 DEF Named
  <2>6. p = Crt /\ pc[p] = "request" => msg[p] \in Named(p)
    BY DEF Named
  <2>. QED BY <2>2, <2>3, <2>4, <2>5, <2>6 DEF Tidy
<1>. QED BY <1>1, <1>2, <1>3 DEF ClientStep

\* A step in which p gives away or keeps its blocks, and goes on.
Parts(p, given, point) ==
    /\ held' = [held EXCEPT ![p] = @ \ given]
    /\ pc' = [pc EXCEPT ![p] = point]
    /\ UNCHANGED <<msg, new>>

LEMMA PartsStay ==
  ASSUME Pointers, held \in [Proc -> SUBSET MemBlock], NEW p \in Proc,
         NEW given, NEW point \in Stages, Parts(p, given, point)
  PROVE  /\ Pointers' /\ OthersStay(p)
         /\ held'[p] = held[p] \ given /\ pc'[p] = point
         /\ msg'[p] = msg[p] /\ new'[p] = new[p]
BY DEF Pointers, OthersStay, Parts

\* Outside the CRT's program a process uses one block at a time; what it parts with
\* is that one.
LEMMA PartsTidy ==
  ASSUME Pointers, held \in [Proc -> SUBSET MemBlock], NEW p \in Proc, p # Crt,
         NEW given, NEW point \in Stages, Parts(p, given, point),
         \/ given = Named(p) /\ point \notin {"got", "reply", "fill", "fill2"}
         \/ given = {} /\ pc[p] = "got" /\ point = "reply"
         \/ given = {} /\ Named(p) = {} /\ point \notin {"got", "reply", "fill", "fill2"}
  PROVE  Pointers' /\ OthersStay(p) /\ (Tidy(p) => Tidy(p)')
<1>1. /\ Pointers' /\ OthersStay(p)
      /\ held'[p] = held[p] \ given /\ pc'[p] = point
      /\ msg'[p] = msg[p] /\ new'[p] = new[p]
  BY PartsStay
<1>2. point \notin {"got", "reply", "fill", "fill2"} => Named(p)' = {}
  BY <1>1 DEF Named
<1>3. pc[p] = "got" /\ point = "reply" => Named(p)' = Named(p)
  BY <1>1 DEF Named
<1>4. held[p] = Named(p) => held'[p] = Named(p)'
  BY <1>1, <1>2, <1>3
<1>. QED BY <1>1, <1>4 DEF Tidy

LEMMA DecoderTidies ==
  ASSUME RtxIInv, Pointers, Decoder
  PROVE  Pointers' /\ OthersStay(Kcd) /\ (Tidy(Kcd) => Tidy(Kcd)')
<1>0. held \in [Proc -> SUBSET MemBlock] /\ Kcd \in Proc /\ Kcd # Crt
  BY ClientsDiffer, ReceiverAssumption DEF RtxIInv, Accounts, DataTypeOK
<1>1. ASSUME \/ KcdRegisters \/ KcdClears \/ KcdEchoes
      PROVE  \E point \in {"receive", "request", "request2"} :
                pc[Kcd] = "got" /\ Parts(Kcd, {msg[Kcd]}, point)
  BY <1>1 DEF KcdRegisters, KcdClears, KcdEchoes, Free, Mail, Release, Send, Address,
              GoOn, Parts
<1>2. ASSUME KcdSendsClear \/ KcdSendsCommand
      PROVE  pc[Kcd] \in {"fill", "fill2"} /\ Parts(Kcd, {new[Kcd]}, "receive")
  BY <1>2 DEF KcdSendsClear, KcdSendsCommand, Mail, Send, Address, GoOn, Parts
<1>3. ASSUME KcdStarts
      PROVE  pc[Kcd] = "start" /\ Parts(Kcd, {}, "receive")
  BY <1>0, <1>3 DEF KcdStarts, GoOn, Parts, rtxVars, dataVars
<1>4. /\ pc[Kcd] = "got" => Named(Kcd) = {msg[Kcd]}
      /\ pc[Kcd] \in {"fill", "fill2"} => Named(Kcd) = {new[Kcd]}
      /\ pc[Kcd] = "start" => Named(Kcd) = {}
  BY <1>0 DEF Named
<1>5. {"receive", "request", "request2"} \subseteq Stages
  BY DEF Stages
<1>. QED BY <1>0, <1>1, <1>2, <1>3, <1>4, <1>5, PartsTidy DEF Decoder

LEMMA UartTidies ==
  ASSUME RtxIInv, Pointers, UartTakes \/ UartWrites
  PROVE  Pointers' /\ OthersStay(Uart) /\ (Tidy(Uart) => Tidy(Uart)')
<1>0. held \in [Proc -> SUBSET MemBlock] /\ Uart \in Proc /\ Uart # Crt
  BY ClientsDiffer, ClientsAreProc DEF RtxIInv, Accounts, DataTypeOK, Client
<1>1. ASSUME UartTakes
      PROVE  pc[Uart] = "got" /\ Parts(Uart, {msg[Uart]}, "write")
  BY <1>1 DEF UartTakes, Free, Release, GoOn, Parts
<1>2. ASSUME UartWrites
      PROVE  pc[Uart] = "write" /\ Parts(Uart, {}, "receive")
  BY <1>0, <1>2 DEF UartWrites, GoOn, Parts, rtxVars, dataVars
<1>3. /\ pc[Uart] = "got" => Named(Uart) = {msg[Uart]}
      /\ pc[Uart] = "write" => Named(Uart) = {}
  BY <1>0 DEF Named
<1>4. "write" \in Stages /\ "receive" \in Stages
  BY DEF Stages
<1>. QED BY <1>0, <1>1, <1>2, <1>3, <1>4, PartsTidy

\* The CRT keeps the message while it sends its characters, each in another block.
LEMMA CrtTidies ==
  ASSUME RtxIInv, Pointers, CrtLoops \/ CrtSends \/ CrtReleases
  PROVE  Pointers' /\ OthersStay(Crt) /\ (Tidy(Crt) => Tidy(Crt)')
<1>0. held \in [Proc -> SUBSET MemBlock] /\ Crt \in Proc
  BY ClientsAreProc DEF RtxIInv, Accounts, DataTypeOK, Client
<1>1. ASSUME CrtLoops
      PROVE  pc[Crt] = "got" /\ Parts(Crt, {}, "request")
  BY <1>0, <1>1 DEF CrtLoops, GoOn, Parts, rtxVars, dataVars
<1>2. ASSUME CrtSends
      PROVE  pc[Crt] = "fill" /\ Parts(Crt, {new[Crt]}, "got")
  BY <1>2 DEF CrtSends, Mail, Send, Address, GoOn, Parts
<1>3. ASSUME CrtReleases
      PROVE  pc[Crt] = "got" /\ Parts(Crt, {msg[Crt]}, "receive")
  BY <1>3 DEF CrtReleases, Free, Release, GoOn, Parts
<1>4. "request" \in Stages /\ "got" \in Stages /\ "receive" \in Stages
  BY DEF Stages
<1>5. CASE CrtLoops
  <2>0. /\ Pointers' /\ OthersStay(Crt) /\ held'[Crt] = held[Crt] \ {}
        /\ pc'[Crt] = "request" /\ msg'[Crt] = msg[Crt]
    BY <1>0, <1>1, <1>4, <1>5, PartsStay
  <2>1. held'[Crt] = held[Crt]
    BY <2>0
  <2>. QED BY <1>1, <1>5, <2>0, <2>1 DEF Tidy, Named
<1>6. CASE CrtSends
  <2>1. /\ Pointers' /\ OthersStay(Crt) /\ held'[Crt] = held[Crt] \ {new[Crt]}
        /\ pc'[Crt] = "got" /\ msg'[Crt] = msg[Crt]
    BY <1>0, <1>2, <1>4, <1>6, PartsStay
  <2>2. Named(Crt) = {msg[Crt], new[Crt]} /\ Named(Crt)' = {msg[Crt]}
    BY <1>2, <1>6, <2>1 DEF Named
  <2>. QED BY <1>2, <1>6, <2>1, <2>2 DEF Tidy
<1>7. CASE CrtReleases
  <2>1. /\ Pointers' /\ OthersStay(Crt) /\ held'[Crt] = held[Crt] \ {msg[Crt]}
        /\ pc'[Crt] = "receive"
    BY <1>0, <1>3, <1>4, <1>7, PartsStay
  <2>2. Named(Crt) = {msg[Crt]} /\ Named(Crt)' = {}
    BY <1>3, <1>7, <2>1 DEF Named
  <2>. QED BY <2>1, <2>2 DEF Tidy
<1>. QED BY <1>5, <1>6, <1>7

LEMMA CommandTidies ==
  ASSUME RtxIInv, Pointers, Command
  PROVE  Pointers' /\ OthersStay(Prio) /\ (Tidy(Prio) => Tidy(Prio)')
<1>0. held \in [Proc -> SUBSET MemBlock] /\ Prio \in Proc /\ Prio # Crt
  BY ClientsDiffer, ClientsAreProc DEF RtxIInv, Accounts, DataTypeOK, Client
<1>1. ASSUME PrioRegisters
      PROVE  pc[Prio] = "fill" /\ Parts(Prio, {new[Prio]}, "receive")
  BY <1>1 DEF PrioRegisters, Register, Send, Address, GoOn, Parts
<1>2. ASSUME PrioComplains
      PROVE  pc[Prio] = "got" /\ Parts(Prio, {msg[Prio]}, "receive")
  BY <1>2 DEF PrioComplains, Send, Address, GoOn, Parts
<1>3. ASSUME PrioSets
      PROVE  pc[Prio] = "got" /\ Parts(Prio, {}, "reply")
  BY <1>0, <1>3 DEF PrioSets, ChangePriority, GoOn, Parts, rtxVars, dataVars
<1>4. ASSUME PrioReplies
      PROVE  pc[Prio] = "reply" /\ Parts(Prio, {msg[Prio]}, "receive")
  BY <1>4 DEF PrioReplies, Mail, Send, Address, GoOn, Parts
<1>5. /\ pc[Prio] = "fill" => Named(Prio) = {new[Prio]}
      /\ pc[Prio] \in {"got", "reply"} => Named(Prio) = {msg[Prio]}
  BY <1>0 DEF Named
<1>6. "reply" \in Stages /\ "receive" \in Stages
  BY DEF Stages
<1>. QED BY <1>0, <1>1, <1>2, <1>3, <1>4, <1>5, <1>6, PartsTidy DEF Command

\* Every step is that of one client's program, or of nobody's.
LEMMA ConsoleTidies ==
  ASSUME RtxIInv, Pointers, [ConsoleNext]_consoleVars
  PROVE  Pointers' /\ \E p \in Client : OthersStay(p) /\ (Tidy(p) => Tidy(p)')
<1>1. ASSUME UNCHANGED <<held, pc, msg, new>>
      PROVE  Pointers' /\ \A p \in Client : OthersStay(p) /\ (Tidy(p) => Tidy(p)')
  BY <1>1 DEF Pointers, OthersStay, Tidy, Named
<1>2. Kcd \in Client /\ Crt \in Client /\ Uart \in Client /\ Prio \in Client
  BY DEF Client
<1>3. CASE \/ Boot /\ UNCHANGED <<localVars, userVars, historyVars>>
           \/ Types \/ TypesInVain \/ UNCHANGED consoleVars
  <2>1. UNCHANGED <<held, pc, msg, new>>
    BY <1>3 DEF Boot, dataVars, localVars, Types, SerialInterrupt, TypesInVain,
                rtxVars, consoleVars
  <2>. QED BY <1>1, <1>2, <2>1
<1>4. CASE \E p \in Client : ClientStep(p)
  BY <1>4, ClientTidies, ClientsAreProc
<1>5. CASE Decoder
  BY <1>2, <1>5, DecoderTidies
<1>6. CASE Output
  BY <1>2, <1>6, CrtTidies, UartTidies DEF Output
<1>7. CASE Command
  BY <1>2, <1>7, CommandTidies
<1>. QED BY <1>3, <1>4, <1>5, <1>6, <1>7 DEF ConsoleNext, Processor

AllTidy == \A p \in Client : Tidy(p)

LEMMA StepTidy ==
  ASSUME RtxIInv, Pointers, AllTidy, [ConsoleNext]_consoleVars
  PROVE  Pointers' /\ AllTidy'
BY ConsoleTidies, OthersStayTidy, ClientsAreProc DEF AllTidy

LEMMA InitHolds ==
  ASSUME NEW registering, ProgramInit(registering), Crt \notin registering,
         NEW p \in Proc
  PROVE  Pointers /\ Tidy(p)
<1>1. Pointers
  BY DEF ProgramInit, Pointers, Stages, BlockOrNone
<1>2. pc[p] \in {"start", "request", "receive"} /\ (p = Crt => pc[p] # "request")
  BY ClientsDiffer DEF ProgramInit
<1>3. held[p] = {}
  BY DEF ProgramInit, RtxInit
<1>. QED BY <1>1, <1>2, <1>3 DEF Tidy, Named

-----------------------------------------------------------------------------
(* Texts. *)

\* What texts are made of: what can be typed, and what the programs write.
Letters == Printed \cup {NUL} \cup Range(Switch) \cup UNION {Range(Reply[kind]) : kind \in ReplyKind}

ClearFacts ==
    /\ Len(Clear) = 4 /\ DOMAIN Clear = 1..4
    /\ Clear[1] = "%" /\ Clear[2] = "c" /\ Clear[3] = "l" /\ Clear[4] = "r"
SwitchFacts ==
    Len(Switch) = 2 /\ DOMAIN Switch = 1..2 /\ Switch[1] = "%" /\ Switch[2] = "C"

LEMMA Commands == ClearFacts /\ SwitchFacts /\ Clear # Switch
BY DEF ClearFacts, SwitchFacts, Clear, Switch

LEMMA SwitchIsText == Switch \in Seq(Letters)
<1>1. "%" \in Letters /\ "C" \in Letters
  BY Commands DEF SwitchFacts, Letters, Range
<1>. QED BY <1>1 DEF Switch

LEMMA ReplyIsText ==
  ASSUME NEW kind \in ReplyKind
  PROVE  Reply[kind] \in Seq(Letters)
<1>1. Reply[kind] \in Seq(STRING)
  BY ConsoleAssumption
<1>2. Reply[kind] \in Seq(Range(Reply[kind]))
  BY <1>1, SeqOfRange
<1>. QED BY <1>2, SeqMonotonic DEF Letters

LEMMA ControlsAreText == <<CR, LF>> \in Seq(Letters) /\ <<FF>> \in Seq(Letters)
<1>1. CR \in Letters /\ LF \in Letters /\ FF \in Letters
  BY DEF Letters, Printed
<1>. QED BY <1>1

\* The first place of one of the characters, or the place after the end.
LEMMA FirstOfProperties ==
  ASSUME NEW S, NEW t \in Seq(S), NEW i \in 1..(Len(t) + 1), NEW chars
  PROVE  LET j == FirstOf(t, i, chars)
         IN  /\ j \in i..(Len(t) + 1)
             /\ j = Len(t) + 1 \/ t[j] \in chars
             /\ \A k \in i..(j - 1) : t[k] \notin chars
<1>. DEFINE T == {j \in i..(Len(t) + 1) : j = Len(t) + 1 \/ t[j] \in chars}
<1>1. Len(t) \in Nat
  BY LenProperties
<1>2. T \in SUBSET Nat /\ T # {}
  <2>1. Len(t) + 1 \in T
    BY <1>1
  <2>. QED BY <1>1, <2>1
<1>3. PICK j \in T : \A y \in T : j <= y
  <2>. HIDE DEF T
  <2>. QED BY <1>2, LeastNat
<1>4. \A k \in i..(j - 1) : t[k] \notin chars
  <2>1. SUFFICES ASSUME NEW k \in i..(j - 1), t[k] \in chars PROVE FALSE
    OBVIOUS
  <2>2. k \in T /\ ~(j <= k)
    BY <1>1, <1>3, <2>1
  <2>. QED BY <1>3, <2>2
<1>5. \E x \in i..(Len(t) + 1) : /\ x = Len(t) + 1 \/ t[x] \in chars
                                 /\ \A k \in i..(x - 1) : t[k] \notin chars
  BY <1>3, <1>4
<1>. QED BY <1>5 DEF FirstOf

\* A text without a zero in it is all of its string.
LEMMA StringAtWhole ==
  ASSUME NEW S, NEW t \in Seq(S), t # <<>>, \A k \in DOMAIN t : t[k] # NUL
  PROVE  StringAt(t, 1) = t
<1>1. Len(t) \in Nat /\ DOMAIN t = 1..Len(t) /\ Len(t) >= 1
  BY LenProperties, EmptySeq
<1>2. FirstOf(t, 1, {NUL}) = Len(t) + 1
  <2>. DEFINE j == FirstOf(t, 1, {NUL})
  <2>1. j \in 1..(Len(t) + 1) /\ (j = Len(t) + 1 \/ t[j] \in {NUL})
    BY <1>1, FirstOfProperties
  <2>. HIDE DEF j
  <2>. QED BY <1>1, <2>1 DEF j
<1>3. SubSeq(t, 1, Len(t)) = t
  BY SubSeqFull
<1>. QED BY <1>1, <1>2, <1>3 DEF StringAt

LEMMA CommandStrings ==
  /\ StringAt(Clear, 1) = Clear /\ CharAt(Clear, 1) = "%"
  /\ StringAt(Switch, 1) = Switch /\ CharAt(Switch, 1) = "%"
<1>1. Clear \in Seq({"%", "c", "l", "r"}) /\ Switch \in Seq({"%", "C"})
  BY DEF Clear, Switch
<1>2. /\ \A k \in DOMAIN Clear : Clear[k] # NUL
      /\ \A k \in DOMAIN Switch : Switch[k] # NUL
  BY Commands DEF ClearFacts, SwitchFacts, NUL
<1>3. Clear # <<>> /\ Switch # <<>>
  BY DEF Clear, Switch
<1>. QED BY <1>1, <1>2, <1>3, StringAtWhole, Commands DEF CharAt, ClearFacts, SwitchFacts

LEMMA CharAtIsLetter ==
  ASSUME NEW t \in Seq(Letters), NEW i
  PROVE  CharAt(t, i) \in Letters
BY LenProperties, ElementOfSeq DEF CharAt, Letters

\* str_copy leaves the end of a longer text standing.
LEMMA OverwriteProperties ==
  ASSUME NEW S, NEW t \in Seq(S), NEW s \in Seq(S)
  PROVE  /\ Overwrite(t, s) \in Seq(S)
         /\ Len(Overwrite(t, s)) = IF Len(s) >= Len(t) THEN Len(s) ELSE Len(t)
         /\ \A i \in 1..Len(s) : Overwrite(t, s)[i] = s[i]
         /\ Len(s) >= Len(t) => Overwrite(t, s) = s
<1>. DEFINE u == SubSeq(t, Len(s) + 1, Len(t))
<1>1. Len(t) \in Nat /\ Len(s) \in Nat
  BY LenProperties
<1>2. u \in Seq(S) /\ Len(u) = IF Len(s) + 1 <= Len(t) THEN Len(t) - (Len(s) + 1) + 1 ELSE 0
  <2>1. \A i \in (Len(s) + 1)..Len(t) : t[i] \in S
    BY <1>1, ElementOfSeq
  <2>. QED BY <1>1, <2>1, SubSeqProperties
<1>3. Len(s) >= Len(t) => u = <<>>
  BY <1>1, SubSeqEmpty
<1>. HIDE DEF u
<1>4. /\ s \o u \in Seq(S) /\ Len(s \o u) = Len(s) + Len(u)
      /\ \A i \in 1..(Len(s) + Len(u)) : (s \o u)[i] = IF i <= Len(s) THEN s[i] ELSE u[i - Len(s)]
  BY <1>2, ConcatProperties
<1>5. Len(s) >= Len(t) => s \o u = s
  BY <1>3, ConcatEmptySeq
<1>6. Overwrite(t, s) = s \o u
  BY DEF Overwrite, u
<1>. HIDE DEF u
<1>7. Len(u) \in Nat
  BY <1>2, LenProperties
<1>. QED BY <1>1, <1>2, <1>4, <1>5, <1>6, <1>7

LEMMA OverwriteBlank ==
  ASSUME NEW S, NEW s \in Seq(S)
  PROVE  Overwrite(<<>>, s) = s
<1>1. <<>> \in Seq(S) /\ Len(<<>>) = 0 /\ Len(s) \in Nat
  BY EmptySeq, LenProperties
<1>2. Len(s) >= Len(<<>>) => Overwrite(<<>>, s) = s
  BY <1>1, OverwriteProperties
<1>. QED BY <1>1, <1>2

LEMMA DividedProperties ==
  ASSUME NEW t \in Seq(Letters)
  PROVE  Divided(t) \in Seq(Letters) /\ Len(Divided(t)) = Len(t)
<1>1. Len(t) \in Nat /\ DOMAIN t = 1..Len(t) /\ NUL \in Letters
  BY LenProperties DEF Letters
<1>2. CASE Gap(t) \in DOMAIN t
  BY <1>1, <1>2, ExceptSeq DEF Divided
<1>3. CASE Gap(t) \notin DOMAIN t
  BY <1>3 DEF Divided
<1>. QED BY <1>2, <1>3

-----------------------------------------------------------------------------
(* What is in the blocks. *)

Content == [type : {PLAIN, REGISTER_CMD}, tx : Proc \cup {Main, NoProc}, text : Seq(Letters)]

Texts ==
    /\ content \in [MemBlock -> Content]
    /\ line \in Seq(Letters) /\ keys \in Seq(Letters) /\ reply \in ReplyKind

IsRegistration(b) == content[b].type = REGISTER_CMD

\* Free blocks are blank, and so are those that a process is about to write into;
\* and there is at most one block that asks for a registration: that of the
\* priority command, on its way to the decoder.
Written ==
    /\ \A b \in MemBlock : IsFree(b) => content[b] = Blank
    /\ \A p \in Client : pc[p] \in {"fill", "fill2"} => content[new[p]] = Blank
    /\ \A b \in MemBlock : IsRegistration(b) =>
          owner[b] = Kcd /\ content[b] = [type |-> REGISTER_CMD, tx |-> Prio, text |-> Switch]
    /\ \A b, c \in MemBlock : IsRegistration(b) /\ IsRegistration(c) => b = c

LEMMA BlankIsContent == Blank \in Content /\ Blank.type = PLAIN /\ Blank.text = <<>>
                        /\ PLAIN # REGISTER_CMD
<1>1. <<>> \in Seq(Letters)
  BY EmptySeq
<1>. QED BY <1>1, ProcAssumption DEF Blank, Content, PLAIN, REGISTER_CMD

\* A block is written: its sender and its text.
Rewrites(b, x, t) ==
    content' = [content EXCEPT ![b] = [type |-> content[b].type, tx |-> x, text |-> t]]

LEMMA TextWritten ==
  ASSUME content \in [MemBlock -> Content], NEW b \in MemBlock, NEW x, NEW t,
         content' = [content EXCEPT ![b].text = t, ![b].tx = x]
  PROVE  Rewrites(b, x, t)
<1>. DEFINE r == content[b]
            s == [type |-> r.type, tx |-> x, text |-> t]
<1>1. r = [type |-> r.type, tx |-> r.tx, text |-> r.text]
  BY DEF Content
<1>2. [[r EXCEPT !.text = t] EXCEPT !.tx = x] = s
  <2>. DEFINE u == [r EXCEPT !.text = t]
  <2>. HIDE DEF r
  <2>1. u = [type |-> r.type, tx |-> r.tx, text |-> t]
    BY <1>1
  <2>. HIDE DEF u
  <2>2. [u EXCEPT !.tx = x] = s
    BY <2>1
  <2>. QED BY <2>2 DEF u
<1>3. content'[b] = s /\ content' \in [MemBlock -> {content'[c] : c \in MemBlock}]
  BY <1>2
<1>4. \A c \in MemBlock \ {b} : content'[c] = content[c]
  OBVIOUS
<1>. HIDE DEF r, s
<1>5. content' = [content EXCEPT ![b] = s]
  BY <1>3, <1>4
<1>. QED BY <1>5 DEF Rewrites, s, r

LEMMA TextDivided ==
  ASSUME content \in [MemBlock -> Content], NEW b \in MemBlock, NEW t,
         content' = [content EXCEPT ![b].text = t]
  PROVE  Rewrites(b, content[b].tx, t)
<1>. DEFINE r == content[b]
            s == [type |-> r.type, tx |-> r.tx, text |-> t]
<1>1. r = [type |-> r.type, tx |-> r.tx, text |-> r.text]
  BY DEF Content
<1>2. [r EXCEPT !.text = t] = s
  <2>. HIDE DEF r
  <2>. QED BY <1>1
<1>. HIDE DEF s
<1>3. content' = [content EXCEPT ![b] = s]
  BY <1>2 DEF r
<1>. QED BY <1>3 DEF Rewrites, s, r

LEMMA Rewritten ==
  ASSUME content \in [MemBlock -> Content], NEW b \in MemBlock,
         NEW x \in Proc \cup {Main, NoProc}, NEW t \in Seq(Letters), Rewrites(b, x, t)
  PROVE  /\ content' \in [MemBlock -> Content]
         /\ \A c \in MemBlock \ {b} : content'[c] = content[c]
         /\ content'[b].type = content[b].type
         /\ content'[b].tx = x /\ content'[b].text = t
<1>. DEFINE r == [type |-> content[b].type, tx |-> x, text |-> t]
<1>1. r \in Content /\ r.type = content[b].type /\ r.tx = x /\ r.text = t
  BY DEF Content
<1>2. content' = [content EXCEPT ![b] = r]
  BY DEF Rewrites
<1>. HIDE DEF r
<1>. QED BY <1>1, <1>2

\* A process writes into a block that is no registration, and sends it or keeps it.
LEMMA WritesContents ==
  ASSUME RtxIInv, Texts, Written, AllTidy, NEW p \in Client, NEW b \in held[p],
         ~IsRegistration(b),
         NEW x \in Proc \cup {Main, NoProc}, NEW t \in Seq(Letters), Rewrites(b, x, t),
         available' = available, \A c \in MemBlock \ {b} : owner'[c] = owner[c],
         NEW point, point \notin {"fill", "fill2"}, pc' = [pc EXCEPT ![p] = point],
         new' = new, Pointers
  PROVE  content' \in [MemBlock -> Content] /\ Written'
<1>0. p \in Proc /\ Client \subseteq Proc
  BY ClientsAreProc
<1>1. b \in MemBlock /\ ~IsFree(b) /\ \A q \in Proc : b \in held[q] => q = p
  BY <1>0, HeldProperties DEF RtxIInv
<1>2. /\ content' \in [MemBlock -> Content]
      /\ \A c \in MemBlock \ {b} : content'[c] = content[c]
      /\ content'[b].type = content[b].type
  BY <1>1, Rewritten DEF Texts
<1>3. ASSUME NEW c \in MemBlock, IsFree(c)' PROVE content'[c] = Blank
  <2>1. IsFree(c)
    BY <1>3 DEF IsFree
  <2>. QED BY <1>1, <1>2, <2>1 DEF Written
<1>4. ASSUME NEW q \in Client, pc'[q] \in {"fill", "fill2"}
      PROVE  content'[new'[q]] = Blank
  <2>1. q # p /\ pc[q] = pc'[q]
    BY <1>0, <1>4 DEF Pointers
  <2>2. new[q] \in held[q]
    BY <1>4, <2>1 DEF AllTidy, Tidy, Named
  <2>3. new[q] \in MemBlock /\ new[q] # b
    BY <1>0, <1>1, <2>1, <2>2, HeldProperties DEF RtxIInv
  <2>. QED BY <1>2, <1>4, <2>1, <2>3 DEF Written
<1>5. \A c \in MemBlock : IsRegistration(c)' <=> IsRegistration(c)
  BY <1>2 DEF IsRegistration
<1>6. ASSUME NEW c \in MemBlock, IsRegistration(c)'
      PROVE  owner'[c] = Kcd /\ content'[c] = [type |-> REGISTER_CMD, tx |-> Prio, text |-> Switch]
  BY <1>2, <1>5, <1>6 DEF Written
<1>. QED BY <1>2, <1>3, <1>4, <1>5, <1>6 DEF Written

\* A process releases a block.
LEMMA FreesContents ==
  ASSUME RtxIInv, Texts, Written, AllTidy, NEW p \in Client, NEW b, Free(p, b),
         NEW point, point \notin {"fill", "fill2"}, pc' = [pc EXCEPT ![p] = point],
         new' = new, Pointers
  PROVE  content' \in [MemBlock -> Content] /\ Written'
<1>0. p \in Proc /\ Client \subseteq Proc
  BY ClientsAreProc
<1>1. b \in held[p] /\ b \in MemBlock /\ Release(p, b)
  BY <1>0, ReleaseCalls DEF Free
<1>2. ~IsFree(b) /\ \A q \in Proc : b \in held[q] => q = p
  BY <1>0, <1>1, HeldProperties DEF RtxIInv
<1>3. /\ content' \in [MemBlock -> Content] /\ content'[b] = Blank
      /\ \A c \in MemBlock \ {b} : content'[c] = content[c]
  BY <1>1, BlankIsContent DEF Free, Texts
<1>4. \A c : IsFree(c)' <=> IsFree(c) \/ c = b
  BY <1>1, AppendContains DEF IsFree, Release, RtxIInv, Accounts, DataTypeOK
<1>5. ASSUME NEW q \in Client, pc'[q] \in {"fill", "fill2"}
      PROVE  content'[new'[q]] = Blank
  <2>1. q # p /\ pc[q] = pc'[q]
    BY <1>0, <1>5 DEF Pointers
  <2>2. new[q] \in held[q]
    BY <1>5, <2>1 DEF AllTidy, Tidy, Named
  <2>3. new[q] \in MemBlock /\ new[q] # b
    BY <1>0, <1>2, <2>1, <2>2, HeldProperties DEF RtxIInv
  <2>. QED BY <1>3, <1>5, <2>1, <2>3 DEF Written
<1>6. \A c \in MemBlock : IsRegistration(c)' <=> IsRegistration(c) /\ c # b
  BY <1>3, BlankIsContent DEF IsRegistration
<1>7. \A c \in MemBlock \ {b} : owner'[c] = owner[c]
  BY <1>1 DEF Release, RtxIInv, Accounts, DataTypeOK
<1>8. ASSUME NEW c \in MemBlock, IsRegistration(c)'
      PROVE  owner'[c] = Kcd /\ content'[c] = [type |-> REGISTER_CMD, tx |-> Prio, text |-> Switch]
  BY <1>3, <1>6, <1>7, <1>8 DEF Written
<1>9. ASSUME NEW c \in MemBlock, IsFree(c)' PROVE content'[c] = Blank
  BY <1>3, <1>4, <1>9 DEF Written
<1>. QED BY <1>3, <1>5, <1>6, <1>8, <1>9 DEF Written

\* Nothing is written, and no registration changes hands.
LEMMA QuietContents ==
  ASSUME RtxIInv, Written, content' = content, NEW p \in Client, Pointers,
         \A b \in MemBlock : IsFree(b)' => IsFree(b),
         \A b \in MemBlock : ~IsFree(b) => owner'[b] = owner[b],
         \A q \in Client \ {p} : pc'[q] = pc[q] /\ new'[q] = new[q],
         pc'[p] \in {"fill", "fill2"} => content[new'[p]] = Blank
  PROVE  Written'
<1>1. \A b \in MemBlock : IsRegistration(b)' <=> IsRegistration(b)
  BY DEF IsRegistration
<1>2. ASSUME NEW b \in MemBlock, IsRegistration(b)'
      PROVE  owner'[b] = Kcd /\ content'[b] = [type |-> REGISTER_CMD, tx |-> Prio, text |-> Switch]
  <2>1. ~IsFree(b)
    BY <1>1, <1>2, BlankIsContent DEF Written, IsRegistration
  <2>. QED BY <1>1, <1>2, <2>1 DEF Written
<1>. QED BY <1>1, <1>2 DEF Written

LEMMA ClientContents ==
  ASSUME RtxIInv, Pointers, Texts, Written, NEW p \in Client, ClientStep(p)
  PROVE  content' = content /\ Written'
<1>0. p \in Proc /\ Client \subseteq Proc
  BY ClientsAreProc
<1>1. CASE Waits(p)
  <2>1. UNCHANGED <<available, owner, content, pc, new>>
    BY <1>1 DEF Waits, localVars, ReceiveFindsNone, ReceiveBlocks, RequestFindsNone,
                RequestBlocks, SendUnblocks, ReleaseUnblocks, memVars
  <2>2. \A b : IsFree(b)' <=> IsFree(b)
    BY <2>1 DEF IsFree
  <2>. QED BY <2>1, <2>2, QuietContents DEF Written
<1>2. CASE Gets(p)
  <2>1. /\ UNCHANGED <<available, owner, content>> /\ new' = new
        /\ pc' = [pc EXCEPT ![p] = "got"]
    BY <1>2 DEF Gets, Receive, GoOn, memVars
  <2>2. \A b : IsFree(b)' <=> IsFree(b)
    BY <2>1 DEF IsFree
  <2>. QED BY <1>0, <2>1, <2>2, QuietContents DEF Pointers
<1>3. CASE Obtains(p)
  <2>1. PICK b \in MemBlock : IsFree(b) /\ new' = [new EXCEPT ![p] = b]
    BY <1>0, <1>3, ObtainsHolds
  <2>2. content' = content /\ \E point : pc' = [pc EXCEPT ![p] = point]
    BY <1>3 DEF Obtains, GoOn
  <2>3. /\ \A q \in Client \ {p} : pc'[q] = pc[q] /\ new'[q] = new[q]
        /\ new'[p] = b
    BY <1>0, <2>1, <2>2 DEF Pointers
  <2>4. /\ \A c : IsFree(c)' <=> IsFree(c) /\ c # Head(available)
        /\ owner' = [owner EXCEPT ![Head(available)] = p] /\ IsFree(Head(available))
    BY <1>3, HeadIsFree DEF Obtains, Request, RtxIInv, IsFree
  <2>5. content[new'[p]] = Blank
    BY <2>1, <2>3 DEF Written
  <2>6. \A c \in MemBlock : ~IsFree(c) => owner'[c] = owner[c]
    BY <2>4 DEF RtxIInv, Accounts, DataTypeOK
  <2>. QED BY <2>2, <2>3, <2>4, <2>5, <2>6, QuietContents
<1>. QED BY <1>1, <1>2, <1>3 DEF ClientStep

LEMMA MailContents ==
  ASSUME RtxIInv, Texts, Written, AllTidy, Pointers, NEW p \in Client, NEW b, NEW q,
         NEW s \in Seq(Letters), Mail(p, b, q, s), ~IsRegistration(b),
         NEW point, point \notin {"fill", "fill2"}, pc' = [pc EXCEPT ![p] = point],
         new' = new
  PROVE  /\ content' \in [MemBlock -> Content] /\ Written'
         /\ b \in MemBlock /\ Rewrites(b, p, Overwrite(content[b].text, s))
<1>1. Send(p, b, q)
  BY DEF Mail
<1>2. p \in Proc /\ b \in MemBlock /\ b \in held[p]
  BY <1>1, SendCalls
<1>3. content[b].text \in Seq(Letters)
  BY <1>2 DEF Texts, Content
<1>. DEFINE t == Overwrite(content[b].text, s)
<1>4. t \in Seq(Letters)
  BY <1>3, OverwriteProperties
<1>5. content' = [content EXCEPT ![b].text = t, ![b].tx = p]
  BY DEF Mail
<1>. HIDE DEF t
<1>6. Rewrites(b, p, t)
  BY <1>2, <1>5, TextWritten DEF Texts
<1>7. available' = available /\ \A c \in MemBlock \ {b} : owner'[c] = owner[c]
  BY <1>1 DEF Send, Address, RtxIInv, Accounts, DataTypeOK
<1>8. content' \in [MemBlock -> Content] /\ Written'
  BY <1>2, <1>4, <1>6, <1>7, WritesContents
<1>. QED BY <1>2, <1>6, <1>8 DEF t

\* Outside a program's writes and releases its texts stay as they are.
LEMMA PassContents ==
  ASSUME RtxIInv, Written, UNCHANGED <<content, rtxVars, new>>, NEW p \in Client, Pointers,
         NEW point, point \notin {"fill", "fill2"}, pc' = [pc EXCEPT ![p] = point]
  PROVE  Written'
<1>1. \A b : IsFree(b)' <=> IsFree(b)
  BY DEF IsFree, rtxVars, dataVars, memVars
<1>2. owner' = owner
  BY DEF rtxVars, dataVars, memVars
<1>3. p \in Proc /\ pc'[p] = point /\ \A q \in Client \ {p} : pc'[q] = pc[q]
  BY ClientsAreProc DEF Pointers
<1>. QED BY <1>1, <1>2, <1>3, QuietContents

\* The block that is about to be filled is blank.
LEMMA BlankToFill ==
  ASSUME Written, NEW p \in Client, pc[p] \in {"fill", "fill2"}
  PROVE  content[new[p]] = Blank /\ ~IsRegistration(new[p])
BY BlankIsContent DEF Written, IsRegistration

LEMMA BufferedIsText ==
  ASSUME line \in Seq(Letters), NEW c \in Letters
  PROVE  Buffered(c) \in Seq(Letters)
<1>1. <<c>> \in Seq(Letters) /\ <<>> \in Seq(Letters) /\ Append(line, c) \in Seq(Letters)
  BY AppendProperties, EmptySeq
<1>. QED BY <1>1 DEF Buffered

LEMMA DecoderContents ==
  ASSUME RtxIInv, Pointers, AllTidy, Texts, Written, Decoder
  PROVE  Texts' /\ Written'
<1>0. Kcd \in Client /\ Kcd \in Proc
  BY ReceiverAssumption DEF Client
<1>1. CASE KcdStarts
  <2>1. Written'
    BY <1>0, <1>1, PassContents DEF KcdStarts, GoOn
  <2>. QED BY <1>1, <2>1 DEF KcdStarts, Texts, userVars
<1>2. CASE KcdRegisters \/ KcdClears
  <2>1. content' \in [MemBlock -> Content] /\ Written'
    BY <1>0, <1>2, FreesContents DEF KcdRegisters, KcdClears, GoOn
  <2>. QED BY <1>2, <2>1 DEF KcdRegisters, KcdClears, Texts, userVars
<1>3. CASE KcdSendsClear
  <2>1. content' \in [MemBlock -> Content] /\ Written'
    BY <1>0, <1>3, BlankToFill, MailContents, ControlsAreText DEF KcdSendsClear, GoOn
  <2>. QED BY <1>3, <2>1 DEF KcdSendsClear, Texts, userVars
<1>4. CASE KcdEchoes
  <2>. DEFINE c == CharAt(Text(Kcd), 1)
              s == IF c = CR THEN <<CR, LF>> ELSE <<c>>
  <2>1. msg[Kcd] \in MemBlock
    BY <1>0, <1>4, SendCalls DEF KcdEchoes, Mail
  <2>2. c \in Letters
    BY <2>1, CharAtIsLetter DEF Text, Texts, Content
  <2>3. s \in Seq(Letters)
    BY <2>2, ControlsAreText
  <2>4. Mail(Kcd, msg[Kcd], Crt, s) /\ ~IsRegistration(msg[Kcd])
    BY <1>4 DEF KcdEchoes, IsRegistration
  <2>5. \E point \in {"request", "receive"} : pc' = [pc EXCEPT ![Kcd] = point]
    BY <1>4 DEF KcdEchoes, GoOn
  <2>6. line' = Buffered(c) /\ UNCHANGED <<new, keys, reply>>
    BY <1>4 DEF KcdEchoes, userVars
  <2>. HIDE DEF c, s
  <2>7. content' \in [MemBlock -> Content] /\ Written'
    BY <1>0, <2>3, <2>4, <2>5, <2>6, MailContents
  <2>. QED BY <2>2, <2>6, <2>7, BufferedIsText DEF Texts
<1>5. CASE KcdSendsCommand
  <2>1. content' \in [MemBlock -> Content] /\ Written'
    BY <1>0, <1>5, BlankToFill, MailContents DEF KcdSendsCommand, GoOn, Texts
  <2>. QED BY <1>5, <2>1, EmptySeq DEF KcdSendsCommand, Texts, userVars
<1>. QED BY <1>1, <1>2, <1>3, <1>4, <1>5 DEF Decoder

LEMMA OutputContents ==
  ASSUME RtxIInv, Pointers, AllTidy, Texts, Written, Output
  PROVE  Texts' /\ Written'
<1>0. Crt \in Client /\ Uart \in Client /\ Crt \in Proc
  BY ClientsAreProc DEF Client
<1>1. CASE CrtLoops \/ UartWrites
  <2>1. Written'
    BY <1>0, <1>1, PassContents DEF CrtLoops, UartWrites, GoOn
  <2>. QED BY <1>1, <2>1 DEF CrtLoops, UartWrites, Texts, userVars
<1>2. CASE CrtReleases \/ UartTakes
  <2>1. content' \in [MemBlock -> Content] /\ Written'
    BY <1>0, <1>2, FreesContents DEF CrtReleases, UartTakes, GoOn
  <2>. QED BY <1>2, <2>1 DEF CrtReleases, UartTakes, Texts, userVars
<1>3. CASE CrtSends
  <2>. DEFINE s == <<CharAt(Text(Crt), pos)>>
  <2>1. msg[Crt] \in held[Crt]
    BY <1>0, <1>3 DEF CrtSends, AllTidy, Tidy, Named
  <2>2. msg[Crt] \in MemBlock
    BY <1>0, <2>1 DEF RtxIInv, Accounts, DataTypeOK
  <2>3. s \in Seq(Letters)
    BY <2>2, CharAtIsLetter DEF Text, Texts, Content
  <2>4. Mail(Crt, new[Crt], Uart, s) /\ ~IsRegistration(new[Crt])
    BY <1>0, <1>3, BlankToFill DEF CrtSends
  <2>. HIDE DEF s
  <2>5. content' \in [MemBlock -> Content] /\ Written'
    BY <1>0, <1>3, <2>3, <2>4, MailContents DEF CrtSends, GoOn
  <2>. QED BY <1>3, <2>5 DEF CrtSends, Texts, userVars
<1>. QED BY <1>1, <1>2, <1>3 DEF Output

\* What the priority command has received is no registration: it is its own.
LEMMA OwnIsNoRegistration ==
  ASSUME RtxIInv, AllTidy, Written, pc[Prio] \in {"got", "reply"}
  PROVE  /\ msg[Prio] \in held[Prio] /\ msg[Prio] \in MemBlock
         /\ ~IsRegistration(msg[Prio])
<1>1. Prio \in Client /\ Prio \in Proc /\ Prio # Kcd
  BY ClientsAreProc, ClientsDiffer DEF Client
<1>2. msg[Prio] \in held[Prio]
  BY <1>1 DEF AllTidy, Tidy, Named
<1>3. msg[Prio] \in MemBlock /\ owner[msg[Prio]] = Prio
  BY <1>1, <1>2, HeldProperties DEF RtxIInv
<1>. QED BY <1>1, <1>2, <1>3 DEF Written

LEMMA RegisterContents ==
  ASSUME RtxIInv, Pointers, AllTidy, Texts, Written, PrioRegisters,
         \A b \in MemBlock : ~IsRegistration(b)
  PROVE  /\ content' \in [MemBlock -> Content] /\ Written'
         /\ new[Prio] \in MemBlock /\ Send(Prio, new[Prio], Kcd)
         /\ \A c \in MemBlock : IsRegistration(c)' <=> c = new[Prio]
<1>0. Prio \in Client /\ Prio \in Proc /\ Client \subseteq Proc
  BY ClientsAreProc DEF Client
<1>. DEFINE b == new[Prio]
            r == [type |-> REGISTER_CMD, tx |-> Prio, text |-> Switch]
<1>1. Send(Prio, b, Kcd) /\ content[b] = Blank
  BY <1>0, BlankToFill DEF PrioRegisters, Register
<1>2. b \in MemBlock /\ b \in held[Prio]
  BY <1>1, SendCalls
<1>3. ~IsFree(b) /\ \A q \in Proc : b \in held[q] => q = Prio
  BY <1>0, <1>2, HeldProperties DEF RtxIInv
<1>4. content' = [content EXCEPT ![b] = r]
  <2>1. Overwrite(content[b].text, Switch) = Switch
    <3>1. Overwrite(<<>>, Switch) = Switch
      BY SwitchIsText, OverwriteBlank
    <3>. QED BY <1>1, <3>1, BlankIsContent
  <2>. QED BY <2>1 DEF PrioRegisters, Register
<1>5. r \in Content /\ r.type = REGISTER_CMD
  BY <1>0, SwitchIsText DEF Content
<1>. HIDE DEF r
<1>6. /\ content' \in [MemBlock -> Content] /\ content'[b] = r
      /\ \A c \in MemBlock \ {b} : content'[c] = content[c]
  BY <1>2, <1>4, <1>5 DEF Texts
<1>7. /\ available' = available
      /\ owner' = [owner EXCEPT ![b] = Kcd] /\ owner'[b] = Kcd
  BY <1>1, <1>2 DEF Send, Address, RtxIInv, Accounts, DataTypeOK
<1>8. \A c \in MemBlock : IsRegistration(c)' <=> c = b
  BY <1>5, <1>6 DEF IsRegistration
<1>9. ASSUME NEW c \in MemBlock, IsFree(c)' PROVE content'[c] = Blank
  <2>1. IsFree(c)
    BY <1>7, <1>9 DEF IsFree
  <2>. QED BY <1>3, <1>6, <2>1 DEF Written
<1>10. ASSUME NEW q \in Client, pc'[q] \in {"fill", "fill2"}
       PROVE  content'[new'[q]] = Blank
  <2>1. q # Prio /\ pc[q] = pc'[q] /\ new' = new
    BY <1>0, <1>10 DEF PrioRegisters, GoOn, Pointers
  <2>2. new[q] \in held[q]
    BY <1>10, <2>1 DEF AllTidy, Tidy, Named
  <2>3. new[q] \in MemBlock /\ new[q] # b
    BY <1>0, <1>3, <2>1, <2>2, HeldProperties DEF RtxIInv
  <2>. QED BY <1>6, <1>10, <2>1, <2>3 DEF Written
<1>11. ASSUME NEW c \in MemBlock, IsRegistration(c)'
       PROVE  owner'[c] = Kcd /\ content'[c] = r
  BY <1>6, <1>7, <1>8, <1>11
<1>12. Written'
  BY <1>8, <1>9, <1>10, <1>11 DEF Written, r
<1>. QED BY <1>1, <1>2, <1>6, <1>8, <1>12

LEMMA CommandContents ==
  ASSUME RtxIInv, Pointers, AllTidy, Texts, Written, Command,
         pc[Prio] = "fill" => \A b \in MemBlock : ~IsRegistration(b)
  PROVE  Texts' /\ Written'
<1>0. Prio \in Client /\ Prio \in Proc
  BY ClientsAreProc DEF Client
<1>1. CASE PrioRegisters
  <2>1. content' \in [MemBlock -> Content] /\ Written'
    BY <1>1, RegisterContents DEF PrioRegisters
  <2>. QED BY <1>1, <2>1 DEF PrioRegisters, Texts, userVars
<1>2. CASE PrioComplains
  <2>1. /\ msg[Prio] \in held[Prio] /\ msg[Prio] \in MemBlock
        /\ ~IsRegistration(msg[Prio])
    BY <1>2, OwnIsNoRegistration DEF PrioComplains
  <2>. DEFINE b == msg[Prio]
              old == content[b].text
  <2>2. PICK kind \in Complaint(old) :
          content' = [content EXCEPT
             ![b].text = Overwrite(IF kind = "bad" THEN @ ELSE Divided(@), Reply[kind]),
             ![b].tx = Prio]
    BY <1>2 DEF PrioComplains, Text
  <2>3. old \in Seq(Letters) /\ kind \in ReplyKind
    BY <2>1, <2>2 DEF Texts, Content, Complaint, ReplyKind
  <2>. DEFINE t == Overwrite(IF kind = "bad" THEN old ELSE Divided(old), Reply[kind])
  <2>4. t \in Seq(Letters)
    <3>1. Overwrite(old, Reply[kind]) \in Seq(Letters)
      BY <2>3, ReplyIsText, OverwriteProperties
    <3>2. Overwrite(Divided(old), Reply[kind]) \in Seq(Letters)
      BY <2>3, ReplyIsText, OverwriteProperties, DividedProperties
    <3>. QED BY <3>1, <3>2
  <2>5. content' = [content EXCEPT ![b].text = t, ![b].tx = Prio]
    BY <2>2
  <2>6. /\ available' = available /\ new' = new /\ pc' = [pc EXCEPT ![Prio] = "receive"]
        /\ owner' = [owner EXCEPT ![b] = Crt]
    BY <1>2 DEF PrioComplains, Send, Address, GoOn
  <2>7. \A c \in MemBlock \ {b} : owner'[c] = owner[c]
    BY <2>6 DEF RtxIInv, Accounts, DataTypeOK
  <2>. HIDE DEF t, old
  <2>8. Rewrites(b, Prio, t)
    BY <2>1, <2>5, TextWritten DEF Texts
  <2>9. content' \in [MemBlock -> Content] /\ Written'
    BY <1>0, <2>1, <2>4, <2>6, <2>7, <2>8, WritesContents
  <2>. QED BY <1>2, <2>9 DEF PrioComplains, Texts, userVars
<1>3. CASE PrioSets
  <2>1. /\ msg[Prio] \in held[Prio] /\ msg[Prio] \in MemBlock
        /\ ~IsRegistration(msg[Prio])
    BY <1>3, OwnIsNoRegistration DEF PrioSets
  <2>. DEFINE b == msg[Prio]
              t == Divided(content[b].text)
  <2>2. content' = [content EXCEPT ![b].text = t]
    BY <1>3 DEF PrioSets
  <2>3. t \in Seq(Letters) /\ content[b].tx \in Proc \cup {Main, NoProc}
    BY <2>1, DividedProperties DEF Texts, Content
  <2>4. UNCHANGED <<available, owner, new>> /\ pc' = [pc EXCEPT ![Prio] = "reply"]
    BY <1>3 DEF PrioSets, ChangePriority, GoOn, rtxVars, dataVars, memVars
  <2>. HIDE DEF t
  <2>5. Rewrites(b, content[b].tx, t)
    BY <2>1, <2>2, TextDivided DEF Texts
  <2>6. content' \in [MemBlock -> Content] /\ Written'
    BY <1>0, <2>1, <2>3, <2>4, <2>5, WritesContents
  <2>7. reply' \in ReplyKind /\ UNCHANGED <<line, keys>>
    BY <1>3 DEF PrioSets, ReplyKind, userVars
  <2>. QED BY <2>6, <2>7 DEF Texts
<1>4. CASE PrioReplies
  <2>1. ~IsRegistration(msg[Prio]) /\ Reply[reply] \in Seq(Letters)
    BY <1>4, OwnIsNoRegistration, ReplyIsText DEF PrioReplies, Texts
  <2>2. content' \in [MemBlock -> Content] /\ Written'
    BY <1>0, <1>4, <2>1, MailContents DEF PrioReplies, GoOn
  <2>. QED BY <1>4, <2>2 DEF PrioReplies, Texts, userVars
<1>. QED BY <1>1, <1>2, <1>3, <1>4 DEF Command

\* A character is written into a free block, which goes to the decoder.
LEMMA TypesContents ==
  ASSUME RtxIInv, Pointers, AllTidy, Texts, Written, Types
  PROVE  /\ Texts' /\ Written'
         /\ Rewrites(Head(available), kernel.running, <<Head(keys)>>)
         /\ keys # <<>> /\ keys' = Tail(keys)
         /\ Head(available) \in MemBlock /\ IsFree(Head(available))
<1>. DEFINE b == Head(available)
            t == Overwrite(content[b].text, <<Head(keys)>>)
<1>1. /\ b \in MemBlock /\ IsFree(b)
      /\ \A c : Contains(Tail(available), c) <=> IsFree(c) /\ c # b
  BY HeadIsFree DEF Types, SerialInterrupt, RtxIInv
<1>2. keys # <<>> /\ keys' = Tail(keys) /\ Head(keys) \in Letters /\ Tail(keys) \in Seq(Letters)
  BY HeadTailProperties DEF Types, Typing, Texts
<1>3. content[b] = Blank
  BY <1>1 DEF Written
<1>4. t = <<Head(keys)>> /\ t \in Seq(Letters)
  <2>1. <<Head(keys)>> \in Seq(Letters)
    BY <1>2
  <2>2. Overwrite(<<>>, <<Head(keys)>>) = <<Head(keys)>>
    BY <2>1, OverwriteBlank
  <2>. QED BY <1>3, <2>1, <2>2, BlankIsContent
<1>5. content' = [content EXCEPT ![b].text = t, ![b].tx = kernel.running]
  BY DEF Types
<1>. HIDE DEF b, t
<1>6. Rewrites(b, kernel.running, t)
  BY <1>1, <1>5, TextWritten DEF Texts
<1>7. kernel.running \in Proc \cup {Main, NoProc}
  BY DEF RtxIInv, IInv, TypeOK, KernelType
<1>8. /\ content' \in [MemBlock -> Content]
      /\ \A c \in MemBlock \ {b} : content'[c] = content[c]
      /\ content'[b].type = content[b].type
  BY <1>1, <1>4, <1>6, <1>7, Rewritten DEF Texts
<1>9. /\ UNCHANGED <<pc, new>> /\ available' = Tail(available)
      /\ owner' = [owner EXCEPT ![b] = Kcd]
  BY DEF Types, SerialInterrupt, b
<1>10. \A c \in MemBlock : IsRegistration(c)' <=> IsRegistration(c)
  BY <1>8 DEF IsRegistration
<1>11. \A c : IsFree(c)' <=> IsFree(c) /\ c # b
  BY <1>1, <1>9 DEF IsFree
<1>12. ASSUME NEW q \in Client, pc'[q] \in {"fill", "fill2"}
       PROVE  content'[new'[q]] = Blank
  <2>1. q \in Proc /\ new[q] \in held[q]
    BY <1>9, <1>12, ClientsAreProc DEF AllTidy, Tidy, Named
  <2>2. new[q] \in MemBlock /\ new[q] # b
    BY <1>1, <2>1, HeldProperties DEF RtxIInv
  <2>. QED BY <1>8, <1>9, <1>12, <2>2 DEF Written
<1>13. ASSUME NEW c \in MemBlock, IsRegistration(c)'
       PROVE  owner'[c] = Kcd /\ content'[c] = [type |-> REGISTER_CMD, tx |-> Prio, text |-> Switch]
  <2>1. IsRegistration(c) /\ c # b
    BY <1>3, <1>10, <1>13, BlankIsContent DEF IsRegistration
  <2>2. owner'[c] = owner[c] /\ content'[c] = content[c]
    BY <1>8, <1>9, <2>1 DEF RtxIInv, Accounts, DataTypeOK
  <2>. QED BY <2>1, <2>2 DEF Written
<1>14. ASSUME NEW c \in MemBlock, IsFree(c)' PROVE content'[c] = Blank
  BY <1>8, <1>11, <1>14 DEF Written
<1>15. Written'
  BY <1>10, <1>12, <1>13, <1>14 DEF Written
<1>16. Texts'
  BY <1>2, <1>8 DEF Texts, Types
<1>. QED BY <1>1, <1>2, <1>4, <1>6, <1>15, <1>16 DEF b

-----------------------------------------------------------------------------
(* Where the programs are. *)

\* Each program keeps to its own places, and a process waits in the primitive that
\* its program is at.
Programs ==
    /\ pc[Kcd] \in {"start", "receive", "got", "request", "fill", "request2", "fill2"}
    /\ pc[Crt] \in {"receive", "got", "request", "fill"}
    /\ pc[Uart] \in {"receive", "got", "write"}
    /\ pc[Prio] \in {"request", "fill", "receive", "got", "reply"}

Waiting(p) ==
    /\ at[p] \in {"mem_gap", "mem"} => pc[p] \in {"request", "request2"}
    /\ at[p] \in {"recv_gap", "recv"} => pc[p] = "receive"

\* p's program goes on, outside the primitives that wait.
Proceeds(p) ==
    /\ at'[p] \in {"run", "rel_gap", "send_gap"}
    /\ \A q \in Proc \ {p} : at'[q] = at[q] /\ pc'[q] = pc[q]

LEMMA SendProceeds ==
  ASSUME RtxIInv, Pointers, NEW p \in Proc, NEW b, NEW q, NEW point,
         Send(p, b, q) \/ Release(p, b) \/ (Running(p, {"run"}) /\ UNCHANGED at),
         pc' = [pc EXCEPT ![p] = point]
  PROVE  Proceeds(p) /\ pc'[p] = point
BY DEF RtxIInv, Accounts, DataTypeOK, Pointers, Send, Release, GoTo, Running, Proceeds

LEMMA ClientProceeds ==
  ASSUME RtxIInv, Pointers, NEW p \in Proc, ClientStep(p)
  PROVE  /\ \A q \in Proc \ {p} : at'[q] = at[q] /\ pc'[q] = pc[q]
         /\ Waiting(p) => Waiting(p)'
         /\ <<pc[p], pc'[p]>> \in {<<"receive", "got">>, <<"request", "fill">>,
                                   <<"request2", "fill2">>, <<pc[p], pc[p]>>}
<1>0. at \in [Proc -> Point] /\ pc \in [Proc -> Stages]
  BY DEF RtxIInv, Accounts, DataTypeOK, Pointers
<1>1. CASE Waits(p)
  <2>1. pc' = pc
    BY <1>1 DEF Waits, localVars
  <2>2. CASE pc[p] = "receive" /\ (ReceiveFindsNone(p) \/ ReceiveBlocks(p))
    BY <1>0, <2>1, <2>2 DEF ReceiveFindsNone, ReceiveBlocks, GoTo, Waiting
  <2>3. CASE pc[p] \in {"request", "request2"} /\ (RequestFindsNone(p) \/ RequestBlocks(p))
    BY <1>0, <2>1, <2>3 DEF RequestFindsNone, RequestBlocks, GoTo, Waiting
  <2>4. CASE SendUnblocks(p) \/ ReleaseUnblocks(p)
    BY <1>0, <2>1, <2>4 DEF SendUnblocks, ReleaseUnblocks, GoTo, Waiting
  <2>. QED BY <1>1, <2>2, <2>3, <2>4 DEF Waits
<1>2. CASE Gets(p)
  BY <1>0, <1>2 DEF Gets, Receive, GoTo, GoOn, Waiting
<1>3. CASE Obtains(p)
  BY <1>0, <1>3 DEF Obtains, Request, GoTo, GoOn, Waiting
<1>. QED BY <1>1, <1>2, <1>3 DEF ClientStep

LEMMA DecoderProceeds ==
  ASSUME RtxIInv, Pointers, Decoder
  PROVE  /\ Proceeds(Kcd) /\ pc'[Kcd] \in {"receive", "request", "request2"}
         /\ pc[Kcd] = "start" => KcdStarts
<1>0. Kcd \in Proc
  BY ReceiverAssumption
<1>1. \E b, q, point :
         /\ Send(Kcd, b, q) \/ Release(Kcd, b) \/ (Running(Kcd, {"run"}) /\ UNCHANGED at)
         /\ pc' = [pc EXCEPT ![Kcd] = point]
         /\ point \in {"receive", "request", "request2"}
  BY DEF Decoder, KcdStarts, KcdRegisters, KcdClears, KcdSendsClear, KcdEchoes,
         KcdSendsCommand, Free, Mail, GoOn, rtxVars, dataVars, callVars
<1>2. pc[Kcd] = "start" => KcdStarts
  BY DEF Decoder, KcdRegisters, KcdClears, KcdSendsClear, KcdEchoes, KcdSendsCommand
<1>. QED BY <1>0, <1>1, <1>2, SendProceeds

LEMMA OutputProceeds ==
  ASSUME RtxIInv, Pointers, Output
  PROVE  \/ Proceeds(Crt) /\ pc'[Crt] \in {"receive", "got", "request"}
         \/ Proceeds(Uart) /\ pc'[Uart] \in {"receive", "write"}
<1>0. Crt \in Proc /\ Uart \in Proc
  BY ClientsAreProc DEF Client
<1>1. ASSUME CrtLoops \/ CrtSends \/ CrtReleases
      PROVE  \E b, q, point :
         /\ Send(Crt, b, q) \/ Release(Crt, b) \/ (Running(Crt, {"run"}) /\ UNCHANGED at)
         /\ pc' = [pc EXCEPT ![Crt] = point]
         /\ point \in {"receive", "got", "request"}
  BY <1>1 DEF CrtLoops, CrtSends, CrtReleases, Free, Mail, GoOn, rtxVars, dataVars, callVars
<1>2. ASSUME UartTakes \/ UartWrites
      PROVE  \E b, q, point :
         /\ Send(Uart, b, q) \/ Release(Uart, b) \/ (Running(Uart, {"run"}) /\ UNCHANGED at)
         /\ pc' = [pc EXCEPT ![Uart] = point]
         /\ point \in {"receive", "write"}
  BY <1>2 DEF UartTakes, UartWrites, Free, GoOn, rtxVars, dataVars, callVars
<1>. QED BY <1>0, <1>1, <1>2, SendProceeds DEF Output

LEMMA CommandProceeds ==
  ASSUME RtxIInv, Pointers, Command
  PROVE  Proceeds(Prio) /\ pc'[Prio] \in {"receive", "reply"}
<1>0. Prio \in Proc
  BY ClientsAreProc DEF Client
<1>1. \E b, q, point :
         /\ Send(Prio, b, q) \/ Release(Prio, b) \/ (Running(Prio, {"run"}) /\ UNCHANGED at)
         /\ pc' = [pc EXCEPT ![Prio] = point]
         /\ point \in {"receive", "reply"}
  BY DEF Command, PrioRegisters, PrioComplains, PrioSets, PrioReplies, ChangePriority,
         Register, Mail, GoOn, rtxVars, dataVars, callVars
<1>. QED BY <1>0, <1>1, SendProceeds

\* What happens without a program's taking a step.
LEMMA IdleProceeds ==
  ASSUME \/ Boot /\ UNCHANGED <<localVars, userVars, historyVars>>
         \/ Types \/ TypesInVain \/ UNCHANGED consoleVars
  PROVE  UNCHANGED <<at, to, held, pc, msg, new, line, cmds, pos, char_out, reply, historyVars>>
BY DEF Boot, dataVars, callVars, localVars, Types, SerialInterrupt, TypesInVain, rtxVars,
       consoleVars

LEMMA StepPrograms ==
  ASSUME RtxIInv, Pointers, Programs, \A p \in Client : Waiting(p),
         [ConsoleNext]_consoleVars
  PROVE  Programs' /\ \A p \in Client : Waiting(p)'
<1>0. /\ Kcd \in Proc /\ Crt \in Proc /\ Uart \in Proc /\ Prio \in Proc
      /\ Client = {Kcd, Crt, Uart, Prio}
  BY ClientsAreProc DEF Client
<1>1. CASE \/ Boot /\ UNCHANGED <<localVars, userVars, historyVars>>
           \/ Types \/ TypesInVain \/ UNCHANGED consoleVars
  BY <1>1, IdleProceeds DEF Programs, Waiting
<1>2. ASSUME NEW p \in Client, ClientStep(p)
      PROVE  Programs' /\ \A q \in Client : Waiting(q)'
  <2>1. /\ \A q \in Proc \ {p} : at'[q] = at[q] /\ pc'[q] = pc[q]
        /\ Waiting(p)'
        /\ <<pc[p], pc'[p]>> \in {<<"receive", "got">>, <<"request", "fill">>,
                                  <<"request2", "fill2">>, <<pc[p], pc[p]>>}
    BY <1>2, ClientProceeds, ClientsAreProc
  <2>2. \A q \in Client : Waiting(q)'
    BY <2>1, ClientsAreProc DEF Waiting
  <2>3. Programs'
    BY <1>0, <2>1 DEF Programs
  <2>. QED BY <2>2, <2>3
<1>3. CASE Decoder
  BY <1>0, <1>3, DecoderProceeds, ClientsDiffer DEF Proceeds, Programs, Waiting
<1>4. CASE Output
  BY <1>0, <1>4, OutputProceeds, ClientsDiffer DEF Proceeds, Programs, Waiting
<1>5. CASE Command
  BY <1>0, <1>5, CommandProceeds, ClientsDiffer DEF Proceeds, Programs, Waiting
<1>. QED BY <1>1, <1>2, <1>3, <1>4, <1>5 DEF ConsoleNext, Processor

-----------------------------------------------------------------------------
(* Who is registered. *)

First == <<[cmd |-> Clear, pid |-> Kcd]>>
Both  == <<[cmd |-> Clear, pid |-> Kcd], [cmd |-> Switch, pid |-> Prio]>>

\* The decoder has registered its own command before it receives anything; the
\* priority command asks for the registration of its own once.
Asked ==
    /\ IF pc[Kcd] = "start" THEN cmds = <<>> ELSE cmds \in {First, Both}
    /\ pc[Prio] \in {"request", "fill"} \/ (\E b \in MemBlock : IsRegistration(b)) =>
          cmds # Both
    /\ pc[Prio] \in {"request", "fill"} => \A b \in MemBlock : ~IsRegistration(b)

LEMMA TypeStays ==
  ASSUME content \in [MemBlock -> Content], NEW b, NEW t, NEW x,
         \/ content' = [content EXCEPT ![b].text = t, ![b].tx = x]
         \/ content' = [content EXCEPT ![b].text = t]
         \/ content' = [content EXCEPT ![b] = Blank]
         \/ content' = content,
         NEW c \in MemBlock, IsRegistration(c)'
  PROVE  IsRegistration(c)
<1>0. ASSUME b \in MemBlock, NEW y, Rewrites(b, y, t) PROVE IsRegistration(c)
  <2>. DEFINE r == [type |-> content[b].type, tx |-> y, text |-> t]
  <2>1. r.type = content[b].type /\ content' = [content EXCEPT ![b] = r]
    BY <1>0 DEF Rewrites
  <2>. HIDE DEF r
  <2>2. content'[c] = IF c = b THEN r ELSE content[c]
    BY <2>1
  <2>. QED BY <2>1, <2>2 DEF IsRegistration
<1>1. CASE b \in MemBlock /\ content' = [content EXCEPT ![b].text = t, ![b].tx = x]
  BY <1>0, <1>1, TextWritten
<1>2. CASE b \in MemBlock /\ content' = [content EXCEPT ![b].text = t]
  BY <1>0, <1>2, TextDivided
<1>3. CASE content' = [content EXCEPT ![b] = Blank]
  BY <1>3, BlankIsContent DEF IsRegistration
<1>4. CASE content' = content
  BY <1>4 DEF IsRegistration
<1>5. CASE b \notin MemBlock
  <2>1. content'[c] = content[c]
    BY <1>5
  <2>. QED BY <2>1 DEF IsRegistration
<1>. QED BY <1>1, <1>2, <1>3, <1>4, <1>5

\* No other step makes a registration of a block.
LEMMA NoNewRegistration ==
  ASSUME Texts, [ConsoleNext]_consoleVars, ~PrioRegisters,
         NEW c \in MemBlock, IsRegistration(c)'
  PROVE  IsRegistration(c)
<1>1. \E b, t, x :
         \/ content' = [content EXCEPT ![b].text = t, ![b].tx = x]
         \/ content' = [content EXCEPT ![b].text = t]
         \/ content' = [content EXCEPT ![b] = Blank]
         \/ content' = content
  <2>1. CASE \/ Boot /\ UNCHANGED <<localVars, userVars, historyVars>>
             \/ TypesInVain \/ UNCHANGED consoleVars \/ \E p \in Client : ClientStep(p)
    BY <2>1 DEF localVars, TypesInVain, consoleVars, ClientStep, Waits, Gets, Obtains
  <2>2. CASE Types
    BY <2>2 DEF Types
  <2>3. CASE Decoder
    BY <2>3 DEF Decoder, KcdStarts, KcdRegisters, KcdClears, KcdSendsClear, KcdEchoes,
                KcdSendsCommand, Free, Mail
  <2>4. CASE Output
    BY <2>4 DEF Output, CrtLoops, CrtSends, CrtReleases, UartTakes, UartWrites, Free, Mail
  <2>5. CASE PrioComplains
    BY <2>5 DEF PrioComplains
  <2>6. CASE PrioSets \/ PrioReplies
    BY <2>6 DEF PrioSets, PrioReplies, Mail
  <2>. QED BY <2>1, <2>2, <2>3, <2>4, <2>5, <2>6 DEF ConsoleNext, Processor, Command
<1>. QED BY <1>1, TypeStays DEF Texts

LEMMA AppendTuples ==
  ASSUME NEW a, NEW b
  PROVE  Append(<<>>, a) = <<a>> /\ Append(<<a>>, b) = <<a, b>>
<1>. DEFINE S == {a, b}
            s1 == Append(<<>>, a)
            s2 == Append(<<a>>, b)
<1>1. <<>> \in Seq(S) /\ Len(<<>>) = 0 /\ <<a>> \in Seq(S) /\ <<a, b>> \in Seq(S)
  BY EmptySeq
<1>2. a \in S /\ b \in S /\ Len(<<a>>) = 1 /\ Len(<<a, b>>) = 2
  OBVIOUS
<1>. HIDE DEF S
<1>3. s1 \in Seq(S) /\ Len(s1) = 1 /\ s1[1] = a
  BY <1>1, <1>2, AppendProperties
<1>4. s2 \in Seq(S) /\ Len(s2) = 2 /\ s2[1] = a /\ s2[2] = b
  BY <1>1, <1>2, AppendProperties
<1>. HIDE DEF s1, s2
<1>5. s1 = <<a>>
  BY <1>1, <1>2, <1>3, SeqEqual
<1>6. s2 = <<a, b>>
  BY <1>1, <1>2, <1>4, SeqEqual
<1>. QED BY <1>5, <1>6 DEF s1, s2

LEMMA RegisteredStep ==
  /\ cmds = <<>> => Registered(Clear, Kcd) = First
  /\ cmds = First => Registered(Switch, Prio) = Both
<1>. DEFINE a == [cmd |-> Clear, pid |-> Kcd]
            b == [cmd |-> Switch, pid |-> Prio]
<1>1. /\ Registered(Clear, Kcd) = Append(cmds, a)
      /\ Registered(Switch, Prio) = Append(cmds, b)
  BY CommandStrings DEF Registered
<1>2. First = <<a>> /\ Both = <<a, b>>
  BY DEF First, Both
<1>. HIDE DEF a, b
<1>3. Append(<<>>, a) = <<a>> /\ Append(<<a>>, b) = <<a, b>>
  BY AppendTuples
<1>. QED BY <1>1, <1>2, <1>3

LEMMA BothFacts == First # Both /\ Both # <<>> /\ First # <<>>
BY DEF First, Both

LEMMA StepAsked ==
  ASSUME RtxIInv, Pointers, AllTidy, Programs, Texts, Written, Asked,
         [ConsoleNext]_consoleVars
  PROVE  Asked'
<1>0. /\ Kcd \in Proc /\ Prio \in Proc /\ Kcd \in Client /\ Prio \in Client /\ Kcd # Prio
  BY ClientsAreProc, ClientsDiffer DEF Client
\* Of most steps it is enough to know how they move the two processes.
<1>1. ASSUME cmds' = cmds, ~PrioRegisters, pc'[Kcd] = "start" <=> pc[Kcd] = "start",
             pc'[Prio] \in {"request", "fill"} => pc[Prio] \in {"request", "fill"}
      PROVE  Asked'
  BY <1>1, NoNewRegistration DEF Asked
<1>2. CASE \/ Boot /\ UNCHANGED <<localVars, userVars, historyVars>>
           \/ Types \/ TypesInVain \/ UNCHANGED consoleVars
  <2>1. cmds' = cmds /\ pc' = pc
    BY <1>2, IdleProceeds
  <2>2. ~PrioRegisters
    <3>1. PrioRegisters => pc[Prio] = "fill" /\ pc'[Prio] = "receive"
      BY <1>0 DEF PrioRegisters, GoOn, Pointers
    <3>. QED BY <2>1, <3>1
  <2>. QED BY <1>1, <2>1, <2>2
<1>3. ASSUME NEW p \in Client, ClientStep(p)
      PROVE  Asked'
  <2>1. cmds' = cmds /\ content' = content
    BY <1>3 DEF ClientStep, Waits, Gets, Obtains, localVars
  <2>2. /\ \A q \in Proc \ {p} : pc'[q] = pc[q]
        /\ <<pc[p], pc'[p]>> \in {<<"receive", "got">>, <<"request", "fill">>,
                                  <<"request2", "fill2">>, <<pc[p], pc[p]>>}
    BY <1>3, ClientProceeds, ClientsAreProc
  <2>3. \A c \in MemBlock : IsRegistration(c)' <=> IsRegistration(c)
    BY <2>1 DEF IsRegistration
  <2>4. /\ pc'[Kcd] = "start" <=> pc[Kcd] = "start"
        /\ pc'[Prio] \in {"request", "fill"} => pc[Prio] \in {"request", "fill"}
    BY <1>0, <2>2
  <2>. QED BY <2>1, <2>3, <2>4 DEF Asked
<1>4. CASE Decoder
  <2>1. /\ pc'[Prio] = pc[Prio] /\ pc'[Kcd] # "start"
        /\ pc[Kcd] = "start" => KcdStarts
    BY <1>0, <1>4, DecoderProceeds DEF Proceeds
  <2>2. ~PrioRegisters
    <3>1. PrioRegisters => pc[Prio] = "fill" /\ pc'[Prio] = "receive"
      BY <1>0 DEF PrioRegisters, GoOn, Pointers
    <3>. QED BY <2>1, <3>1
  <2>3. CASE KcdStarts
    <3>1. cmds = <<>> /\ cmds' = First /\ content' = content
      BY <2>3, RegisteredStep DEF KcdStarts, Asked
    <3>2. \A c \in MemBlock : IsRegistration(c)' <=> IsRegistration(c)
      BY <3>1 DEF IsRegistration
    <3>. QED BY <2>1, <3>1, <3>2, BothFacts DEF Asked
  <2>4. CASE KcdRegisters
    <3>. DEFINE b == msg[Kcd]
    <3>1. b \in MemBlock /\ IsRegistration(b)
      BY <2>4, ReleaseCalls DEF KcdRegisters, Free, IsRegistration
    <3>2. content[b].text = Switch /\ content[b].tx = Prio
      BY <3>1 DEF Written
    <3>3. cmds = First /\ pc[Prio] \notin {"request", "fill"}
      BY <2>4, <3>1 DEF KcdRegisters, Asked
    <3>4. cmds' = Both
      BY <2>4, <3>2, <3>3, RegisteredStep DEF KcdRegisters, Text
    <3>5. ASSUME NEW c \in MemBlock PROVE ~IsRegistration(c)'
      <4>1. content'[c] = IF c = b THEN Blank ELSE content[c]
        BY <2>4, <3>1 DEF KcdRegisters, Free, Texts
      <4>2. c # b => ~IsRegistration(c)
        BY <3>1 DEF Written
      <4>. QED BY <4>1, <4>2, BlankIsContent DEF IsRegistration
    <3>. QED BY <2>1, <3>3, <3>4, <3>5 DEF Asked
  <2>5. CASE KcdClears \/ KcdSendsClear \/ KcdEchoes \/ KcdSendsCommand
    <3>1. cmds' = cmds /\ pc[Kcd] # "start"
      BY <2>5 DEF KcdClears, KcdSendsClear, KcdEchoes, KcdSendsCommand
    <3>. QED BY <1>1, <2>1, <2>2, <3>1
  <2>. QED BY <1>4, <2>3, <2>4, <2>5 DEF Decoder
<1>5. CASE Output
  <2>1. cmds' = cmds
    BY <1>5 DEF Output, CrtLoops, CrtSends, CrtReleases, UartTakes, UartWrites
  <2>2. pc'[Kcd] = pc[Kcd] /\ pc'[Prio] = pc[Prio]
    BY <1>0, <1>5, OutputProceeds, ClientsDiffer DEF Proceeds
  <2>3. ~PrioRegisters
    <3>1. PrioRegisters => pc[Prio] = "fill" /\ pc'[Prio] = "receive"
      BY <1>0 DEF PrioRegisters, GoOn, Pointers
    <3>. QED BY <2>2, <3>1
  <2>. QED BY <1>1, <2>1, <2>2, <2>3
<1>6. CASE Command
  <2>1. pc'[Prio] \notin {"request", "fill"} /\ pc'[Kcd] = pc[Kcd] /\ cmds' = cmds
    BY <1>0, <1>6, CommandProceeds
       DEF Proceeds, Command, PrioRegisters, PrioComplains, PrioSets, PrioReplies
  <2>2. CASE PrioRegisters
    <3>1. pc[Prio] = "fill"
      BY <2>2 DEF PrioRegisters
    <3>. QED BY <2>1, <3>1 DEF Asked
  <2>. QED BY <1>1, <2>1, <2>2
<1>. QED BY <1>2, <1>3, <1>4, <1>5, <1>6 DEF ConsoleNext, Processor

-----------------------------------------------------------------------------
(* The invariant of the console. *)

ConsoleInv ==
    /\ KernelInv /\ Pointers /\ AllTidy
    /\ Programs /\ (\A p \in Client : Waiting(p))
    /\ Texts /\ Written /\ Asked

LEMMA InitConsoleInv == ConsoleInit => ConsoleInv
<1>. SUFFICES ASSUME ConsoleInit PROVE ConsoleInv
  OBVIOUS
<1>0. /\ ProgramInit({Prio}) /\ Crt \notin {Prio}
      /\ Client \subseteq Proc /\ Kcd \in Proc /\ Crt \in Proc /\ Uart \in Proc /\ Prio \in Proc
  BY ClientsDiffer, ClientsAreProc DEF ConsoleInit, Client
<1>1. KernelInv
  BY <1>0, InitKernelInv DEF ProgramInit
<1>2. ASSUME NEW p \in Proc PROVE Pointers /\ Tidy(p)
  BY <1>0, InitHolds
<1>3. /\ pc[Kcd] = "start" /\ pc[Crt] = "receive" /\ pc[Uart] = "receive"
      /\ pc[Prio] = "request"
  BY <1>0, ClientsDiffer DEF ProgramInit
<1>4. Programs
  BY <1>3 DEF Programs
<1>5. \A p \in Client : Waiting(p)
  BY <1>0 DEF ProgramInit, RtxInit, Waiting
<1>6. content = [b \in MemBlock |-> Blank] /\ cmds = <<>>
  BY <1>0 DEF ProgramInit
<1>7. Texts
  <2>1. keys \in Seq(Letters)
    <3>1. keys \in Script /\ keys \in Seq(STRING)
      BY <1>0, ConsoleAssumption DEF ProgramInit
    <3>2. keys \in Seq(Range(keys)) /\ Range(keys) \subseteq Letters
      BY <3>1, SeqOfRange DEF Letters, Printed
    <3>. QED BY <3>2, SeqMonotonic
  <2>2. line \in Seq(Letters) /\ reply \in ReplyKind
    BY <1>0, EmptySeq DEF ProgramInit, ReplyKind
  <2>. QED BY <1>6, <2>1, <2>2, BlankIsContent DEF Texts
<1>8. \A b \in MemBlock : ~IsRegistration(b)
  BY <1>6, BlankIsContent DEF IsRegistration
<1>9. Written
  <2>1. \A p \in Client : pc[p] \notin {"fill", "fill2"}
    BY <1>3 DEF Client
  <2>. QED BY <1>6, <1>8, <2>1 DEF Written
<1>10. Asked
  BY <1>3, <1>6, <1>8, BothFacts DEF Asked
<1>. QED BY <1>0, <1>1, <1>2, <1>4, <1>5, <1>7, <1>9, <1>10 DEF ConsoleInv, AllTidy

LEMMA StepContents ==
  ASSUME RtxIInv, Pointers, AllTidy, Texts, Written, Asked, [ConsoleNext]_consoleVars
  PROVE  Texts' /\ Written'
<1>0. Kcd \in Client
  BY DEF Client
<1>1. CASE \/ Boot /\ UNCHANGED <<localVars, userVars, historyVars>>
           \/ TypesInVain \/ UNCHANGED consoleVars
  <2>1. /\ UNCHANGED <<available, owner, content, pc, new, line, reply>>
        /\ keys' = keys \/ TypesInVain
    BY <1>1 DEF Boot, dataVars, memVars, localVars, userVars, TypesInVain, rtxVars, consoleVars
  <2>2. \A b : IsFree(b)' <=> IsFree(b)
    BY <2>1 DEF IsFree
  <2>3. Written'
    BY <1>0, <2>1, <2>2, QuietContents DEF Written
  <2>4. keys' \in Seq(Letters)
    BY <2>1, HeadTailProperties DEF TypesInVain, Typing, Texts
  <2>. QED BY <2>1, <2>3, <2>4 DEF Texts
<1>2. CASE Types
  BY <1>2, TypesContents
<1>3. ASSUME NEW p \in Client, ClientStep(p)
      PROVE  Texts' /\ Written'
  <2>1. content' = content /\ Written'
    BY <1>3, ClientContents
  <2>2. UNCHANGED <<line, keys, reply>>
    BY <1>3 DEF ClientStep, Waits, Gets, Obtains, localVars, userVars
  <2>. QED BY <2>1, <2>2 DEF Texts
<1>4. CASE Decoder
  BY <1>4, DecoderContents
<1>5. CASE Output
  BY <1>5, OutputContents
<1>6. CASE Command
  BY <1>6, CommandContents DEF Asked
<1>. QED BY <1>1, <1>2, <1>3, <1>4, <1>5, <1>6 DEF ConsoleNext, Processor

LEMMA StepConsoleInv == ConsoleInv /\ [ConsoleNext]_consoleVars => ConsoleInv'
<1>. SUFFICES ASSUME ConsoleInv, [ConsoleNext]_consoleVars PROVE ConsoleInv'
  OBVIOUS
<1>1. /\ KernelInv /\ RtxIInv /\ Pointers /\ AllTidy /\ Programs /\ Texts /\ Written /\ Asked
      /\ \A p \in Client : Waiting(p)
  BY DEF ConsoleInv, KernelInv
<1>2. KernelInv'
  BY <1>1, ConsoleCalls, StepRtxIInv, StepSleepers DEF KernelInv
<1>3. Pointers' /\ AllTidy'
  BY <1>1, StepTidy
<1>4. Programs' /\ \A p \in Client : Waiting(p)'
  BY <1>1, StepPrograms
<1>5. Texts' /\ Written'
  BY <1>1, StepContents
<1>6. Asked'
  BY <1>1, StepAsked
<1>. QED BY <1>2, <1>3, <1>4, <1>5, <1>6 DEF ConsoleInv

\* Who holds which block, what is in it, where each program is and who is registered,
\* in one: none of it can be kept up without the rest.
THEOREM ConsoleInductiveInvariant == ConsoleSpec => []ConsoleInv
BY InitConsoleInv, StepConsoleInv, PTL DEF ConsoleSpec

\* The programs of the console use what they hold and hold what they use, whatever
\* is typed and however often: send_message and the writes into a block, which the
\* kernel does not check, are always those of the owner, and nothing leaks.
THEOREM ConsoleHoldsWhatItNames == ConsoleSpec => []HoldsWhatItNames
<1>1. ConsoleInv => HoldsWhatItNames
  BY DEF ConsoleInv, AllTidy, Tidy, HoldsWhatItNames
<1>. QED BY <1>1, ConsoleInductiveInvariant, PTL

\* No block that carries something else, however often it has been used before, is
\* ever taken for a registration.
THEOREM RegisteredAsAskedOnly == ConsoleSpec => []RegisteredOnlyAsAsked
<1>1. ConsoleInv => cmds \in {<<>>, First, Both}
  BY DEF ConsoleInv, Asked
<1>2. ASSUME cmds \in {<<>>, First, Both} PROVE RegisteredOnlyAsAsked
  <2>. DEFINE a == [cmd |-> Clear, pid |-> Kcd]
              b == [cmd |-> Switch, pid |-> Prio]
  <2>1. a # b
    BY ClientsDiffer
  <2>2. First = <<a>> /\ Both = <<a, b>>
    BY DEF First, Both
  <2>. HIDE DEF a, b
  <2>3. /\ Range(<<>>) \subseteq {a, b} /\ IsInjective(<<>>)
        /\ Range(<<a>>) \subseteq {a, b} /\ IsInjective(<<a>>)
        /\ Range(<<a, b>>) \subseteq {a, b} /\ IsInjective(<<a, b>>)
    BY <2>1 DEF Range, IsInjective
  <2>. QED BY <1>2, <2>2, <2>3 DEF RegisteredOnlyAsAsked, a, b
<1>. QED BY <1>1, <1>2, ConsoleInductiveInvariant, PTL

-----------------------------------------------------------------------------
(* Who waits for what. *)

\* The console asks for no delay and no process of it ends, so the timer has nothing
\* to do; the other processes have never done anything.
Calm ==
    /\ isr = Idle /\ terminated = {} /\ \A i \in Slot : delayed[i] = NoBlock
    /\ \A q \in Proc \ Client : held[q] = {} /\ at[q] = "run"

\* The null process has a priority of its own, below the others'.
AboveNull ==
    /\ kernel.priority[NullProc] = 4
    /\ \A q \in Proc \ {NullProc} : kernel.priority[q] \in 0..3

\* Messages are for the console's processes, and for the priority command only once
\* it is registered.
Addressees ==
    \A q \in Proc : HasMail(q) => q \in Client /\ (q = Prio => cmds = Both)

LEMMA ConsoleIsCalm ==
  ASSUME RtxIInv, Pointers, Calm, [ConsoleNext]_consoleVars
  PROVE  Calm'
<1>0. Kcd \in Client /\ Crt \in Client /\ Uart \in Client /\ Prio \in Client
      /\ Client \subseteq Proc
  BY ClientsAreProc DEF Client
<1>1. UNCHANGED <<isr, terminated, delayed>>
  <2>1. CASE \/ Boot /\ UNCHANGED <<localVars, userVars, historyVars>>
             \/ TypesInVain \/ UNCHANGED consoleVars
    BY <2>1 DEF Boot, CreateProcess, EnterMain, ReleaseProcessor, dataVars, mailVars,
                TypesInVain, consoleVars, rtxVars, vars
  <2>2. CASE Types
    BY <2>2 DEF Types, SerialInterrupt, UnblockByPid
  <2>3. ASSUME NEW p \in Client, ClientStep(p)
        PROVE  UNCHANGED <<isr, terminated, delayed>>
    BY <2>3 DEF ClientStep, Waits, Gets, Obtains, ReceiveFindsNone, ReceiveBlocks, Block,
                RequestFindsNone, RequestBlocks, SendUnblocks, ReleaseUnblocks, UnblockByPid,
                UnblockByType, Receive, Request, mailVars, vars
  <2>4. CASE Decoder
    BY <2>4 DEF Decoder, KcdStarts, KcdRegisters, KcdClears, KcdSendsClear, KcdEchoes,
                KcdSendsCommand, Free, Mail, Release, Send, rtxVars, vars, dataVars, mailVars
  <2>5. CASE Output
    BY <2>5 DEF Output, CrtLoops, CrtSends, CrtReleases, UartTakes, UartWrites, Free, Mail,
                Release, Send, rtxVars, vars, dataVars, mailVars
  <2>6. CASE Command
    BY <2>6 DEF Command, PrioRegisters, PrioComplains, PrioSets, PrioReplies, Register, Mail,
                Send, ChangePriority, SetPriority, rtxVars, vars, dataVars, mailVars
  <2>. QED BY <2>1, <2>2, <2>3, <2>4, <2>5, <2>6 DEF ConsoleNext, Processor
<1>2. \A q \in Proc \ Client : held'[q] = held[q]
  BY ConsoleTidies DEF OthersStay
<1>3. \A q \in Proc \ Client : at'[q] = at[q]
  <2>1. CASE \/ Boot /\ UNCHANGED <<localVars, userVars, historyVars>>
             \/ Types \/ TypesInVain \/ UNCHANGED consoleVars
    BY <2>1, IdleProceeds
  <2>2. CASE \E p \in Client : ClientStep(p)
    BY <1>0, <2>2, ClientProceeds
  <2>3. CASE Decoder
    BY <1>0, <2>3, DecoderProceeds DEF Proceeds
  <2>4. CASE Output
    BY <1>0, <2>4, OutputProceeds DEF Proceeds
  <2>5. CASE Command
    BY <1>0, <2>5, CommandProceeds DEF Proceeds
  <2>. QED BY <2>1, <2>2, <2>3, <2>4, <2>5 DEF ConsoleNext, Processor
<1>. QED BY <1>1, <1>2, <1>3 DEF Calm

LEMMA StepAboveNull ==
  ASSUME RtxIInv, AboveNull, CallsNext
  PROVE  AboveNull'
<1>1. kernel \in KernelType /\ [AnyNext]_vars
  BY CallsStep DEF RtxIInv, IInv, TypeOK, Accounts, DataTypeOK, Addressed
<1>2. kernel.priority \in [Proc -> Level]
  BY <1>1, KernelFields
<1>3. CASE kernel'.priority = kernel.priority
  BY <1>3 DEF AboveNull
<1>4. ASSUME NEW p \in Proc \ {NullProc}, NEW n \in 0..3,
             kernel'.priority = [kernel.priority EXCEPT ![p] = n]
      PROVE  AboveNull'
  BY <1>2, <1>4, ProcAssumption DEF AboveNull
<1>. QED BY <1>1, <1>3, <1>4, StepPriorities

\* A command that is known is one of two, ...
LEMMA KnownCommands ==
  ASSUME Asked, NEW i \in DOMAIN cmds
  PROVE  cmds[i].pid \in {Kcd, Prio} /\ (cmds[i].pid = Prio => cmds = Both)
<1>. DEFINE a == [cmd |-> Clear, pid |-> Kcd]
            b == [cmd |-> Switch, pid |-> Prio]
<1>1. a.pid = Kcd /\ b.pid = Prio /\ First = <<a>> /\ Both = <<a, b>>
  BY DEF First, Both
<1>2. cmds \in {<<>>, <<a>>, <<a, b>>}
  BY <1>1 DEF Asked
<1>. HIDE DEF a, b
<1>3. cmds = <<a>> => cmds[i] = a
  OBVIOUS
<1>4. cmds = <<a, b>> => cmds[i] \in {a, b}
  OBVIOUS
<1>5. cmds # <<>>
  OBVIOUS
<1>. QED BY <1>1, <1>2, <1>3, <1>4, <1>5, ClientsDiffer

\* ... and once both are, they stay.
LEMMA BothStay ==
  ASSUME RtxIInv, Asked, [ConsoleNext]_consoleVars, cmds = Both
  PROVE  cmds' = Both
<1>1. CASE KcdStarts
  BY <1>1, BothFacts DEF KcdStarts, Asked
<1>2. CASE KcdRegisters
  BY <1>2, ReleaseCalls DEF KcdRegisters, Free, Asked, IsRegistration
<1>3. CASE \/ Boot /\ UNCHANGED <<localVars, userVars, historyVars>>
           \/ TypesInVain \/ Types \/ UNCHANGED consoleVars
  BY <1>3, IdleProceeds
<1>4. ASSUME NEW p \in Client, ClientStep(p)
      PROVE  cmds' = cmds
  BY <1>4 DEF ClientStep, Waits, Gets, Obtains, localVars
<1>5. CASE KcdClears \/ KcdSendsClear \/ KcdEchoes \/ KcdSendsCommand
  BY <1>5 DEF KcdClears, KcdSendsClear, KcdEchoes, KcdSendsCommand
<1>6. CASE Output
  BY <1>6 DEF Output, CrtLoops, CrtSends, CrtReleases, UartTakes, UartWrites
<1>7. CASE Command
  BY <1>7 DEF Command, PrioRegisters, PrioComplains, PrioSets, PrioReplies
<1>. QED BY <1>1, <1>2, <1>3, <1>4, <1>5, <1>6, <1>7 DEF ConsoleNext, Processor, Decoder

\* Whom the console's processes send to; the priority command gets nothing but
\* commands.
LEMMA SendsTo ==
  ASSUME RtxIInv, Asked, [ConsoleNext]_consoleVars,
         NEW r \in Proc, NEW b, NEW q, Send(r, b, q)
  PROVE  /\ q \in Client
         /\ q = Prio => /\ cmds = Both /\ KcdSendsCommand /\ b = new[Kcd]
                        /\ ordered' = Append(ordered, [text |-> line, to |-> Prio])
<1>0. /\ Kcd \in Proc /\ Crt \in Proc /\ Uart \in Proc /\ Prio \in Proc
      /\ Kcd \in Client /\ Crt \in Client /\ Uart \in Client /\ Prio \in Client
      /\ at \in [Proc -> Point] /\ to \in [Proc -> Proc]
  BY ClientsAreProc DEF Client, RtxIInv, Accounts, DataTypeOK
<1>1. /\ kernel.running = r /\ at[r] = "run" /\ at'[r] = "send_gap" /\ to'[r] = q
      /\ UNCHANGED <<vars, available>>
  BY <1>0 DEF Send, Running
<1>2. ASSUME NEW p \in Proc, NEW c, Release(p, c) PROVE FALSE
  BY <1>0, <1>1, <1>2 DEF Release, Running, GoTo
<1>3. ASSUME NEW p \in Proc, NEW c, NEW x, Send(p, c, x) PROVE q = x /\ b = c
  <2>1. p = r /\ q = x
    BY <1>0, <1>1, <1>3 DEF Send, Running
  <2>2. /\ b \in held[r] /\ held'[r] = held[r] \ {b}
        /\ c \in held[r] /\ held'[r] = held[r] \ {c}
    BY <1>3, <2>1 DEF Send, Address, RtxIInv, Accounts, DataTypeOK
  <2>. QED BY <2>1, <2>2
<1>4. at' # at
  BY <1>1
<1>5. ~(\/ Boot /\ UNCHANGED <<localVars, userVars, historyVars>>
        \/ Types \/ TypesInVain \/ UNCHANGED consoleVars)
  BY <1>4, IdleProceeds
<1>6. ASSUME NEW p \in Client, ClientStep(p) PROVE FALSE
  <2>1. p \in Proc
    BY <1>6, ClientsAreProc
  <2>2. at'[p] # "send_gap" /\ at' = [at EXCEPT ![p] = at'[p]]
    BY <1>0, <1>6, <2>1 DEF ClientStep, Waits, Gets, Obtains, ReceiveFindsNone, ReceiveBlocks,
       RequestFindsNone, RequestBlocks, SendUnblocks, ReleaseUnblocks, Receive, Request, GoTo
  <2>. QED BY <1>0, <1>1, <2>1, <2>2
<1>7. CASE Decoder
  <2>1. CASE KcdStarts
    BY <1>4, <2>1 DEF KcdStarts, rtxVars, dataVars, callVars
  <2>2. CASE KcdRegisters \/ KcdClears
    BY <1>0, <1>2, <2>2 DEF KcdRegisters, KcdClears, Free
  <2>3. CASE KcdSendsClear \/ KcdEchoes
    BY <1>0, <1>3, <2>3, ClientsDiffer DEF KcdSendsClear, KcdEchoes, Mail
  <2>4. CASE KcdSendsCommand
    <3>1. PICK i \in Match(line) :
             /\ Send(Kcd, new[Kcd], cmds[i].pid)
             /\ ordered' = Append(ordered, [text |-> line, to |-> cmds[i].pid])
      BY <2>4 DEF KcdSendsCommand, Mail
    <3>2. q = cmds[i].pid /\ b = new[Kcd] /\ i \in DOMAIN cmds
      BY <1>0, <1>3, <3>1 DEF Match
    <3>. QED BY <1>0, <2>4, <3>1, <3>2, KnownCommands
  <2>. QED BY <1>7, <2>1, <2>2, <2>3, <2>4 DEF Decoder
<1>8. CASE Output
  <2>1. CASE CrtLoops \/ UartWrites
    BY <1>4, <2>1 DEF CrtLoops, UartWrites, rtxVars, dataVars, callVars
  <2>2. CASE CrtReleases \/ UartTakes
    BY <1>0, <1>2, <2>2 DEF CrtReleases, UartTakes, Free
  <2>3. CASE CrtSends
    BY <1>0, <1>3, <2>3, ClientsDiffer DEF CrtSends, Mail
  <2>. QED BY <1>8, <2>1, <2>2, <2>3 DEF Output
<1>9. CASE Command
  <2>1. CASE PrioSets
    BY <1>4, <2>1 DEF PrioSets, ChangePriority, rtxVars, dataVars, callVars
  <2>2. CASE PrioRegisters
    BY <1>0, <1>3, <2>2, ClientsDiffer DEF PrioRegisters, Register
  <2>3. CASE PrioComplains \/ PrioReplies
    BY <1>0, <1>3, <2>3, ClientsDiffer DEF PrioComplains, PrioReplies, Mail
  <2>. QED BY <1>9, <2>1, <2>2, <2>3 DEF Command
<1>. QED BY <1>5, <1>6, <1>7, <1>8, <1>9 DEF ConsoleNext, Processor

LEMMA StepAddressees ==
  ASSUME RtxIInv, Asked, Calm, Addressees, [ConsoleNext]_consoleVars
  PROVE  Addressees'
<1>0. Kcd \in Client /\ Kcd # Prio
  BY ClientsDiffer DEF Client
<1>1. SUFFICES ASSUME NEW q \in Proc, HasMail(q)'
               PROVE  q \in Client /\ (q = Prio => cmds' = Both)
  BY DEF Addressees
<1>2. ASSUME HasMail(q) PROVE q \in Client /\ (q = Prio => cmds' = Both)
  BY <1>2, BothStay DEF Addressees
<1>3. ASSUME NEW r \in Proc, ProcessActs(r)
      PROVE  q \in Client /\ (q = Prio => cmds' = Both)
  <2>1. HasMail(q) \/ \E b \in MemBlock : Send(r, b, q)
    BY <1>1, <1>3, ProcessMail
  <2>. QED BY <1>2, <2>1, SendsTo, BothStay
<1>4. CASE SerialInterrupt
  <2>1. HasMail(q) \/ q = Kcd
    BY <1>1, <1>4, SerialBox DEF HasMail
  <2>. QED BY <1>0, <1>2, <2>1
<1>5. CASE UNCHANGED <<mailbox, rx>>
  BY <1>1, <1>2, <1>5 DEF HasMail, InBox
<1>6. CASE SystemActs
  <2>1. SerialInterrupt \/ UNCHANGED <<mailbox, rx>>
    BY <1>6 DEF SystemActs, Calm, Boot, Ends, EndReleases, Tick, TickSkips, TickEnds,
                TickDelivers, rtxVars, dataVars, mailVars
  <2>. QED BY <1>4, <1>5, <2>1
<1>. QED BY <1>3, <1>6, ConsoleCalls DEF CallsNext

\* When the null process runs, everybody else sleeps.
LEMMA AllAsleep ==
  ASSUME RtxIInv, Sleepers, Calm, AboveNull, kernel.running = NullProc,
         NEW p \in Proc \ {NullProc}
  PROVE  \/ kernel.state[p] = "blocked_mem" /\ at[p] = "mem"
         \/ kernel.state[p] = "blocked_msg" /\ at[p] = "recv"
<1>0. IInv /\ kernel \in KernelType /\ kernel.running \in Proc /\ NullProc \in Proc
  BY ProcAssumption DEF RtxIInv, IInv, TypeOK
<1>1. TopRuns(kernel) /\ Booted
  BY <1>0, IdleTopRuns, CallingIsBooted DEF Calm
<1>2. p \in Alive
  <2>1. PICK i \in DOMAIN Pibs : Pibs[i] = p
    BY PibsAssumption DEF Contains
  <2>. QED BY <1>1, <2>1, PibsFacts DEF Alive, Booted, Calm
<1>3. /\ kernel.state[p] \in ProcState /\ kernel.priority[p] \in Level
      /\ QueueOf(kernel.state[p]) \in Kind
  BY <1>0, KernelFields, QueueOfKind
<1>4. InQueue(kernel, QueueOf(kernel.state[p]), kernel.priority[p], p)
  BY <1>0, <1>2, <1>3 DEF IInv, Placement, Filed
<1>5. QueueOf(kernel.state[p]) # "ready"
  <2>1. kernel.queue["ready"][kernel.priority[p]] = <<>>
    BY <1>1, <1>3 DEF TopRuns, NoneReadyAbove, AboveNull
  <2>2. ~Contains(<<>>, p)
    BY DEF Contains
  <2>. QED BY <1>4, <2>1, <2>2 DEF InQueue
<1>6. kernel.state[p] \in {"blocked_mem", "blocked_msg"}
  BY <1>3, <1>5 DEF ProcState, QueueOf
<1>. QED BY <1>6 DEF Sleepers

JamInv == ConsoleInv /\ Calm /\ AboveNull /\ Addressees

LEMMA JamsAsKnown == JamInv => JamsAsKnownOnly
<1>. SUFFICES ASSUME JamInv, Jammed, ~CrtJams, NEW b \in MemBlock
              PROVE  /\ InBox(mailbox, b)
                     /\ \/ Overslept(rx[b])
                        \/ rx[b] = Kcd /\ kernel.state[Kcd] = "blocked_mem"
  BY DEF JamsAsKnownOnly
<1>0. /\ RtxIInv /\ Accounts /\ Sleepers /\ Calm /\ AboveNull /\ Addressees /\ Programs
      /\ Asked /\ kernel.running = NullProc /\ available = <<>>
      /\ Client \subseteq Proc \ {NullProc} /\ owner[b] \in Proc \cup {NoOwner}
      /\ rx[b] \in Proc
  BY ClientsAreProc DEF JamInv, ConsoleInv, KernelInv, RtxIInv, Jammed, Accounts, DataTypeOK
<1>1. \A p \in Client : \/ kernel.state[p] = "blocked_mem" /\ at[p] = "mem"
                        \/ kernel.state[p] = "blocked_msg" /\ at[p] = "recv"
  BY <1>0, AllAsleep
<1>2. \A p \in Client : \/ kernel.state[p] = "blocked_mem" /\ pc[p] \in {"request", "request2"}
                        \/ kernel.state[p] = "blocked_msg" /\ pc[p] = "receive"
  BY <1>1 DEF JamInv, ConsoleInv, Waiting
<1>3. \A p \in Client : held[p] = Named(p)
  BY DEF JamInv, ConsoleInv, AllTidy, Tidy
\* The CRT is the only one that has a block while it waits for another.
<1>4. kernel.state[Crt] # "blocked_mem"
  <2>1. Crt \in Client
    BY DEF Client
  <2>2. ASSUME kernel.state[Crt] = "blocked_mem" PROVE held[Crt] # {}
    BY <1>0, <1>2, <1>3, <2>1, <2>2 DEF Named, Programs
  <2>. QED BY <2>2 DEF CrtJams
<1>5. \A p \in Client : held[p] = {}
  BY <1>2, <1>3, <1>4 DEF Named
<1>6. InBox(mailbox, b)
  <2>1. ~IsFree(b)
    BY <1>0 DEF IsFree, Contains
  <2>2. ~InBox(delayed, b)
    BY <1>0, BlockAssumption DEF Calm, InBox
  <2>3. ASSUME owner[b] \in Proc PROVE b \notin held[owner[b]]
    BY <1>0, <1>5, <2>3 DEF Calm
  <2>. QED BY <1>0, <2>1, <2>2, <2>3 DEF Accounts, Accounted, AccountedFor
<1>7. /\ HasMail(rx[b]) /\ rx[b] \in Client /\ (rx[b] = Prio => cmds = Both)
  BY <1>0, <1>6 DEF HasMail, Addressees
<1>8. CASE kernel.state[rx[b]] = "blocked_msg"
  <2>1. ~Beckoned(rx[b])
    BY <1>0, <1>1 DEF Beckoned, Calm
  <2>. QED BY <1>0, <1>6, <1>7, <1>8, <2>1, OversleptMeans
<1>9. CASE kernel.state[rx[b]] = "blocked_mem"
  <2>1. pc[rx[b]] \in {"request", "request2"}
    BY <1>2, <1>7, <1>9
  <2>2. rx[b] # Uart
    BY <1>0, <2>1 DEF Programs
  <2>3. rx[b] # Prio
    BY <1>0, <1>7, <2>1 DEF Programs, Asked
  <2>. QED BY <1>4, <1>6, <1>7, <1>9, <2>2, <2>3 DEF Client
<1>. QED BY <1>2, <1>7, <1>8, <1>9

LEMMA InitJamInv == ConsoleInit => JamInv
<1>. SUFFICES ASSUME ConsoleInit PROVE JamInv
  OBVIOUS
<1>1. ConsoleInv
  BY InitConsoleInv
<1>2. RtxInit
  BY DEF ConsoleInit, ProgramInit
<1>3. Calm
  BY <1>2, ClientsAreProc DEF RtxInit, Init, Calm
<1>4. AboveNull
  BY <1>2, PriorityAssumption, ProcAssumption DEF RtxInit, Init, AboveNull
<1>5. Addressees
  BY <1>2, BlockAssumption DEF RtxInit, Addressees, HasMail, InBox
<1>. QED BY <1>1, <1>3, <1>4, <1>5 DEF JamInv

LEMMA StepJamInv == JamInv /\ [ConsoleNext]_consoleVars => JamInv'
<1>. SUFFICES ASSUME JamInv, [ConsoleNext]_consoleVars PROVE JamInv'
  OBVIOUS
<1>1. RtxIInv /\ Pointers /\ Asked /\ Calm /\ AboveNull /\ Addressees /\ ConsoleInv
  BY DEF JamInv, ConsoleInv, KernelInv
<1>2. ConsoleInv'
  BY <1>1, StepConsoleInv
<1>. QED BY <1>1, <1>2, ConsoleCalls, ConsoleIsCalm, StepAboveNull, StepAddressees
         DEF JamInv

\* The console jams only in the ways known: for any number of blocks and any typing,
\* whenever nothing runs, somebody waits for a block and there is none, it is the CRT
\* that waits while it keeps one, or all blocks are mail of those who have overslept
\* it, or of the decoder that waits for a block itself.
THEOREM JamsAsKnownOnlyHolds == ConsoleSpec => []JamsAsKnownOnly
BY InitJamInv, StepJamInv, JamsAsKnown, PTL DEF ConsoleSpec

-----------------------------------------------------------------------------
(* Numbers. *)

\* What the function in Number is required to be: each digit is added to ten times
\* what the digits before it come to.
Evaluates(s, f) ==
    f = [i \in 0..Len(s) |-> IF i = 0 THEN 0 ELSE 10 * f[i - 1] + Digit[s[i]]]

LEMMA DigitsAreNat == \A c \in DOMAIN Digit : Digit[c] \in Nat
BY DEF Digit

\* There is such a function: one for each beginning of the text.
LEMMA NumberExists ==
  ASSUME NEW s, Len(s) \in Nat, \A i \in 1..Len(s) : Digit[s[i]] \in Nat
  PROVE  \E f \in [0..Len(s) -> Nat] : Evaluates(s, f)
<1>. DEFINE Good(n, f) == \A i \in 0..n :
                f[i] = IF i = 0 THEN 0 ELSE 10 * f[i - 1] + Digit[s[i]]
            T == {n \in Nat : n <= Len(s) => \E f \in [0..n -> Nat] : Good(n, f)}
<1>1. 0 \in T
  <2>. DEFINE f == [i \in 0..0 |-> 0]
  <2>1. f \in [0..0 -> Nat] /\ Good(0, f)
    OBVIOUS
  <2>. HIDE DEF f, Good
  <2>. QED BY <2>1
<1>2. ASSUME NEW n \in Nat, n \in T PROVE n + 1 \in T
  <2>. HIDE DEF Good
  <2>1. SUFFICES ASSUME n + 1 <= Len(s) PROVE \E f \in [0..(n + 1) -> Nat] : Good(n + 1, f)
    OBVIOUS
  <2>a. n <= Len(s)
    BY <2>1
  <2>b. \E f \in [0..n -> Nat] : Good(n, f)
    BY <1>2, <2>a
  <2>2. PICK f \in [0..n -> Nat] : Good(n, f)
    BY <2>b
  <2>. USE DEF Good
  <2>. DEFINE last == 10 * f[n] + Digit[s[n + 1]]
              g == [i \in 0..(n + 1) |-> IF i = n + 1 THEN last ELSE f[i]]
  <2>3. Digit[s[n + 1]] \in Nat /\ f[n] \in Nat
    BY <2>1
  <2>4. last \in Nat
    BY <2>3
  <2>5. g \in [0..(n + 1) -> Nat]
    <3>. HIDE DEF last
    <3>. QED BY <2>4
  <2>6. ASSUME NEW i \in 0..(n + 1)
        PROVE  g[i] = IF i = 0 THEN 0 ELSE 10 * g[i - 1] + Digit[s[i]]
    <3>1. CASE i = n + 1
      <4>1. g[i] = last /\ i # 0 /\ i - 1 = n /\ g[n] = f[n]
        BY <3>1
      <4>. QED BY <3>1, <4>1
    <3>2. CASE i # n + 1
      <4>1. i \in 0..n
        BY <3>2
      <4>2. i # 0 => i - 1 \in 0..n /\ g[i - 1] = f[i - 1]
        BY <4>1
      <4>3. g[i] = f[i]
        BY <3>2
      <4>. HIDE DEF g, last
      <4>. QED BY <2>2, <4>1, <4>2, <4>3
    <3>. QED BY <3>1, <3>2
  <2>. HIDE DEF g, last
  <2>. QED BY <2>5, <2>6
<1>3. Len(s) \in T
  <2>. HIDE DEF T
  <2>. QED BY <1>1, <1>2, InductionOnSet
<1>4. PICK f \in [0..Len(s) -> Nat] : Good(Len(s), f)
  BY <1>3
<1>. QED BY <1>4 DEF Evaluates

LEMMA NumberIsNat ==
  ASSUME NEW S, NEW s \in Seq(S), IsNumber(s)
  PROVE  Number(s) \in Nat
<1>1. Len(s) \in Nat /\ DOMAIN s = 1..Len(s)
  BY LenProperties
<1>2. \A i \in 1..Len(s) : Digit[s[i]] \in Nat
  BY <1>1, DigitsAreNat DEF IsNumber
<1>. DEFINE f == CHOOSE f : Evaluates(s, f)
<1>3. Evaluates(s, f)
  <2>1. \E g : Evaluates(s, g)
    BY <1>1, <1>2, NumberExists
  <2>. QED BY <2>1
<1>4. Number(s) = f[Len(s)]
  BY DEF Number, Evaluates
<1>. HIDE DEF f
<1>. DEFINE T == {n \in Nat : n <= Len(s) => f[n] \in Nat}
<1>5. \A i \in 0..Len(s) : f[i] = IF i = 0 THEN 0 ELSE 10 * f[i - 1] + Digit[s[i]]
  BY <1>3 DEF Evaluates
<1>6. 0 \in T
  BY <1>1, <1>5
<1>7. ASSUME NEW n \in Nat, n \in T PROVE n + 1 \in T
  <2>1. SUFFICES ASSUME n + 1 <= Len(s) PROVE f[n + 1] \in Nat
    OBVIOUS
  <2>2. n + 1 \in 0..Len(s) /\ n + 1 # 0 /\ (n + 1) - 1 = n /\ f[n] \in Nat
    BY <1>1, <1>7, <2>1
  <2>3. f[n + 1] = 10 * f[n] + Digit[s[n + 1]]
    BY <1>5, <2>2
  <2>4. Digit[s[n + 1]] \in Nat
    BY <1>1, <1>2, <2>1
  <2>. QED BY <2>2, <2>3, <2>4
<1>8. Len(s) \in T
  <2>. HIDE DEF T
  <2>. QED BY <1>1, <1>6, <1>7, InductionOnSet
<1>. QED BY <1>1, <1>4, <1>8

\* ascii_to_int gives the number that is written, unless that does not fit in a word.
LEMMA AsciiToIntMeans ==
  ASSUME NEW S, NEW s \in Seq(S), NEW n \in Nat, AsciiToInt(s) = n
  PROVE  AsTyped(s, n)
<1>1. IsNumber(s) /\ Signed(Number(s)) = n
  BY DEF AsciiToInt
<1>2. Number(s) \in Nat
  BY <1>1, NumberIsNat
<1>. DEFINE m == Number(s)
<1>3. Word \in Nat \ {0}
  BY ConsoleAssumption
<1>. HIDE DEF m
<1>4. m \in Nat /\ m % Word \in 0..(Word - 1)
  BY <1>2, <1>3 DEF m
<1>5. m % Word = n
  BY <1>1, <1>3, <1>4 DEF Signed, m
<1>6. m < Word => m % Word = m
  BY <1>3, <1>4
<1>. QED BY <1>1, <1>3, <1>4, <1>5, <1>6 DEF AsTyped, m

-----------------------------------------------------------------------------
(* Commands, and what they change. *)

\* A process changes a priority in no other primitive.
LEMMA ActsKeepPriorities ==
  ASSUME RtxIInv, SystemActs \/ \E p \in Proc : Primitives(p)
  PROVE  kernel'.priority = kernel.priority
<1>0. kernel \in KernelType /\ \A b \in MemBlock : rx[b] \in Proc
  BY DEF RtxIInv, IInv, TypeOK, Accounts, DataTypeOK
<1>1. ASSUME NEW p \in Proc, Primitives(p) PROVE QuietNext
  <2>1. to[p] \in Proc
    BY DEF RtxIInv, Accounts, DataTypeOK
  <2>. QED BY <1>1, <2>1 DEF Primitives, Yield, Request, RequestFindsNone, RequestBlocks, Release,
       ReleaseUnblocks, Send, SendUnblocks, DelayedSend, Receive, ReceiveFindsNone,
       ReceiveBlocks, QuietNext, BlockType
<1>2. ASSUME SystemActs PROVE QuietNext
  <2>1. CASE Boot \/ (\E p \in Ending : Ends(p)) \/ EndReleases \/ UNCHANGED rtxVars
    BY <2>1 DEF Boot, Ends, EndReleases, rtxVars, QuietNext
  <2>2. CASE Tick \/ TickSkips \/ TickEnds
    BY <2>2 DEF Tick, TickSkips, TickEnds, QuietNext
  <2>3. CASE \E b \in MemBlock : TickDelivers(b)
    BY <1>0, <2>3 DEF TickDelivers, QuietNext
  <2>4. CASE SerialInterrupt
    BY <2>4, ReceiverAssumption DEF SerialInterrupt, QuietNext
  <2>. QED BY <1>2, <2>1, <2>2, <2>3, <2>4 DEF SystemActs
<1>. QED BY <1>0, <1>1, <1>2, QuietPriorities

\* The text is that of a command the decoder has sent to the priority command.
IsOrder(t, orders) == \E i \in DOMAIN orders : orders[i].text = t /\ orders[i].to = Prio

Order == [text : Seq(Letters), to : Proc]

\* What the priority command receives is what the decoder has sent it.
CommandMail ==
    /\ ordered \in Seq(Order)
    /\ \A b \in MemBlock : InBox(mailbox, b) /\ rx[b] = Prio => IsOrder(content[b].text, ordered)
    /\ pc[Prio] = "got" => IsOrder(content[msg[Prio]].text, ordered)

LEMMA StepOrdered ==
  ASSUME Texts, Asked, ordered \in Seq(Order), [ConsoleNext]_consoleVars
  PROVE  /\ ordered' \in Seq(Order)
         /\ \A t : IsOrder(t, ordered) => IsOrder(t, ordered')
         /\ \A o \in Order : ordered' = Append(ordered, o) /\ o.to = Prio => IsOrder(o.text, ordered')
<1>1. CASE ordered' = ordered
  <2>1. \A o \in Order : ordered' # Append(ordered, o)
    BY <1>1, AppendProperties, LenProperties
  <2>. QED BY <1>1, <2>1 DEF IsOrder
<1>2. CASE KcdSendsCommand
  <2>1. PICK i \in DOMAIN cmds : ordered' = Append(ordered, [text |-> line, to |-> cmds[i].pid])
    BY <1>2 DEF KcdSendsCommand, Match
  <2>. DEFINE o == [text |-> line, to |-> cmds[i].pid]
  <2>2. cmds[i].pid \in Proc
    BY KnownCommands, ClientsAreProc DEF Client
  <2>3. o \in Order
    BY <2>2 DEF Texts, Order
  <2>4. ordered' = Append(ordered, o)
    BY <2>1
  <2>. HIDE DEF o
  <2>5. /\ ordered' \in Seq(Order) /\ Len(ordered') = Len(ordered) + 1
        /\ \A j \in 1..Len(ordered) : ordered'[j] = ordered[j]
        /\ ordered'[Len(ordered) + 1] = o
    BY <2>3, <2>4, AppendProperties
  <2>6. Len(ordered) \in Nat /\ DOMAIN ordered = 1..Len(ordered)
        /\ DOMAIN ordered' = 1..(Len(ordered) + 1)
    BY <2>5, LenProperties
  <2>7. ASSUME NEW t, IsOrder(t, ordered) PROVE IsOrder(t, ordered')
    BY <2>5, <2>6, <2>7 DEF IsOrder
  <2>8. ASSUME NEW e \in Order, ordered' = Append(ordered, e), e.to = Prio
        PROVE  IsOrder(e.text, ordered')
    <3>1. ordered'[Len(ordered) + 1] = e
      BY <2>8, AppendProperties
    <3>2. Len(ordered) + 1 \in DOMAIN ordered'
      BY <2>6
    <3>. QED BY <2>8, <3>1, <3>2 DEF IsOrder
  <2>. QED BY <2>5, <2>7, <2>8
<1>3. CASE \/ Boot /\ UNCHANGED <<localVars, userVars, historyVars>>
           \/ TypesInVain \/ Types \/ UNCHANGED consoleVars
  BY <1>1, <1>3, IdleProceeds DEF historyVars
<1>4. ASSUME NEW p \in Client, ClientStep(p)
      PROVE  ordered' = ordered
  BY <1>4 DEF ClientStep, Waits, Gets, Obtains, historyVars
<1>5. CASE KcdStarts \/ KcdRegisters \/ KcdClears \/ KcdSendsClear \/ KcdEchoes
  BY <1>1, <1>5 DEF KcdStarts, KcdRegisters, KcdClears, KcdSendsClear, KcdEchoes, historyVars
<1>6. CASE Output
  BY <1>1, <1>6 DEF Output, CrtLoops, CrtSends, CrtReleases, UartTakes, UartWrites, historyVars
<1>7. CASE Command
  BY <1>1, <1>7 DEF Command, PrioRegisters, PrioComplains, PrioSets, PrioReplies, historyVars
<1>. QED BY <1>1, <1>2, <1>3, <1>4, <1>5, <1>6, <1>7 DEF ConsoleNext, Processor, Decoder

CrtActs == CrtLoops \/ CrtSends \/ CrtReleases
UartActs == UartTakes \/ UartWrites

\* Only free blocks, and those of the process that takes a step, are written.
LEMMA OwnWrites ==
  ASSUME RtxIInv, Pointers, AllTidy, Texts, Written, [ConsoleNext]_consoleVars,
         NEW c \in MemBlock, ~IsFree(c), content'[c] # content[c]
  PROVE  \/ Decoder /\ c \in held[Kcd]
         \/ CrtActs /\ c \in held[Crt]
         \/ UartActs /\ c \in held[Uart]
         \/ Command /\ c \in held[Prio]
<1>0. Kcd \in Proc /\ Crt \in Proc /\ Uart \in Proc /\ Prio \in Proc
  BY ClientsAreProc DEF Client
<1>1. ASSUME NEW p \in Proc, NEW b, Free(p, b) PROVE c \in held[p]
  BY <1>1, ReleaseCalls DEF Free, Texts
<1>2. ASSUME NEW p \in Proc, NEW b, NEW q, NEW s, Mail(p, b, q, s) PROVE c \in held[p]
  <2>1. b \in held[p] /\ b \in MemBlock
    BY <1>2, SendCalls DEF Mail
  <2>2. Rewrites(b, p, Overwrite(content[b].text, s))
    BY <1>2, <2>1, TextWritten DEF Mail, Texts
  <2>. QED BY <2>1, <2>2 DEF Rewrites, Texts
<1>3. content' # content
  OBVIOUS
<1>4. CASE \/ Boot /\ UNCHANGED <<localVars, userVars, historyVars>>
           \/ TypesInVain \/ UNCHANGED consoleVars
  BY <1>3, <1>4 DEF localVars, TypesInVain, consoleVars
<1>5. CASE Types
  <2>1. /\ Rewrites(Head(available), kernel.running, <<Head(keys)>>)
        /\ Head(available) \in MemBlock /\ IsFree(Head(available))
    BY <1>5, TypesContents
  <2>. QED BY <2>1 DEF Rewrites, Texts
<1>6. ASSUME NEW p \in Client, ClientStep(p) PROVE FALSE
  BY <1>3, <1>6, ClientContents
<1>7. CASE Decoder
  BY <1>0, <1>1, <1>2, <1>3, <1>7 DEF Decoder, KcdStarts, KcdRegisters, KcdClears, KcdSendsClear, KcdEchoes,
     KcdSendsCommand
<1>8. CASE Output
  BY <1>0, <1>1, <1>2, <1>3, <1>8 DEF Output, CrtLoops, CrtSends, CrtReleases, UartTakes, UartWrites,
     CrtActs, UartActs
<1>9. CASE Command
  <2>1. CASE PrioRegisters
    <3>1. new[Prio] \in held[Prio]
      BY <2>1, SendCalls DEF PrioRegisters, Register
    <3>. QED BY <1>9, <2>1, <3>1 DEF PrioRegisters, Register, Texts
  <2>2. CASE PrioComplains \/ PrioSets
    <3>1. msg[Prio] \in held[Prio]
      BY <2>2, OwnIsNoRegistration DEF PrioComplains, PrioSets
    <3>2. c # msg[Prio] => content'[c] = content[c]
      BY <2>2 DEF PrioComplains, PrioSets, Texts
    <3>. QED BY <1>9, <3>1, <3>2
  <2>3. CASE PrioReplies
    BY <1>0, <1>2, <1>9, <2>3 DEF PrioReplies
  <2>. QED BY <1>9, <2>1, <2>2, <2>3 DEF Command
<1>. QED BY <1>4, <1>5, <1>6, <1>7, <1>8, <1>9 DEF ConsoleNext, Processor

LEMMA PrioStays ==
  ASSUME RtxIInv, Pointers, [ConsoleNext]_consoleVars, pc'[Prio] = "got"
  PROVE  ~Command /\ (Gets(Prio) \/ (pc[Prio] = "got" /\ msg'[Prio] = msg[Prio]))
<1>0. /\ Kcd \in Proc /\ Crt \in Proc /\ Uart \in Proc /\ Prio \in Proc
      /\ Prio \in Client /\ Client \subseteq Proc
  BY ClientsAreProc DEF Client
<1>1. ~Command
  BY CommandProceeds
<1>2. ASSUME NEW p \in Proc, p # Prio, OthersStay(p)
      PROVE  pc[Prio] = "got" /\ msg'[Prio] = msg[Prio]
  BY <1>0, <1>2 DEF OthersStay
<1>3. CASE \/ Boot /\ UNCHANGED <<localVars, userVars, historyVars>>
           \/ TypesInVain \/ Types \/ UNCHANGED consoleVars
  BY <1>1, <1>3, IdleProceeds
<1>4. ASSUME NEW p \in Client, ClientStep(p), p # Prio
      PROVE  pc[Prio] = "got" /\ msg'[Prio] = msg[Prio]
  BY <1>0, <1>2, <1>4, ClientTidies
<1>5. CASE ClientStep(Prio)
  <2>1. CASE Waits(Prio)
    BY <1>1, <2>1 DEF Waits, localVars
  <2>2. CASE Obtains(Prio)
    BY <1>0, <2>2 DEF Obtains, GoOn, Pointers
  <2>. QED BY <1>1, <1>5, <2>1, <2>2 DEF ClientStep
<1>6. CASE Decoder
  BY <1>0, <1>1, <1>2, <1>6, DecoderTidies, ClientsDiffer
<1>7. CASE Output
  BY <1>0, <1>1, <1>2, <1>7, CrtTidies, UartTidies, ClientsDiffer DEF Output
<1>. QED BY <1>1, <1>3, <1>4, <1>5, <1>6, <1>7 DEF ConsoleNext, Processor

\* A message in the mailbox for the priority command is either there already, or the
\* decoder has just sent it.
LEMMA NewCommandMail ==
  ASSUME RtxIInv, Calm, Asked, [ConsoleNext]_consoleVars,
         NEW c \in MemBlock, InBox(mailbox, c)', rx'[c] = Prio
  PROVE  \/ InBox(mailbox, c) /\ rx[c] = Prio
         \/ /\ KcdSendsCommand /\ c = new[Kcd]
            /\ ordered' = Append(ordered, [text |-> line, to |-> Prio])
<1>1. ASSUME NEW r \in Proc, ProcessActs(r)
      PROVE  (InBox(mailbox, c) /\ rx[c] = Prio) \/ Send(r, c, Prio)
  BY <1>1, ProcessBox
<1>2. CASE SerialInterrupt
  BY <1>2, SerialBox, ClientsDiffer
<1>3. CASE UNCHANGED <<mailbox, rx>>
  BY <1>3 DEF InBox
<1>4. CASE SystemActs
  <2>1. SerialInterrupt \/ UNCHANGED <<mailbox, rx>>
    BY <1>4 DEF SystemActs, Calm, Boot, Ends, EndReleases, Tick, TickSkips, TickEnds,
                TickDelivers, rtxVars, dataVars, mailVars
  <2>. QED BY <1>2, <1>3, <2>1
<1>5. ASSUME NEW r \in Proc, Send(r, c, Prio)
      PROVE  /\ KcdSendsCommand /\ c = new[Kcd]
             /\ ordered' = Append(ordered, [text |-> line, to |-> Prio])
  BY <1>5, SendsTo
<1>. QED BY <1>1, <1>4, <1>5, ConsoleCalls DEF CallsNext

LEMMA StepCommandMail ==
  ASSUME RtxIInv, Pointers, AllTidy, Texts, Written, Asked, Calm, CommandMail,
         [ConsoleNext]_consoleVars
  PROVE  CommandMail'
<1>0. Kcd \in Client /\ Prio \in Client /\ Client \subseteq Proc /\ Prio \in Proc /\ Kcd \in Proc
      /\ Crt \in Proc /\ Uart \in Proc
  BY ClientsAreProc DEF Client
<1>1. /\ ordered' \in Seq(Order)
      /\ \A t : IsOrder(t, ordered) => IsOrder(t, ordered')
      /\ \A o \in Order : ordered' = Append(ordered, o) /\ o.to = Prio => IsOrder(o.text, ordered')
  BY StepOrdered DEF CommandMail
<1>2. ASSUME NEW c \in MemBlock, InBox(mailbox, c), rx[c] = Prio
      PROVE  IsOrder(content'[c].text, ordered')
  <2>1. ~IsFree(c) /\ \A q \in Proc : c \notin held[q]
    <3>1. \A q \in Proc : c \notin held[q]
      BY <1>2, HeldProperties DEF RtxIInv
    <3>2. owner[c] = Prio
      BY <1>2 DEF RtxIInv, Accounts, Accounted, AccountedFor
    <3>. QED BY <1>0, <3>1, <3>2, ReceiverAssumption DEF RtxIInv, Accounts, Accounted, AccountedFor
  <2>2. content'[c] = content[c]
    BY <1>0, <2>1, OwnWrites
  <2>3. IsOrder(content[c].text, ordered)
    BY <1>2 DEF CommandMail
  <2>. QED BY <1>1, <2>2, <2>3
<1>3. ASSUME NEW c \in MemBlock, InBox(mailbox, c)', rx'[c] = Prio
      PROVE  IsOrder(content'[c].text, ordered')
  <2>1. CASE InBox(mailbox, c) /\ rx[c] = Prio
    BY <1>2, <2>1
  <2>2. CASE /\ KcdSendsCommand /\ c = new[Kcd]
             /\ ordered' = Append(ordered, [text |-> line, to |-> Prio])
    <3>1. content[c] = Blank /\ ~IsRegistration(c)
      BY <1>0, <2>2, BlankToFill DEF KcdSendsCommand
    <3>2. \E q : Mail(Kcd, c, q, line)
      BY <2>2 DEF KcdSendsCommand
    <3>3. /\ content' \in [MemBlock -> Content]
          /\ Rewrites(c, Kcd, Overwrite(content[c].text, line))
      BY <1>0, <2>2, <3>1, <3>2, MailContents DEF KcdSendsCommand, GoOn, Texts
    <3>4. Overwrite(content[c].text, line) = line
      <4>1. Overwrite(<<>>, line) = line
        BY OverwriteBlank DEF Texts
      <4>. QED BY <3>1, <4>1, BlankIsContent
    <3>5. content'[c].text = line
      BY <3>3, <3>4 DEF Rewrites, Texts
    <3>. DEFINE o == [text |-> line, to |-> Prio]
    <3>6. o \in Order /\ o.to = Prio /\ o.text = line
      BY <1>0 DEF Order, Texts
    <3>7. ordered' = Append(ordered, o)
      BY <2>2
    <3>. HIDE DEF o
    <3>. QED BY <1>1, <3>5, <3>6, <3>7
  <2>. QED BY <1>3, <2>1, <2>2, NewCommandMail
<1>4. ASSUME pc'[Prio] = "got" PROVE IsOrder(content'[msg'[Prio]].text, ordered')
  <2>1. CASE Gets(Prio)
    <3>1. PICK b \in MemBlock : /\ InBox(mailbox, b) /\ rx[b] = Prio
                                /\ msg' = [msg EXCEPT ![Prio] = b]
      BY <1>0, <2>1, GetsHolds
    <3>2. msg'[Prio] = b
      BY <1>0, <3>1 DEF Pointers
    <3>. QED BY <1>2, <3>1, <3>2
  <2>2. CASE pc[Prio] = "got" /\ msg'[Prio] = msg[Prio] /\ ~Command
    <3>. DEFINE c == msg[Prio]
    <3>1. c \in held[Prio] /\ c \in MemBlock
      BY <2>2, OwnIsNoRegistration
    <3>2. ~IsFree(c) /\ \A q \in Proc : c \in held[q] => q = Prio
      BY <1>0, <3>1, HeldProperties DEF RtxIInv
    <3>3. content'[c] = content[c]
      BY <1>0, <2>2, <3>1, <3>2, OwnWrites, ClientsDiffer
    <3>4. IsOrder(content[c].text, ordered)
      BY <2>2 DEF CommandMail
    <3>. QED BY <1>1, <2>2, <3>3, <3>4
  <2>. QED BY <1>4, <2>1, <2>2, PrioStays
<1>. QED BY <1>1, <1>3, <1>4 DEF CommandMail

\* The two arguments of a command are texts.
LEMMA ArgumentsAreTexts ==
  ASSUME NEW t \in Seq(Letters), Complaint(t) = {}
  PROVE  FirstArg(t) \in Seq(Letters) /\ SecondArg(t) \in Seq(Letters)
<1>1. Len(t) \in Nat /\ DOMAIN t = 1..Len(t)
  BY LenProperties
<1>2. Len(t) >= 3
  <2>1. IsPrefix(Append(Switch, " "), t)
    BY DEF Complaint
  <2>2. Len(Append(Switch, " ")) = 3
    <3>. DEFINE S == {"%", "C", " "}
                space == " "
    <3>1. Switch \in Seq(S) /\ space \in S
      BY DEF Switch
    <3>2. Len(Switch) = 2
      BY Commands DEF SwitchFacts
    <3>. HIDE DEF S, space
    <3>3. Len(Append(Switch, space)) = Len(Switch) + 1
      BY <3>1, AppendProperties
    <3>. QED BY <3>2, <3>3 DEF space
  <2>. QED BY <1>1, <2>1, <2>2 DEF IsPrefix
<1>3. \A i \in 1..(Len(t) + 1) : FirstOf(t, i, {" ", NUL}) \in i..(Len(t) + 1)
  BY FirstOfProperties
<1>4. Gap(t) \in 4..(Len(t) + 1)
  <2>1. 4 \in 1..(Len(t) + 1)
    BY <1>1, <1>2
  <2>2. FirstOf(t, 4, {" ", NUL}) \in 4..(Len(t) + 1)
    BY <1>3, <2>1
  <2>. QED BY <2>2 DEF Gap
<1>5. ASSUME NEW i \in Nat, NEW j \in Int, i >= 1, j <= Len(t)
      PROVE  SubSeq(t, i, j) \in Seq(Letters)
  <2>1. \A k \in i..j : t[k] \in Letters
    BY <1>1, <1>5, ElementOfSeq
  <2>. QED BY <1>5, <2>1, SubSeqProperties
<1>6. FirstArg(t) \in Seq(Letters)
  BY <1>1, <1>4, <1>5 DEF FirstArg
<1>7. ASSUME NEW i \in Nat, i >= 1 PROVE StringAt(t, i) \in Seq(Letters)
  <2>1. CASE i \in DOMAIN t
    <3>. DEFINE e == FirstOf(t, i, {NUL})
    <3>1. e \in i..(Len(t) + 1)
      BY <1>1, <2>1, FirstOfProperties
    <3>. HIDE DEF e
    <3>2. e - 1 \in Int /\ e - 1 <= Len(t)
      BY <1>1, <1>7, <3>1
    <3>3. SubSeq(t, i, e - 1) \in Seq(Letters)
      BY <1>5, <1>7, <3>2
    <3>. QED BY <2>1, <3>3 DEF StringAt, e
  <2>2. CASE i \notin DOMAIN t
    BY <2>2, EmptySeq DEF StringAt
  <2>. QED BY <2>1, <2>2
<1>8. Gap(t) + 1 \in Nat /\ Gap(t) + 1 >= 1
  BY <1>1, <1>4
<1>. QED BY <1>6, <1>7, <1>8 DEF SecondArg

TypedInv == JamInv /\ CommandMail

LEMMA InitTypedInv == ConsoleInit => TypedInv
<1>. SUFFICES ASSUME ConsoleInit PROVE TypedInv
  OBVIOUS
<1>1. JamInv /\ pc[Prio] # "got"
  BY InitJamInv, ClientsDiffer, ClientsAreProc DEF ConsoleInit, ProgramInit, Client
<1>2. \A b \in MemBlock : ~InBox(mailbox, b)
  BY BlockAssumption DEF ConsoleInit, ProgramInit, RtxInit, InBox
<1>3. ordered \in Seq(Order)
  BY EmptySeq DEF ConsoleInit, ProgramInit
<1>. QED BY <1>1, <1>2, <1>3 DEF TypedInv, CommandMail

LEMMA StepTypedInv == TypedInv /\ [ConsoleNext]_consoleVars => TypedInv'
<1>. SUFFICES ASSUME TypedInv, [ConsoleNext]_consoleVars PROVE TypedInv'
  OBVIOUS
<1>1. /\ RtxIInv /\ Pointers /\ AllTidy /\ Texts /\ Written /\ Asked /\ Calm /\ CommandMail
      /\ JamInv
  BY DEF TypedInv, JamInv, ConsoleInv, KernelInv
<1>. QED BY <1>1, StepJamInv, StepCommandMail DEF TypedInv

LEMMA StepChanges ==
  ASSUME TypedInv, [ConsoleNext]_consoleVars,
         NEW q \in Proc, kernel'.priority[q] # kernel.priority[q]
  PROVE  \E i \in DOMAIN ordered :
            LET t == ordered[i].text
            IN  /\ ordered[i].to = Prio
                /\ AsTyped(FirstArg(t), Pid[q])
                /\ AsTyped(SecondArg(t), kernel'.priority[q])
<1>0. /\ RtxIInv /\ AllTidy /\ Texts /\ Written /\ CommandMail /\ kernel \in KernelType
      /\ Prio \in Proc
  BY ClientsAreProc
     DEF Client, TypedInv, JamInv, ConsoleInv, KernelInv, RtxIInv, IInv, TypeOK
<1>1. PrioSets
  BY <1>0, ConsoleActs, ActsKeepPriorities
<1>. DEFINE t == Text(Prio)
            n == AsciiToInt(SecondArg(t))
<1>2. pc[Prio] = "got" /\ Complaint(t) = {}
  BY <1>1 DEF PrioSets
<1>3. PICK p \in Target(AsciiToInt(FirstArg(t))) : SetPriority(p, n)
  <2>1. kernel' # kernel
    OBVIOUS
  <2>. QED BY <1>1, <2>1 DEF PrioSets, ChangePriority, rtxVars, vars
<1>4. p \in Proc /\ Pid[p] = AsciiToInt(FirstArg(t))
  BY DEF Target
<1>. HIDE DEF n
<1>5. p = q /\ n \in 0..3 /\ kernel'.priority[q] = n
  <2>1. kernel.priority \in [Proc -> Level]
    BY <1>0, KernelFields
  <2>2. \/ kernel'.priority = kernel.priority
        \/ n \in 0..3 /\ kernel'.priority = [kernel.priority EXCEPT ![p] = n]
    BY <1>0, <1>3, <1>4, SetPriorityPriorities DEF SetPriority
  <2>. QED BY <2>1, <2>2
<1>6. t \in Seq(Letters) /\ IsOrder(t, ordered)
  <2>1. msg[Prio] \in MemBlock
    BY <1>0, <1>2, OwnIsNoRegistration
  <2>. QED BY <1>0, <1>2, <2>1 DEF Text, Texts, Content, CommandMail
<1>. HIDE DEF t
<1>7. FirstArg(t) \in Seq(Letters) /\ SecondArg(t) \in Seq(Letters)
  BY <1>2, <1>6, ArgumentsAreTexts
<1>8. AsTyped(FirstArg(t), Pid[q])
  BY <1>4, <1>5, <1>7, AsciiToIntMeans, ConsoleAssumption
<1>9. AsTyped(SecondArg(t), kernel'.priority[q])
  BY <1>5, <1>7, AsciiToIntMeans DEF n
<1>. QED BY <1>6, <1>8, <1>9 DEF IsOrder

\* Nothing but a command that was typed changes a priority, and it changes that of
\* the process named to the number given, unless one of the two is too large for a
\* word.
THEOREM ChangesAreAsTyped == ConsoleSpec => ChangedAsTyped
<1>1. ConsoleSpec => []TypedInv
  BY InitTypedInv, StepTypedInv, PTL DEF ConsoleSpec
<1>2. TypedInv /\ [ConsoleNext]_consoleVars =>
        [\A q \in Proc : kernel'.priority[q] # kernel.priority[q] =>
            \E i \in DOMAIN ordered :
               LET t == ordered[i].text
               IN  /\ ordered[i].to = Prio
                   /\ AsTyped(FirstArg(t), Pid[q])
                   /\ AsTyped(SecondArg(t), kernel'.priority[q])]_consoleVars
  BY StepChanges
<1>. QED BY <1>1, <1>2, PTL DEF ConsoleSpec, ChangedAsTyped

-----------------------------------------------------------------------------
(* The messages that are coming. *)

LEMMA ComingType ==
  ASSUME RtxIInv, Pointers, NEW p \in Client, Tidy(p)
  PROVE  /\ Inbox[p] \in Seq(MemBlock) /\ Handed(p) \in Seq(MemBlock)
         /\ Coming(p) \in Seq(MemBlock)
         /\ pc[p] = "got" => /\ msg[p] \in MemBlock /\ msg[p] \in held[p]
                             /\ Handed(p) = <<msg[p]>> /\ Coming(p) = <<msg[p]>> \o Inbox[p]
         /\ pc[p] # "got" => Handed(p) = <<>> /\ Coming(p) = Inbox[p]
<1>1. p \in Proc
  BY ClientsAreProc
<1>2. Inbox[p] \in Seq(MemBlock)
  BY <1>1, InboxType DEF RtxIInv
<1>3. pc[p] = "got" => msg[p] \in held[p] /\ msg[p] \in MemBlock
  BY <1>1 DEF Tidy, Named, RtxIInv, Accounts, DataTypeOK
<1>4. pc[p] = "got" => Handed(p) = <<msg[p]>> /\ <<msg[p]>> \in Seq(MemBlock)
  BY <1>3 DEF Handed
<1>5. pc[p] # "got" => Handed(p) = <<>> /\ <<>> \in Seq(MemBlock)
  BY DEF Handed
<1>6. Handed(p) \in Seq(MemBlock)
  BY <1>4, <1>5
<1>7. Coming(p) \in Seq(MemBlock)
  BY <1>2, <1>6, ConcatProperties DEF Coming
<1>8. <<>> \o Inbox[p] = Inbox[p]
  BY <1>2, ConcatEmptySeq
<1>. QED BY <1>2, <1>3, <1>4, <1>5, <1>6, <1>7, <1>8 DEF Coming

\* What is coming is not free; it is in the mailbox or in the receiver's hands.
LEMMA ComingWhere ==
  ASSUME RtxIInv, Pointers, NEW p \in Client, Tidy(p), NEW i \in DOMAIN Coming(p)
  PROVE  LET c == Coming(p)[i]
         IN  /\ c \in MemBlock /\ ~IsFree(c)
             /\ \/ pc[p] = "got" /\ c = msg[p] /\ c \in held[p]
                   /\ \A q \in Proc \ {p} : c \notin held[q]
                \/ InBox(mailbox, c) /\ rx[c] = p /\ \A q \in Proc : c \notin held[q]
<1>. DEFINE c == Coming(p)[i]
<1>0. p \in Proc
  BY ClientsAreProc
<1>1. /\ Inbox[p] \in Seq(MemBlock) /\ Handed(p) \in Seq(MemBlock)
      /\ pc[p] = "got" => msg[p] \in MemBlock /\ msg[p] \in held[p] /\ Handed(p) = <<msg[p]>>
      /\ pc[p] # "got" => Handed(p) = <<>>
  BY ComingType
<1>2. \/ \E j \in DOMAIN Handed(p) : c = Handed(p)[j]
      \/ \E j \in DOMAIN Inbox[p] : c = Inbox[p][j]
  <2>1. /\ Len(Handed(p)) \in Nat /\ Len(Inbox[p]) \in Nat
        /\ DOMAIN Handed(p) = 1..Len(Handed(p)) /\ DOMAIN Inbox[p] = 1..Len(Inbox[p])
    BY <1>1, LenProperties
  <2>. DEFINE h == Handed(p)
              s == Inbox[p]
              n == Len(h)
              m == Len(s)
  <2>2. /\ h \o s \in Seq(MemBlock) /\ Len(h \o s) = n + m
        /\ \A k \in 1..(n + m) : (h \o s)[k] = IF k <= n THEN h[k] ELSE s[k - n]
    BY <1>1, ConcatProperties
  <2>3. DOMAIN (h \o s) = 1..(n + m)
    BY <2>2, LenProperties
  <2>4. Coming(p) = h \o s
    BY DEF Coming
  <2>5. i \in 1..(n + m) /\ c = IF i <= n THEN h[i] ELSE s[i - n]
    BY <2>2, <2>3, <2>4
  <2>6. n \in Nat /\ m \in Nat /\ DOMAIN h = 1..n /\ DOMAIN s = 1..m
    BY <2>1
  <2>. HIDE DEF n, m, h, s
  <2>7. i <= n => i \in 1..n
    BY <2>5, <2>6
  <2>8. ~(i <= n) => i - n \in 1..m
    BY <2>5, <2>6
  <2>9. (\E j \in DOMAIN h : c = h[j]) \/ (\E j \in DOMAIN s : c = s[j])
    BY <2>5, <2>6, <2>7, <2>8
  <2>. QED BY <2>9 DEF h, s
<1>3. ASSUME NEW j \in DOMAIN Handed(p), c = Handed(p)[j]
      PROVE  pc[p] = "got" /\ c = msg[p] /\ c \in held[p] /\ c \in MemBlock
  <2>1. DOMAIN <<>> = {} /\ \A x : DOMAIN <<x>> = {1} /\ <<x>>[1] = x
    OBVIOUS
  <2>. QED BY <1>1, <1>3, <2>1
<1>4. ASSUME NEW j \in DOMAIN Inbox[p], c = Inbox[p][j]
      PROVE  c \in MemBlock /\ InBox(mailbox, c) /\ rx[c] = p
  BY <1>0, <1>1, <1>4, InboxType, ElementOfSeq, LenProperties DEF RtxIInv
<1>. HIDE DEF c
<1>5. c \in MemBlock
  BY <1>2, <1>3, <1>4
<1>6. CASE pc[p] = "got" /\ c = msg[p] /\ c \in held[p]
  <2>1. ~IsFree(c) /\ \A q \in Proc : c \in held[q] => q = p
    BY <1>0, <1>5, <1>6, HeldProperties DEF RtxIInv
  <2>. QED BY <1>5, <1>6, <2>1 DEF c
<1>7. CASE InBox(mailbox, c) /\ rx[c] = p
  <2>1. \A q \in Proc : c \notin held[q]
    BY <1>5, <1>7, HeldProperties DEF RtxIInv
  <2>2. owner[c] = p
    BY <1>5, <1>7 DEF RtxIInv, Accounts, Accounted, AccountedFor
  <2>3. ~IsFree(c)
    BY <1>0, <1>5, <2>2, ReceiverAssumption DEF RtxIInv, Accounts, Accounted, AccountedFor
  <2>. QED BY <1>5, <1>7, <2>1, <2>3 DEF c
<1>. QED BY <1>2, <1>3, <1>4, <1>6, <1>7

\* p's program takes a step, outside the primitives that wait.
Acts(p) == \/ p = Kcd /\ Decoder
           \/ p = Crt /\ CrtActs
           \/ p = Uart /\ UartActs
           \/ p = Prio /\ Command

\* The messages of a sequence are not written.
Unwritten(s) == \A i \in DOMAIN s : content'[s[i]] = content[s[i]]

LEMMA ComingUnwritten ==
  ASSUME RtxIInv, Pointers, AllTidy, Texts, Written, [ConsoleNext]_consoleVars,
         NEW p \in Client, ~Acts(p)
  PROVE  Unwritten(Coming(p))
<1>1. SUFFICES ASSUME NEW i \in DOMAIN Coming(p)
               PROVE  content'[Coming(p)[i]] = content[Coming(p)[i]]
  BY DEF Unwritten
<1>2. Tidy(p) /\ p \in Proc /\ Kcd \in Proc /\ Crt \in Proc /\ Uart \in Proc /\ Prio \in Proc
  BY ClientsAreProc DEF AllTidy, Client
<1>. DEFINE c == Coming(p)[i]
<1>3. /\ c \in MemBlock /\ ~IsFree(c)
      /\ \/ c \in held[p] /\ \A q \in Proc \ {p} : c \notin held[q]
         \/ \A q \in Proc : c \notin held[q]
  BY <1>2, ComingWhere
<1>. HIDE DEF c
<1>4. SUFFICES ASSUME content'[c] # content[c] PROVE FALSE
  BY DEF c
<1>5. \/ Decoder /\ c \in held[Kcd]
      \/ CrtActs /\ c \in held[Crt]
      \/ UartActs /\ c \in held[Uart]
      \/ Command /\ c \in held[Prio]
  BY <1>3, <1>4, OwnWrites
<1>. QED BY <1>2, <1>3, <1>5 DEF Acts

LEMMA InboxUnwritten ==
  ASSUME RtxIInv, Pointers, AllTidy, Texts, Written, [ConsoleNext]_consoleVars,
         NEW p \in Proc
  PROVE  Unwritten(Inbox[p])
<1>1. SUFFICES ASSUME NEW i \in DOMAIN Inbox[p]
               PROVE  content'[Inbox[p][i]] = content[Inbox[p][i]]
  BY DEF Unwritten
<1>. DEFINE c == Inbox[p][i]
<1>2. Inbox[p] \in Seq(MemBlock) /\ InBox(mailbox, c) /\ rx[c] = p
  BY InboxType DEF RtxIInv
<1>3. c \in MemBlock
  BY <1>2, ElementOfSeq, LenProperties
<1>. HIDE DEF c
<1>4. \A q \in Proc : c \notin held[q]
  BY <1>2, <1>3, HeldProperties DEF RtxIInv
<1>5. owner[c] = p
  BY <1>2, <1>3 DEF RtxIInv, Accounts, Accounted, AccountedFor
<1>6. ~IsFree(c)
  BY <1>3, <1>5, ReceiverAssumption DEF RtxIInv, Accounts, Accounted, AccountedFor
<1>7. Kcd \in Proc /\ Crt \in Proc /\ Uart \in Proc /\ Prio \in Proc
  BY ClientsAreProc DEF Client
<1>8. content'[c] = content[c]
  BY <1>3, <1>4, <1>6, <1>7, OwnWrites
<1>. QED BY <1>8 DEF c

\* What a step does to what is coming: by what it does to the inbox, and whether the
\* receiver goes on.
LEMMA ComingStays ==
  ASSUME NEW p, Inbox'[p] = Inbox[p], pc'[p] = "got" <=> pc[p] = "got", msg'[p] = msg[p]
  PROVE  Coming(p)' = Coming(p)
BY DEF Coming, Handed

LEMMA ComingGrows ==
  ASSUME RtxIInv, Pointers, NEW p \in Client, Tidy(p), NEW b, InboxGets(b, p),
         pc'[p] = "got" <=> pc[p] = "got", msg'[p] = msg[p]
  PROVE  b \in MemBlock /\ Coming(p)' = Append(Coming(p), b)
<1>1. Inbox'[p] = Append(Inbox[p], b) /\ b \in MemBlock
  BY DEF InboxGets
<1>2. Handed(p)' = Handed(p)
  BY DEF Handed
<1>3. Handed(p) \in Seq(MemBlock) /\ Inbox[p] \in Seq(MemBlock) /\ Coming(p) \in Seq(MemBlock)
      /\ <<b>> \in Seq(MemBlock)
  <2>1. <<b>> \in Seq(MemBlock)
    BY <1>1
  <2>. QED BY <2>1, ComingType
<1>. DEFINE h == Handed(p)
            s == Inbox[p]
<1>4. Append(s, b) = s \o <<b>> /\ Append(Coming(p), b) = Coming(p) \o <<b>>
  BY <1>1, <1>3, AppendIsConcat
<1>. HIDE DEF h, s
<1>5. (h \o s) \o <<b>> = h \o (s \o <<b>>)
  <2>1. h \in Seq(MemBlock) /\ s \in Seq(MemBlock) /\ <<b>> \in Seq(MemBlock)
    BY <1>3 DEF h, s
  <2>. QED BY ONLY <2>1, ConcatAssociative
<1>. QED BY <1>1, <1>2, <1>4, <1>5 DEF Coming, h, s

LEMMA ComingShrinks ==
  ASSUME RtxIInv, Pointers, NEW p \in Client, Tidy(p), Inbox'[p] = Inbox[p],
         pc[p] = "got", pc'[p] # "got"
  PROVE  /\ msg[p] \in MemBlock /\ Coming(p)' = Inbox[p] /\ Inbox[p] \in Seq(MemBlock)
         /\ Coming(p) = <<msg[p]>> \o Inbox[p]
<1>1. /\ msg[p] \in MemBlock /\ Coming(p) = <<msg[p]>> \o Inbox[p]
      /\ Inbox[p] \in Seq(MemBlock)
  BY ComingType
<1>2. Coming(p)' = <<>> \o Inbox[p]
  BY DEF Coming, Handed
<1>. QED BY <1>1, <1>2, ConcatEmptySeq

\* Receiving a message does not change which ones are coming, nor does waiting.
LEMMA ComingWaits ==
  ASSUME RtxIInv, Pointers, AllTidy, NEW r \in Client, ClientStep(r), NEW p \in Client
  PROVE  Coming(p)' = Coming(p)
<1>0. r \in Proc /\ p \in Proc /\ Tidy(p)
  BY ClientsAreProc DEF AllTidy
<1>1. CASE Waits(r)
  <2>1. UNCHANGED <<mailbox, rx, pc, msg>>
    BY <1>1 DEF Waits, RequestFindsNone, RequestBlocks, ReleaseUnblocks, SendUnblocks,
                ReceiveFindsNone, ReceiveBlocks, dataVars, mailVars, localVars
  <2>. QED BY <2>1, InboxRests, ComingStays DEF RtxIInv
<1>2. CASE Obtains(r)
  <2>1. UNCHANGED <<mailbox, rx, msg>>
    BY <1>2 DEF Obtains, Request, dataVars, mailVars
  <2>2. pc'[p] = "got" <=> pc[p] = "got"
    BY <1>0, <1>2, ObtainsHolds DEF Pointers
  <2>. QED BY <2>1, <2>2, InboxRests, ComingStays DEF RtxIInv
<1>3. CASE Gets(r)
  <2>1. PICK b \in MemBlock :
            /\ \A q \in Proc : b \notin held[q]
            /\ held' = [held EXCEPT ![r] = @ \cup {b}]
            /\ msg' = [msg EXCEPT ![r] = b]
            /\ pc[r] = "receive" /\ pc' = [pc EXCEPT ![r] = "got"]
    BY <1>0, <1>3, GetsHolds
  <2>2. PICK c \in MemBlock :
            /\ InBox(mailbox, c)
            /\ held' = [held EXCEPT ![r] = @ \cup {c}]
            /\ Inbox[r] = <<c>> \o Inbox'[r]
            /\ \A q \in Proc \ {r} : Inbox'[q] = Inbox[q]
    BY <1>0, <1>3, InboxOfReceive DEF InboxGives, Gets, RtxIInv
  <2>3. b = c
    <3>1. held'[r] = held[r] \cup {b} /\ held'[r] = held[r] \cup {c}
      BY <1>0, <2>1, <2>2 DEF RtxIInv, Accounts, DataTypeOK
    <3>2. b \notin held[r]
      BY <1>0, <2>1
    <3>. QED BY <3>1, <3>2
  <2>4. CASE p = r
    <3>1. pc'[p] = "got" /\ msg'[p] = b /\ pc[p] # "got"
      BY <1>0, <2>1, <2>4 DEF Pointers
    <3>2. Coming(p)' = <<b>> \o Inbox'[p]
      BY <3>1 DEF Coming, Handed
    <3>3. Coming(p) = Inbox[p]
      BY <1>0, <3>1, ComingType
    <3>. QED BY <2>2, <2>3, <2>4, <3>2, <3>3
  <2>5. CASE p # r
    <3>1. pc'[p] = pc[p] /\ msg'[p] = msg[p]
      BY <1>0, <2>1, <2>5 DEF Pointers
    <3>. QED BY <1>0, <2>2, <2>5, <3>1, ComingStays
  <2>. QED BY <2>4, <2>5
<1>. QED BY <1>1, <1>2, <1>3 DEF ClientStep

\* The program of r goes on; nobody receives anything.
GoesFrom(r, point) == pc' = [pc EXCEPT ![r] = point] /\ msg' = msg

LEMMA ComingGoesOn ==
  ASSUME RtxIInv, Pointers, AllTidy, NEW r \in Proc, NEW point, GoesFrom(r, point),
         NEW p \in Client, p = r => pc[r] # "got" /\ point # "got"
  PROVE  /\ Inbox'[p] = Inbox[p] => Coming(p)' = Coming(p)
         /\ \A b : InboxGets(b, p) => b \in MemBlock /\ Coming(p)' = Append(Coming(p), b)
<1>1. p \in Proc /\ Tidy(p)
  BY ClientsAreProc DEF AllTidy
<1>2. (pc'[p] = "got" <=> pc[p] = "got") /\ msg'[p] = msg[p]
  BY <1>1 DEF GoesFrom, Pointers
<1>. QED BY <1>1, <1>2, ComingStays, ComingGrows

LEMMA SendsInbox ==
  ASSUME RtxIInv, NEW r, NEW b, NEW q, Send(r, b, q)
  PROVE  /\ b \in MemBlock /\ q \in Proc /\ InboxGets(b, q)
         /\ \A p \in Proc : p # q => Inbox'[p] = Inbox[p]
<1>1. r \in Proc /\ q \in Proc /\ b \in MemBlock
  BY SendCalls
<1>2. InboxGets(b, q)
  BY <1>1, InboxOfSend DEF RtxIInv
<1>. QED BY <1>1, <1>2 DEF InboxGets

LEMMA FreesInbox ==
  ASSUME RtxIInv, NEW r, NEW b, Free(r, b)
  PROVE  Inbox' = Inbox
BY ReleaseCalls, InboxOfRelease DEF Free, RtxIInv

LEMMA QuietInbox ==
  ASSUME RtxIInv, UNCHANGED rtxVars
  PROVE  Inbox' = Inbox
BY InboxRests DEF RtxIInv, rtxVars, mailVars, dataVars

LEMMA PriorityInbox ==
  ASSUME RtxIInv, PrioSets
  PROVE  Inbox' = Inbox
<1>1. UNCHANGED <<mailbox, rx>>
  BY DEF PrioSets, ChangePriority, rtxVars, dataVars, mailVars
<1>. QED BY <1>1, InboxRests DEF RtxIInv

-----------------------------------------------------------------------------
(* What reaches the decoder. *)

\* Nothing reaches the decoder, or leaves it.
KcdQuiet == /\ Coming(Kcd)' = Coming(Kcd) /\ Unwritten(Coming(Kcd))
            /\ decoded' = decoded /\ line' \in {line, <<>>} /\ script' = script
            /\ (keys' = keys /\ lost' = lost) \/ TypesInVain

\* A message is put behind those that are coming.
KcdGets(b) == /\ b \in MemBlock /\ Coming(Kcd)' = Append(Coming(Kcd), b)
              /\ Unwritten(Coming(Kcd)) /\ decoded' = decoded /\ line' \in {line, <<>>}

\* The decoder has done with its message.
KcdEnds == /\ msg[Kcd] \in MemBlock /\ pc[Kcd] = "got"
           /\ Coming(Kcd) = <<msg[Kcd]>> \o Inbox[Kcd] /\ Coming(Kcd)' = Inbox[Kcd]
           /\ Inbox[Kcd] \in Seq(MemBlock) /\ Unwritten(Inbox[Kcd])

KcdSteps ==
    \/ KcdQuiet
    \/ Types /\ \E b \in MemBlock : /\ KcdGets(b) /\ content'[b].text = <<Head(keys)>>
                                    /\ content'[b].type # REGISTER_CMD
    \/ UNCHANGED userVars /\ \E b : KcdGets(b) /\ (\/ content'[b].type = REGISTER_CMD
                                              \/ IsClear(content'[b].text))
    \/ KcdEnds /\ KcdEchoes
    \/ KcdEnds /\ (KcdRegisters \/ KcdClears)

LEMMA DecoderGoesOn ==
  ASSUME RtxIInv, Pointers, AllTidy, Texts, Written, [ConsoleNext]_consoleVars,
         pc[Kcd] = "got", pc'[Kcd] # "got", Inbox'[Kcd] = Inbox[Kcd]
  PROVE  KcdEnds
<1>1. Kcd \in Client /\ Kcd \in Proc /\ Tidy(Kcd)
  BY ClientsAreProc DEF Client, AllTidy
<1>2. Unwritten(Inbox[Kcd])
  BY <1>1, InboxUnwritten
<1>. QED BY <1>1, <1>2, ComingShrinks DEF KcdEnds

\* The block the decoder fills is not coming to it.
LEMMA DecoderFills ==
  ASSUME RtxIInv, Pointers, AllTidy, Texts, Written, [ConsoleNext]_consoleVars,
         pc[Kcd] # "got"
  PROVE  Unwritten(Coming(Kcd))
<1>1. Kcd \in Client /\ Kcd \in Proc /\ Tidy(Kcd)
  BY ClientsAreProc DEF Client, AllTidy
<1>2. Coming(Kcd) = Inbox[Kcd]
  BY <1>1, ComingType
<1>. QED BY <1>1, <1>2, InboxUnwritten

\* The decoder's own command, as it finds it in a line.
LEMMA MatchesClear ==
  ASSUME NEW S, NEW l \in Seq(S), Matches(Clear, l)
  PROVE  IsClear(l)
<1>1. Len(l) \in Nat /\ DOMAIN l = 1..Len(l)
  BY LenProperties
<1>2. Len(Clear) = 4 /\ Len(Clear) <= Len(l) /\ SubSeq(Clear, 1, 4) = SubSeq(l, 1, 4)
  BY Commands DEF Matches, IsPrefix, ClearFacts
<1>3. \A i \in 1..4 : SubSeq(l, 1, 4)[i] = l[i]
  BY <1>1, <1>2, SubSeqProperties
<1>4. \A i \in 1..4 : SubSeq(Clear, 1, 4)[i] = Clear[i]
  <2>1. Clear \in Seq({"%", "c", "l", "r"})
    BY DEF Clear
  <2>. QED BY <1>2, <2>1, SubSeqProperties
<1>5. ASSUME NEW i \in 2..4 PROVE CharAt(l, i) = Clear[i]
  <2>1. i \in 1..4 /\ i \in DOMAIN l
    BY <1>1, <1>2
  <2>2. SubSeq(l, 1, 4)[i] = l[i] /\ SubSeq(Clear, 1, 4)[i] = Clear[i]
    BY <1>3, <1>4, <2>1
  <2>. QED BY <1>2, <2>1, <2>2 DEF CharAt
<1>. QED BY <1>5 DEF IsClear

\* The command registered for the decoder is its own.
LEMMA KnownClear ==
  ASSUME Asked, NEW i \in DOMAIN cmds, cmds[i].pid = Kcd
  PROVE  cmds[i].cmd = Clear
<1>. DEFINE a == [cmd |-> Clear, pid |-> Kcd]
            b == [cmd |-> Switch, pid |-> Prio]
<1>1. a.cmd = Clear /\ b.pid = Prio /\ First = <<a>> /\ Both = <<a, b>>
  BY DEF First, Both
<1>2. cmds \in {<<>>, <<a>>, <<a, b>>}
  BY <1>1 DEF Asked
<1>. HIDE DEF a, b
<1>3. cmds = <<a>> => cmds[i] = a
  OBVIOUS
<1>4. cmds = <<a, b>> => cmds[i] \in {a, b}
  OBVIOUS
<1>5. cmds # <<>>
  OBVIOUS
<1>. QED BY <1>1, <1>2, <1>3, <1>4, <1>5, ClientsDiffer

LEMMA DecoderComing ==
  ASSUME RtxIInv, Pointers, AllTidy, Texts, Written, Asked, [ConsoleNext]_consoleVars, Decoder
  PROVE  KcdSteps
<1>0. Kcd \in Client /\ Kcd \in Proc /\ Crt # Kcd
  BY ClientsAreProc, ClientsDiffer DEF Client
<1>1. CASE KcdStarts
  <2>1. Inbox' = Inbox /\ GoesFrom(Kcd, "receive") /\ pc[Kcd] # "got"
    BY <1>1, QuietInbox DEF KcdStarts, GoesFrom, GoOn
  <2>2. Coming(Kcd)' = Coming(Kcd)
    BY <1>0, <2>1, ComingGoesOn
  <2>3. Unwritten(Coming(Kcd))
    BY <2>1, DecoderFills
  <2>. QED BY <1>1, <2>2, <2>3 DEF KcdStarts, KcdQuiet, KcdSteps, userVars, historyVars
<1>2. CASE KcdRegisters \/ KcdClears
  <2>1. Inbox' = Inbox /\ pc[Kcd] = "got"
    BY <1>2, FreesInbox DEF KcdRegisters, KcdClears
  <2>2. pc'[Kcd] # "got"
    BY <1>0, <1>2 DEF KcdRegisters, KcdClears, GoOn, Pointers
  <2>3. KcdEnds
    BY <2>1, <2>2, DecoderGoesOn
  <2>. QED BY <1>2, <2>3 DEF KcdSteps
<1>3. CASE KcdEchoes
  <2>1. pc[Kcd] = "got" /\ \E s : Mail(Kcd, msg[Kcd], Crt, s)
    BY <1>3 DEF KcdEchoes
  <2>2. Inbox'[Kcd] = Inbox[Kcd]
    BY <1>0, <2>1, SendsInbox DEF Mail
  <2>3. pc'[Kcd] # "got"
    BY <1>0, <1>3 DEF KcdEchoes, GoOn, Pointers
  <2>4. KcdEnds
    BY <2>1, <2>2, <2>3, DecoderGoesOn
  <2>. QED BY <1>3, <2>4 DEF KcdSteps
<1>4. CASE KcdSendsClear
  <2>1. pc[Kcd] # "got" /\ GoesFrom(Kcd, "receive") /\ Mail(Kcd, new[Kcd], Crt, <<FF>>)
    BY <1>4 DEF KcdSendsClear, GoesFrom, GoOn
  <2>2. Inbox'[Kcd] = Inbox[Kcd]
    BY <1>0, <2>1, SendsInbox DEF Mail
  <2>3. Coming(Kcd)' = Coming(Kcd)
    BY <1>0, <2>1, <2>2, ComingGoesOn
  <2>4. Unwritten(Coming(Kcd))
    BY <2>1, DecoderFills
  <2>. QED BY <1>4, <2>3, <2>4 DEF KcdSendsClear, KcdQuiet, KcdSteps, userVars, historyVars
<1>5. CASE KcdSendsCommand
  <2>1. /\ pc[Kcd] = "fill" /\ GoesFrom(Kcd, "receive") /\ line' = <<>>
        /\ UNCHANGED <<decoded, userVars, new>> /\ pc' = [pc EXCEPT ![Kcd] = "receive"]
    BY <1>5 DEF KcdSendsCommand, GoesFrom, GoOn
  <2>2. PICK i \in Match(line) : Mail(Kcd, new[Kcd], cmds[i].pid, line)
    BY <1>5 DEF KcdSendsCommand
  <2>3. /\ new[Kcd] \in MemBlock /\ InboxGets(new[Kcd], cmds[i].pid)
        /\ \A p \in Proc : p # cmds[i].pid => Inbox'[p] = Inbox[p]
    BY <2>2, SendsInbox DEF Mail
  <2>4. Unwritten(Coming(Kcd))
    BY <2>1, DecoderFills
  <2>5. CASE cmds[i].pid # Kcd
    <3>1. Coming(Kcd)' = Coming(Kcd)
      BY <1>0, <2>1, <2>3, <2>5, ComingGoesOn
    <3>. QED BY <2>1, <2>4, <3>1 DEF KcdQuiet, KcdSteps, userVars
  <2>6. CASE cmds[i].pid = Kcd
    <3>1. Coming(Kcd)' = Append(Coming(Kcd), new[Kcd])
      BY <1>0, <2>1, <2>3, <2>6, ComingGoesOn
    <3>2. IsClear(line)
      <4>1. Matches(cmds[i].cmd, line) /\ i \in DOMAIN cmds
        BY <2>2 DEF Match
      <4>2. cmds[i].cmd = Clear
        BY <2>6, <4>1, KnownClear
      <4>3. line \in Seq(Letters)
        BY DEF Texts
      <4>. QED BY <4>1, <4>2, <4>3, MatchesClear
    <3>3. content[new[Kcd]] = Blank /\ ~IsRegistration(new[Kcd])
      BY <1>0, <2>1, BlankToFill
    <3>4. Rewrites(new[Kcd], Kcd, Overwrite(content[new[Kcd]].text, line))
      BY <1>0, <2>1, <2>2, <3>3, MailContents DEF Texts
    <3>5. content'[new[Kcd]].text = Overwrite(<<>>, line)
      BY <2>3, <3>3, <3>4, BlankIsContent DEF Rewrites, Texts
    <3>6. content'[new[Kcd]].text = line
      BY <3>5, OverwriteBlank DEF Texts
    <3>7. KcdGets(new[Kcd])
      BY <2>1, <2>3, <2>4, <3>1 DEF KcdGets
    <3>. QED BY <2>1, <3>2, <3>6, <3>7 DEF KcdSteps
  <2>. QED BY <2>5, <2>6
<1>. QED BY <1>1, <1>2, <1>3, <1>4, <1>5 DEF Decoder

LEMMA OthersComing ==
  ASSUME RtxIInv, Pointers, AllTidy, Texts, Written, Asked, [ConsoleNext]_consoleVars, ~Decoder
  PROVE  KcdSteps
<1>0. /\ Kcd \in Client /\ Kcd \in Proc /\ Crt \in Proc /\ Uart \in Proc /\ Prio \in Proc
      /\ Crt # Kcd /\ Uart # Kcd /\ Prio # Kcd /\ Tidy(Kcd) /\ Prio \in Client
  BY ClientsAreProc, ClientsDiffer DEF Client, AllTidy
<1>1. Unwritten(Coming(Kcd))
  BY <1>0, ComingUnwritten DEF Acts
<1>2. CASE \/ Boot /\ UNCHANGED <<localVars, userVars, historyVars>>
           \/ TypesInVain \/ UNCHANGED consoleVars
  <2>1. UNCHANGED <<mailbox, rx, pc, msg, decoded, line, script>> /\ (((keys' = keys /\ lost' = lost) \/ TypesInVain))
    BY <1>2 DEF Boot, TypesInVain, consoleVars, localVars, historyVars, userVars, rtxVars,
                dataVars, mailVars
  <2>2. Inbox' = Inbox
    BY <2>1, InboxRests DEF RtxIInv
  <2>3. Coming(Kcd)' = Coming(Kcd)
    BY <2>1, <2>2, ComingStays
  <2>. QED BY <1>1, <2>1, <2>3 DEF KcdQuiet, KcdSteps
<1>3. ASSUME NEW r \in Client, ClientStep(r) PROVE KcdSteps
  <2>1. Coming(Kcd)' = Coming(Kcd)
    BY <1>0, <1>3, ComingWaits
  <2>2. UNCHANGED <<decoded, line, userVars>>
    BY <1>3 DEF ClientStep, Waits, Gets, Obtains, localVars, historyVars
  <2>. QED BY <1>1, <2>1, <2>2 DEF KcdQuiet, KcdSteps, userVars
<1>4. CASE Types
  <2>. DEFINE h == Head(available)
  <2>1. /\ Rewrites(h, kernel.running, <<Head(keys)>>) /\ h \in MemBlock /\ IsFree(h)
    BY <1>4, TypesContents
  <2>2. InboxGets(h, Kcd)
    BY <1>4, InboxOfSerial DEF Types, RtxIInv
  <2>3. UNCHANGED <<pc, msg, decoded, line>>
    BY <1>4 DEF Types, historyVars
  <2>4. content'[h].text = <<Head(keys)>> /\ content'[h].type # REGISTER_CMD
    BY <2>1, BlankIsContent DEF Rewrites, Texts, Written
  <2>5. h \in MemBlock /\ Coming(Kcd)' = Append(Coming(Kcd), h)
    BY <1>0, <2>2, <2>3, ComingGrows
  <2>6. KcdGets(h)
    BY <1>1, <2>3, <2>5 DEF KcdGets
  <2>. HIDE DEF h
  <2>7. \E b \in MemBlock : /\ KcdGets(b) /\ content'[b].text = <<Head(keys)>>
                           /\ content'[b].type # REGISTER_CMD
    BY <2>4, <2>5, <2>6
  <2>. QED BY <1>4, <2>7 DEF KcdSteps
<1>5. ASSUME NEW r \in Proc, r # Kcd, NEW point, GoesFrom(r, point), Inbox'[Kcd] = Inbox[Kcd],
             UNCHANGED <<decoded, line, userVars>>
      PROVE  KcdSteps
  <2>1. Coming(Kcd)' = Coming(Kcd)
    BY <1>0, <1>5, ComingGoesOn
  <2>. QED BY <1>1, <1>5, <2>1 DEF KcdQuiet, KcdSteps, userVars
<1>6. CASE Output
  <2>1. CASE CrtLoops \/ UartWrites
    <3>1. UNCHANGED rtxVars
      BY <2>1 DEF CrtLoops, UartWrites
    <3>. QED BY <1>0, <1>5, <2>1, <3>1, QuietInbox
         DEF CrtLoops, UartWrites, GoOn, GoesFrom, historyVars
  <2>2. CASE CrtSends
    <3>1. \E s : Mail(Crt, new[Crt], Uart, s)
      BY <2>2 DEF CrtSends
    <3>2. Inbox'[Kcd] = Inbox[Kcd]
      BY <1>0, <3>1, SendsInbox DEF Mail
    <3>. QED BY <1>0, <1>5, <2>2, <3>2 DEF CrtSends, GoOn, GoesFrom, historyVars
  <2>3. CASE CrtReleases \/ UartTakes
    <3>1. Inbox' = Inbox
      BY <2>3, FreesInbox DEF CrtReleases, UartTakes
    <3>. QED BY <1>0, <1>5, <2>3, <3>1 DEF CrtReleases, UartTakes, GoOn, GoesFrom, historyVars
  <2>. QED BY <1>6, <2>1, <2>2, <2>3 DEF Output
<1>7. CASE PrioComplains \/ PrioReplies
  <2>1. Send(Prio, msg[Prio], Crt)
    BY <1>7 DEF PrioComplains, PrioReplies, Mail
  <2>2. Inbox'[Kcd] = Inbox[Kcd]
    BY <1>0, <2>1, SendsInbox
  <2>. QED BY <1>0, <1>5, <1>7, <2>2 DEF PrioComplains, PrioReplies, GoOn, GoesFrom, historyVars
<1>8. CASE PrioSets
  <2>1. Inbox' = Inbox
    BY <1>8, PriorityInbox
  <2>. QED BY <1>0, <1>5, <1>8, <2>1 DEF PrioSets, GoOn, GoesFrom, historyVars
<1>9. CASE PrioRegisters
  <2>1. /\ pc[Prio] = "fill" /\ GoesFrom(Prio, "receive") /\ UNCHANGED <<decoded, line, userVars>>
    BY <1>9 DEF PrioRegisters, GoesFrom, GoOn, historyVars
  <2>2. \A b \in MemBlock : ~IsRegistration(b)
    BY <2>1 DEF Asked
  <2>3. /\ new[Prio] \in MemBlock /\ Send(Prio, new[Prio], Kcd)
        /\ content'[new[Prio]].type = REGISTER_CMD
    <3>1. /\ new[Prio] \in MemBlock /\ Send(Prio, new[Prio], Kcd)
          /\ \A c \in MemBlock : content'[c].type = REGISTER_CMD <=> c = new[Prio]
      BY <1>9, <2>2, RegisterContents DEF IsRegistration
    <3>. QED BY <3>1
  <2>4. Coming(Kcd)' = Append(Coming(Kcd), new[Prio])
    BY <1>0, <2>1, <2>3, SendsInbox, ComingGoesOn
  <2>5. KcdGets(new[Prio])
    BY <1>1, <2>1, <2>3, <2>4 DEF KcdGets
  <2>. QED BY <2>1, <2>3, <2>5 DEF KcdSteps
<1>. QED BY <1>2, <1>3, <1>4, <1>6, <1>7, <1>8, <1>9 DEF ConsoleNext, Processor, Command

-----------------------------------------------------------------------------
(* No text is longer than the line buffer. *)

Short(s) == Len(s) <= BufferSize

ShortTexts == \A b \in MemBlock : Short(content[b].text)

LEMMA BufferFacts == BufferSize \in Nat /\ 2 <= BufferSize
BY ConsoleAssumption

LEMMA OverwriteShort ==
  ASSUME NEW t \in Seq(Letters), NEW s \in Seq(Letters), Short(t), Short(s)
  PROVE  Short(Overwrite(t, s))
BY OverwriteProperties DEF Short

LEMMA MailShort ==
  ASSUME Texts, ShortTexts, RtxIInv, NEW p, NEW b, NEW q, NEW s \in Seq(Letters),
         Mail(p, b, q, s), Short(s)
  PROVE  ShortTexts'
<1>1. b \in MemBlock
  BY SendCalls DEF Mail
<1>. DEFINE t == Overwrite(content[b].text, s)
<1>2. Short(t)
  BY <1>1, OverwriteShort DEF ShortTexts, Texts, Content
<1>3. content' = [content EXCEPT ![b].text = t, ![b].tx = p]
  BY DEF Mail
<1>. HIDE DEF t
<1>4. Rewrites(b, p, t)
  BY <1>1, <1>3, TextWritten DEF Texts
<1>. QED BY <1>1, <1>2, <1>4 DEF Rewrites, Texts, ShortTexts

LEMMA FreeShort ==
  ASSUME Texts, ShortTexts, NEW p, NEW b, Free(p, b)
  PROVE  ShortTexts'
<1>1. Short(Blank.text)
  BY BufferFacts, BlankIsContent DEF Short
<1>. QED BY <1>1 DEF Free, Texts, ShortTexts

LEMMA ShortStrings ==
  /\ Short(Switch) /\ Short(<<CR, LF>>) /\ \A c : Short(<<c>>)
  /\ \A kind \in ReplyKind : Short(Reply[kind])
<1>1. Len(<<CR, LF>>) = 2 /\ \A c : Len(<<c>>) = 1
  OBVIOUS
<1>. QED BY <1>1, BufferFacts, Commands, ReplyAssumption DEF Short, SwitchFacts

LEMMA BufferedShort ==
  ASSUME line \in Seq(Letters), Short(line), NEW c \in Letters
  PROVE  Short(Buffered(c))
<1>1. Short(<<>>) /\ Short(<<c>>)
  BY BufferFacts, ShortStrings DEF Short
<1>2. Len(line) \in Nat /\ Len(Append(line, c)) = Len(line) + 1
  BY AppendProperties, LenProperties
<1>3. Len(line) < BufferSize => Short(Append(line, c))
  BY <1>2, BufferFacts DEF Short
<1>. QED BY <1>1, <1>3 DEF Buffered

LEMMA DecoderShort ==
  ASSUME RtxIInv, Pointers, AllTidy, Texts, Written, ShortTexts, Short(line), Decoder
  PROVE  ShortTexts' /\ Short(line')
<1>0. Kcd \in Client /\ Kcd \in Proc
  BY ReceiverAssumption DEF Client
<1>1. CASE KcdStarts
  BY <1>1 DEF KcdStarts, ShortTexts
<1>2. CASE KcdRegisters \/ KcdClears
  BY <1>2, FreeShort DEF KcdRegisters, KcdClears
<1>3. CASE KcdSendsClear
  BY <1>3, MailShort, ShortStrings, ControlsAreText DEF KcdSendsClear
<1>4. CASE KcdEchoes
  <2>. DEFINE c == CharAt(Text(Kcd), 1)
              s == IF c = CR THEN <<CR, LF>> ELSE <<c>>
  <2>1. msg[Kcd] \in MemBlock
    BY <1>0, <1>4, SendCalls DEF KcdEchoes, Mail
  <2>2. c \in Letters
    BY <2>1, CharAtIsLetter DEF Text, Texts, Content
  <2>3. s \in Seq(Letters) /\ Short(s)
    BY <2>2, ControlsAreText, ShortStrings
  <2>4. Mail(Kcd, msg[Kcd], Crt, s) /\ line' = Buffered(c)
    BY <1>4 DEF KcdEchoes
  <2>. HIDE DEF c, s
  <2>. QED BY <2>2, <2>3, <2>4, MailShort, BufferedShort DEF Texts
<1>5. CASE KcdSendsCommand
  <2>1. PICK i \in Match(line) : Mail(Kcd, new[Kcd], cmds[i].pid, line)
    BY <1>5 DEF KcdSendsCommand
  <2>2. line \in Seq(Letters) /\ line' = <<>> /\ Short(<<>>)
    BY <1>5, BufferFacts DEF KcdSendsCommand, Texts, Short
  <2>. QED BY <2>1, <2>2, MailShort
<1>. QED BY <1>1, <1>2, <1>3, <1>4, <1>5 DEF Decoder

LEMMA OutputShort ==
  ASSUME RtxIInv, Pointers, AllTidy, Texts, Written, ShortTexts, Output
  PROVE  ShortTexts' /\ line' = line
<1>0. Crt \in Client /\ Crt \in Proc
  BY ClientsAreProc DEF Client
<1>1. CASE CrtLoops \/ UartWrites
  BY <1>1 DEF CrtLoops, UartWrites, ShortTexts
<1>2. CASE CrtReleases \/ UartTakes
  BY <1>2, FreeShort DEF CrtReleases, UartTakes
<1>3. CASE CrtSends
  <2>. DEFINE s == <<CharAt(Text(Crt), pos)>>
  <2>1. msg[Crt] \in held[Crt]
    BY <1>0, <1>3 DEF CrtSends, AllTidy, Tidy, Named
  <2>2. msg[Crt] \in MemBlock
    BY <1>0, <2>1 DEF RtxIInv, Accounts, DataTypeOK
  <2>3. s \in Seq(Letters) /\ Short(s)
    BY <2>2, CharAtIsLetter, ShortStrings DEF Text, Texts, Content
  <2>4. Mail(Crt, new[Crt], Uart, s) /\ line' = line
    BY <1>3 DEF CrtSends
  <2>. HIDE DEF s
  <2>. QED BY <2>3, <2>4, MailShort
<1>. QED BY <1>1, <1>2, <1>3 DEF Output

LEMMA CommandShort ==
  ASSUME RtxIInv, Pointers, AllTidy, Texts, Written, ShortTexts, Command
  PROVE  ShortTexts' /\ line' = line
<1>1. CASE PrioRegisters
  <2>1. new[Prio] \in MemBlock /\ Short(Overwrite(content[new[Prio]].text, Switch))
    <3>1. new[Prio] \in MemBlock
      BY <1>1, SendCalls DEF PrioRegisters, Register
    <3>. QED BY <3>1, OverwriteShort, SwitchIsText, ShortStrings DEF Texts, Content, ShortTexts
  <2>. QED BY <1>1, <2>1 DEF PrioRegisters, Register, Texts, ShortTexts
<1>2. ASSUME PrioComplains \/ PrioSets
      PROVE  /\ msg[Prio] \in MemBlock /\ line' = line
             /\ LET old == content[msg[Prio]].text
                IN  /\ old \in Seq(Letters) /\ Short(old)
                    /\ Divided(old) \in Seq(Letters) /\ Short(Divided(old))
  <2>1. msg[Prio] \in MemBlock
    BY <1>2, OwnIsNoRegistration DEF PrioComplains, PrioSets
  <2>2. content[msg[Prio]].text \in Seq(Letters) /\ Short(content[msg[Prio]].text)
    BY <2>1 DEF Texts, Content, ShortTexts
  <2>3. /\ Divided(content[msg[Prio]].text) \in Seq(Letters)
        /\ Short(Divided(content[msg[Prio]].text))
    BY <2>2, DividedProperties DEF Short
  <2>. QED BY <1>2, <2>1, <2>2, <2>3 DEF PrioComplains, PrioSets
<1>3. CASE PrioComplains
  <2>. DEFINE b == msg[Prio]
              old == content[b].text
  <2>1. PICK kind \in Complaint(old) :
          content' = [content EXCEPT
             ![b].text = Overwrite(IF kind = "bad" THEN @ ELSE Divided(@), Reply[kind]),
             ![b].tx = Prio]
    BY <1>3 DEF PrioComplains, Text
  <2>2. kind \in ReplyKind
    BY <2>1 DEF Complaint, ReplyKind
  <2>. DEFINE t == Overwrite(IF kind = "bad" THEN old ELSE Divided(old), Reply[kind])
  <2>3. Short(t)
    <3>1. Short(Overwrite(old, Reply[kind]))
      BY <1>2, <1>3, <2>2, ReplyIsText, ShortStrings, OverwriteShort
    <3>2. Short(Overwrite(Divided(old), Reply[kind]))
      BY <1>2, <1>3, <2>2, ReplyIsText, ShortStrings, OverwriteShort
    <3>. QED BY <3>1, <3>2
  <2>4. content' = [content EXCEPT ![b].text = t, ![b].tx = Prio]
    BY <2>1
  <2>. HIDE DEF t, old
  <2>5. Rewrites(b, Prio, t)
    BY <1>2, <1>3, <2>4, TextWritten DEF Texts
  <2>. QED BY <1>2, <1>3, <2>3, <2>5 DEF Rewrites, Texts, ShortTexts
<1>4. CASE PrioSets
  <2>1. content' = [content EXCEPT ![msg[Prio]].text = Divided(content[msg[Prio]].text)]
    BY <1>4 DEF PrioSets
  <2>2. Rewrites(msg[Prio], content[msg[Prio]].tx, Divided(content[msg[Prio]].text))
    BY <1>2, <1>4, <2>1, TextDivided DEF Texts
  <2>. QED BY <1>2, <1>4, <2>2 DEF Rewrites, Texts, ShortTexts
<1>5. CASE PrioReplies
  <2>1. Mail(Prio, msg[Prio], Crt, Reply[reply]) /\ line' = line /\ reply \in ReplyKind
    BY <1>5 DEF PrioReplies, Texts
  <2>. QED BY <2>1, MailShort, ReplyIsText, ShortStrings
<1>. QED BY <1>1, <1>3, <1>4, <1>5 DEF Command

LEMMA StepShort ==
  ASSUME RtxIInv, Pointers, AllTidy, Texts, Written, ShortTexts, Short(line),
         [ConsoleNext]_consoleVars
  PROVE  ShortTexts' /\ Short(line')
<1>1. CASE \/ Boot /\ UNCHANGED <<localVars, userVars, historyVars>>
           \/ TypesInVain \/ UNCHANGED consoleVars
  BY <1>1 DEF localVars, TypesInVain, consoleVars, ShortTexts
<1>2. CASE Types
  <2>. DEFINE h == Head(available)
  <2>1. /\ Rewrites(h, kernel.running, <<Head(keys)>>) /\ h \in MemBlock /\ line' = line
    BY <1>2, TypesContents DEF Types
  <2>. HIDE DEF h
  <2>. QED BY <2>1, ShortStrings DEF Rewrites, Texts, ShortTexts
<1>3. ASSUME NEW p \in Client, ClientStep(p) PROVE ShortTexts' /\ Short(line')
  <2>1. content' = content /\ line' = line
    BY <1>3 DEF ClientStep, Waits, Gets, Obtains, localVars
  <2>. QED BY <2>1 DEF ShortTexts
<1>. QED BY <1>1, <1>2, <1>3, DecoderShort, OutputShort, CommandShort DEF ConsoleNext, Processor

-----------------------------------------------------------------------------
(* What the user has typed, and what the decoder finds in its messages. *)

\* The user has typed the beginning of the script; what is lost is part of it.
User ==
    /\ script \in Script /\ keys \in Seq(Printed) /\ line \in Seq(Printed)
    /\ Len(keys) <= Len(script)
    /\ \A i \in DOMAIN keys : keys[i] = script[Len(script) - Len(keys) + i]
    /\ lost \subseteq 1..(Len(script) - Len(keys))

\* The decoder's messages are a registration, its own command, or one character.
IsKcdMail(b) ==
    \/ content[b].type = REGISTER_CMD
    \/ IsClear(content[b].text)
    \/ \E c \in Printed : content[b].text = <<c>>

KcdMail == \A i \in DOMAIN Coming(Kcd) : IsKcdMail(Coming(Kcd)[i])

LEMMA ScriptFacts ==
  ASSUME NEW s \in Script
  PROVE  s \in Seq(Printed) /\ Len(s) \in Nat /\ DOMAIN s = 1..Len(s)
<1>1. s \in Seq(STRING)
  BY ConsoleAssumption
<1>2. s \in Seq(Range(s)) /\ Range(s) \subseteq Printed
  BY <1>1, SeqOfRange DEF Printed
<1>. QED BY <1>1, <1>2, SeqMonotonic, LenProperties

LEMMA TailProperties ==
  ASSUME NEW S, NEW s \in Seq(S), s # <<>>
  PROVE  /\ Head(s) = s[1] /\ s[1] \in S /\ Tail(s) \in Seq(S)
         /\ Len(s) \in Nat \ {0} /\ Len(Tail(s)) = Len(s) - 1
         /\ DOMAIN s = 1..Len(s) /\ DOMAIN Tail(s) = 1..(Len(s) - 1)
         /\ \A i \in 1..(Len(s) - 1) : Tail(s)[i] = s[i + 1]
<1>1. /\ Len(s) \in Nat /\ s # <<>> => Len(s) # 0
  BY LenProperties, EmptySeq
<1>. QED BY <1>1, HeadTailProperties, LenProperties, ElementOfSeq

\* A key is typed.
LEMMA UserTypes ==
  ASSUME User, keys # <<>>, keys' = Tail(keys), script' = script, line' \in Seq(Printed),
         lost' \subseteq lost \cup {Len(script) - Len(keys) + 1}
  PROVE  User' /\ Head(keys) \in Printed
<1>. DEFINE n == Len(script)
            k == Len(keys)
            m == Len(keys')
<1>1. n \in Nat /\ k \in Nat \ {0} /\ m = k - 1 /\ keys' \in Seq(Printed)
      /\ DOMAIN keys = 1..k /\ DOMAIN keys' = 1..m /\ k <= n
      /\ Head(keys) \in Printed
      /\ \A i \in 1..m : keys'[i] = keys[i + 1]
  BY TailProperties, ScriptFacts DEF User
<1>2. /\ \A i \in 1..k : keys[i] = script[n - k + i]
      /\ lost \subseteq 1..(n - k) /\ lost' \subseteq lost \cup {n - k + 1}
  BY <1>1 DEF User
<1>. HIDE DEF n, k, m
<1>3. m <= n /\ lost' \subseteq 1..(n - m)
  <2>1. n - m = n - k + 1 /\ n - k \in Nat
    BY <1>1
  <2>. QED BY <1>1, <1>2, <2>1
<1>4. ASSUME NEW i \in 1..m PROVE keys'[i] = script[n - m + i]
  <2>1. i + 1 \in 1..k /\ n - k + (i + 1) = n - m + i
    BY <1>1
  <2>2. keys[i + 1] = script[n - k + (i + 1)]
    BY <1>2, <2>1
  <2>. QED BY <1>1, <2>1, <2>2
<1>5. \A i \in DOMAIN keys' : keys'[i] = script[n - m + i]
  BY <1>1, <1>4
<1>. QED BY <1>1, <1>3, <1>5 DEF User, n, m

LEMMA KcdMailStays ==
  ASSUME NEW s \in Seq(MemBlock), Unwritten(s), \A i \in DOMAIN s : IsKcdMail(s[i]),
         Coming(Kcd)' = s
  PROVE  KcdMail'
BY DEF KcdMail, IsKcdMail, Unwritten

LEMMA KcdMailGrows ==
  ASSUME Coming(Kcd) \in Seq(MemBlock), KcdMail, NEW b, KcdGets(b),
         \/ content'[b].type = REGISTER_CMD
         \/ IsClear(content'[b].text)
         \/ \E c \in Printed : content'[b].text = <<c>>
  PROVE  KcdMail'
<1>. DEFINE s == Coming(Kcd)
            t == Append(s, b)
            n == Len(s)
<1>1. /\ n \in Nat /\ DOMAIN s = 1..n /\ DOMAIN t = 1..(n + 1) /\ t[n + 1] = b
      /\ \A i \in 1..n : t[i] = s[i]
  <2>1. s \in Seq(MemBlock) /\ b \in MemBlock
    BY DEF KcdGets
  <2>. HIDE DEF s
  <2>. QED BY <2>1, AppendProperties, LenProperties
<1>2. Coming(Kcd)' = t
  BY DEF KcdGets
<1>3. /\ \A i \in 1..n : IsKcdMail(s[i]) /\ content'[s[i]] = content[s[i]]
  BY <1>1 DEF KcdMail, KcdGets, Unwritten
<1>. HIDE DEF s, t, n
<1>4. ASSUME NEW i \in 1..(n + 1)
      PROVE  \/ content'[t[i]].type = REGISTER_CMD
             \/ IsClear(content'[t[i]].text)
             \/ \E c \in Printed : content'[t[i]].text = <<c>>
  <2>1. CASE i = n + 1
    BY <1>1, <2>1
  <2>2. CASE i # n + 1
    <3>1. i \in 1..n
      BY <1>1, <2>2
    <3>. QED BY <1>1, <1>3, <3>1 DEF IsKcdMail
  <2>. QED BY <2>1, <2>2
<1>5. DOMAIN (Coming(Kcd)') = 1..(n + 1)
  BY <1>1, <1>2
<1>. QED BY <1>2, <1>4, <1>5 DEF KcdMail, IsKcdMail

\* The message the decoder has is the first of those that are coming.
LEMMA EndsFirst ==
  ASSUME KcdEnds
  PROVE  /\ Coming(Kcd) \in Seq(MemBlock) /\ 1 \in DOMAIN Coming(Kcd)
         /\ Coming(Kcd)[1] = msg[Kcd]
         /\ \A i \in DOMAIN Inbox[Kcd] : \E j \in DOMAIN Coming(Kcd) :
               Inbox[Kcd][i] = Coming(Kcd)[j]
<1>. DEFINE h == <<msg[Kcd]>>
            s == Inbox[Kcd]
            m == Len(s)
            c == h \o s
<1>1. h \in Seq(MemBlock) /\ s \in Seq(MemBlock) /\ Len(h) = 1 /\ h[1] = msg[Kcd]
  BY DEF KcdEnds
<1>. HIDE DEF h, s
<1>2. /\ c \in Seq(MemBlock) /\ Len(c) = 1 + m /\ m \in Nat
      /\ \A i \in 1..(1 + m) : c[i] = IF i <= 1 THEN h[i] ELSE s[i - 1]
  BY <1>1, ConcatProperties, LenProperties
<1>3. DOMAIN c = 1..(1 + m) /\ DOMAIN s = 1..m
  BY <1>1, <1>2, LenProperties
<1>. HIDE DEF c, m
<1>4. c[1] = msg[Kcd] /\ 1 \in DOMAIN c
  BY <1>1, <1>2, <1>3
<1>5. ASSUME NEW i \in DOMAIN s PROVE i + 1 \in DOMAIN c /\ s[i] = c[i + 1]
  BY <1>2, <1>3
<1>6. Coming(Kcd) = c
  BY DEF KcdEnds, c, h, s
<1>. QED BY <1>2, <1>4, <1>5, <1>6 DEF s

LEMMA EchoesOne ==
  ASSUME KcdMail, KcdEnds, KcdEchoes
  PROVE  \E c \in Printed : Text(Kcd) = <<c>> /\ CharAt(Text(Kcd), 1) = c
<1>1. IsKcdMail(msg[Kcd])
  BY EndsFirst DEF KcdMail
<1>2. PICK c \in Printed : Text(Kcd) = <<c>>
  BY <1>1 DEF IsKcdMail, KcdEchoes, Text
<1>3. DOMAIN <<c>> = {1} /\ <<c>>[1] = c
  OBVIOUS
<1>. QED BY <1>2, <1>3 DEF CharAt

LEMMA StepUser ==
  ASSUME RtxIInv, Pointers, AllTidy, KcdSteps, User, KcdMail
  PROVE  User' /\ KcdMail'
<1>0. Kcd \in Client /\ Tidy(Kcd) /\ Coming(Kcd) \in Seq(MemBlock)
  BY ComingType DEF Client, AllTidy
<1>1. line \in Seq(Printed) /\ <<>> \in Seq(Printed)
  BY EmptySeq DEF User
<1>2. ASSUME line' \in {line, <<>>}, UNCHANGED userVars PROVE User'
  BY <1>1, <1>2 DEF User, userVars
<1>3. CASE KcdQuiet
  <2>1. KcdMail'
    BY <1>0, <1>3, KcdMailStays DEF KcdQuiet, KcdMail
  <2>2. CASE TypesInVain
    <3>1. /\ line' \in Seq(Printed) /\ keys # <<>> /\ keys' = Tail(keys) /\ script' = script
          /\ lost' \subseteq lost \cup {Len(script) - Len(keys) + 1}
      BY <1>1, <1>3, <2>2 DEF KcdQuiet, TypesInVain, Typing
    <3>. QED BY <2>1, <3>1, UserTypes
  <2>3. CASE ~TypesInVain
    BY <1>2, <1>3, <2>1, <2>3 DEF KcdQuiet, userVars
  <2>. QED BY <2>2, <2>3
<1>4. CASE Types /\ \E b \in MemBlock : /\ KcdGets(b) /\ content'[b].text = <<Head(keys)>>
                                        /\ content'[b].type # REGISTER_CMD
  <2>1. PICK b \in MemBlock : KcdGets(b) /\ content'[b].text = <<Head(keys)>>
    BY <1>4
  <2>2. /\ line' \in Seq(Printed) /\ keys # <<>> /\ keys' = Tail(keys) /\ script' = script
        /\ lost' \subseteq lost \cup {Len(script) - Len(keys) + 1}
    BY <1>1, <1>4, <2>1 DEF KcdGets, Types, Typing
  <2>3. User' /\ Head(keys) \in Printed
    BY <2>2, UserTypes
  <2>4. KcdMail'
    BY <1>0, <2>1, <2>3, KcdMailGrows
  <2>. QED BY <2>3, <2>4
<1>5. CASE UNCHANGED userVars /\ \E b : KcdGets(b) /\ (\/ content'[b].type = REGISTER_CMD
                                                      \/ IsClear(content'[b].text))
  <2>1. KcdMail'
    BY <1>0, <1>5, KcdMailGrows
  <2>. QED BY <1>2, <1>5, <2>1 DEF KcdGets
<1>6. ASSUME KcdEnds PROVE KcdMail'
  <2>1. \A i \in DOMAIN Inbox[Kcd] : IsKcdMail(Inbox[Kcd][i])
    BY <1>6, EndsFirst DEF KcdMail
  <2>. QED BY <1>6, <2>1, KcdMailStays DEF KcdEnds
<1>7. CASE KcdEnds /\ KcdEchoes
  <2>1. PICK c \in Printed : CharAt(Text(Kcd), 1) = c
    BY <1>7, EchoesOne
  <2>2. line' = Buffered(c) /\ UNCHANGED userVars
    BY <1>7, <2>1 DEF KcdEchoes
  <2>3. line' \in Seq(Printed)
    <3>1. <<c>> \in Seq(Printed) /\ Append(line, c) \in Seq(Printed)
      BY <1>1, AppendProperties
    <3>. QED BY <1>1, <2>2, <3>1 DEF Buffered
  <2>. QED BY <1>6, <1>7, <2>2, <2>3 DEF User, userVars
<1>8. CASE KcdEnds /\ (KcdRegisters \/ KcdClears)
  <2>1. line' = line /\ UNCHANGED userVars
    BY <1>8 DEF KcdRegisters, KcdClears
  <2>. QED BY <1>2, <1>6, <1>8, <2>1
<1>. QED BY <1>3, <1>4, <1>5, <1>7, <1>8 DEF KcdSteps

-----------------------------------------------------------------------------
(* Where the programs are. *)

\* A process whose program takes no step stays where it is.
LEMMA ProgramRests ==
  ASSUME RtxIInv, Pointers, [ConsoleNext]_consoleVars, NEW p \in Client, ~Acts(p), ~ClientStep(p)
  PROVE  pc'[p] = pc[p] /\ msg'[p] = msg[p] /\ new'[p] = new[p] /\ held'[p] = held[p]
<1>0. p \in Proc /\ Kcd \in Proc /\ Crt \in Proc /\ Uart \in Proc /\ Prio \in Proc
  BY ClientsAreProc DEF Client
<1>1. CASE \/ Boot /\ UNCHANGED <<localVars, userVars, historyVars>>
           \/ Types \/ TypesInVain \/ UNCHANGED consoleVars
  BY <1>1, IdleProceeds
<1>2. ASSUME NEW r \in Proc, OthersStay(r), r # p
      PROVE  pc'[p] = pc[p] /\ msg'[p] = msg[p] /\ new'[p] = new[p] /\ held'[p] = held[p]
  BY <1>0, <1>2 DEF OthersStay
<1>3. ASSUME NEW r \in Client, ClientStep(r)
      PROVE  pc'[p] = pc[p] /\ msg'[p] = msg[p] /\ new'[p] = new[p] /\ held'[p] = held[p]
  <2>1. r \in Proc /\ r # p
    BY <1>3, ClientsAreProc
  <2>. QED BY <1>2, <1>3, <2>1, ClientTidies
<1>4. CASE Decoder
  BY <1>0, <1>2, <1>4, DecoderTidies DEF Acts
<1>5. CASE CrtActs
  BY <1>0, <1>2, <1>5, CrtTidies DEF Acts, CrtActs
<1>6. CASE UartActs
  BY <1>0, <1>2, <1>6, UartTidies DEF Acts, UartActs
<1>7. CASE Command
  BY <1>0, <1>2, <1>7, CommandTidies DEF Acts
<1>. QED BY <1>1, <1>3, <1>4, <1>5, <1>6, <1>7 DEF ConsoleNext, Processor, Output, CrtActs, UartActs

\* Its message stays as it is too.
LEMMA MessageRests ==
  ASSUME RtxIInv, Pointers, AllTidy, Texts, Written, [ConsoleNext]_consoleVars,
         NEW p \in Client, ~Acts(p), msg[p] \in held[p]
  PROVE  content'[msg[p]] = content[msg[p]]
<1>0. p \in Proc /\ Kcd \in Proc /\ Crt \in Proc /\ Uart \in Proc /\ Prio \in Proc
  BY ClientsAreProc DEF Client
<1>1. msg[p] \in MemBlock /\ ~IsFree(msg[p]) /\ \A q \in Proc : msg[p] \in held[q] => q = p
  BY <1>0, HeldProperties DEF RtxIInv
<1>. QED BY <1>0, <1>1, OwnWrites DEF Acts

\* The CRT's index: at the first character when it waits for a message, on a
\* character that is not zero when it is about to send it.
CrtAt ==
    /\ pos \in Nat \ {0}
    /\ pc[Crt] = "receive" => pos = 1
    /\ pc[Crt] = "got" => pos <= Len(Text(Crt)) + 1
    /\ pc[Crt] \in {"request", "fill"} => pos \in DOMAIN Text(Crt) /\ Text(Crt)[pos] # NUL

LEMMA PosStays ==
  ASSUME [ConsoleNext]_consoleVars, ~CrtActs
  PROVE  pos' = pos
<1>1. CASE UNCHANGED localVars \/ UNCHANGED consoleVars
  BY <1>1 DEF localVars, consoleVars
<1>2. ASSUME NEW p \in Client, ClientStep(p) PROVE pos' = pos
  BY <1>2 DEF ClientStep, Waits, Gets, Obtains, localVars
<1>3. CASE Types \/ TypesInVain
  BY <1>3 DEF Types, TypesInVain, localVars
<1>4. CASE Decoder
  BY <1>4 DEF Decoder, KcdStarts, KcdRegisters, KcdClears, KcdSendsClear, KcdEchoes, KcdSendsCommand
<1>5. CASE UartActs
  BY <1>5 DEF UartActs, UartTakes, UartWrites
<1>6. CASE Command
  BY <1>6 DEF Command, PrioRegisters, PrioComplains, PrioSets, PrioReplies
<1>. QED BY <1>1, <1>2, <1>3, <1>4, <1>5, <1>6 DEF ConsoleNext, Processor, Output, CrtActs, UartActs

LEMMA StepCrtAt ==
  ASSUME RtxIInv, Pointers, AllTidy, Programs, Texts, Written, CrtAt, [ConsoleNext]_consoleVars
  PROVE  CrtAt'
<1>0. /\ Crt \in Client /\ Crt \in Proc /\ Tidy(Crt)
      /\ Crt # Kcd /\ Crt # Uart /\ Crt # Prio
  BY ClientsAreProc, ClientsDiffer DEF Client, AllTidy
<1>1. pc[Crt] \in {"got", "request", "fill"} => msg[Crt] \in held[Crt] /\ msg[Crt] \in MemBlock
  BY <1>0 DEF Tidy, Named, RtxIInv, Accounts, DataTypeOK
<1>2. pc[Crt] \in {"receive", "got", "request", "fill"}
  BY DEF Programs
<1>3. pc[Crt] \in {"got", "request", "fill"} =>
          Text(Crt) \in Seq(Letters) /\ Len(Text(Crt)) \in Nat /\ DOMAIN Text(Crt) = 1..Len(Text(Crt))
  BY <1>1, LenProperties DEF Text, Texts, Content
<1>4. ASSUME ~CrtActs, pc[Crt] \in {"got", "request", "fill"}, msg'[Crt] = msg[Crt]
      PROVE  Text(Crt)' = Text(Crt)
  <2>1. content'[msg[Crt]] = content[msg[Crt]]
    BY <1>0, <1>1, <1>4, MessageRests DEF Acts
  <2>. QED BY <1>4, <2>1 DEF Text
<1>5. CASE CrtLoops
  <2>1. pc[Crt] = "got" /\ pc'[Crt] = "request" /\ CharAt(Text(Crt), pos) # NUL
        /\ UNCHANGED <<content, msg, pos>>
    BY <1>0, <1>5 DEF CrtLoops, GoOn, Pointers
  <2>2. Text(Crt)' = Text(Crt)
    BY <2>1 DEF Text
  <2>. QED BY <2>1, <2>2 DEF CrtAt, CharAt
<1>6. CASE CrtSends
  <2>1. pc[Crt] = "fill" /\ pc'[Crt] = "got" /\ pos' = pos + 1 /\ msg' = msg
        /\ Mail(Crt, new[Crt], Uart, <<CharAt(Text(Crt), pos)>>)
    BY <1>0, <1>6 DEF CrtSends, GoOn, Pointers
  <2>2. msg[Crt] # new[Crt]
    BY <1>0, <2>1 DEF Tidy
  <2>3. content'[msg[Crt]].text = content[msg[Crt]].text
    <3>1. new[Crt] \in MemBlock
      BY <2>1, SendCalls DEF Mail
    <3>2. Rewrites(new[Crt], Crt, Overwrite(content[new[Crt]].text, <<CharAt(Text(Crt), pos)>>))
      BY <2>1, <3>1, TextWritten DEF Mail, Texts
    <3>. QED BY <1>1, <2>1, <2>2, <3>1, <3>2 DEF Rewrites, Texts
  <2>4. Text(Crt)' = Text(Crt)
    BY <2>1, <2>3 DEF Text
  <2>5. pos \in 1..Len(Text(Crt))
    BY <1>3, <2>1 DEF CrtAt
  <2>6. pos + 1 <= Len(Text(Crt)) + 1 /\ pos + 1 \in Nat \ {0}
    BY <1>3, <2>1, <2>5
  <2>. QED BY <2>1, <2>4, <2>6 DEF CrtAt
<1>7. CASE CrtReleases
  <2>1. pc'[Crt] = "receive" /\ pos' = 1
    BY <1>0, <1>7 DEF CrtReleases, GoOn, Pointers
  <2>. QED BY <2>1 DEF CrtAt
<1>8. CASE ClientStep(Crt) /\ ~CrtActs
  <2>1. pos' = pos
    BY <1>8, PosStays
  <2>2. CASE Waits(Crt)
    <3>1. pc' = pc /\ msg' = msg
      BY <2>2 DEF Waits, localVars
    <3>. QED BY <1>2, <1>4, <1>8, <2>1, <3>1 DEF CrtAt
  <2>3. CASE Gets(Crt)
    <3>1. PICK b \in MemBlock : msg' = [msg EXCEPT ![Crt] = b]
      BY <1>0, <2>3, GetsHolds
    <3>2. pc[Crt] = "receive" /\ pc'[Crt] = "got" /\ content' = content
      BY <1>0, <2>3 DEF Gets, GoOn, Pointers
    <3>3. Text(Crt)' = content[b].text
      BY <1>0, <3>1, <3>2 DEF Text, Pointers
    <3>4. Len(Text(Crt)') \in Nat
      BY <3>3, LenProperties DEF Texts, Content
    <3>5. pos' = 1 /\ pos' <= Len(Text(Crt)') + 1
      BY <2>1, <3>2, <3>4 DEF CrtAt
    <3>. QED BY <3>2, <3>5 DEF CrtAt
  <2>4. CASE Obtains(Crt)
    <3>1. pc[Crt] = "request" /\ pc'[Crt] = "fill" /\ msg' = msg
      BY <1>0, <1>2, <2>4, ObtainsHolds DEF Pointers
    <3>. QED BY <1>4, <1>8, <2>1, <3>1 DEF CrtAt
  <2>. QED BY <1>8, <2>2, <2>3, <2>4 DEF ClientStep
<1>9. CASE ~ClientStep(Crt) /\ ~CrtActs
  <2>1. pc'[Crt] = pc[Crt] /\ msg'[Crt] = msg[Crt] /\ pos' = pos
    BY <1>0, <1>9, ProgramRests, PosStays DEF Acts
  <2>. QED BY <1>2, <1>4, <1>9, <2>1 DEF CrtAt
<1>. QED BY <1>5, <1>6, <1>7, <1>8, <1>9 DEF CrtActs

\* The others run no program here.
Outsiders == \A q \in Proc \ Client : pc[q] = "receive"

LEMMA StepOutsiders ==
  ASSUME RtxIInv, Pointers, Outsiders, [ConsoleNext]_consoleVars
  PROVE  Outsiders'
<1>1. PICK p \in Client : OthersStay(p)
  BY ConsoleTidies
<1>. QED BY <1>1 DEF OthersStay, Outsiders

-----------------------------------------------------------------------------
(* Types, with what they rest on. *)

TextInv == /\ ConsoleInv /\ Outsiders
           /\ ShortTexts /\ Short(line)
           /\ User /\ KcdMail /\ CrtAt

LEMMA InitTextInv == ConsoleInit => TextInv
<1>. SUFFICES ASSUME ConsoleInit PROVE TextInv
  OBVIOUS
<1>0. ProgramInit({Prio}) /\ ConsoleInv
  BY InitConsoleInv DEF ConsoleInit
<1>1. /\ pc[Kcd] = "start" /\ pc[Crt] = "receive" /\ Kcd \in Client /\ Crt \in Client /\ Kcd \in Proc
      /\ pos = 1 /\ line = <<>> /\ lost = {} /\ keys = script /\ script \in Script
  BY <1>0, ClientsDiffer, ClientsAreProc DEF ProgramInit, Client
<1>2. Outsiders
  BY <1>0 DEF ProgramInit, Outsiders, Client
<1>3. ShortTexts
  BY <1>0, BlankIsContent, BufferFacts DEF ProgramInit, ShortTexts, Short
<1>4. Short(line)
  BY <1>1, BufferFacts DEF Short
<1>5. User
  <2>. DEFINE n == Len(script)
  <2>1. script \in Seq(Printed) /\ n \in Nat /\ DOMAIN script = 1..n
    BY <1>1, ScriptFacts
  <2>. HIDE DEF n
  <2>2. n <= n /\ (\A i \in 1..n : script[i] = script[n - n + i])
    BY <2>1
  <2>3. line \in Seq(Printed) /\ lost \subseteq 1..(n - n)
    BY <1>1, EmptySeq
  <2>. QED BY <1>1, <2>1, <2>2, <2>3 DEF User, n
<1>6. KcdMail
  <2>1. SUFFICES ASSUME NEW i \in DOMAIN Coming(Kcd) PROVE FALSE
    BY DEF KcdMail
  <2>2. /\ RtxIInv /\ Pointers /\ Tidy(Kcd)
    BY <1>0, <1>1 DEF ConsoleInv, KernelInv, AllTidy
  <2>3. InBox(mailbox, Coming(Kcd)[i]) /\ Coming(Kcd)[i] \in MemBlock
    BY <1>1, <2>2, ComingWhere
  <2>4. \A j \in Slot : mailbox[j] = NoBlock
    BY <1>0 DEF ProgramInit, RtxInit
  <2>. QED BY <2>3, <2>4, BlockAssumption DEF InBox
<1>7. CrtAt
  BY <1>1 DEF CrtAt
<1>. QED BY <1>0, <1>2, <1>3, <1>4, <1>5, <1>6, <1>7 DEF TextInv

LEMMA StepTextInv == TextInv /\ [ConsoleNext]_consoleVars => TextInv'
<1>. SUFFICES ASSUME TextInv, [ConsoleNext]_consoleVars PROVE TextInv'
  OBVIOUS
<1>1. /\ RtxIInv /\ Pointers /\ AllTidy /\ Programs /\ Texts /\ Written /\ Asked
      /\ ShortTexts /\ Short(line) /\ User /\ KcdMail /\ CrtAt /\ Outsiders
  BY DEF TextInv, ConsoleInv, KernelInv
<1>2. ConsoleInv'
  BY StepConsoleInv DEF TextInv
<1>3. KcdSteps
  BY <1>1, DecoderComing, OthersComing
<1>4. User' /\ KcdMail'
  BY <1>1, <1>3, StepUser
<1>5. CrtAt'
  BY <1>1, StepCrtAt
<1>6. Outsiders'
  BY <1>1, StepOutsiders
<1>7. ShortTexts' /\ Short(line')
  BY <1>1, StepShort
<1>. QED BY <1>2, <1>4, <1>5, <1>6, <1>7 DEF TextInv, Short

THEOREM TextInductiveInvariant == ConsoleSpec => []TextInv
BY InitTextInv, StepTextInv, PTL DEF ConsoleSpec

\* Every variable of the console keeps its type, and no text outgrows the decoder's
\* line buffer: neither a line, however much is typed, nor an answer written over a
\* command; and the CRT's index never leaves its message by more than the end.
THEOREM ConsoleTypeCorrect == ConsoleSpec => []ConsoleTypeOK
<1>1. ASSUME TextInv PROVE ConsoleTypeOK
  <2>1. RtxTypeOK
    BY <1>1, RtxInvImpliesType DEF TextInv, ConsoleInv, KernelInv
  <2>2. \A b \in MemBlock :
            /\ content[b].type \in {PLAIN, REGISTER_CMD}
            /\ content[b].tx \in Proc \cup {Main, NoProc}
            /\ Len(content[b].text) <= BufferSize
    BY <1>1 DEF TextInv, ConsoleInv, Texts, Content, ShortTexts, Short
  <2>3. /\ msg \in [Proc -> MemBlock \cup {NoBlock}] /\ new \in [Proc -> MemBlock \cup {NoBlock}]
        /\ pc \in [Proc -> Stages]
    BY <1>1 DEF TextInv, ConsoleInv, Pointers, BlockOrNone
  <2>4. \A q \in Proc : pc[q] \in {"start", "receive", "got", "request", "fill", "request2",
                                   "fill2", "write", "reply"}
    BY <1>1 DEF TextInv, ConsoleInv, Programs, Outsiders, Client
  <2>5. line \in Seq(Printed) /\ Len(line) <= BufferSize /\ reply \in ReplyKind
    BY <1>1 DEF TextInv, ConsoleInv, Texts, User, Short
  <2>6. pos \in 1..(BufferSize + 1)
    <3>1. Crt \in Client /\ Crt \in Proc /\ Tidy(Crt) /\ held \in [Proc -> SUBSET MemBlock]
      BY <1>1, ClientsAreProc DEF Client, TextInv, ConsoleInv, AllTidy, KernelInv, RtxIInv, Accounts, DataTypeOK
    <3>2. CASE pc[Crt] = "receive"
      BY <1>1, <3>2, BufferFacts DEF TextInv, CrtAt
    <3>3. CASE pc[Crt] \in {"got", "request", "fill"}
      <4>1. msg[Crt] \in MemBlock
        BY <3>1, <3>3 DEF Tidy, Named
      <4>2. /\ Len(Text(Crt)) \in Nat /\ DOMAIN Text(Crt) = 1..Len(Text(Crt))
            /\ Len(Text(Crt)) <= BufferSize
        BY <1>1, <4>1, LenProperties DEF TextInv, ConsoleInv, Texts, Content, Text, ShortTexts, Short
      <4>3. pos \in Nat \ {0} /\ pos <= Len(Text(Crt)) + 1
        BY <1>1, <3>3, <4>2 DEF TextInv, CrtAt
      <4>. QED BY <4>2, <4>3, BufferFacts
    <3>. QED BY <1>1, <3>2, <3>3 DEF TextInv, ConsoleInv, Programs
  <2>7. lost \subseteq DOMAIN script
    <3>1. script \in Script /\ Len(keys) \in Nat /\ lost \subseteq 1..(Len(script) - Len(keys))
      BY <1>1, LenProperties DEF TextInv, User
    <3>2. DOMAIN script = 1..Len(script) /\ Len(script) \in Nat
      BY <3>1, ScriptFacts
    <3>. QED BY <3>1, <3>2
  <2>8. pc \in [Proc -> {"start", "receive", "got", "request", "fill", "request2",
                         "fill2", "write", "reply"}]
    BY <2>3, <2>4
  <2>. QED BY <2>1, <2>2, <2>3, <2>5, <2>6, <2>7, <2>8 DEF ConsoleTypeOK
<1>. QED BY <1>1, TextInductiveInvariant, PTL

-----------------------------------------------------------------------------
(* What has been typed and was kept. *)

LEMMA AmongAll ==
  ASSUME NEW T, NEW s \in Seq(T), NEW S, \A i \in 1..Len(s) : s[i] \in S
  PROVE  Among(s, S) = s
<1>. DEFINE U == {r \in Seq(T) : Among(r, T) = r}
<1>1. <<>> \in U
  BY AmongEmpty, EmptySeq
<1>2. ASSUME NEW r \in Seq(T), NEW e \in T, r \in U PROVE Append(r, e) \in U
  BY <1>2, AmongAppend, AppendProperties
<1>3. s \in U
  <2>. HIDE DEF U
  <2>. QED BY <1>1, <1>2, SeqInduction
<1>4. \A i \in 1..Len(s) : s[i] \in S <=> s[i] \in T
  BY ElementOfSeq
<1>5. Among(s, S) = Among(s, T)
  BY <1>4, AmongSame
<1>. QED BY <1>3, <1>5

Upto(m) == [i \in 1..m |-> i]

\* Of the first m entries of s those that are not in l.
KeptOf(s, l, m) == Values(Among(Upto(m), (1..m) \ l), s)

LEMMA UptoFacts ==
  ASSUME NEW m \in Nat
  PROVE  /\ Upto(m) \in Seq(Nat) /\ Len(Upto(m)) = m /\ \A i \in 1..m : Upto(m)[i] = i
         /\ Upto(m + 1) = Append(Upto(m), m + 1)
<1>1. ASSUME NEW k \in Nat
      PROVE  Upto(k) \in Seq(Nat) /\ Len(Upto(k)) = k /\ \A i \in 1..k : Upto(k)[i] = i
  BY DEF Upto
<1>. DEFINE u == Upto(m)
            v == Upto(m + 1)
            w == Append(u, m + 1)
<1>2. u \in Seq(Nat) /\ Len(u) = m /\ \A i \in 1..m : u[i] = i
  BY <1>1
<1>3. v \in Seq(Nat) /\ Len(v) = m + 1 /\ \A i \in 1..(m + 1) : v[i] = i
  BY <1>1
<1>. HIDE DEF u, v
<1>4. w \in Seq(Nat) /\ Len(w) = m + 1 /\ w[m + 1] = m + 1 /\ \A i \in 1..m : w[i] = u[i]
  BY <1>2, AppendProperties
<1>. HIDE DEF w
<1>5. ASSUME NEW i \in 1..(m + 1) PROVE v[i] = w[i]
  <2>1. i = m + 1 \/ i \in 1..m
    OBVIOUS
  <2>. QED BY <1>2, <1>3, <1>4, <2>1
<1>6. v = w
  BY <1>3, <1>4, <1>5, SeqEqual
<1>. QED BY <1>2, <1>6 DEF u, v, w

\* One more is typed: it is kept, or it is lost.
LEMMA KeptGrows ==
  ASSUME NEW m \in Nat, NEW l \in SUBSET (1..m), NEW s
  PROVE  /\ KeptOf(s, l, m + 1) = Append(KeptOf(s, l, m), s[m + 1])
         /\ KeptOf(s, l \cup {m + 1}, m + 1) = KeptOf(s, l, m)
<1>. DEFINE u == Upto(m)
            A == (1..m) \ l
            B == (1..(m + 1)) \ l
            C == (1..(m + 1)) \ (l \cup {m + 1})
<1>1. u \in Seq(Nat) /\ Len(u) = m /\ (\A i \in 1..m : u[i] = i) /\ Upto(m + 1) = Append(u, m + 1)
  BY UptoFacts
<1>. HIDE DEF u
<1>2. Among(u, A) = Among(u, B)
  <2>1. \A i \in 1..Len(u) : u[i] \in A <=> u[i] \in B
    BY <1>1
  <2>. HIDE DEF A, B
  <2>. QED BY <1>1, <2>1, AmongSame
<1>3. Among(u, A) = Among(u, C)
  <2>1. \A i \in 1..Len(u) : u[i] \in A <=> u[i] \in C
    BY <1>1
  <2>. HIDE DEF A, C
  <2>. QED BY <1>1, <2>1, AmongSame
<1>4. m + 1 \in B /\ m + 1 \notin C /\ m + 1 \in Nat
  OBVIOUS
<1>. HIDE DEF A, B, C
<1>5. Among(Upto(m + 1), B) = Append(Among(u, A), m + 1)
  <2>. DEFINE e == m + 1
  <2>1. u \in Seq(Nat)
    BY <1>1
  <2>2. e \in Nat
    OBVIOUS
  <2>. HIDE DEF e
  <2>3. Among(Append(u, e), B) = IF e \in B THEN Append(Among(u, B), e) ELSE Among(u, B)
    BY ONLY <2>1, <2>2, AmongAppend
  <2>4. Among(Append(u, m + 1), B) = IF m + 1 \in B THEN Append(Among(u, B), m + 1) ELSE Among(u, B)
    BY <2>3 DEF e
  <2>. QED BY <1>1, <1>2, <1>4, <2>4
<1>6. Among(Upto(m + 1), C) = Among(u, A)
  <2>. DEFINE e == m + 1
  <2>1. u \in Seq(Nat)
    BY <1>1
  <2>2. e \in Nat
    OBVIOUS
  <2>. HIDE DEF e
  <2>3. Among(Append(u, e), C) = IF e \in C THEN Append(Among(u, C), e) ELSE Among(u, C)
    BY ONLY <2>1, <2>2, AmongAppend
  <2>4. Among(Append(u, m + 1), C) = IF m + 1 \in C THEN Append(Among(u, C), m + 1) ELSE Among(u, C)
    BY <2>3 DEF e
  <2>. QED BY <1>1, <1>3, <1>4, <2>4
<1>7. Among(u, A) \in Seq(Nat)
  BY <1>1, AmongType
<1>. DEFINE a == Among(u, A)
<1>. HIDE DEF a
<1>8. Values(Append(a, m + 1), s) = Append(Values(a, s), s[m + 1])
  <2>1. a \in Seq(Nat) /\ m + 1 \in Nat
    BY <1>7 DEF a
  <2>. QED BY ONLY <2>1, ValuesAppend
<1>9. KeptOf(s, l, m + 1) = Append(KeptOf(s, l, m), s[m + 1])
  BY <1>5, <1>8 DEF KeptOf, a, A, B, u
<1>10. KeptOf(s, l \cup {m + 1}, m + 1) = KeptOf(s, l, m)
  BY <1>6 DEF KeptOf, A, C, u
<1>. QED BY <1>9, <1>10

\* What has still to be typed is kept, so far.
LEMMA KeptRest ==
  ASSUME NEW m \in Nat, NEW l \in SUBSET (1..m), NEW T, NEW s \in Seq(T), m <= Len(s)
  PROVE  KeptOf(s, l, Len(s)) = KeptOf(s, l, m) \o SubSeq(s, m + 1, Len(s))
<1>. DEFINE n == Len(s)
            u == Upto(m)
            v == [i \in 1..(n - m) |-> m + i]
            A == (1..m) \ l
            B == (1..n) \ l
<1>1. u \in Seq(Nat) /\ Len(u) = m /\ (\A i \in 1..m : u[i] = i)
  BY UptoFacts
<1>2. n \in Nat /\ m <= n /\ DOMAIN s = 1..n
  BY LenProperties
<1>. HIDE DEF n, u
<1>3. v \in Seq(Nat) /\ Len(v) = n - m /\ \A i \in 1..(n - m) : v[i] = m + i
  BY <1>2
<1>. HIDE DEF v
<1>4. Upto(n) = u \o v
  <2>. DEFINE w == u \o v
              x == Upto(n)
  <2>1. x \in Seq(Nat) /\ Len(x) = n /\ (\A i \in 1..n : x[i] = i)
    BY <1>2, UptoFacts
  <2>2. w \in Seq(Nat) /\ Len(w) = m + (n - m) /\ \A i \in 1..(m + (n - m)) : w[i] = IF i <= m THEN u[i] ELSE v[i - m]
    <3>1. u \in Seq(Nat)
      BY <1>1
    <3>2. v \in Seq(Nat)
      BY <1>3
    <3>3. /\ w \in Seq(Nat) /\ Len(w) = Len(u) + Len(v)
          /\ \A i \in 1..(Len(u) + Len(v)) : w[i] = IF i <= Len(u) THEN u[i] ELSE v[i - Len(u)]
      BY ONLY <3>1, <3>2, ConcatProperties DEF w
    <3>. QED BY <1>1, <1>3, <3>3
  <2>. HIDE DEF w, x
  <2>3. ASSUME NEW i \in 1..n PROVE x[i] = w[i]
    <3>1. CASE i <= m
      <4>1. i \in 1..m /\ i \in 1..(m + (n - m))
        BY <1>2, <3>1
      <4>. QED BY <1>1, <2>1, <2>2, <3>1, <4>1
    <3>2. CASE ~(i <= m)
      <4>1. i - m \in 1..(n - m) /\ i \in 1..(m + (n - m)) /\ m + (i - m) = i
        BY <1>2, <3>2
      <4>. QED BY <1>3, <2>1, <2>2, <3>2, <4>1
    <3>. QED BY <3>1, <3>2
  <2>4. Len(w) = n
    BY <1>2, <2>2
  <2>. QED BY <2>1, <2>2, <2>3, <2>4, SeqEqual DEF w, x
<1>5. Among(u, B) = Among(u, A)
  <2>1. \A i \in 1..Len(u) : u[i] \in B <=> u[i] \in A
    BY <1>1, <1>2
  <2>. HIDE DEF A, B
  <2>. QED BY <1>1, <2>1, AmongSame
<1>6. Among(v, B) = v
  <2>1. \A i \in 1..Len(v) : v[i] \in B
    BY <1>2, <1>3
  <2>. HIDE DEF B
  <2>. QED BY <1>3, <2>1, AmongAll
<1>7. Among(Upto(n), B) = Among(u, A) \o v
  <2>1. u \in Seq(Nat)
    BY <1>1
  <2>2. v \in Seq(Nat)
    BY <1>3
  <2>3. Among(u \o v, B) = Among(u, B) \o Among(v, B)
    BY ONLY <2>1, <2>2, AmongConcat
  <2>. QED BY <1>4, <1>5, <1>6, <2>3
<1>8. Values(v, s) = SubSeq(s, m + 1, n)
  <2>. DEFINE a == Values(v, s)
              b == SubSeq(s, m + 1, n)
  <2>1. DOMAIN v = 1..(n - m)
    BY <1>3, LenProperties
  <2>2. \A i \in 1..(n - m) : m + i \in 1..n /\ s[m + i] \in T
    BY <1>2, ElementOfSeq DEF n
  <2>3. a = [i \in 1..(n - m) |-> s[m + i]]
    BY <1>3, <2>1 DEF Values
  <2>. HIDE DEF a
  <2>. DEFINE k == n - m
  <2>4. k \in Nat
    BY <1>2
  <2>. HIDE DEF k
  <2>5. a \in Seq(T) /\ Len(a) = k /\ \A i \in 1..k : a[i] = s[m + i]
    BY <2>2, <2>3, <2>4 DEF k
  <2>6. CASE m + 1 <= n
    <3>1. m + 1 \in 1..n /\ n \in (m + 1)..n /\ n - (m + 1) + 1 = n - m
      BY <1>2, <2>6
    <3>2. b \in Seq(T) /\ Len(b) = n - (m + 1) + 1
          /\ \A i \in 1..(n - (m + 1) + 1) : b[i] = s[(m + 1) + i - 1]
      BY <3>1, <1>2, SubSeqProperties DEF n
    <3>. HIDE DEF b
    <3>3. Len(b) = k /\ \A i \in 1..k : b[i] = s[m + i]
      <4>1. \A i \in 1..k : (m + 1) + i - 1 = m + i
        OBVIOUS
      <4>. QED BY <3>1, <3>2, <4>1 DEF k
    <3>. QED BY <2>5, <3>2, <3>3, SeqEqual DEF a, b
  <2>7. CASE ~(m + 1 <= n)
    <3>1. k = 0 /\ m + 1 > n
      BY <1>2, <2>7 DEF k
    <3>2. b = <<>>
      BY <1>2, <3>1, SubSeqEmpty
    <3>3. a = <<>>
      BY <2>5, <3>1, EmptySeq
    <3>. QED BY <3>2, <3>3 DEF a
  <2>. QED BY <2>6, <2>7
<1>9. Values(Among(u, A) \o v, s) = Values(Among(u, A), s) \o Values(v, s)
  <2>. DEFINE a == Among(u, A)
  <2>1. a \in Seq(Nat)
    BY <1>1, AmongType
  <2>2. v \in Seq(Nat)
    BY <1>3
  <2>. HIDE DEF a
  <2>3. Values(a \o v, s) = Values(a, s) \o Values(v, s)
    BY ONLY <2>1, <2>2, ValuesConcat
  <2>. QED BY <2>3 DEF a
<1>. QED BY <1>7, <1>8, <1>9 DEF KeptOf, A, B, u, n

-----------------------------------------------------------------------------
(* The characters on their way to the decoder. *)

OneChar(c) == {b \in MemBlock : Len(c[b].text) = 1}
Chars(c) == [b \in MemBlock |-> c[b].text[1]]
Ones(s, c) == Values(Among(s, OneChar(c)), Chars(c))

LEMMA SingleAmong ==
  ASSUME NEW s \in Seq(MemBlock), NEW c
  PROVE  /\ Among(s, OneChar(c)) \in Seq(MemBlock)
         /\ \A i \in DOMAIN Among(s, OneChar(c)) :
               /\ Among(s, OneChar(c))[i] \in OneChar(c)
               /\ \E j \in DOMAIN s : Among(s, OneChar(c))[i] = s[j]
<1>. DEFINE a == Among(s, OneChar(c))
<1>1. /\ a \in Seq(MemBlock)
      /\ \A x : (\E i \in 1..Len(a) : a[i] = x) <=> x \in OneChar(c) /\ \E i \in 1..Len(s) : s[i] = x
  <2>1. a \in Seq(MemBlock)
    BY AmongType
  <2>2. ASSUME NEW x
        PROVE  (\E i \in 1..Len(a) : a[i] = x) <=> x \in OneChar(c) /\ \E i \in 1..Len(s) : s[i] = x
    BY AmongType
  <2>. QED BY <2>1, <2>2
<1>. HIDE DEF a
<1>2. DOMAIN a = 1..Len(a) /\ DOMAIN s = 1..Len(s)
  BY <1>1, LenProperties
<1>3. ASSUME NEW i \in DOMAIN a PROVE a[i] \in OneChar(c) /\ \E j \in DOMAIN s : a[i] = s[j]
  <2>1. \E k \in 1..Len(a) : a[k] = a[i]
    BY <1>2
  <2>. QED BY <1>1, <1>2, <2>1
<1>. QED BY <1>1, <1>3 DEF a

LEMMA ArrivingIs ==
  ASSUME NEW s \in Seq(MemBlock), NEW c
  PROVE  LET mail == Among(s, {b \in MemBlock : Len(c[b].text) = 1})
         IN  [i \in DOMAIN mail |-> c[mail[i]].text[1]] = Ones(s, c)
<1>. DEFINE a == Among(s, OneChar(c))
<1>1. \A i \in DOMAIN a : a[i] \in MemBlock
  BY SingleAmong DEF OneChar
<1>2. a = Among(s, {b \in MemBlock : Len(c[b].text) = 1})
  BY DEF OneChar
<1>. HIDE DEF a
<1>3. [i \in DOMAIN a |-> c[a[i]].text[1]] = Values(a, Chars(c))
  BY <1>1 DEF Values, Chars
<1>4. Ones(s, c) = Values(a, Chars(c))
  BY DEF Ones, a
<1>. QED BY <1>2, <1>3, <1>4

LEMMA OnesSame ==
  ASSUME NEW s \in Seq(MemBlock), NEW c, NEW d, \A i \in DOMAIN s : c[s[i]] = d[s[i]]
  PROVE  Ones(s, c) = Ones(s, d)
<1>1. \A i \in 1..Len(s) : s[i] \in OneChar(c) <=> s[i] \in OneChar(d)
  BY LenProperties DEF OneChar
<1>2. Among(s, OneChar(c)) = Among(s, OneChar(d))
  BY <1>1, AmongSame
<1>. DEFINE a == Among(s, OneChar(c))
<1>3. \A i \in DOMAIN a : a[i] \in MemBlock /\ \E j \in DOMAIN s : a[i] = s[j]
  BY SingleAmong DEF OneChar
<1>. HIDE DEF a
<1>4. \A i \in DOMAIN a : Chars(c)[a[i]] = Chars(d)[a[i]]
  BY <1>3 DEF Chars
<1>5. Values(a, Chars(c)) = Values(a, Chars(d))
  BY <1>4, ValuesSame
<1>. QED BY <1>2, <1>5 DEF Ones, a

LEMMA OnesType ==
  ASSUME NEW s \in Seq(MemBlock), NEW c \in [MemBlock -> Content]
  PROVE  Ones(s, c) \in Seq(Letters)
<1>. DEFINE a == Among(s, OneChar(c))
<1>1. a \in Seq(MemBlock) /\ \A i \in DOMAIN a : a[i] \in OneChar(c)
  BY SingleAmong
<1>2. \A b \in OneChar(c) : b \in MemBlock /\ c[b].text[1] \in Letters
  <2>. SUFFICES ASSUME NEW b \in OneChar(c) PROVE b \in MemBlock /\ c[b].text[1] \in Letters
    OBVIOUS
  <2>1. b \in MemBlock /\ c[b].text \in Seq(Letters) /\ Len(c[b].text) = 1
    BY DEF OneChar, Content
  <2>. QED BY <2>1, ElementOfSeq
<1>. HIDE DEF a
<1>3. \A i \in DOMAIN a : Chars(c)[a[i]] \in Letters
  BY <1>1, <1>2 DEF Chars
<1>4. Values(a, Chars(c)) \in Seq(Letters)
  BY <1>1, <1>3, ValuesType
<1>. QED BY <1>4 DEF Ones, a

LEMMA OnesConcat ==
  ASSUME NEW s \in Seq(MemBlock), NEW t \in Seq(MemBlock), NEW c
  PROVE  Ones(s \o t, c) = Ones(s, c) \o Ones(t, c)
<1>. DEFINE a == Among(s, OneChar(c))
            b == Among(t, OneChar(c))
<1>1. Among(s \o t, OneChar(c)) = a \o b
  BY AmongConcat
<1>2. a \in Seq(MemBlock)
  BY SingleAmong
<1>3. b \in Seq(MemBlock)
  BY SingleAmong
<1>. HIDE DEF a, b
<1>4. \A v : Values(a \o b, v) = Values(a, v) \o Values(b, v)
  BY ONLY <1>2, <1>3, ValuesConcat
<1>. QED BY <1>1, <1>4 DEF Ones, a, b

LEMMA OnesOne ==
  ASSUME NEW b \in MemBlock, NEW c
  PROVE  Ones(<<b>>, c) = IF Len(c[b].text) = 1 THEN <<c[b].text[1]>> ELSE <<>>
<1>1. Among(<<b>>, OneChar(c)) = IF b \in OneChar(c) THEN <<b>> ELSE <<>>
  BY AmongOne
<1>2. Values(<<b>>, Chars(c)) = <<c[b].text[1]>>
  BY DEF Values, Chars
<1>. QED BY <1>1, <1>2, ValuesEmpty DEF Ones, OneChar

-----------------------------------------------------------------------------
(* What is lost. *)

Taking == [char : Printed, known : Nat]

Reached == Taken \o Arriving

LEMMA TakenType ==
  ASSUME decoded \in Seq(Taking)
  PROVE  Taken \in Seq(Letters)
<1>. DEFINE n == Len(decoded)
            t == [i \in 1..n |-> decoded[i].char]
<1>1. n \in Nat /\ DOMAIN decoded = 1..n /\ \A i \in 1..n : decoded[i] \in Taking
  BY LenProperties, ElementOfSeq
<1>2. \A i \in 1..n : decoded[i].char \in Letters
  BY <1>1 DEF Taking, Letters
<1>3. Taken = t
  BY <1>1 DEF Taken
<1>. HIDE DEF n
<1>4. t \in Seq(Letters)
  BY <1>1, <1>2
<1>. QED BY <1>3, <1>4

LEMMA TakenGrows ==
  ASSUME decoded \in Seq(Taking), NEW c \in Printed, NEW k \in Nat,
         decoded' = Append(decoded, [char |-> c, known |-> k])
  PROVE  decoded' \in Seq(Taking) /\ Taken' = Append(Taken, c)
<1>. DEFINE n == Len(decoded)
            d == Append(decoded, [char |-> c, known |-> k])
            t == [i \in 1..n |-> decoded[i].char]
            u == [i \in 1..(n + 1) |-> d[i].char]
            w == Append(t, c)
<1>1. [char |-> c, known |-> k] \in Taking
  BY DEF Taking
<1>2. /\ n \in Nat /\ d \in Seq(Taking) /\ Len(d) = n + 1 /\ d[n + 1].char = c
      /\ \A i \in 1..n : d[i] = decoded[i]
  BY <1>1, AppendProperties, LenProperties
<1>3. DOMAIN decoded = 1..n /\ DOMAIN d = 1..(n + 1)
  BY <1>2, LenProperties
<1>4. Taken = t /\ Taken' = u
  <2>1. decoded' = d
    OBVIOUS
  <2>. HIDE DEF d
  <2>. QED BY <1>3, <2>1 DEF Taken
<1>5. \A i \in 1..n : decoded[i].char \in Letters
  <2>1. \A i \in 1..n : decoded[i] \in Taking
    BY ElementOfSeq
  <2>. QED BY <2>1 DEF Taking, Letters
<1>6. c \in Letters
  BY DEF Letters
<1>. HIDE DEF n, d
<1>7. t \in Seq(Letters) /\ Len(t) = n /\ \A i \in 1..n : t[i] = decoded[i].char
  BY <1>2, <1>5
<1>. HIDE DEF t
<1>8. w \in Seq(Letters) /\ Len(w) = n + 1 /\ w[n + 1] = c /\ \A i \in 1..n : w[i] = t[i]
  BY <1>6, <1>7, AppendProperties
<1>. HIDE DEF w
<1>9. \A i \in 1..(n + 1) : d[i].char = w[i]
  <2>. SUFFICES ASSUME NEW i \in 1..(n + 1) PROVE d[i].char = w[i]
    OBVIOUS
  <2>1. i = n + 1 \/ i \in 1..n
    BY <1>2
  <2>. QED BY <1>2, <1>7, <1>8, <2>1
<1>10. u \in Seq(Letters) /\ Len(u) = n + 1 /\ \A i \in 1..(n + 1) : u[i] = w[i]
  <2>1. \A i \in 1..(n + 1) : w[i] \in Letters
    BY <1>8, ElementOfSeq
  <2>2. n + 1 \in Nat
    BY <1>2
  <2>. QED BY <1>9, <2>1, <2>2
<1>. HIDE DEF u
<1>11. u = w
  BY <1>8, <1>10, SeqEqual
<1>. QED BY <1>2, <1>4, <1>11 DEF d, w

LEMMA ArrivingNow ==
  ASSUME Coming(Kcd) \in Seq(MemBlock)
  PROVE  Arriving = Ones(Coming(Kcd), content)
BY ArrivingIs DEF Arriving

LEMMA ArrivingNext ==
  ASSUME NEW s \in Seq(MemBlock), Coming(Kcd)' = s
  PROVE  Arriving' = Ones(s, content')
BY ArrivingIs DEF Arriving

\* Neither a command of the decoder's own nor a registration is a character.
LEMMA NoSingle ==
  ASSUME NEW t \in Seq(Letters), IsClear(t)
  PROVE  Len(t) # 1
<1>1. CharAt(t, 2) = "c" /\ "c" # NUL
  BY Commands DEF IsClear, ClearFacts, NUL
<1>2. 2 \in DOMAIN t
  BY <1>1 DEF CharAt
<1>. QED BY <1>2, LenProperties

LEMMA OnesStay ==
  ASSUME Coming(Kcd) \in Seq(MemBlock), Coming(Kcd)' = Coming(Kcd), Unwritten(Coming(Kcd))
  PROVE  Arriving' = Arriving
<1>. DEFINE s == Coming(Kcd)
<1>1. s \in Seq(MemBlock) /\ \A i \in DOMAIN s : content'[s[i]] = content[s[i]]
  BY DEF Unwritten
<1>2. Arriving = Ones(s, content)
  BY ArrivingNow
<1>3. Arriving' = Ones(s, content')
  BY <1>1, ArrivingNext
<1>. HIDE DEF s
<1>4. Ones(s, content') = Ones(s, content)
  BY <1>1, OnesSame
<1>. QED BY <1>2, <1>3, <1>4

LEMMA OnesGrow ==
  ASSUME Coming(Kcd) \in Seq(MemBlock), NEW b, KcdGets(b)
  PROVE  Arriving' = Arriving \o (IF Len(content'[b].text) = 1
                                  THEN <<content'[b].text[1]>> ELSE <<>>)
<1>. DEFINE s == Coming(Kcd)
<1>0. s \in Seq(MemBlock)
  OBVIOUS
<1>1. \A i \in DOMAIN s : content'[s[i]] = content[s[i]]
  BY DEF Unwritten, KcdGets
<1>2. Arriving = Ones(s, content)
  BY ArrivingNow
<1>3. b \in MemBlock /\ Coming(Kcd)' = Append(s, b)
  BY DEF KcdGets
<1>. HIDE DEF s
<1>4. Append(s, b) = s \o <<b>> /\ <<b>> \in Seq(MemBlock) /\ Append(s, b) \in Seq(MemBlock)
  BY <1>0, <1>3, AppendIsConcat, AppendProperties
<1>5. Arriving' = Ones(s \o <<b>>, content')
  <2>1. s \o <<b>> \in Seq(MemBlock) /\ Coming(Kcd)' = s \o <<b>>
    BY <1>3, <1>4
  <2>. QED BY <2>1, ArrivingNext
<1>6. Ones(s \o <<b>>, content') = Ones(s, content') \o Ones(<<b>>, content')
  <2>1. <<b>> \in Seq(MemBlock)
    BY <1>4
  <2>. QED BY ONLY <1>0, <2>1, OnesConcat
<1>7. Ones(s, content') = Ones(s, content)
  BY <1>0, <1>1, OnesSame
<1>8. Ones(<<b>>, content') = IF Len(content'[b].text) = 1 THEN <<content'[b].text[1]>> ELSE <<>>
  BY <1>3, OnesOne
<1>. QED BY <1>2, <1>5, <1>6, <1>7, <1>8

LEMMA OnesEnd ==
  ASSUME KcdEnds
  PROVE  /\ Arriving = (IF Len(Text(Kcd)) = 1 THEN <<Text(Kcd)[1]>> ELSE <<>>) \o Arriving'
         /\ Arriving' = Ones(Inbox[Kcd], content)
<1>. DEFINE s == Inbox[Kcd]
            m == msg[Kcd]
<1>0. s \in Seq(MemBlock)
  BY DEF KcdEnds
<1>1. \A i \in DOMAIN s : content'[s[i]] = content[s[i]]
  BY DEF Unwritten, KcdEnds
<1>2. m \in MemBlock /\ Coming(Kcd) = <<m>> \o s /\ Coming(Kcd)' = s
  BY DEF KcdEnds
<1>3. Coming(Kcd) \in Seq(MemBlock)
  BY EndsFirst
<1>. HIDE DEF s
<1>4. Arriving = Ones(<<m>> \o s, content)
  BY <1>2, <1>3, ArrivingNow
<1>5. Arriving' = Ones(s, content')
  BY <1>0, <1>2, ArrivingNext
<1>6. Ones(s, content') = Ones(s, content)
  BY <1>0, <1>1, OnesSame
<1>. HIDE DEF m
<1>7. Ones(<<m>> \o s, content) = Ones(<<m>>, content) \o Ones(s, content)
  <2>1. <<m>> \in Seq(MemBlock)
    BY <1>2
  <2>. QED BY ONLY <1>0, <2>1, OnesConcat
<1>8. Ones(<<m>>, content) = IF Len(content[m].text) = 1 THEN <<content[m].text[1]>> ELSE <<>>
  BY <1>2, OnesOne
<1>. QED BY <1>4, <1>5, <1>6, <1>7, <1>8 DEF s, m, Text

LEMMA StepReached ==
  ASSUME RtxIInv, Pointers, AllTidy, Texts, Written, Asked, User, KcdMail, KcdSteps,
         Texts', Written', decoded \in Seq(Taking)
  PROVE  /\ decoded' \in Seq(Taking)
         /\ \/ Types /\ Reached' = Append(Reached, Head(keys))
            \/ (UNCHANGED userVars \/ TypesInVain) /\ Reached' = Reached
<1>0. Kcd \in Client /\ Tidy(Kcd) /\ Coming(Kcd) \in Seq(MemBlock)
  BY ComingType DEF Client, AllTidy
<1>1. Taken \in Seq(Letters)
  BY TakenType
<1>2. Arriving \in Seq(Letters)
  BY <1>0, ArrivingNow, OnesType DEF Texts
<1>3. ASSUME decoded' = decoded PROVE Taken' = Taken
  BY <1>3 DEF Taken
<1>4. CASE KcdQuiet
  <2>1. decoded' = decoded /\ Arriving' = Arriving
    BY <1>0, <1>4, OnesStay DEF KcdQuiet
  <2>. QED BY <1>3, <1>4, <2>1 DEF KcdQuiet, Reached, userVars
<1>5. CASE Types /\ \E b \in MemBlock : /\ KcdGets(b) /\ content'[b].text = <<Head(keys)>>
                                        /\ content'[b].type # REGISTER_CMD
  <2>1. PICK b \in MemBlock : KcdGets(b) /\ content'[b].text = <<Head(keys)>>
    BY <1>5
  <2>. DEFINE k == Head(keys)
  <2>2. k \in Letters
    <3>1. keys \in Seq(Printed) /\ keys # <<>>
      BY <1>5 DEF User, Types, Typing
    <3>. QED BY <3>1, TailProperties DEF Letters
  <2>. HIDE DEF k
  <2>3. Len(<<k>>) = 1 /\ <<k>>[1] = k /\ content'[b].text = <<k>>
    BY <2>1 DEF k
  <2>4. Arriving' = Arriving \o <<k>>
    BY <1>0, <2>1, <2>3, OnesGrow
  <2>5. decoded' = decoded /\ Taken' = Taken
    BY <1>3, <2>1 DEF KcdGets
  <2>6. <<k>> \in Seq(Letters)
    BY <2>2
  <2>7. (Taken \o Arriving) \o <<k>> = Taken \o (Arriving \o <<k>>)
    BY ONLY <1>1, <1>2, <2>6, ConcatAssociative
  <2>8. Taken \o Arriving \in Seq(Letters)
    BY ONLY <1>1, <1>2, ConcatProperties
  <2>9. Append(Taken \o Arriving, k) = (Taken \o Arriving) \o <<k>>
    BY ONLY <2>2, <2>8, AppendIsConcat
  <2>. QED BY <1>5, <2>4, <2>5, <2>7, <2>9 DEF Reached, k
<1>6. CASE UNCHANGED userVars /\ \E b : KcdGets(b) /\ (\/ content'[b].type = REGISTER_CMD
                                                      \/ IsClear(content'[b].text))
  <2>1. PICK b : KcdGets(b) /\ (\/ content'[b].type = REGISTER_CMD
                                \/ IsClear(content'[b].text))
    BY <1>6
  <2>2. b \in MemBlock
    BY <2>1 DEF KcdGets
  <2>3. Len(content'[b].text) # 1
    <3>1. CASE content'[b].type = REGISTER_CMD
      <4>1. content'[b].text = Switch
        BY <2>2, <3>1 DEF Written, IsRegistration
      <4>. QED BY <4>1, Commands DEF SwitchFacts
    <3>2. CASE IsClear(content'[b].text)
      <4>1. content'[b].text \in Seq(Letters)
        BY <2>2 DEF Texts, Content
      <4>. QED BY <3>2, <4>1, NoSingle
    <3>. QED BY <2>1, <3>1, <3>2
  <2>4. Arriving' = Arriving \o <<>>
    BY <1>0, <2>1, <2>3, OnesGrow
  <2>5. Arriving' = Arriving
    BY <1>2, <2>4, ConcatEmptySeq
  <2>6. decoded' = decoded /\ Taken' = Taken
    BY <1>3, <2>1 DEF KcdGets
  <2>. QED BY <1>6, <2>5, <2>6 DEF Reached
<1>7. ASSUME KcdEnds PROVE Arriving' \in Seq(Letters)
  BY <1>7, OnesEnd, OnesType DEF KcdEnds, Texts
<1>8. CASE KcdEnds /\ KcdEchoes
  <2>1. PICK c \in Printed : Text(Kcd) = <<c>> /\ CharAt(Text(Kcd), 1) = c
    BY <1>8, EchoesOne
  <2>2. Len(<<c>>) = 1 /\ <<c>>[1] = c
    OBVIOUS
  <2>3. Arriving = <<c>> \o Arriving'
    BY <1>8, <2>1, <2>2, OnesEnd
  <2>4. Len(cmds) \in Nat
    <3>1. cmds \in {<<>>, First, Both}
      BY DEF Asked
    <3>. QED BY <3>1 DEF First, Both
  <2>5. decoded' = Append(decoded, [char |-> c, known |-> Len(cmds)]) /\ UNCHANGED userVars
    BY <1>8, <2>1 DEF KcdEchoes
  <2>6. decoded' \in Seq(Taking) /\ Taken' = Append(Taken, c)
    BY <2>4, <2>5, TakenGrows
  <2>7. c \in Letters
    BY DEF Letters
  <2>8. <<c>> \in Seq(Letters) /\ Taken' = Taken \o <<c>>
    BY <1>1, <2>6, <2>7, AppendIsConcat
  <2>9. (Taken \o <<c>>) \o Arriving' = Taken \o (<<c>> \o Arriving')
    <3>1. <<c>> \in Seq(Letters)
      BY <2>8
    <3>2. Arriving' \in Seq(Letters)
      BY <1>7, <1>8
    <3>. QED BY ONLY <1>1, <3>1, <3>2, ConcatAssociative
  <2>. QED BY <2>3, <2>5, <2>6, <2>8, <2>9 DEF Reached
<1>9. CASE KcdEnds /\ (KcdRegisters \/ KcdClears)
  <2>1. msg[Kcd] \in MemBlock /\ decoded' = decoded /\ UNCHANGED userVars
    BY <1>9 DEF KcdEnds, KcdRegisters, KcdClears, historyVars
  <2>2. Len(Text(Kcd)) # 1
    <3>1. CASE KcdRegisters
      <4>1. Text(Kcd) = Switch
        BY <2>1, <3>1 DEF KcdRegisters, Written, IsRegistration, Text
      <4>. QED BY <4>1, Commands DEF SwitchFacts
    <3>2. CASE KcdClears
      <4>1. Text(Kcd) \in Seq(Letters) /\ IsClear(Text(Kcd))
        BY <2>1, <3>2 DEF KcdClears, Texts, Content, Text
      <4>. QED BY <4>1, NoSingle
    <3>. QED BY <1>9, <3>1, <3>2
  <2>3. Arriving = <<>> \o Arriving'
    BY <1>9, <2>2, OnesEnd
  <2>4. Arriving = Arriving'
    BY <1>7, <1>9, <2>3, ConcatEmptySeq
  <2>. QED BY <1>3, <2>1, <2>4 DEF Reached
<1>. QED BY <1>4, <1>5, <1>6, <1>8, <1>9 DEF KcdSteps

\* What has reached the decoder, or will, is what has been typed without what is lost.
Gone == Len(script) - Len(keys)
KeptSoFar ==
    decoded \in Seq(Taking) /\ Reached = KeptOf(script, lost, Gone)

LEMMA GoneFacts ==
  ASSUME User
  PROVE  /\ Len(script) \in Nat /\ Len(keys) \in Nat /\ Gone \in Nat /\ Gone <= Len(script)
         /\ lost \in SUBSET (1..Gone) /\ script \in Seq(Printed)
         /\ keys = SubSeq(script, Gone + 1, Len(script))
<1>. DEFINE n == Len(script)
            k == Len(keys)
            m == Gone
<1>1. /\ n \in Nat /\ script \in Seq(Printed) /\ DOMAIN script = 1..n
      /\ keys \in Seq(Printed) /\ k <= n
  BY ScriptFacts DEF User
<1>2. k \in Nat /\ DOMAIN keys = 1..k
  BY <1>1, LenProperties
<1>3. m = n - k /\ m \in Nat /\ m <= n
  BY <1>1, <1>2 DEF Gone
<1>4. lost \subseteq 1..m /\ \A i \in 1..k : keys[i] = script[n - k + i]
  BY <1>2 DEF User, Gone
<1>5. keys = SubSeq(script, m + 1, n)
  <2>. DEFINE b == SubSeq(script, m + 1, n)
  <2>. HIDE DEF n, m
  <2>1. CASE k # 0
    <3>1. m + 1 \in 1..n /\ n \in (m + 1)..n /\ n - (m + 1) + 1 = k
      BY <1>1, <1>2, <1>3, <2>1
    <3>2. b \in Seq(Printed) /\ Len(b) = n - (m + 1) + 1
          /\ \A i \in 1..(n - (m + 1) + 1) : b[i] = script[(m + 1) + i - 1]
      BY <3>1, <1>1, SubSeqProperties DEF n
    <3>. HIDE DEF b, k
    <3>3. \A i \in 1..k : (m + 1) + i - 1 = n - k + i
      BY <1>3
    <3>4. \A i \in 1..k : b[i] = keys[i]
      BY <1>4, <3>1, <3>2, <3>3
    <3>5. b \in Seq(Printed) /\ Len(b) = k /\ Len(keys) = k
      BY <3>1, <3>2 DEF k
    <3>. QED BY <1>1, <3>4, <3>5, SeqEqual DEF b
  <2>2. CASE k = 0
    <3>1. keys = <<>>
      BY <1>1, <2>2, EmptySeq
    <3>2. m + 1 > n /\ m + 1 \in Int /\ n \in Int
      BY <1>1, <1>3, <2>2
    <3>3. b = <<>>
      BY <3>2, SubSeqEmpty
    <3>. QED BY <3>1, <3>3
  <2>. QED BY <2>1, <2>2
<1>. QED BY <1>1, <1>2, <1>3, <1>4, <1>5

LEMMA StepKept ==
  ASSUME User, User', KeptSoFar, decoded' \in Seq(Taking),
         \/ Types /\ Reached' = Append(Reached, Head(keys))
         \/ (UNCHANGED userVars \/ TypesInVain) /\ Reached' = Reached
  PROVE  KeptSoFar'
<1>. DEFINE m == Gone
<1>1. m \in Nat /\ lost \in SUBSET (1..m) /\ Len(script) \in Nat /\ Len(keys) \in Nat
  BY GoneFacts
<1>2. ASSUME keys # <<>>, keys' = Tail(keys), script' = script
      PROVE  Gone' = m + 1 /\ Head(keys) = script[m + 1]
  <2>1. /\ Len(keys) # 0 /\ Len(keys') = Len(keys) - 1 /\ Head(keys) = keys[1] /\ 1 \in DOMAIN keys
    BY <1>2, TailProperties DEF User
  <2>2. keys[1] = script[Len(script) - Len(keys) + 1]
    BY <2>1 DEF User
  <2>. QED BY <1>1, <1>2, <2>1, <2>2 DEF Gone
<1>3. /\ KeptOf(script, lost, m + 1) = Append(KeptOf(script, lost, m), script[m + 1])
      /\ KeptOf(script, lost \cup {m + 1}, m + 1) = KeptOf(script, lost, m)
  BY <1>1, KeptGrows
<1>4. CASE Types /\ Reached' = Append(Reached, Head(keys))
  <2>1. keys # <<>> /\ keys' = Tail(keys) /\ script' = script /\ lost' = lost
    BY <1>4 DEF Types, Typing
  <2>2. Gone' = m + 1 /\ Head(keys) = script[m + 1]
    BY <1>2, <2>1
  <2>3. Reached' = KeptOf(script, lost, m + 1)
    BY <1>3, <1>4, <2>2 DEF KeptSoFar
  <2>. QED BY <2>1, <2>2, <2>3 DEF KeptSoFar
<1>5. CASE TypesInVain /\ Reached' = Reached
  <2>1. keys # <<>> /\ keys' = Tail(keys) /\ script' = script /\ lost' = lost \cup {m + 1}
    BY <1>5 DEF TypesInVain, Typing, Gone
  <2>2. Gone' = m + 1
    BY <1>2, <2>1
  <2>3. Reached' = KeptOf(script, lost \cup {m + 1}, m + 1)
    BY <1>3, <1>5 DEF KeptSoFar
  <2>. QED BY <2>1, <2>2, <2>3 DEF KeptSoFar
<1>6. CASE UNCHANGED userVars /\ Reached' = Reached
  <2>1. Gone' = Gone /\ script' = script /\ lost' = lost
    BY <1>6 DEF Gone, userVars
  <2>. QED BY <1>6, <2>1 DEF KeptSoFar
<1>. QED BY <1>4, <1>5, <1>6

LEMMA TypedIs ==
  ASSUME User, KeptSoFar, Taken \in Seq(Letters), Arriving \in Seq(Letters)
  PROVE  LostForWantOfBlocksOnly
<1>. DEFINE n == Len(script)
<1>1. /\ n \in Nat /\ Gone \in Nat /\ Gone <= n /\ lost \in SUBSET (1..Gone)
      /\ script \in Seq(Printed) /\ keys = SubSeq(script, Gone + 1, n)
  BY GoneFacts
<1>2. KeptOf(script, lost, n) = KeptOf(script, lost, Gone) \o keys
  BY <1>1, KeptRest
<1>3. Typed = Reached \o keys
  BY DEF Typed, Reached
<1>4. Typed = KeptOf(script, lost, n)
  BY <1>2, <1>3 DEF KeptSoFar
<1>5. DOMAIN script = 1..n
  BY <1>1, LenProperties
<1>6. Ascending(DOMAIN script \ lost, n) = Among(Upto(n), (1..n) \ lost)
  BY <1>5 DEF Ascending, Upto
<1>. QED BY <1>4, <1>6 DEF LostForWantOfBlocksOnly, KeptOf, Values

LostInv == TextInv /\ KeptSoFar

LEMMA InitKept == ConsoleInit => KeptSoFar
<1>. SUFFICES ASSUME ConsoleInit PROVE KeptSoFar
  OBVIOUS
<1>1. TextInv /\ ProgramInit({Prio})
  BY InitTextInv DEF ConsoleInit
<1>2. decoded = <<>> /\ keys = script /\ lost = {} /\ pc[Kcd] = "start"
  BY <1>1, ClientsDiffer, ClientsAreProc DEF ProgramInit, Client
<1>3. RtxIInv /\ Pointers /\ Tidy(Kcd) /\ Kcd \in Client /\ Kcd \in Proc
  BY <1>1, ClientsAreProc DEF TextInv, ConsoleInv, KernelInv, AllTidy, Client
<1>4. Coming(Kcd) = <<>>
  <2>1. Coming(Kcd) \in Seq(MemBlock) /\ DOMAIN Coming(Kcd) = 1..Len(Coming(Kcd)) /\ Len(Coming(Kcd)) \in Nat
    BY <1>3, ComingType, LenProperties
  <2>2. ASSUME NEW i \in DOMAIN Coming(Kcd) PROVE FALSE
    <3>1. InBox(mailbox, Coming(Kcd)[i]) /\ Coming(Kcd)[i] \in MemBlock
      BY <1>2, <1>3, ComingWhere
    <3>2. \A j \in Slot : mailbox[j] = NoBlock
      BY <1>1 DEF ProgramInit, RtxInit
    <3>. QED BY <3>1, <3>2, BlockAssumption DEF InBox
  <2>3. Len(Coming(Kcd)) = 0
    <3>1. Len(Coming(Kcd)) # 0 => 1 \in DOMAIN Coming(Kcd)
      BY <2>1
    <3>. QED BY <2>2, <3>1
  <2>. QED BY <2>1, <2>3, EmptySeq
<1>5. Arriving = <<>>
  <2>1. <<>> \in Seq(MemBlock) /\ Coming(Kcd) \in Seq(MemBlock)
    BY <1>4, EmptySeq
  <2>2. Arriving = Ones(<<>>, content)
    BY <1>4, <2>1, ArrivingNow
  <2>. QED BY <2>2, AmongEmpty, ValuesEmpty DEF Ones
<1>6. Taken = <<>>
  BY <1>2 DEF Taken
<1>7. Reached = <<>>
  BY <1>5, <1>6, ConcatEmptySeq, EmptySeq DEF Reached
<1>8. Gone = 0
  BY <1>1, <1>2, GoneFacts DEF Gone, TextInv
<1>9. Upto(0) = <<>>
  BY UptoFacts, EmptySeq
<1>10. KeptOf(script, lost, 0) = <<>>
  BY <1>9, AmongEmpty, ValuesEmpty DEF KeptOf
<1>. QED BY <1>2, <1>7, <1>8, <1>10, EmptySeq DEF KeptSoFar

LEMMA StepLostInv == LostInv /\ [ConsoleNext]_consoleVars => LostInv'
<1>. SUFFICES ASSUME LostInv, [ConsoleNext]_consoleVars PROVE LostInv'
  OBVIOUS
<1>1. /\ RtxIInv /\ Pointers /\ AllTidy /\ Texts /\ Written /\ Asked
      /\ User /\ KcdMail /\ KeptSoFar
  BY DEF LostInv, TextInv, ConsoleInv, KernelInv
<1>2. TextInv'
  BY StepTextInv DEF LostInv
<1>3. Texts' /\ Written' /\ User'
  BY <1>2 DEF TextInv, ConsoleInv
<1>4. KcdSteps
  BY <1>1, DecoderComing, OthersComing
<1>5. /\ decoded' \in Seq(Taking)
      /\ \/ Types /\ Reached' = Append(Reached, Head(keys))
         \/ (UNCHANGED userVars \/ TypesInVain) /\ Reached' = Reached
  BY <1>1, <1>3, <1>4, StepReached DEF KeptSoFar
<1>6. KeptSoFar'
  BY <1>1, <1>3, <1>5, StepKept
<1>. QED BY <1>2, <1>6 DEF LostInv

\* What is typed reaches the decoder, once and in order, through the blocks that are
\* written, sent, read and used again; a character is missing only if there was no
\* block for it when it was typed.
THEOREM LostForWantOfBlocks == ConsoleSpec => []LostForWantOfBlocksOnly
<1>1. ConsoleInit => LostInv
  BY InitTextInv, InitKept DEF LostInv
<1>2. LostInv => LostForWantOfBlocksOnly
  <2>. SUFFICES ASSUME LostInv PROVE LostForWantOfBlocksOnly
    OBVIOUS
  <2>1. /\ RtxIInv /\ Pointers /\ AllTidy /\ Texts /\ User /\ KeptSoFar
    BY DEF LostInv, TextInv, ConsoleInv, KernelInv
  <2>2. Coming(Kcd) \in Seq(MemBlock)
    BY <2>1, ComingType DEF Client, AllTidy
  <2>3. Arriving \in Seq(Letters)
    BY <2>1, <2>2, ArrivingNow, OnesType DEF Texts
  <2>4. Taken \in Seq(Letters)
    BY <2>1, TakenType DEF KeptSoFar
  <2>. QED BY <2>1, <2>3, <2>4, TypedIs
<1>. QED BY <1>1, <1>2, StepLostInv, PTL DEF ConsoleSpec

-----------------------------------------------------------------------------
(* Of sequences, and of what waits after a step. *)

LEMMA ConcatAppend ==
  ASSUME NEW T, NEW s \in Seq(T), NEW t \in Seq(T), NEW e \in T
  PROVE  s \o Append(t, e) = Append(s \o t, e)
<1>. DEFINE last == <<e>>
<1>1. s \in Seq(T) /\ t \in Seq(T) /\ last \in Seq(T)
  OBVIOUS
<1>2. s \o t \in Seq(T)
  BY ConcatProperties
<1>3. Append(t, e) = t \o last /\ Append(s \o t, e) = (s \o t) \o last
  BY <1>2, AppendIsConcat
<1>. HIDE DEF last
<1>4. (s \o t) \o last = s \o (t \o last)
  BY ONLY <1>1, ConcatAssociative
<1>. QED BY <1>3, <1>4

LEMMA InboxNext ==
  ASSUME RtxIInv', NEW p \in Proc
  PROVE  Inbox'[p] \in Seq(MemBlock)
<1>. DEFINE S == {b \in MemBlock : rx'[b] = p}
<1>1. mailbox' \in Box /\ S \in SUBSET MemBlock
  BY DEF RtxIInv, Accounts, DataTypeOK
<1>2. Inbox'[p] = Among(mailbox', S)
  BY DEF Inbox
<1>3. Among(mailbox', S) \in Seq(MemBlock)
  <2>. HIDE DEF S
  <2>. QED BY <1>1, StreamType
<1>. QED BY <1>2, <1>3
=============================================================================
