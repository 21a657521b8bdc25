--------------------------- MODULE SchedulerProofs ---------------------------
(***************************************************************************)
(* The invariants of module Scheduler, for any process table, any          *)
(* priorities and any calls.                                               *)
(***************************************************************************)
EXTENDS Scheduler, KernelProofs

-----------------------------------------------------------------------------
(* The inductive invariant. *)

Dead == Proc \ Alive

\* While initialize_processes runs, nothing else does.
Booting ==
    ~Booted => /\ kernel.running = NoProc /\ isr = Idle
               /\ terminated = {} /\ InMain

\* The null process is never blocked and never returns.
NullLives == NullProc \notin terminated /\ QueueOf(kernel.state[NullProc]) = "ready"

\* PriorityRespected, and what is left of it inside the timer interrupt: a
\* ready process that outranks the running one has a priority at or below
\* highest_priority.
LimitRespected ==
    kernel.running \in Proc =>
        \A l \in Level : l < isr /\ l < kernel.priority[kernel.running]
            => kernel.queue["ready"][l] = <<>>

IInv == /\ TypeOK /\ Placement /\ Booting /\ NullLives
        /\ LimitRespected /\ MainNotResumed

-----------------------------------------------------------------------------
(* From the invariant to the lemmas of KernelProofs, and back. *)

LEMMA PibsFacts == Len(Pibs) \in Nat /\ DOMAIN Pibs = 1..Len(Pibs)
                   /\ \A i \in 1..Len(Pibs) : Pibs[i] \in Proc
BY PibsAssumption, LenProperties, ElementOfSeq

LEMMA BootedIsSettled ==
  ASSUME IInv, Booted
  PROVE  Settled(kernel, Dead)
<1>1. Filed(kernel, Dead \cup {kernel.running}) /\ kernel \in KernelType
  BY DEF IInv, Placement, TypeOK, Dead
<1>2. NullProc \in Alive
  <2>1. PICK i \in 1..Len(Pibs) : Pibs[i] = NullProc
    BY PibsAssumption, ProcAssumption, PibsFacts DEF Contains
  <2>. QED BY <2>1 DEF IInv, NullLives, Alive, Booted
<1>. QED BY <1>1, <1>2 DEF IInv, Placement, NullLives, Dead, Settled

\* What a step has to establish once the system has booted.
LEMMA SettledStep ==
  ASSUME IInv, Booted, created' = created,
         terminated' \subseteq Proc, NullProc \notin terminated',
         Settled(kernel', Proc \ Alive'), isr' \in Level \cup {Idle},
         LimitRespected', MainNotResumed'
  PROVE  IInv'
<1>1. TypeOK'
  BY DEF IInv, TypeOK, Settled
<1>2. Placement'
  BY DEF Placement, Settled
<1>3. Booting' /\ NullLives'
  BY DEF Booting, Booted, NullLives, Settled
<1>. QED BY <1>1, <1>2, <1>3 DEF IInv

\* The frequent case: the best process runs when the step is over.
LEMMA TopRunsStep ==
  ASSUME IInv, Booted, created' = created, terminated' = terminated,
         isr' \in Level \cup {Idle},
         Settled(kernel', Dead), TopRuns(kernel')
  PROVE  IInv'
<1>1. terminated' \subseteq Proc /\ NullProc \notin terminated' /\ Alive' = Alive
  BY DEF IInv, TypeOK, NullLives, Alive
<1>2. LimitRespected'
  BY DEF LimitRespected, TopRuns, NoneReadyAbove
<1>3. MainNotResumed'
  BY ProcAssumption DEF MainNotResumed, TopRuns
<1>. QED BY <1>1, <1>2, <1>3, SettledStep DEF Dead

\* Outside the timer interrupt LimitRespected is PriorityRespected.
LEMMA IdleTopRuns ==
  ASSUME IInv, isr = Idle, kernel.running \in Proc
  PROVE  TopRuns(kernel)
<1>1. kernel.priority[kernel.running] \in Level
  BY KernelFields DEF IInv, TypeOK
<1>. QED BY <1>1 DEF IInv, LimitRespected, TopRuns, NoneReadyAbove, Idle, Level

\* Only main runs before the first dispatch, and then nobody is blocked.
LEMMA CallingIsBooted ==
  ASSUME IInv, kernel.running \in Proc \/ isr # Idle
  PROVE  Booted
BY ProcAssumption DEF IInv, Booting

-----------------------------------------------------------------------------
(* Booting. *)

LEMMA InitIInv == Init => IInv
<1>. SUFFICES ASSUME Init PROVE IInv
  OBVIOUS
<1>1. /\ kernel.running = NoProc /\ kernel.state = [p \in Proc |-> "new"]
      /\ kernel.priority = InitPriority
      /\ kernel.queue = [kind \in Kind |-> [l \in Level |-> <<>>]]
      /\ kernel = [running |-> kernel.running, state |-> kernel.state,
                   priority |-> kernel.priority, queue |-> kernel.queue]
      /\ created = 0 /\ terminated = {} /\ isr = Idle
  BY DEF Init
<1>2. TypeOK
  <2>1. kernel.priority \in [Proc -> Level] /\ kernel.state \in [Proc -> ProcState]
    BY <1>1, PriorityAssumption DEF Level, ProcState
  <2>2. kernel.queue \in [Kind -> [Level -> Seq(Proc)]]
    BY <1>1, EmptySeq
  <2>3. kernel \in KernelType
    BY <1>1, <2>1, <2>2 DEF KernelType
  <2>. QED BY <1>1, <2>3, PibsFacts DEF TypeOK
<1>3. Alive = {}
  BY <1>1 DEF Alive
<1>4. Placement
  <2>1. ASSUME NEW kind \in Kind, NEW l \in Level
        PROVE  /\ IsInjective(kernel.queue[kind][l])
               /\ \A p \in Proc : ~Contains(kernel.queue[kind][l], p)
    <3>1. kernel.queue[kind][l] = <<>>
      BY <1>1
    <3>. QED BY <3>1, EmptySeq DEF IsInjective, Contains
  <2>2. Filed(kernel, (Proc \ Alive) \cup {kernel.running})
    BY <1>3, <2>1 DEF Filed, InQueue
  <2>. QED BY <1>1, <2>2, ProcAssumption DEF Placement
<1>5. InMain
  BY <1>1 DEF InMain
<1>6. NullLives
  BY <1>1, ProcAssumption DEF NullLives, QueueOf
<1>. QED
  BY <1>1, <1>2, <1>4, <1>5, <1>6, ProcAssumption
     DEF IInv, Booting, LimitRespected, MainNotResumed

LEMMA CreateProcessIInv ==
  ASSUME IInv, CreateProcess
  PROVE  IInv'
<1>. DEFINE p == Pibs[created + 1]
            out == (Proc \ Alive) \cup {kernel.running}
            e == EnqueueProcess(kernel, "ready", p)
<1>1. /\ ~Booted /\ kernel.running = NoProc /\ isr = Idle /\ terminated = {} /\ InMain
      /\ kernel' = e /\ created' = created + 1 /\ terminated' = {} /\ isr' = Idle
  BY DEF IInv, Booting, CreateProcess
<1>2. created \in 0..(Len(Pibs) - 1) /\ created + 1 \in 1..Len(Pibs) /\ p \in Proc
  <2>1. created \in 0..Len(Pibs) /\ created # Len(Pibs) /\ Len(Pibs) \in Nat
    BY <1>1, PibsFacts DEF IInv, TypeOK, Booted
  <2>2. created \in 0..(Len(Pibs) - 1) /\ created + 1 \in 1..Len(Pibs)
    BY <2>1
  <2>. QED BY <2>2, PibsFacts
<1>3. Alive' = Alive \cup {p} /\ p \notin Alive
  <2>1. Alive = {Pibs[i] : i \in 1..created} /\ Alive' = {Pibs[i] : i \in 1..(created + 1)}
    BY <1>1 DEF Alive
  <2>2. 1..(created + 1) = (1..created) \cup {created + 1}
    BY <1>2
  <2>3. \A i \in 1..created : Pibs[i] # p
    BY <1>2, PibsAssumption, PibsFacts
  <2>. QED BY <2>1, <2>2, <2>3
<1>4. /\ kernel \in KernelType /\ p \in Proc /\ p \in out /\ Filed(kernel, out)
      /\ "ready" \in Kind /\ QueueOf(kernel.state[p]) = "ready"
  BY <1>1, <1>2, <1>3 DEF IInv, TypeOK, Placement, Kind, InMain, QueueOf
<1>5. out \ {p} = (Proc \ Alive') \cup {NoProc}
  BY <1>1, <1>2, <1>3, ProcAssumption
<1>. HIDE DEF out, p
<1>6. /\ e \in KernelType /\ Filed(e, out \ {p})
      /\ e.running = kernel.running /\ e.state = kernel.state
  <2>1. IsFiled(kernel, "ready", p, out, e)
    BY <1>4, EnqueueFiles
  <2>. QED BY <2>1 DEF IsFiled
<1>. HIDE DEF e
<1>7. TypeOK'
  BY <1>1, <1>2, <1>6, PibsFacts DEF TypeOK
<1>8. Placement'
  BY <1>1, <1>5, <1>6, ProcAssumption DEF Placement
<1>9. InMain' /\ NullLives'
  BY <1>1, <1>6 DEF IInv, InMain, NullLives
<1>. QED
  BY <1>1, <1>6, <1>7, <1>8, <1>9, ProcAssumption
     DEF IInv, Booting, LimitRespected, MainNotResumed

LEMMA EnterMainIInv ==
  ASSUME IInv, EnterMain
  PROVE  IInv'
<1>1. /\ Booted /\ InMain /\ isr = Idle /\ kernel.running = NoProc
      /\ kernel' = [kernel EXCEPT !.running = Main]
      /\ created' = created /\ terminated' = terminated /\ isr' = isr
  BY DEF EnterMain
<1>2. Settled(kernel, Dead) /\ kernel \in KernelType
  BY <1>1, BootedIsSettled DEF Settled
<1>3. /\ kernel' \in KernelType /\ kernel'.running = Main
      /\ kernel'.state = kernel.state /\ kernel'.queue = kernel.queue
      /\ kernel'.priority = kernel.priority
  BY <1>1, <1>2, KernelUpdate
<1>4. Filed(kernel', Dead)
  <2>1. Filed(kernel, Dead)
    BY <1>1, <1>2, FiledIgnoresOthers, ProcAssumption DEF Settled
  <2>. QED BY <1>3, <2>1 DEF Filed, InQueue
<1>5. Settled(kernel', Dead)
  BY <1>2, <1>3, <1>4, FiledIgnoresOthers, ProcAssumption DEF Settled
<1>6. Alive' = Alive /\ MainNotResumed' /\ LimitRespected'
  BY <1>1, <1>3, ProcAssumption DEF Alive, MainNotResumed, InMain, LimitRespected
<1>7. terminated' \subseteq Proc /\ NullProc \notin terminated' /\ isr' \in Level \cup {Idle}
  BY <1>1 DEF IInv, TypeOK, NullLives
<1>. QED BY <1>1, <1>5, <1>6, <1>7, SettledStep DEF Dead

-----------------------------------------------------------------------------
(* Calls of the running process. *)

LEMMA ReleaseProcessorIInv ==
  ASSUME IInv, ReleaseProcessor
  PROVE  IInv'
<1>1. /\ Booted /\ kernel' = ProcSwitch(kernel) /\ isr' = Idle
      /\ created' = created /\ terminated' = terminated
  BY DEF ReleaseProcessor
<1>2. Settled(kernel', Dead) /\ TopRuns(kernel')
  BY <1>1, BootedIsSettled, SettledSwitch
<1>. QED BY <1>1, <1>2, TopRunsStep

LEMMA BlockIInv ==
  ASSUME IInv, NEW type \in BlockType, Block(type)
  PROVE  IInv'
<1>1. /\ kernel.running \in Proc \ {NullProc} /\ isr' = Idle
      /\ kernel' = BlockProcess(kernel, kernel.running, type)
      /\ created' = created /\ terminated' = terminated
  BY DEF Block, Calling
<1>2. Booted
  BY <1>1, CallingIsBooted
<1>3. Settled(kernel', Dead) /\ TopRuns(kernel')
  BY <1>1, <1>2, BootedIsSettled, BlockSettles
<1>. QED BY <1>1, <1>2, <1>3, TopRunsStep

LEMMA SetPriorityIInv ==
  ASSUME IInv, NEW p \in Proc, NEW n, SetPriority(p, n)
  PROVE  IInv'
<1>1. /\ kernel.running \in Proc \ {NullProc} /\ isr = Idle /\ isr' = Idle
      /\ kernel' = SetProcessPriority(kernel, p, n)
      /\ created' = created /\ terminated' = terminated
  BY DEF SetPriority, Calling
<1>2. Booted /\ Settled(kernel, Dead) /\ TopRuns(kernel)
  BY <1>1, CallingIsBooted, BootedIsSettled, IdleTopRuns
<1>3. Settled(kernel', Dead) /\ TopRuns(kernel')
  <2>1. CASE MaySetPriority(kernel, p, n)
    <3>1. n \in Int
      BY <2>1 DEF MaySetPriority
    <3>. QED BY <1>1, <1>2, <3>1, SetPrioritySettles
  <2>2. CASE ~MaySetPriority(kernel, p, n)
    <3>1. kernel' = kernel
      BY <1>1, <2>2 DEF SetProcessPriority
    <3>. QED BY <1>2, <3>1
  <2>. QED BY <2>1, <2>2
<1>. QED BY <1>1, <1>2, <1>3, TopRunsStep

LEMMA TerminateProcessIInv ==
  ASSUME IInv, TerminateProcess
  PROVE  IInv'
<1>1. /\ kernel.running \in Proc \ {NullProc} /\ isr' = Idle
      /\ kernel' = Terminate(kernel)
      /\ created' = created /\ terminated' = terminated \cup {kernel.running}
  BY DEF TerminateProcess, Calling
<1>2. Booted
  BY <1>1, CallingIsBooted
<1>3. Settled(kernel', Dead \cup {kernel.running}) /\ kernel'.running = NoProc
  BY <1>1, <1>2, BootedIsSettled, TerminateSettles
<1>4. Proc \ Alive' = Dead \cup {kernel.running}
  BY <1>1 DEF Alive, Dead
<1>5. terminated' \subseteq Proc /\ NullProc \notin terminated'
  BY <1>1 DEF IInv, TypeOK, NullLives
<1>6. LimitRespected' /\ MainNotResumed'
  BY <1>3, ProcAssumption DEF LimitRespected, MainNotResumed
<1>. QED BY <1>1, <1>2, <1>3, <1>4, <1>5, <1>6, SettledStep

-----------------------------------------------------------------------------
(* Unblocking, by a process or by an interrupt. *)

LEMMA UnblockByPidIInv ==
  ASSUME IInv, NEW p \in Proc, UnblockByPid(p)
  PROVE  IInv'
<1>. DEFINE m == kernel.priority[kernel.running]
<1>1. /\ Booted /\ isr = Idle /\ isr' = Idle
      /\ created' = created /\ terminated' = terminated
  BY DEF UnblockByPid
<1>2. PICK release \in Outranks(kernel, kernel.priority[p]) :
         kernel' = UnblockProcessByPid(kernel, p, release)
  BY DEF UnblockByPid
<1>3. /\ Settled(kernel, Dead) /\ kernel \in KernelType /\ kernel.priority[p] \in Level
      /\ kernel.running \in Proc => m \in Int
  BY <1>1, BootedIsSettled, KernelFields DEF IInv, TypeOK, Level
<1>4. /\ release \in BOOLEAN
      /\ ~release /\ kernel.running # NoProc =>
            kernel.running \in Proc /\ m <= kernel.priority[p]
  BY <1>3, OutranksProperties
<1>5. /\ Settled(kernel', Dead) /\ kernel'.priority = kernel.priority
      /\ kernel' = kernel \/ (release /\ TopRuns(kernel'))
          \/ /\ ~release /\ kernel'.running = kernel.running
             /\ \A n \in Int : NoneReadyAbove(kernel, n) /\ n <= kernel.priority[p]
                                  => NoneReadyAbove(kernel', n)
  BY <1>2, <1>3, <1>4, UnblockByPidSettles
<1>6. CASE kernel' = kernel
  <2>1. Alive' = Alive /\ LimitRespected' /\ MainNotResumed'
    BY <1>1, <1>6 DEF Alive, IInv, LimitRespected, MainNotResumed, InMain
  <2>. QED BY <1>1, <1>5, <2>1, SettledStep DEF Dead, IInv, TypeOK, NullLives
<1>7. CASE release /\ TopRuns(kernel')
  BY <1>1, <1>5, <1>7, TopRunsStep
<1>8. CASE /\ ~release /\ kernel'.running = kernel.running
           /\ \A n \in Int : NoneReadyAbove(kernel, n) /\ n <= kernel.priority[p]
                                => NoneReadyAbove(kernel', n)
  <2>1. CASE kernel.running = NoProc
    <3>1. Alive' = Alive /\ LimitRespected' /\ MainNotResumed'
      BY <1>1, <1>8, <2>1, ProcAssumption DEF Alive, LimitRespected, MainNotResumed
    <3>. QED BY <1>1, <1>5, <3>1, SettledStep DEF Dead, IInv, TypeOK, NullLives
  <2>2. CASE kernel.running # NoProc
    <3>1. kernel.running \in Proc /\ m <= kernel.priority[p]
      BY <1>4, <1>8, <2>2
    <3>2. NoneReadyAbove(kernel, m)
      BY <1>1, <3>1, IdleTopRuns DEF TopRuns
    <3>3. TopRuns(kernel')
      BY <1>3, <1>5, <1>8, <3>1, <3>2 DEF TopRuns
    <3>. QED BY <1>1, <1>5, <3>3, TopRunsStep
  <2>. QED BY <2>1, <2>2
<1>. QED BY <1>5, <1>6, <1>7, <1>8

LEMMA UnblockByTypeIInv ==
  ASSUME IInv, NEW type \in BlockType, UnblockByType(type)
  PROVE  IInv'
<1>. DEFINE p == FirstBlocked(kernel, type)
            m == kernel.priority[kernel.running]
<1>1. /\ kernel.running \in Proc /\ kernel.running # NoProc /\ isr = Idle /\ isr' = Idle
      /\ created' = created /\ terminated' = terminated /\ ~IsEmpty(kernel, type)
  BY ProcAssumption DEF UnblockByType, Calling
<1>2. PICK release \in Outranks(kernel, kernel.priority[p]) :
         kernel' = UnblockProcessByType(kernel, type, release)
  BY DEF UnblockByType
<1>3. Booted
  BY <1>1, CallingIsBooted
<1>4. Settled(kernel, Dead) /\ kernel \in KernelType
  BY <1>3, BootedIsSettled DEF Settled
<1>5. p \in Proc
  BY <1>1, <1>4, UnblockByTypeSettles
<1>. HIDE DEF p
<1>6. kernel.priority[p] \in Level /\ m \in Int
  BY <1>1, <1>4, <1>5, KernelFields DEF Level
<1>7. release \in BOOLEAN /\ (~release => m <= kernel.priority[p])
  BY <1>1, <1>4, <1>6, OutranksProperties
<1>8. /\ Settled(kernel', Dead) /\ kernel'.priority = kernel.priority
      /\ (release /\ TopRuns(kernel'))
          \/ /\ ~release /\ kernel'.running = kernel.running
             /\ \A n \in Int : NoneReadyAbove(kernel, n) /\ n <= kernel.priority[p]
                                  => NoneReadyAbove(kernel', n)
  BY <1>1, <1>2, <1>4, <1>7, UnblockByTypeSettles DEF p
<1>9. NoneReadyAbove(kernel, m)
  BY <1>1, IdleTopRuns DEF TopRuns
<1>10. TopRuns(kernel')
  BY <1>1, <1>6, <1>7, <1>8, <1>9 DEF TopRuns
<1>. QED BY <1>1, <1>3, <1>8, <1>10, TopRunsStep

-----------------------------------------------------------------------------
(* The timer interrupt. *)

LEMMA TimerEnterIInv ==
  ASSUME IInv, TimerEnter
  PROVE  IInv'
<1>1. /\ Booted /\ isr = Idle /\ isr' = 4 /\ kernel' = kernel
      /\ created' = created /\ terminated' = terminated
  BY DEF TimerEnter
<1>2. Alive' = Alive /\ MainNotResumed'
  BY <1>1 DEF Alive, IInv, MainNotResumed, InMain
<1>3. LimitRespected'
  BY <1>1 DEF IInv, LimitRespected, Level, Idle
<1>4. /\ Settled(kernel', Dead) /\ isr' \in Level \cup {Idle}
      /\ terminated' \subseteq Proc /\ NullProc \notin terminated'
  BY <1>1, BootedIsSettled DEF IInv, TypeOK, NullLives, Level
<1>. QED BY <1>1, <1>2, <1>3, <1>4, SettledStep DEF Dead

LEMMA TimerUnblockIInv ==
  ASSUME IInv, NEW p \in Proc, TimerUnblock(p)
  PROVE  IInv'
<1>. DEFINE n == kernel.priority[p]
<1>1. /\ isr # Idle /\ IsProcessBlocked(kernel, p)
      /\ kernel' = UnblockProcessByPid(kernel, p, FALSE)
      /\ isr' = IF n < isr THEN n ELSE isr
      /\ created' = created /\ terminated' = terminated
  BY DEF TimerUnblock
<1>2. Booted
  BY <1>1, CallingIsBooted
<1>3. /\ Settled(kernel, Dead) /\ kernel \in KernelType /\ n \in Level /\ isr \in Level
  BY <1>1, <1>2, BootedIsSettled, KernelFields DEF IInv, TypeOK
<1>4. /\ Settled(kernel', Dead) /\ kernel'.priority = kernel.priority
      /\ kernel' = kernel \/
          (/\ kernel'.running = kernel.running
           /\ \A m \in Int : NoneReadyAbove(kernel, m) /\ m <= n
                                => NoneReadyAbove(kernel', m))
  BY <1>1, <1>3, UnblockByPidSettles
<1>. HIDE DEF n
<1>5. Alive' = Alive
  BY <1>1 DEF Alive
<1>6. ~InMain
  BY <1>1 DEF InMain, IsProcessBlocked
<1>7. kernel.running # Main
  BY <1>6 DEF IInv, MainNotResumed
<1>8. MainNotResumed'
  BY <1>4, <1>7 DEF MainNotResumed
<1>9. isr' \in Level /\ isr' <= isr /\ isr' <= n
  BY <1>1, <1>3 DEF Level
<1>10. LimitRespected'
  <2>1. SUFFICES ASSUME kernel'.running \in Proc, NEW l \in Level, l < isr',
                        l < kernel'.priority[kernel'.running]
                 PROVE  kernel'.queue["ready"][l] = <<>>
    BY DEF LimitRespected
  <2>2. kernel'.running = kernel.running
    BY <1>4
  <2>3. NoneReadyAbove(kernel, l + 1)
    <3>1. SUFFICES ASSUME NEW m \in Level, m < l + 1
                   PROVE  kernel.queue["ready"][m] = <<>>
      BY DEF NoneReadyAbove
    <3>2. m < isr /\ m < kernel.priority[kernel.running]
      <4>1. kernel.priority[kernel.running] \in Level
        BY <1>3, <2>1, <2>2, KernelFields
      <4>. QED BY <1>3, <1>4, <1>9, <2>1, <2>2, <3>1, <4>1 DEF Level
    <3>. QED BY <2>1, <2>2, <3>2 DEF IInv, LimitRespected
  <2>4. l + 1 \in Int /\ l + 1 <= n
    BY <1>3, <1>9, <2>1 DEF Level
  <2>5. NoneReadyAbove(kernel', l + 1)
    BY <1>4, <2>3, <2>4
  <2>6. l < l + 1
    BY DEF Level
  <2>. QED BY <2>5, <2>6 DEF NoneReadyAbove
<1>11. terminated' \subseteq Proc /\ NullProc \notin terminated'
  BY <1>1 DEF IInv, TypeOK, NullLives
<1>. QED BY <1>1, <1>2, <1>4, <1>5, <1>8, <1>9, <1>10, <1>11, SettledStep DEF Dead

LEMMA TimerExitIInv ==
  ASSUME IInv, TimerExit
  PROVE  IInv'
<1>1. /\ isr # Idle /\ isr' = Idle
      /\ kernel' = IF isr < CurrentPriority(kernel) THEN ProcSwitch(kernel) ELSE kernel
      /\ created' = created /\ terminated' = terminated
  BY DEF TimerExit
<1>2. Booted
  BY <1>1, CallingIsBooted
<1>3. Settled(kernel, Dead) /\ kernel \in KernelType /\ isr \in Level
  BY <1>1, <1>2, BootedIsSettled DEF Settled, IInv, TypeOK
<1>4. CASE isr < CurrentPriority(kernel)
  BY <1>1, <1>2, <1>3, <1>4, SettledSwitch, TopRunsStep
<1>5. CASE ~(isr < CurrentPriority(kernel))
  <2>1. kernel' = kernel
    BY <1>1, <1>5
  <2>2. kernel.running \in Proc
    BY <1>3, <1>5 DEF CurrentPriority, Unsigned_1, Level
  <2>3. kernel.priority[kernel.running] \in Level
        /\ kernel.priority[kernel.running] <= isr
    BY <1>3, <1>5, <2>2, KernelFields DEF CurrentPriority, Level
  <2>4. TopRuns(kernel)
    BY <1>3, <2>2, <2>3 DEF IInv, LimitRespected, TopRuns, NoneReadyAbove, Level
  <2>. QED BY <1>1, <1>2, <1>3, <2>1, <2>4, TopRunsStep
<1>. QED BY <1>4, <1>5

-----------------------------------------------------------------------------
(* The theorems. *)

\* Next with any priority asked for, of whatever type.
AnyNext == Next \/ \E p \in Proc : \E n : SetPriority(p, n)

LEMMA NextIInv == IInv /\ [AnyNext]_vars => IInv'
<1>. SUFFICES ASSUME IInv, [AnyNext]_vars PROVE IInv'
  OBVIOUS
<1>1. CASE CreateProcess
  BY <1>1, CreateProcessIInv
<1>2. CASE EnterMain
  BY <1>2, EnterMainIInv
<1>3. CASE ReleaseProcessor
  BY <1>3, ReleaseProcessorIInv
<1>4. CASE TerminateProcess
  BY <1>4, TerminateProcessIInv
<1>5. CASE \E type \in BlockType : Block(type) \/ UnblockByType(type)
  BY <1>5, BlockIInv, UnblockByTypeIInv
<1>6. CASE \E p \in Proc : UnblockByPid(p)
  BY <1>6, UnblockByPidIInv
<1>7. CASE \E p \in Proc : \E n : SetPriority(p, n)
  BY <1>7, SetPriorityIInv
<1>8. CASE TimerEnter
  BY <1>8, TimerEnterIInv
<1>9. CASE TimerExit
  BY <1>9, TimerExitIInv
<1>10. CASE \E p \in Proc : TimerUnblock(p)
  BY <1>10, TimerUnblockIInv
<1>11. CASE UNCHANGED vars
  BY <1>11 DEF vars, IInv, TypeOK, Placement, Booting, NullLives, LimitRespected,
               MainNotResumed, Booted, InMain, Alive
<1>. QED
  BY <1>1, <1>2, <1>3, <1>4, <1>5, <1>6, <1>7, <1>8, <1>9, <1>10, <1>11 DEF AnyNext, Next

THEOREM InductiveInvariant == Spec => []IInv
<1>1. IInv /\ [Next]_vars => IInv'
  BY NextIInv DEF AnyNext
<1>. QED BY <1>1, InitIInv, PTL DEF Spec

\* No call, with any pid and any priority, in any order, indexes the arrays of
\* queues out of bounds or gives a process a state the code does not know.
THEOREM TypeCorrect == Spec => []TypeOK
<1>1. IInv => TypeOK
  BY DEF IInv
<1>. QED BY <1>1, InductiveInvariant, PTL

\* Every live process that is not running is in the one queue where its state
\* and priority say it is, whatever the process table holds and whatever the
\* processes and the interrupt handlers call.
THEOREM PlacementHolds == Spec => []Placement
<1>1. IInv => Placement
  BY DEF IInv
<1>. QED BY <1>1, InductiveInvariant, PTL

\* No kernel function, and no timer interrupt, leaves a ready process waiting
\* for one of lower priority.
THEOREM PriorityIsRespected == Spec => []PriorityRespected
<1>1. IInv => PriorityRespected
  BY IdleTopRuns DEF PriorityRespected, TopRuns
<1>. QED BY <1>1, InductiveInvariant, PTL

\* Once a process has been dispatched, the ready queue is never found empty.
THEOREM MainIsNotResumed == Spec => []MainNotResumed
<1>1. IInv => MainNotResumed
  BY DEF IInv
<1>. QED BY <1>1, InductiveInvariant, PTL

-----------------------------------------------------------------------------
(* The order within a queue. *)

\* Whoever is in list "new" ahead of somebody who was in "old" was ahead there.
Kept(old, new) ==
    \A m, n \in DOMAIN new : m < n /\ Contains(old, new[n]) =>
        \E i, j \in DOMAIN old : i < j /\ old[i] = new[m] /\ old[j] = new[n]

LEMMA KeptRefl ==
  ASSUME NEW q
  PROVE  Kept(q, q)
BY DEF Kept

LEMMA KeptTail ==
  ASSUME NEW S, NEW old \in Seq(S), NEW q \in Seq(S), q # <<>>, Kept(old, q)
  PROVE  Kept(old, Tail(q))
<1>. DEFINE r == Tail(q)
            c == Len(q)
<1>1. /\ c \in Nat /\ c > 0 /\ DOMAIN q = 1..c /\ DOMAIN r = 1..(c - 1)
      /\ \A m \in 1..(c - 1) : r[m] = q[m + 1]
  BY LenProperties, EmptySeq, HeadTailProperties
<1>. HIDE DEF r, c
<1>2. SUFFICES ASSUME NEW m \in DOMAIN r, NEW n \in DOMAIN r, m < n, Contains(old, r[n])
               PROVE  \E i, j \in DOMAIN old : i < j /\ old[i] = r[m] /\ old[j] = r[n]
  BY DEF Kept, r
<1>3. /\ m + 1 \in DOMAIN q /\ n + 1 \in DOMAIN q /\ m + 1 < n + 1
      /\ r[m] = q[m + 1] /\ r[n] = q[n + 1]
  BY <1>1, <1>2
<1>. QED BY <1>2, <1>3 DEF Kept

LEMMA KeptAppend ==
  ASSUME NEW S, NEW old \in Seq(S), NEW q \in Seq(S), Kept(old, q),
         NEW p \in S, ~Contains(old, p)
  PROVE  Kept(old, Append(q, p))
<1>. DEFINE r == Append(q, p)
            c == Len(q)
<1>1. /\ c \in Nat /\ DOMAIN q = 1..c /\ DOMAIN r = 1..(c + 1)
      /\ \A m \in 1..c : r[m] = q[m]
      /\ r[c + 1] = p
  BY LenProperties, AppendProperties
<1>. HIDE DEF r, c
<1>2. SUFFICES ASSUME NEW m \in DOMAIN r, NEW n \in DOMAIN r, m < n, Contains(old, r[n])
               PROVE  \E i, j \in DOMAIN old : i < j /\ old[i] = r[m] /\ old[j] = r[n]
  BY DEF Kept, r
<1>3. n # c + 1
  BY <1>1, <1>2
<1>4. m \in DOMAIN q /\ n \in DOMAIN q /\ r[m] = q[m] /\ r[n] = q[n]
  BY <1>1, <1>2, <1>3
<1>. QED BY <1>2, <1>4 DEF Kept

LEMMA KeptWithout ==
  ASSUME NEW S, NEW old \in Seq(S), NEW q \in Seq(S), Kept(old, q), NEW p
  PROVE  Kept(old, Without(q, p)) /\ Without(q, p) \in Seq(S)
<1>1. CASE ~Contains(q, p)
  BY <1>1 DEF Without
<1>2. CASE Contains(q, p)
  <2>. DEFINE at == CHOOSE i \in DOMAIN q : q[i] = p
              r == RemoveAt(q, at)
              c == Len(q)
  <2>1. at \in DOMAIN q
    BY <1>2 DEF Contains
  <2>2. Without(q, p) = r
    BY <1>2 DEF Without
  <2>. HIDE DEF at
  <2>3. /\ r \in Seq(S) /\ Len(r) = c - 1
        /\ \A m \in 1..(c - 1) : r[m] = IF m < at THEN q[m] ELSE q[m + 1]
    BY <2>1, RemoveAtProperties
  <2>4. c \in Nat /\ DOMAIN q = 1..c
    BY LenProperties
  <2>5. DOMAIN r = 1..(c - 1)
    <3>. HIDE DEF r
    <3>. QED BY <2>3, LenProperties
  <2>. HIDE DEF r, c
  <2>6. SUFFICES ASSUME NEW m \in DOMAIN r, NEW n \in DOMAIN r, m < n, Contains(old, r[n])
                 PROVE  \E i, j \in DOMAIN old : i < j /\ old[i] = r[m] /\ old[j] = r[n]
    BY <2>2, <2>3 DEF Kept
  <2>7. \E x, y \in DOMAIN q : x < y /\ r[m] = q[x] /\ r[n] = q[y]
    <3>. DEFINE x == IF m < at THEN m ELSE m + 1
                y == IF n < at THEN n ELSE n + 1
    <3>1. x \in DOMAIN q /\ y \in DOMAIN q /\ x < y
      BY <2>1, <2>4, <2>5, <2>6
    <3>2. r[m] = q[x] /\ r[n] = q[y]
      BY <2>3, <2>5, <2>6
    <3>. QED BY <3>1, <3>2
  <2>. QED BY <2>6, <2>7 DEF Kept
<1>. QED BY <1>1, <1>2

\* In no queue of c anybody has come to be ahead of somebody who was in it in k.
Keeps(k, c) ==
    c \in KernelType /\ \A kind \in Kind, l \in Level : Kept(k.queue[kind][l], c.queue[kind][l])

\* Everything but the queues.
SameButQueues(c, d) == d.running = c.running /\ d.state = c.state /\ d.priority = c.priority

LEMMA PutKeeps ==
  ASSUME NEW k \in KernelType, NEW c, Keeps(k, c), NEW kind \in Kind, NEW lev \in Level,
         NEW s \in Seq(Proc), Kept(k.queue[kind][lev], s)
  PROVE  Keeps(k, PutQueue(c, kind, lev, s)) /\ SameButQueues(c, PutQueue(c, kind, lev, s))
<1>. DEFINE d == PutQueue(c, kind, lev, s)
<1>1. /\ d \in KernelType /\ SameButQueues(c, d)
      /\ \A kd \in Kind, l \in Level : d.queue[kd][l] =
            IF kd = kind /\ l = lev THEN s ELSE c.queue[kd][l]
  BY PutQueueProperties DEF Keeps, SameButQueues
<1>. HIDE DEF d
<1>. QED BY <1>1 DEF Keeps, d

LEMMA EnqueueKeeps ==
  ASSUME NEW k \in KernelType, NEW c, Keeps(k, c), NEW kind \in Kind, NEW p \in Proc,
         ~Contains(k.queue[kind][c.priority[p]], p)
  PROVE  Keeps(k, EnqueueProcess(c, kind, p)) /\ SameButQueues(c, EnqueueProcess(c, kind, p))
<1>. DEFINE lev == c.priority[p]
            q == c.queue[kind][lev]
            s == Append(q, p)
<1>1. c \in KernelType /\ lev \in Level
  BY KernelFields DEF Keeps
<1>2. q \in Seq(Proc) /\ k.queue[kind][lev] \in Seq(Proc) /\ Kept(k.queue[kind][lev], q)
  BY <1>1, QueueIsSeq DEF Keeps
<1>3. s \in Seq(Proc) /\ Kept(k.queue[kind][lev], s)
  <2>. HIDE DEF q, lev
  <2>1. s \in Seq(Proc)
    BY <1>2, AppendProperties
  <2>2. ~Contains(k.queue[kind][lev], p)
    BY DEF lev
  <2>. QED BY <1>2, <2>1, <2>2, KeptAppend
<1>4. EnqueueProcess(c, kind, p) = PutQueue(c, kind, lev, s)
  BY DEF EnqueueProcess, PutQueue
<1>. HIDE DEF lev, s, q
<1>. QED BY <1>1, <1>3, <1>4, PutKeeps

LEMMA RemoveKeeps ==
  ASSUME NEW k \in KernelType, NEW c, Keeps(k, c), NEW p \in Proc
  PROVE  Keeps(k, RemoveProcess(c, p)) /\ SameButQueues(c, RemoveProcess(c, p))
<1>1. CASE p = c.running
  BY <1>1 DEF RemoveProcess, SameButQueues
<1>2. CASE p # c.running
  <2>. DEFINE kind == QueueOf(c.state[p])
              lev == c.priority[p]
              q == c.queue[kind][lev]
              s == Without(q, p)
  <2>1. c \in KernelType /\ lev \in Level /\ kind \in Kind
    BY KernelFields, QueueOfKind DEF Keeps
  <2>2. RemoveProcess(c, p) = PutQueue(c, kind, lev, s)
    BY <1>2 DEF RemoveProcess, PutQueue
  <2>. HIDE DEF kind, lev
  <2>3. q \in Seq(Proc) /\ k.queue[kind][lev] \in Seq(Proc) /\ Kept(k.queue[kind][lev], q)
    BY <2>1, QueueIsSeq DEF Keeps
  <2>. HIDE DEF q
  <2>4. s \in Seq(Proc) /\ Kept(k.queue[kind][lev], s)
    BY <2>3, KeptWithout
  <2>. HIDE DEF s
  <2>. QED BY <2>1, <2>2, <2>4, PutKeeps
<1>. QED BY <1>1, <1>2

LEMMA DispatchKeeps ==
  ASSUME NEW k \in KernelType, NEW c, Keeps(k, c)
  PROVE  Keeps(k, Dispatch(c))
<1>0. c \in KernelType
  BY DEF Keeps
<1>1. CASE IsEmpty(c, "ready")
  <2>. DEFINE d == [c EXCEPT !.running = Main]
  <2>1. Dispatch(c) = d
    BY <1>1 DEF Dispatch
  <2>2. d \in KernelType /\ d.queue = c.queue
    BY <1>0, KernelUpdate
  <2>. HIDE DEF d
  <2>. QED BY <1>0, <2>1, <2>2 DEF Keeps
<1>2. CASE ~IsEmpty(c, "ready")
  <2>. DEFINE l == FirstLevel(c, "ready")
              q == c.queue["ready"][l]
              p == Head(q)
              t == Tail(q)
              r == PutQueue(c, "ready", l, t)
              s == IF c.state[p] = "new" THEN "ready" ELSE c.state[p]
  <2>1. l \in Level /\ q # <<>> /\ "ready" \in Kind
    BY <1>2, FirstLevelProperties DEF Kind
  <2>2. Dispatch(c) = [r EXCEPT !.running = p, !.state[p] = s]
    BY <1>0, <1>2 DEF Dispatch, PutQueue, KernelType
  <2>. HIDE DEF l
  <2>3. q \in Seq(Proc) /\ k.queue["ready"][l] \in Seq(Proc) /\ Kept(k.queue["ready"][l], q)
    BY <1>0, <2>1, QueueIsSeq DEF Keeps
  <2>. HIDE DEF q
  <2>4. p \in Proc /\ t \in Seq(Proc) /\ Kept(k.queue["ready"][l], t)
    BY <2>1, <2>3, HeadTailProperties, KeptTail
  <2>. HIDE DEF p, t
  <2>5. Keeps(k, r) /\ SameButQueues(c, r)
    BY <2>1, <2>4, PutKeeps
  <2>. HIDE DEF r
  <2>6. s \in ProcState /\ c.state \in [Proc -> ProcState]
    BY <1>0, <2>4, KernelFields DEF ProcState
  <2>. HIDE DEF s
  <2>7. Dispatch(c) \in KernelType /\ Dispatch(c).queue = r.queue
    <3>. DEFINE f == [c.state EXCEPT ![p] = s]
                d == [r EXCEPT !.running = p]
    <3>1. f \in [Proc -> ProcState] /\ r.state = c.state /\ r \in KernelType
      BY <2>5, <2>6 DEF Keeps, SameButQueues
    <3>2. Dispatch(c) = [d EXCEPT !.state = f]
      BY <2>2, <3>1 DEF KernelType
    <3>. HIDE DEF f
    <3>3. d \in KernelType /\ d.queue = r.queue
      BY <2>4, <3>1, KernelUpdate
    <3>. HIDE DEF d
    <3>. QED BY <3>1, <3>2, <3>3, KernelUpdate
  <2>. QED BY <2>5, <2>7 DEF Keeps
<1>. QED BY <1>1, <1>2

\* The running process goes to the end of a queue in which it was not.
LEMMA SwitchKeeps ==
  ASSUME NEW k \in KernelType, NEW c, Keeps(k, c),
         c.running \in Proc => \A l \in Level : ~Contains(k.queue["ready"][l], c.running)
  PROVE  Keeps(k, ProcSwitch(c))
<1>1. CASE c.running \in Proc /\ c.state[c.running] = "ready"
  <2>1. c.priority[c.running] \in Level /\ "ready" \in Kind
    BY <1>1, KernelFields DEF Keeps, Kind
  <2>2. Keeps(k, EnqueueProcess(c, "ready", c.running))
    BY <1>1, <2>1, EnqueueKeeps
  <2>. QED BY <1>1, <2>2, DispatchKeeps DEF ProcSwitch
<1>2. CASE ~(c.running \in Proc /\ c.state[c.running] = "ready")
  BY <1>2, DispatchKeeps DEF ProcSwitch
<1>. QED BY <1>1, <1>2

LEMMA StateKeeps ==
  ASSUME NEW k, NEW c, Keeps(k, c), NEW p \in Proc, NEW s \in ProcState,
         NEW d, d = [c EXCEPT !.state[p] = s]
  PROVE  Keeps(k, d) /\ d.running = c.running /\ d.priority = c.priority
<1>. DEFINE f == [c.state EXCEPT ![p] = s]
<1>1. c \in KernelType /\ f \in [Proc -> ProcState] /\ d = [c EXCEPT !.state = f]
  BY KernelFields DEF Keeps
<1>. HIDE DEF f
<1>2. d \in KernelType /\ d.queue = c.queue /\ d.running = c.running /\ d.priority = c.priority
  BY <1>1, KernelUpdate
<1>. QED BY <1>2 DEF Keeps

Moved(c, p, n) == [c EXCEPT !.priority[p] = n]

LEMMA PriorityKeeps ==
  ASSUME NEW k, NEW c, Keeps(k, c), NEW p \in Proc, NEW n \in Level
  PROVE  /\ Keeps(k, Moved(c, p, n)) /\ Moved(c, p, n).running = c.running
         /\ Moved(c, p, n).priority[p] = n
<1>. DEFINE d == Moved(c, p, n)
            f == [c.priority EXCEPT ![p] = n]
<1>1. c \in KernelType /\ f \in [Proc -> Level] /\ d = [c EXCEPT !.priority = f]
  BY KernelFields DEF Keeps, Moved
<1>3. f[p] = n
  BY KernelFields DEF Keeps
<1>. HIDE DEF f, d
<1>2. d \in KernelType /\ d.queue = c.queue /\ d.running = c.running /\ d.priority = f
  <2>1. LET e == [c EXCEPT !.priority = f]
        IN  /\ e \in KernelType /\ e.running = c.running /\ e.state = c.state
            /\ e.priority = f /\ e.queue = c.queue
    BY <1>1, KernelUpdate
  <2>. QED BY <1>1, <2>1
<1>. QED BY <1>2, <1>3 DEF Keeps, d

LEMMA KeepsItself ==
  ASSUME NEW k \in KernelType
  PROVE  Keeps(k, k)
BY KeptRefl DEF Keeps

\* Who is not filed in a queue may be put into it.
LEMMA NotThere ==
  ASSUME NEW k, NEW dead, Settled(k, dead), NEW p \in Proc, NEW kind \in Kind, NEW l \in Level,
         p \in dead \cup {k.running} \/ kind # QueueOf(k.state[p]) \/ l # k.priority[p]
  PROVE  ~Contains(k.queue[kind][l], p)
BY DEF Settled, Filed, InQueue

LEMMA BlockKeeps ==
  ASSUME NEW k, NEW dead, Settled(k, dead), k.running \in Proc, NEW type \in BlockType
  PROVE  Keeps(k, BlockProcess(k, k.running, type))
<1>. DEFINE p == k.running
            c == [k EXCEPT !.state[p] = BlockedState(type)]
            e == EnqueueProcess(c, type, p)
<1>1. k \in KernelType /\ BlockedState(type) \in ProcState /\ type \in Kind
  BY DEF Settled, BlockedState, ProcState, Kind
<1>2. Keeps(k, c) /\ c.running = k.running /\ c.priority = k.priority
  BY <1>1, KeepsItself, StateKeeps
<1>3. BlockProcess(k, p, type) \in {k, ProcSwitch(e)}
  BY DEF BlockProcess, RemoveProcess
<1>. HIDE DEF c
<1>4. Keeps(k, e) /\ e.running = k.running
  <2>1. k.priority[p] \in Level
    BY <1>1, KernelFields
  <2>2. ~Contains(k.queue[type][c.priority[p]], p)
    BY <1>1, <1>2, <2>1, NotThere
  <2>. QED BY <1>1, <1>2, <2>2, EnqueueKeeps DEF SameButQueues
<1>. HIDE DEF e
<1>5. Keeps(k, ProcSwitch(e))
  BY <1>1, <1>4, NotThere, SwitchKeeps DEF Kind
<1>. QED BY <1>1, <1>3, <1>5, KeepsItself

\* A blocked process is made ready.
LEMMA ReadyKeeps ==
  ASSUME NEW k, NEW dead, Settled(k, dead), NEW p \in Proc, QueueOf(k.state[p]) # "ready",
         NEW c, Keeps(k, c), c.running = k.running, c.priority = k.priority,
         NEW e, e = EnqueueProcess([c EXCEPT !.state[p] = "ready"], "ready", p)
  PROVE  Keeps(k, e) /\ Keeps(k, ProcSwitch(e))
<1>. DEFINE d == [c EXCEPT !.state[p] = "ready"]
<1>1. k \in KernelType /\ "ready" \in ProcState /\ "ready" \in Kind
  BY DEF Settled, ProcState, Kind
<1>2. Keeps(k, d) /\ d.running = k.running /\ d.priority = k.priority
  BY <1>1, StateKeeps
<1>3. e = EnqueueProcess(d, "ready", p)
  OBVIOUS
<1>. HIDE DEF d
<1>4. Keeps(k, e) /\ e.running = k.running
  <2>1. k.priority[p] \in Level
    BY <1>1, KernelFields
  <2>2. ~Contains(k.queue["ready"][d.priority[p]], p)
    BY <1>1, <1>2, <2>1, NotThere
  <2>. QED BY <1>1, <1>2, <1>3, <2>2, EnqueueKeeps DEF SameButQueues
<1>5. Keeps(k, ProcSwitch(e))
  BY <1>1, <1>4, NotThere, SwitchKeeps
<1>. QED BY <1>4, <1>5

LEMMA UnblockByPidKeeps ==
  ASSUME NEW k, NEW dead, Settled(k, dead), NEW p \in Proc, NEW release \in BOOLEAN
  PROVE  Keeps(k, UnblockProcessByPid(k, p, release))
<1>0. k \in KernelType
  BY DEF Settled
<1>1. CASE ~IsProcessBlocked(k, p)
  BY <1>0, <1>1, KeepsItself DEF UnblockProcessByPid
<1>2. CASE IsProcessBlocked(k, p)
  <2>. DEFINE c == RemoveProcess(k, p)
              e == EnqueueProcess([c EXCEPT !.state[p] = "ready"], "ready", p)
  <2>1. QueueOf(k.state[p]) # "ready"
    BY <1>2 DEF IsProcessBlocked, QueueOf
  <2>2. Keeps(k, c) /\ c.running = k.running /\ c.priority = k.priority
    BY <1>0, KeepsItself, RemoveKeeps DEF SameButQueues
  <2>3. UnblockProcessByPid(k, p, release) \in {e, ProcSwitch(e)}
    BY <1>2 DEF UnblockProcessByPid
  <2>. HIDE DEF c
  <2>4. Keeps(k, e) /\ Keeps(k, ProcSwitch(e))
    BY <2>1, <2>2, ReadyKeeps
  <2>. QED BY <2>3, <2>4
<1>. QED BY <1>1, <1>2

LEMMA UnblockByTypeKeeps ==
  ASSUME NEW k, NEW dead, Settled(k, dead), NEW type \in BlockType, ~IsEmpty(k, type),
         NEW release \in BOOLEAN
  PROVE  Keeps(k, UnblockProcessByType(k, type, release))
<1>. DEFINE l == FirstLevel(k, type)
            q == k.queue[type][l]
            p == Head(q)
            t == Tail(q)
            c == PutQueue(k, type, l, t)
            e == EnqueueProcess([c EXCEPT !.state[p] = "ready"], "ready", p)
<1>1. k \in KernelType /\ type \in Kind /\ l \in Level /\ q # <<>>
  BY FirstLevelProperties DEF Settled, Kind
<1>2. UnblockProcessByType(k, type, release) \in {e, ProcSwitch(e)}
  BY <1>1 DEF UnblockProcessByType, FirstBlocked, PutQueue, KernelType
<1>. HIDE DEF l
<1>3. q \in Seq(Proc)
  BY <1>1, QueueIsSeq
<1>4. p \in Proc /\ Contains(q, p) /\ t \in Seq(Proc) /\ Kept(q, t)
  <2>1. IsInjective(q)
    BY <1>1 DEF Settled, Filed
  <2>. HIDE DEF q
  <2>2. HeadAndTail(Proc, q, Head(q), Tail(q))
    BY <1>1, <1>3, <2>1, TailContains
  <2>. QED BY <1>1, <1>3, <2>2, KeptRefl, KeptTail DEF HeadAndTail
<1>. HIDE DEF p, t
<1>5. QueueOf(k.state[p]) # "ready"
  <2>1. QueueOf(k.state[p]) = type
    BY <1>1, <1>4, FiledContains DEF Settled
  <2>. QED BY <2>1 DEF BlockType
<1>6. Keeps(k, c) /\ c.running = k.running /\ c.priority = k.priority
  BY <1>1, <1>4, KeepsItself, PutKeeps DEF SameButQueues
<1>. HIDE DEF c
<1>7. Keeps(k, e) /\ Keeps(k, ProcSwitch(e))
  BY <1>4, <1>5, <1>6, ReadyKeeps
<1>. QED BY <1>2, <1>7

LEMMA SetPriorityKeeps ==
  ASSUME NEW k, NEW dead, Settled(k, dead), NEW p \in Proc, NEW n \in Int
  PROVE  Keeps(k, SetProcessPriority(k, p, n))
<1>0. k \in KernelType
  BY DEF Settled
<1>1. CASE ~MaySetPriority(k, p, n)
  BY <1>0, <1>1, KeepsItself DEF SetProcessPriority
<1>2. CASE MaySetPriority(k, p, n) /\ p = k.running
  <2>. DEFINE c == Moved(k, p, n)
  <2>1. n \in Level
    BY <1>2 DEF MaySetPriority, Level
  <2>2. Keeps(k, c) /\ c.running = k.running
    BY <1>0, <2>1, KeepsItself, PriorityKeeps
  <2>3. SetProcessPriority(k, p, n) \in {c, ProcSwitch(c)}
    BY <1>2 DEF SetProcessPriority, Moved
  <2>. HIDE DEF c
  <2>4. Keeps(k, ProcSwitch(c))
    BY <1>0, <2>2, NotThere, SwitchKeeps DEF Kind
  <2>. QED BY <2>2, <2>3, <2>4
<1>3. CASE MaySetPriority(k, p, n) /\ p # k.running
  <2>. DEFINE r == RemoveProcess(k, p)
              c == Moved(r, p, n)
              kind == QueueOf(k.state[p])
              e == EnqueueProcess(c, kind, p)
  <2>1. n \in Level /\ n # k.priority[p] /\ kind \in Kind
    BY <1>0, <1>3, KernelFields, QueueOfKind DEF MaySetPriority, Level
  <2>2. Keeps(k, r) /\ r.running = k.running
    BY <1>0, KeepsItself, RemoveKeeps DEF SameButQueues
  <2>3. SetProcessPriority(k, p, n) \in {e, ProcSwitch(e)}
    BY <1>3 DEF SetProcessPriority, Requeue, Moved
  <2>. HIDE DEF r
  <2>4. Keeps(k, c) /\ c.running = k.running /\ c.priority[p] = n
    BY <2>1, <2>2, PriorityKeeps
  <2>. HIDE DEF c
  <2>5. ~Contains(k.queue[kind][n], p)
    BY <2>1, NotThere
  <2>. HIDE DEF kind
  <2>6. Keeps(k, e) /\ e.running = k.running
    BY <1>0, <2>1, <2>4, <2>5, EnqueueKeeps DEF SameButQueues
  <2>. HIDE DEF e
  <2>7. Keeps(k, ProcSwitch(e))
    BY <1>0, <2>6, NotThere, SwitchKeeps DEF Kind
  <2>. QED BY <2>3, <2>6, <2>7
<1>. QED BY <1>1, <1>2, <1>3

LEMMA StepKeeps ==
  ASSUME IInv, [Next]_vars
  PROVE  Keeps(kernel, kernel')
<1>0. kernel \in KernelType /\ Keeps(kernel, kernel)
  BY KeepsItself DEF IInv, TypeOK
<1>1. ASSUME Booted PROVE Settled(kernel, Dead)
  BY <1>1, BootedIsSettled
<1>2. CASE CreateProcess
  <2>. DEFINE p == Pibs[created + 1]
  <2>1. /\ kernel' = EnqueueProcess(kernel, "ready", p) /\ "ready" \in Kind
        /\ kernel.running = NoProc /\ ~Booted /\ terminated = {}
    BY <1>2 DEF CreateProcess, IInv, Booting, Kind
  <2>2. created \in 0..Len(Pibs) /\ created # Len(Pibs) /\ Len(Pibs) \in Nat
    BY <2>1, PibsFacts DEF IInv, TypeOK, Booted
  <2>3. created + 1 \in 1..Len(Pibs) /\ \A i \in 1..created : i \in 1..Len(Pibs) /\ i # created + 1
    BY <2>2
  <2>4. p \in Proc /\ p \notin Alive
    BY <2>1, <2>3, PibsFacts, PibsAssumption DEF Alive
  <2>. HIDE DEF p
  <2>5. kernel.priority[p] \in Level
    BY <1>0, <2>4, KernelFields
  <2>6. ~Contains(kernel.queue["ready"][kernel.priority[p]], p)
    BY <2>1, <2>4, <2>5 DEF IInv, Placement, Filed, InQueue
  <2>. QED BY <1>0, <2>1, <2>4, <2>6, EnqueueKeeps
<1>3. CASE EnterMain
  BY <1>0, <1>3, KernelUpdate DEF EnterMain, Keeps
<1>4. CASE ReleaseProcessor
  BY <1>0, <1>1, <1>4, NotThere, SwitchKeeps DEF ReleaseProcessor, Kind
<1>5. CASE TerminateProcess
  <2>1. kernel' = [kernel EXCEPT !.running = NoProc]
    BY <1>5 DEF TerminateProcess, Terminate, RemoveProcess
  <2>. QED BY <1>0, <2>1, KernelUpdate DEF Keeps
<1>6. ASSUME NEW type \in BlockType, Block(type) PROVE Keeps(kernel, kernel')
  BY <1>1, <1>6, CallingIsBooted, BlockKeeps DEF Block, Calling
<1>7. ASSUME NEW type \in BlockType, UnblockByType(type) PROVE Keeps(kernel, kernel')
  <2>1. Settled(kernel, Dead) /\ ~IsEmpty(kernel, type)
    BY <1>1, <1>7, CallingIsBooted DEF UnblockByType, Calling
  <2>2. PICK release \in Outranks(kernel, kernel.priority[FirstBlocked(kernel, type)]) :
           kernel' = UnblockProcessByType(kernel, type, release)
    BY <1>7 DEF UnblockByType
  <2>. DEFINE q == FirstBlocked(kernel, type)
  <2>3. q \in Proc
    BY <2>1, UnblockByTypeSettles
  <2>. HIDE DEF q
  <2>4. kernel.priority[q] \in Level
    BY <1>0, <2>3, KernelFields
  <2>5. release \in BOOLEAN
    BY <1>0, <2>2, <2>4, OutranksProperties DEF q
  <2>. QED BY <2>1, <2>2, <2>5, UnblockByTypeKeeps
<1>8. ASSUME NEW p \in Proc, UnblockByPid(p) PROVE Keeps(kernel, kernel')
  <2>1. Settled(kernel, Dead)
    BY <1>1, <1>8 DEF UnblockByPid
  <2>2. PICK release \in Outranks(kernel, kernel.priority[p]) :
           kernel' = UnblockProcessByPid(kernel, p, release)
    BY <1>8 DEF UnblockByPid
  <2>3. kernel.priority[p] \in Level
    BY <1>0, KernelFields
  <2>4. release \in BOOLEAN
    BY <1>0, <2>2, <2>3, OutranksProperties
  <2>. QED BY <2>1, <2>2, <2>4, UnblockByPidKeeps
<1>9. ASSUME NEW p \in Proc, NEW n \in PriorityArg, SetPriority(p, n)
      PROVE  Keeps(kernel, kernel')
  BY <1>1, <1>9, CallingIsBooted, PriorityArgAssumption, SetPriorityKeeps DEF SetPriority, Calling
<1>10. CASE TimerEnter
  BY <1>0, <1>10 DEF TimerEnter
<1>11. CASE TimerExit
  BY <1>0, <1>1, <1>11, CallingIsBooted, NotThere, SwitchKeeps DEF TimerExit, Kind
<1>12. ASSUME NEW p \in Proc, TimerUnblock(p) PROVE Keeps(kernel, kernel')
  BY <1>1, <1>12, CallingIsBooted, UnblockByPidKeeps DEF TimerUnblock
<1>13. CASE UNCHANGED vars
  BY <1>0, <1>13 DEF vars
<1>. QED
  BY <1>2, <1>3, <1>4, <1>5, <1>6, <1>7, <1>8, <1>9, <1>10, <1>11, <1>12, <1>13 DEF Next

\* Processes leave a queue in the order they entered it, ready or blocked: no
\* kernel function ever puts anybody in front of somebody who waits.
THEOREM NobodyOvertakes == Spec => NoOvertaking
<1>1. IInv /\ [Next]_vars =>
         [\A kind \in Kind, l \in Level :
            LET old == kernel.queue[kind][l]
                young == kernel'.queue[kind][l]
            IN  \A m, n \in DOMAIN young : m < n /\ Contains(old, young[n]) =>
                   \E i, j \in DOMAIN old :
                      i < j /\ old[i] = young[m] /\ old[j] = young[n]]_vars
  BY StepKeeps DEF Keeps, Kept
<1>. QED BY <1>1, InductiveInvariant, PTL DEF Spec, NoOvertaking
-----------------------------------------------------------------------------
(* Priorities. *)

\* From k to d nobody's priority changes.
SamePriorities(k, d) == DOMAIN d = DOMAIN k /\ d.priority = k.priority

LEMMA SwitchPriorities ==
  ASSUME NEW k, "priority" \in DOMAIN k
  PROVE  SamePriorities(k, Dispatch(k)) /\ SamePriorities(k, ProcSwitch(k))
<1>1. ASSUME NEW c, "priority" \in DOMAIN c
      PROVE  SamePriorities(c, Dispatch(c))
  BY <1>1 DEF Dispatch, SamePriorities
<1>2. ASSUME NEW p PROVE SamePriorities(k, EnqueueProcess(k, "ready", p))
  BY DEF EnqueueProcess, SamePriorities
<1>. DEFINE e == EnqueueProcess(k, "ready", k.running)
<1>3. SamePriorities(k, e) /\ SamePriorities(k, Dispatch(k))
  BY <1>1, <1>2
<1>. HIDE DEF e
<1>4. SamePriorities(k, Dispatch(e))
  BY <1>1, <1>3 DEF SamePriorities
<1>. QED BY <1>3, <1>4 DEF ProcSwitch, e

LEMMA RemovePriorities ==
  ASSUME NEW k, "priority" \in DOMAIN k, NEW p
  PROVE  SamePriorities(k, RemoveProcess(k, p))
BY DEF RemoveProcess, SamePriorities

\* A process is given another state and put in a queue.
LEMMA PutPriorities ==
  ASSUME NEW k, "priority" \in DOMAIN k, NEW p, NEW s, NEW kind
  PROVE  LET e == EnqueueProcess([k EXCEPT !.state[p] = s], kind, p)
         IN  SamePriorities(k, e) /\ SamePriorities(k, ProcSwitch(e))
<1>. DEFINE c == [k EXCEPT !.state[p] = s]
            e == EnqueueProcess(c, kind, p)
<1>1. SamePriorities(k, c)
  BY DEF SamePriorities
<1>. HIDE DEF c
<1>2. SamePriorities(c, e)
  BY <1>1 DEF EnqueueProcess, SamePriorities
<1>. HIDE DEF e
<1>3. SamePriorities(e, ProcSwitch(e))
  BY <1>1, <1>2, SwitchPriorities DEF SamePriorities
<1>. QED BY <1>1, <1>2, <1>3 DEF SamePriorities, e, c

LEMMA BlockPriorities ==
  ASSUME NEW k, "priority" \in DOMAIN k, NEW p, NEW type
  PROVE  SamePriorities(k, BlockProcess(k, p, type))
<1>. DEFINE r == RemoveProcess(k, p)
            e == EnqueueProcess([r EXCEPT !.state[p] = BlockedState(type)], type, p)
<1>1. SamePriorities(k, r)
  BY RemovePriorities
<1>2. BlockProcess(k, p, type) \in {k, e, ProcSwitch(e)}
  BY DEF BlockProcess
<1>. HIDE DEF r
<1>. "priority" \in DOMAIN r
  BY <1>1 DEF SamePriorities
<1>3. SamePriorities(r, e) /\ SamePriorities(r, ProcSwitch(e))
  BY PutPriorities
<1>. HIDE DEF e
<1>. QED BY <1>1, <1>2, <1>3 DEF SamePriorities

LEMMA UnblockByPidPriorities ==
  ASSUME NEW k, "priority" \in DOMAIN k, NEW p, NEW release
  PROVE  SamePriorities(k, UnblockProcessByPid(k, p, release))
<1>. DEFINE r == RemoveProcess(k, p)
            e == EnqueueProcess([r EXCEPT !.state[p] = "ready"], "ready", p)
<1>1. SamePriorities(k, r)
  BY RemovePriorities
<1>2. UnblockProcessByPid(k, p, release) \in {k, e, ProcSwitch(e)}
  BY DEF UnblockProcessByPid
<1>. HIDE DEF r
<1>. "priority" \in DOMAIN r
  BY <1>1 DEF SamePriorities
<1>3. SamePriorities(r, e) /\ SamePriorities(r, ProcSwitch(e))
  BY PutPriorities
<1>. HIDE DEF e
<1>. QED BY <1>1, <1>2, <1>3 DEF SamePriorities

LEMMA UnblockByTypePriorities ==
  ASSUME NEW k, "priority" \in DOMAIN k, "state" \in DOMAIN k, NEW type, NEW release
  PROVE  SamePriorities(k, UnblockProcessByType(k, type, release))
<1>. DEFINE l == FirstLevel(k, type)
            p == FirstBlocked(k, type)
            c == [k EXCEPT !.queue[type][l] = Tail(@), !.state[p] = "ready"]
            e == EnqueueProcess(c, "ready", p)
<1>1. SamePriorities(k, c)
  <2>. HIDE DEF l, p
  <2>. QED BY DEF SamePriorities
<1>2. UnblockProcessByType(k, type, release) \in {k, e, ProcSwitch(e)}
  BY DEF UnblockProcessByType
<1>. HIDE DEF c, p
<1>3. SamePriorities(c, e)
  BY <1>1 DEF EnqueueProcess, SamePriorities
<1>. HIDE DEF e
<1>4. SamePriorities(e, ProcSwitch(e))
  BY <1>1, <1>3, SwitchPriorities DEF SamePriorities
<1>. QED BY <1>1, <1>2, <1>3, <1>4 DEF SamePriorities

LEMMA SetPriorityPriorities ==
  ASSUME NEW k \in KernelType, NEW p \in Proc, NEW n
  PROVE  LET d == SetProcessPriority(k, p, n)
         IN  \/ d.priority = k.priority
             \/ p # NullProc /\ n \in 0..3 /\ d.priority = [k.priority EXCEPT ![p] = n]
<1>0. "priority" \in DOMAIN k
  BY DEF KernelType
<1>1. CASE ~MaySetPriority(k, p, n)
  BY <1>1 DEF SetProcessPriority
<1>2. CASE MaySetPriority(k, p, n)
  <2>. DEFINE c == [k EXCEPT !.priority[p] = n]
              r == RemoveProcess(k, p)
              f == [r EXCEPT !.priority[p] = n]
              e == Requeue(k, p, n)
              d == SetProcessPriority(k, p, n)
  <2>0. p # NullProc /\ n \in 0..3
    BY <1>2 DEF MaySetPriority
  <2>1. c.priority = [k.priority EXCEPT ![p] = n] /\ DOMAIN c = DOMAIN k
    BY <1>0
  <2>2. SamePriorities(k, r)
    BY <1>0, RemovePriorities
  <2>. HIDE DEF r
  <2>3. f.priority = [k.priority EXCEPT ![p] = n] /\ DOMAIN f = DOMAIN k
    BY <1>0, <2>2 DEF SamePriorities
  <2>4. e = EnqueueProcess(f, QueueOf(k.state[p]), p)
    BY DEF Requeue, r
  <2>. HIDE DEF f
  <2>5. SamePriorities(f, e)
    BY <1>0, <2>3, <2>4 DEF EnqueueProcess, SamePriorities
  <2>6. d \in {c, ProcSwitch(c), e, ProcSwitch(e)}
    BY <1>2 DEF SetProcessPriority
  <2>. HIDE DEF c, e, d
  <2>7. SamePriorities(c, ProcSwitch(c)) /\ SamePriorities(e, ProcSwitch(e))
    BY <1>0, <2>1, <2>3, <2>5, SwitchPriorities DEF SamePriorities
  <2>8. d.priority = [k.priority EXCEPT ![p] = n]
    BY <2>1, <2>3, <2>5, <2>6, <2>7 DEF SamePriorities
  <2>. QED BY <2>0, <2>8 DEF d
<1>. QED BY <1>1, <1>2

\* What the scheduler does besides, ...
QuietNext ==
    \/ CreateProcess \/ EnterMain \/ ReleaseProcessor \/ TerminateProcess
    \/ \E type \in BlockType : Block(type) \/ UnblockByType(type)
    \/ \E p \in Proc : UnblockByPid(p)
    \/ TimerEnter \/ TimerExit
    \/ \E p \in Proc : TimerUnblock(p)
    \/ UNCHANGED vars

\* ... leaves the priorities alone.
LEMMA QuietPriorities ==
  ASSUME kernel \in KernelType, QuietNext
  PROVE  kernel'.priority = kernel.priority
<1>0. "priority" \in DOMAIN kernel /\ "state" \in DOMAIN kernel
  BY DEF KernelType
<1>1. CASE \/ CreateProcess \/ EnterMain \/ TerminateProcess \/ TimerEnter \/ UNCHANGED vars
  BY <1>0, <1>1 DEF CreateProcess, EnqueueProcess, EnterMain, TerminateProcess, Terminate,
                    RemoveProcess, TimerEnter, vars
<1>2. CASE ReleaseProcessor \/ TimerExit
  BY <1>0, <1>2, SwitchPriorities DEF ReleaseProcessor, TimerExit, SamePriorities
<1>3. CASE \E type \in BlockType : Block(type) \/ UnblockByType(type)
  BY <1>0, <1>3, BlockPriorities, UnblockByTypePriorities
     DEF Block, UnblockByType, SamePriorities
<1>4. CASE \E p \in Proc : UnblockByPid(p) \/ TimerUnblock(p)
  BY <1>0, <1>4, UnblockByPidPriorities DEF UnblockByPid, TimerUnblock, SamePriorities
<1>. QED BY <1>1, <1>2, <1>3, <1>4 DEF QuietNext

\* In the whole kernel only set_process_priority changes a priority, and that to a
\* number from 0 to 3, of a process that is not the null process.
LEMMA StepPriorities ==
  ASSUME kernel \in KernelType, [AnyNext]_vars
  PROVE  \/ kernel'.priority = kernel.priority
         \/ \E p \in Proc \ {NullProc}, n \in 0..3 :
               SetPriority(p, n) /\ kernel'.priority = [kernel.priority EXCEPT ![p] = n]
<1>1. ASSUME NEW p \in Proc, NEW n, SetPriority(p, n)
      PROVE  \/ kernel'.priority = kernel.priority
             \/ /\ p # NullProc /\ n \in 0..3
                /\ kernel'.priority = [kernel.priority EXCEPT ![p] = n]
  BY <1>1, SetPriorityPriorities DEF SetPriority
<1>2. QuietNext \/ \E p \in Proc : \E n : SetPriority(p, n)
  BY DEF AnyNext, Next, QuietNext
<1>. QED BY <1>1, <1>2, QuietPriorities
=============================================================================
