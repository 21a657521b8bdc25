------------------------------- MODULE Kernel -------------------------------
(***************************************************************************)
(* The process queues of src/submit/core/core.c and the functions that     *)
(* move processes between them, as operators on a record                   *)
(*                                                                         *)
(*   running   running_process: a process, Main or NoProc (NULL)           *)
(*   state     the state field of each PCB                                 *)
(*   priority  the priority field of each PCB                              *)
(*   queue     ready_queue, mem_blocked_queue and msg_blocked_queue, five  *)
(*             lists each, as sequences of processes                       *)
(*                                                                         *)
(* Operators introduced by "Faulty:" are variants with a plausible mistake *)
(* in them; no specification uses them, they serve to see that the         *)
(* properties can fail.                                                    *)
(***************************************************************************)
EXTENDS Integers, Sequences, SequencesExt

CONSTANTS
    Proc,           \* the processes of the process table
    NullProc,       \* pid 0, the null process
    Main,           \* main_process, pid -1: the boot context
    NoProc,         \* NULL in running_process
    InitPriority    \* the priority of each process in its pib

ASSUME ProcAssumption ==
    /\ NullProc \in Proc
    /\ Main \notin Proc /\ NoProc \notin Proc /\ Main # NoProc

\* The null process is created with priority 4, which set_process_priority
\* gives to nobody; the other pibs have a priority from 0 to 3.
ASSUME PriorityAssumption ==
    /\ InitPriority \in [Proc -> 0..4]
    /\ \A p \in Proc : InitPriority[p] = 4 <=> p = NullProc

Level == 0..4
BlockType == {"mem", "msg"}
Kind == BlockType \cup {"ready"}
ProcState == {"new", "ready", "blocked_mem", "blocked_msg"}
Unsigned_1 == 5                         \* (UINT32) -1: past every level

KernelType ==
    [running : Proc \cup {Main, NoProc},
     state : [Proc -> ProcState],
     priority : [Proc -> Level],
     queue : [Kind -> [Level -> Seq(Proc)]]]

-----------------------------------------------------------------------------
(* Looking processes up. *)

QueueOf(s) == CASE s = "blocked_msg" -> "msg"
                [] s = "blocked_mem" -> "mem"
                [] OTHER -> "ready"

BlockedState(type) == IF type = "msg" THEN "blocked_msg" ELSE "blocked_mem"

InQueue(k, kind, l, p) == Contains(k.queue[kind][l], p)

\* get_process_by_pid finds the running process, or one in some queue.
IsPidValid(k, p) ==
    \/ p = k.running
    \/ \E kind \in Kind, l \in Level : InQueue(k, kind, l, p)

IsProcessBlocked(k, p) ==
    IsPidValid(k, p) /\ k.state[p] \in {"blocked_msg", "blocked_mem"}

\* get_process_priority(get_current_pid()), read as an unsigned number.
CurrentPriority(k) ==
    IF k.running \in Proc THEN k.priority[k.running] ELSE Unsigned_1

\* The outcomes of "n < running_process->priority".  While running_process
\* is NULL the comparison reads whatever lies at address 8.
Outranks(k, n) ==
    IF k.running = NoProc THEN BOOLEAN ELSE {n < CurrentPriority(k)}

-----------------------------------------------------------------------------
(* The queues. *)

\* Faulty: the process goes to the front.
EnqueueAtHead(k, kind, p) ==
    [k EXCEPT !.queue[kind][k.priority[p]] = <<p>> \o @]

EnqueueProcess(k, kind, p) ==
    [k EXCEPT !.queue[kind][k.priority[p]] = Append(@, p)]

FirstLevel(k, kind) ==
    CHOOSE l \in Level : /\ k.queue[kind][l] # <<>>
                         /\ \A m \in Level : m < l => k.queue[kind][m] = <<>>

IsEmpty(k, kind) == \A l \in Level : k.queue[kind][l] = <<>>

Without(q, p) ==
    IF Contains(q, p) THEN RemoveAt(q, CHOOSE i \in DOMAIN q : q[i] = p) ELSE q

\* The running process is taken to be in no queue.
RemoveProcess(k, p) ==
    IF p = k.running THEN k
    ELSE [k EXCEPT !.queue[QueueOf(k.state[p])][k.priority[p]] = Without(@, p)]

\* dequeue_process(ready_queue), and a new process is started.
Dispatch(k) ==
    IF IsEmpty(k, "ready")
    THEN [k EXCEPT !.running = Main]
    ELSE LET l == FirstLevel(k, "ready")
             p == Head(k.queue["ready"][l])
         IN  [k EXCEPT !.queue["ready"][l] = Tail(@),
                       !.running = p,
                       !.state[p] = IF @ = "new" THEN "ready" ELSE @]

\* Faulty: the interrupted process is not put back.
SwitchWithoutEnqueue(k) == Dispatch(k)

\* proc_switch_handler, entered by release_processor.
ProcSwitch(k) ==
    IF k.running \in Proc /\ k.state[k.running] = "ready"
    THEN Dispatch(EnqueueProcess(k, "ready", k.running))
    ELSE Dispatch(k)

-----------------------------------------------------------------------------
(* The kernel functions. *)

BlockProcess(k, p, type) ==
    IF ~IsPidValid(k, p) \/ IsProcessBlocked(k, p) THEN k
    ELSE LET blocked == [RemoveProcess(k, p) EXCEPT !.state[p] = BlockedState(type)]
             queued  == EnqueueProcess(blocked, type, p)
         IN  IF p = k.running THEN ProcSwitch(queued) ELSE queued

\* "release": whether the comparison with the running process calls for a
\* switch.
UnblockProcessByPid(k, p, release) ==
    IF ~IsProcessBlocked(k, p) THEN k
    ELSE LET removed == [RemoveProcess(k, p) EXCEPT !.state[p] = "ready"]
             readied == EnqueueProcess(removed, "ready", p)
         IN  IF release THEN ProcSwitch(readied) ELSE readied

FirstBlocked(k, type) == Head(k.queue[type][FirstLevel(k, type)])

UnblockProcessByType(k, type, release) ==
    IF IsEmpty(k, type) THEN k
    ELSE LET p == FirstBlocked(k, type)
             removed == [k EXCEPT !.queue[type][FirstLevel(k, type)] = Tail(@),
                                  !.state[p] = "ready"]
             readied == EnqueueProcess(removed, "ready", p)
         IN  IF release THEN ProcSwitch(readied) ELSE readied

\* Faulty: a blocked process whose priority changes becomes ready.
RequeueAsReady(k, p, n) ==
    EnqueueProcess([RemoveProcess(k, p) EXCEPT !.priority[p] = n], "ready", p)

Requeue(k, p, n) ==
    EnqueueProcess([RemoveProcess(k, p) EXCEPT !.priority[p] = n],
                   QueueOf(k.state[p]), p)

\* Faulty: the range check is missing.
MaySetAnyPriority(k, p, n) ==
    p # NullProc /\ IsPidValid(k, p) /\ n # k.priority[p]

\* pid 0 is refused like every pid <= 0.
MaySetPriority(k, p, n) ==
    p # NullProc /\ n \in 0..3 /\ IsPidValid(k, p) /\ n # k.priority[p]

SetProcessPriority(k, p, n) ==
    IF ~MaySetPriority(k, p, n) THEN k
    ELSE IF p = k.running
    THEN LET changed == [k EXCEPT !.priority[p] = n]
         IN  IF n > k.priority[p] THEN ProcSwitch(changed) ELSE changed
    ELSE LET moved == Requeue(k, p, n)
         IN  IF QueueOf(k.state[p]) = "ready" /\ n < CurrentPriority(k)
             THEN ProcSwitch(moved) ELSE moved

\* process_bootstrap once the body has returned: the running process is in
\* no queue to be removed from, and running_process becomes NULL.
Terminate(k) == [RemoveProcess(k, k.running) EXCEPT !.running = NoProc]

-----------------------------------------------------------------------------
(* What the queues are supposed to look like. *)

\* The processes outside "out" are in the queue their state and priority name,
\* once, and in no other queue; the processes of "out" are in none.
Filed(k, out) ==
    \A kind \in Kind, l \in Level :
        /\ IsInjective(k.queue[kind][l])
        /\ \A p \in Proc : InQueue(k, kind, l, p) <=>
              p \notin out /\ QueueOf(k.state[p]) = kind /\ k.priority[p] = l

NoneReadyAbove(k, n) ==
    \A l \in Level : l < n => k.queue["ready"][l] = <<>>
=============================================================================
