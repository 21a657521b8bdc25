----------------------------- MODULE Scheduler -----------------------------
(***************************************************************************)
(* The life of the process table: initialize_processes creates it, main    *)
(* releases the processor, and from then on processes and the two          *)
(* interrupt handlers call the kernel functions of module Kernel.          *)
(*                                                                         *)
(* Granularity.  Each kernel function is bracketed by TRAP #1/#2 or by     *)
(* atomic_up/atomic_down to keep interrupts out, and is one step here.     *)
(* Module Rtx splits receive_message and request_memory_block where the    *)
(* code closes the bracket half way.  The timer interrupt wakes one        *)
(* process per step and switches, if it must, when its loop is over.       *)
(***************************************************************************)
EXTENDS Kernel

CONSTANTS
    Pibs,           \* the process initialization blocks, in list order
    PriorityArg     \* the new priorities tried in set_process_priority

ASSUME PibsAssumption ==
    /\ Pibs \in Seq(Proc)
    /\ \A i, j \in DOMAIN Pibs : Pibs[i] = Pibs[j] => i = j
    /\ \A p \in Proc : Contains(Pibs, p)
ASSUME PriorityArgAssumption == PriorityArg \subseteq Int

VARIABLES
    kernel,         \* the queues and running_process
    created,        \* how many pibs initialize_processes has gone through
    terminated,     \* processes whose body has returned
    isr             \* timer interrupt: Idle, or its highest_priority so far

vars == <<kernel, created, terminated, isr>>

Idle == 6
Booted == created = Len(Pibs)
Alive == {Pibs[i] : i \in 1..created} \ terminated

\* No process has been dispatched yet: still in main.
InMain == \A p \in Proc : kernel.state[p] = "new"

Init ==
    /\ kernel = [running  |-> NoProc,
                 state    |-> [p \in Proc |-> "new"],
                 priority |-> InitPriority,
                 queue    |-> [kind \in Kind |-> [l \in Level |-> <<>>]]]
    /\ created = 0
    /\ terminated = {}
    /\ isr = Idle

-----------------------------------------------------------------------------
(* main. *)

CreateProcess ==
    /\ ~Booted
    /\ kernel' = EnqueueProcess(kernel, "ready", Pibs[created + 1])
    /\ created' = created + 1
    /\ UNCHANGED <<terminated, isr>>

EnterMain ==
    /\ Booted /\ isr = Idle /\ InMain /\ kernel.running = NoProc
    /\ kernel' = [kernel EXCEPT !.running = Main]
    /\ UNCHANGED <<created, terminated, isr>>

(* Calls of the running process.  The null process loops and makes none. *)

Calling == isr = Idle /\ kernel.running \in Proc \ {NullProc}

\* Made by main, by a process, and by process_bootstrap after a process.
ReleaseProcessor ==
    /\ Booted /\ isr = Idle /\ kernel.running # NullProc
    /\ kernel.running = NoProc => ~InMain
    /\ kernel' = ProcSwitch(kernel)
    /\ UNCHANGED <<created, terminated, isr>>

Block(type) ==
    /\ Calling
    /\ kernel' = BlockProcess(kernel, kernel.running, type)
    /\ UNCHANGED <<created, terminated, isr>>

\* send_message, of a process or of the serial interrupt handler, which may
\* come while the null process runs or while nobody does.
UnblockByPid(p) ==
    /\ Booted /\ isr = Idle
    /\ \E release \in Outranks(kernel, kernel.priority[p]) :
          kernel' = UnblockProcessByPid(kernel, p, release)
    /\ UNCHANGED <<created, terminated, isr>>

UnblockByType(type) ==
    /\ Calling /\ ~IsEmpty(kernel, type)
    /\ \E release \in Outranks(kernel, kernel.priority[FirstBlocked(kernel, type)]) :
          kernel' = UnblockProcessByType(kernel, type, release)
    /\ UNCHANGED <<created, terminated, isr>>

SetPriority(p, n) ==
    /\ Calling
    /\ kernel' = SetProcessPriority(kernel, p, n)
    /\ UNCHANGED <<created, terminated, isr>>

TerminateProcess ==
    /\ Calling
    /\ kernel' = Terminate(kernel)
    /\ terminated' = terminated \cup {kernel.running}
    /\ UNCHANGED <<created, isr>>

(* timer_isr: check_existing_delayed_message. *)

TimerEnter ==
    /\ Booted /\ isr = Idle
    /\ isr' = 4
    /\ UNCHANGED <<kernel, created, terminated>>

TimerUnblock(p) ==
    /\ isr # Idle /\ IsProcessBlocked(kernel, p)
    /\ kernel' = UnblockProcessByPid(kernel, p, FALSE)
    /\ isr' = IF kernel.priority[p] < isr THEN kernel.priority[p] ELSE isr
    /\ UNCHANGED <<created, terminated>>

\* Faulty: the interrupt returns to whoever it interrupted.
TimerExitWithoutSwitch ==
    /\ isr # Idle
    /\ isr' = Idle
    /\ UNCHANGED <<kernel, created, terminated>>

TimerExit ==
    /\ isr # Idle
    /\ kernel' = IF isr < CurrentPriority(kernel) THEN ProcSwitch(kernel) ELSE kernel
    /\ isr' = Idle
    /\ UNCHANGED <<created, terminated>>

-----------------------------------------------------------------------------
Next ==
    \/ CreateProcess \/ EnterMain \/ ReleaseProcessor \/ TerminateProcess
    \/ \E type \in BlockType : Block(type) \/ UnblockByType(type)
    \/ \E p \in Proc : UnblockByPid(p)
    \/ \E p \in Proc, n \in PriorityArg : SetPriority(p, n)
    \/ TimerEnter \/ TimerExit
    \/ \E p \in Proc : TimerUnblock(p)

Spec == Init /\ [][Next]_vars

-----------------------------------------------------------------------------
(* Properties. *)

\* Every variable keeps its type; in particular a priority stays one of the
\* five levels the arrays of queues have.
TypeOK ==
    /\ kernel \in KernelType
    /\ created \in 0..Len(Pibs)
    /\ terminated \subseteq Proc
    /\ isr \in Level \cup {Idle}

\* "A process will not be in any queue if it's running" (core.c:137), and a
\* process that is not running is in exactly one: the queue of its state, at
\* the level of its priority.  So the three searches of the code
\* (get_process_by_pid, remove_process, unblock) find each other's processes,
\* and no live process is ever lost.
Placement ==
    /\ Filed(kernel, (Proc \ Alive) \cup {kernel.running})
    /\ kernel.running \in Proc =>
          kernel.running \in Alive /\ kernel.state[kernel.running] = "ready"

\* Scheduling by strict priority: outside the timer interrupt no ready process
\* outranks the running one, whichever kernel function was called last.
PriorityRespected ==
    isr = Idle /\ kernel.running \in Proc =>
        NoneReadyAbove(kernel, kernel.priority[kernel.running])

\* proc_switch_handler falls back on main_process when nothing is ready; once
\* a process has been dispatched that never happens, because the null process
\* is always there.
MainNotResumed == kernel.running = Main => InMain

\* Within a level, processes leave a queue in the order they entered it:
\* whoever is ahead of a waiting process was ahead of it before, in the ready
\* queue and while blocked.
NoOvertaking ==
    [][\A kind \in Kind, l \in Level :
         LET old == kernel.queue[kind][l]
             new == kernel'.queue[kind][l]
         IN  \A m, n \in DOMAIN new : m < n /\ Contains(old, new[n]) =>
                \E i, j \in DOMAIN old :
                   i < j /\ old[i] = new[m] /\ old[j] = new[n]]_vars
=============================================================================
