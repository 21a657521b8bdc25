------------------------------ MODULE Preempt ------------------------------
(***************************************************************************)
(* The brackets of the kernel at the level of the interrupt mask.  Modules *)
(* Scheduler and Rtx take a bracket as one step; here it is opened and     *)
(* closed by what atomic() does to atomic_status and to the status         *)
(* register, and the serial interrupt comes wherever the mask lets it.     *)
(*                                                                         *)
(* TRAP #1 and #2 change the count only: rte puts back the mask of their   *)
(* caller.  Every trap and interrupt saves the mask in the same way.  There *)
(* is no interrupt stack: a handler runs on the stack of the process it    *)
(* interrupts, and stays there if it switches to another process.          *)
(*                                                                         *)
(* "stack" has the handlers under way of each process, the innermost       *)
(* first; a process with none is in user mode.  Clients request, release   *)
(* and send blocks to the keyboard command decoder, which receives and     *)
(* releases them.  A handler is split where it reads what an interrupt may *)
(* change before it uses it; the steps of the dispatcher and of a single   *)
(* list operation are not told apart.  The timer is left out.              *)
(***************************************************************************)
EXTENDS Kernel, FiniteSetsExt

CONSTANTS
    Pibs,           \* the processes in the order of their creation
    Kcd,            \* the keyboard command decoder
    BlockOrder,     \* the memory blocks in the order of the initial list
    NoBlock,        \* no block
    Keys            \* how many characters are typed

ASSUME PreemptAssumption ==
    /\ Pibs \in Seq(Proc) /\ IsInjective(Pibs) /\ \A p \in Proc : Contains(Pibs, p)
    /\ Kcd \in Proc \ {NullProc}
    /\ BlockOrder \in Seq(ToSet(BlockOrder)) /\ IsInjective(BlockOrder)
    /\ ~Contains(BlockOrder, NoBlock)
    /\ Keys \in Nat

VARIABLES
    kernel,         \* the queues and running_process
    status,         \* atomic_status
    mask,           \* the interrupt level in the status register
    stack,          \* the handlers under way on the stack of each process
    available,      \* availableBlocks, oldest first
    held,           \* the blocks each process has a pointer to and may use
    mail,           \* the messages for the decoder in the mailbox
    keys            \* characters still to be typed

data == <<available, held, mail, keys>>
vars == <<kernel, status, mask, stack, data>>

MemBlock == ToSet(BlockOrder)
Open == 0                       \* 0x2000: every interrupt is let through
SerialLevel == 5                \* SERIAL1_ICR
Closed == 7                     \* 0x2700: none is

\* The handlers, and the points where an interrupt may find them.
HandlerCall == {"request", "release", "send", "receive", "uart", "switch"}
InBracket == {"body", "take", "taken", "state", "queue", "queued",
              "find", "remove", "ready", "stay", "yield", "deliver", "finish"}
Outside == {"up", "block", "retry", "unblock", "return", "switch"}

p0 == kernel.running
UserMode == stack[p0] = <<>>
Top == Head(stack[p0])
Frames(p) == ToSet(stack[p])

\* The handlers that have block b in their hands.
Carries(f, b) ==
    /\ f.block = b
    /\ \/ f.call = "request" /\ f.at \in {"taken", "return"}
       \/ f.call \in {"release", "send"} /\ f.at \in {"up", "body"}
       \/ f.call = "uart" /\ f.at = "deliver"

\* Who has block b: the free list, processes, the mailbox, handlers.
Holders(b) ==
    {<<"free", i>> : i \in {j \in DOMAIN available : available[j] = b}}
    \cup {<<"held", p>> : p \in {q \in Proc : b \in held[q]}}
    \cup {<<"mail", c>> : c \in mail \cap {b}}
    \cup UNION {{<<"stack", p, i>> : i \in {j \in DOMAIN stack[p] : Carries(stack[p][j], b)}}
                : p \in Proc}

Shared(b) == Cardinality(Holders(b)) > 1
Lost(b) == Holders(b) = {}

RunningIsReady == \E l \in Level : InQueue(kernel, "ready", l, p0)

\* Once a block is shared, or the running process is in the ready queue, the
\* lists are no longer what the sequences here stand for: the model stops.
Intact == ~RunningIsReady /\ \A b \in MemBlock : ~Shared(b)

InUser == UserMode /\ Intact
At(call, point) == ~UserMode /\ Top.at = point /\ Top.call \in call /\ Intact

\* initialize_processes, after the first n process initialization blocks.
Created[n \in 0..Len(Pibs)] ==
    IF n = 0
    THEN [running  |-> Main,
          state    |-> [p \in Proc |-> "new"],
          priority |-> InitPriority,
          queue    |-> [kind \in Kind |-> [l \in Level |-> <<>>]]]
    ELSE EnqueueProcess(Created[n - 1], "ready", Pibs[n])

\* The start: main has released the processor for the first time.
Init ==
    /\ kernel = ProcSwitch(Created[Len(Pibs)])
    /\ status = 0 /\ mask = Open
    /\ stack = [p \in Proc |-> <<>>]
    /\ available = BlockOrder
    /\ held = [p \in Proc |-> {}]
    /\ mail = {}
    /\ keys = Keys

-----------------------------------------------------------------------------
(* atomic(), the traps and the stack. *)

\* A handler is entered: "sr" is the mask its rte puts back, and "first" says
\* whether its bracket was opened by atomic_up at a count of 0.
Frame(call, point, b) ==
    [call |-> call, at |-> point, sr |-> mask, first |-> FALSE, block |-> b]

Push(f) == stack' = [stack EXCEPT ![p0] = <<f>> \o @]
GoTo(point) == stack' = [stack EXCEPT ![p0][1].at = point]

\* Below the handler that goes on at "point" later, f begins.
CallFrom(point, f) ==
    stack' = [stack EXCEPT ![p0] = <<f>> \o [@ EXCEPT ![1].at = point]]

\* Faulty: it only counts, like TRAP #1.
AtomicUpCounts(point) ==
    /\ status' = status + 1 /\ UNCHANGED mask
    /\ stack' = [stack EXCEPT ![p0][1].at = point, ![p0][1].first = status = 0]

AtomicUp(point) ==
    /\ status' = status + 1
    /\ mask' = IF status = 0 THEN Closed ELSE mask
    /\ stack' = [stack EXCEPT ![p0][1].at = point, ![p0][1].first = status = 0]

AtomicDown ==
    /\ status' = IF status > 0 THEN status - 1 ELSE 0
    /\ mask' = CASE status' = 0 -> Open [] status' = 1 -> Closed [] OTHER -> mask

Trap1(point) ==
    /\ status' = status + 1 /\ UNCHANGED mask
    /\ stack' = [stack EXCEPT ![p0][1].at = point, ![p0][1].first = FALSE]

Trap2 == status' = (IF status > 0 THEN status - 1 ELSE 0) /\ UNCHANGED mask

\* Faulty: rte leaves the mask as the handler had it.
ReturnMasked ==
    /\ At(HandlerCall \ {"request"}, "return")
    /\ stack' = [stack EXCEPT ![p0] = Tail(@)]
    /\ UNCHANGED <<kernel, status, mask, data>>

\* rte of any handler but request_memory_block.
Return ==
    /\ At(HandlerCall \ {"request"}, "return")
    /\ stack' = [stack EXCEPT ![p0] = Tail(@)]
    /\ mask' = Top.sr
    /\ UNCHANGED <<kernel, status, data>>

\* proc_switch_handler, on the stack of the process that is left.  A new
\* process starts in user mode; another one goes on where it was left.
Switch ==
    /\ At({"switch"}, "switch")
    /\ kernel' = ProcSwitch(kernel)
    /\ LET next == kernel'.running
       IN  IF kernel.state[next] = "new"
           THEN mask' = Open /\ UNCHANGED stack
           ELSE /\ mask' = Head(stack[next]).sr
                /\ stack' = [stack EXCEPT ![next] = Tail(@)]
    /\ UNCHANGED <<status, data>>

-----------------------------------------------------------------------------
(* Calls from user mode, and the serial interrupt. *)

\* The null process loops, and the decoder makes two calls of its own.
Client == p0 \notin {NullProc, Kcd} /\ InUser
Take(b) == b \in held[p0] /\ held' = [held EXCEPT ![p0] = @ \ {b}]

CallYield ==
    /\ Client
    /\ Push(Frame("switch", "switch", NoBlock))
    /\ UNCHANGED <<kernel, status, mask, data>>

CallRequest ==
    /\ Client
    /\ Push(Frame("request", "up", NoBlock))
    /\ UNCHANGED <<kernel, status, mask, data>>

CallRelease(b) ==
    /\ InUser /\ Take(b)
    /\ Push(Frame("release", "up", b))
    /\ UNCHANGED <<kernel, status, mask, available, mail, keys>>

CallSend(b) ==
    /\ Client /\ Take(b)
    /\ Push(Frame("send", "up", b))
    /\ UNCHANGED <<kernel, status, mask, available, mail, keys>>

CallReceive ==
    /\ p0 = Kcd /\ InUser
    /\ Push(Frame("receive", "up", NoBlock))
    /\ UNCHANGED <<kernel, status, mask, data>>

SerialInterrupt ==
    /\ mask < SerialLevel /\ keys > 0 /\ Intact
    /\ keys' = keys - 1
    /\ Push(Frame("uart", "up", NoBlock))
    /\ mask' = SerialLevel
    /\ UNCHANGED <<kernel, status, available, held, mail>>

\* Every handler begins with atomic_up.
Begin ==
    /\ At(HandlerCall, "up")
    /\ AtomicUp("body")
    /\ UNCHANGED <<kernel, data>>

-----------------------------------------------------------------------------
(* block_process of the running process. *)

Block ==
    /\ At(HandlerCall, "block")
    /\ Trap1("state")
    /\ UNCHANGED <<kernel, data>>

BlockSetsState ==
    /\ At(HandlerCall, "state")
    /\ kernel' = [kernel EXCEPT !.state[p0] =
                     BlockedState(IF Top.call = "request" THEN "mem" ELSE "msg")]
    /\ GoTo("queue")
    /\ UNCHANGED <<status, mask, data>>

BlockEnqueues ==
    /\ At(HandlerCall, "queue")
    /\ kernel' = EnqueueProcess(kernel, IF Top.call = "request" THEN "mem" ELSE "msg", p0)
    /\ GoTo("queued")
    /\ UNCHANGED <<status, mask, data>>

\* Afterwards request_memory_block looks again and receive_message returns.
BlockReleasesProcessor ==
    /\ At(HandlerCall, "queued")
    /\ Trap2
    /\ CallFrom(IF Top.call = "request" THEN "retry" ELSE "return",
                Frame("switch", "switch", NoBlock))
    /\ UNCHANGED <<kernel, data>>

(* The end of the unblock functions. *)

Outranked(p) == IF kernel.priority[p] < kernel.priority[p0] THEN "yield" ELSE "stay"

UnblockStays ==
    /\ At(HandlerCall, "stay")
    /\ Trap2 /\ GoTo("return")
    /\ UNCHANGED <<kernel, data>>

UnblockYields ==
    /\ At(HandlerCall, "yield")
    /\ Trap2 /\ CallFrom("return", Frame("switch", "switch", NoBlock))
    /\ UNCHANGED <<kernel, data>>

-----------------------------------------------------------------------------
(* request_memory_block. *)

Request ==
    /\ At({"request"}, "body")
    /\ IF available = <<>>
       THEN AtomicDown /\ GoTo("block")
       ELSE /\ stack' = [stack EXCEPT ![p0][1].at = "take",
                                      ![p0][1].block = Head(available)]
            /\ UNCHANGED <<status, mask>>
    /\ UNCHANGED <<kernel, data>>

\* dequeue_mem_block takes what is first in the list by now.
RequestTakes ==
    /\ At({"request"}, "take")
    /\ available' = IF available = <<>> THEN <<>> ELSE Tail(available)
    /\ GoTo("taken")
    /\ UNCHANGED <<kernel, status, mask, held, mail, keys>>

RequestCloses ==
    /\ At({"request"}, "taken")
    /\ Trap2 /\ GoTo("return")
    /\ UNCHANGED <<kernel, data>>

\* Faulty: it does not look again whether there is a block by now.
RequestRetriesBlindly ==
    /\ At({"request"}, "retry")
    /\ status' = status + 1 /\ UNCHANGED mask
    /\ stack' = [stack EXCEPT ![p0][1].at = "take", ![p0][1].first = FALSE,
                     ![p0][1].block = IF available = <<>> THEN NoBlock ELSE Head(available)]
    /\ UNCHANGED <<kernel, data>>

\* The bracket is opened again by TRAP #1.
RequestRetries ==
    /\ At({"request"}, "retry")
    /\ Trap1("body")
    /\ UNCHANGED <<kernel, data>>

\* The block goes to the process, or to the interrupt handler that asked.
RequestReturns ==
    /\ At({"request"}, "return")
    /\ IF Len(stack[p0]) = 1
       THEN /\ stack' = [stack EXCEPT ![p0] = Tail(@)]
            /\ held' = [held EXCEPT ![p0] = @ \cup {Top.block}]
       ELSE /\ stack' = [stack EXCEPT ![p0] = [Tail(@) EXCEPT ![1].block = Top.block]]
            /\ UNCHANGED held
    /\ mask' = Top.sr
    /\ UNCHANGED <<kernel, status, available, mail, keys>>

(* release_memory_block, by the owner of the block. *)

\* Faulty: the block is not put in the list of available blocks.
ReleaseForgets ==
    /\ At({"release"}, "body")
    /\ AtomicDown /\ GoTo("unblock")
    /\ UNCHANGED <<kernel, data>>

Release ==
    /\ At({"release"}, "body")
    /\ available' = Append(available, Top.block)
    /\ AtomicDown /\ GoTo("unblock")
    /\ UNCHANGED <<kernel, held, mail, keys>>

ReleaseUnblocks ==
    /\ At({"release"}, "unblock")
    /\ Trap1("find")
    /\ UNCHANGED <<kernel, data>>

ReleaseReadies ==
    /\ At({"release"}, "find")
    /\ kernel' = UnblockProcessByType(kernel, "mem", FALSE)
    /\ GoTo(IF IsEmpty(kernel, "mem") THEN "stay" ELSE Outranked(FirstBlocked(kernel, "mem")))
    /\ UNCHANGED <<status, mask, data>>

-----------------------------------------------------------------------------
(* send_message to the decoder.  A process that is refused keeps its block; *)
(* the interrupt handler does not look at the result.                       *)

Send ==
    /\ At({"send"}, "body")
    /\ AtomicDown
    /\ IF IsPidValid(kernel, Kcd)
       THEN mail' = mail \cup {Top.block} /\ GoTo("unblock") /\ UNCHANGED held
       ELSE /\ held' = IF Len(stack[p0]) = 1 THEN [held EXCEPT ![p0] = @ \cup {Top.block}]
                       ELSE held
            /\ GoTo("return") /\ UNCHANGED mail
    /\ UNCHANGED <<kernel, available, keys>>

SendUnblocks ==
    /\ At({"send"}, "unblock")
    /\ Trap1("find")
    /\ UNCHANGED <<kernel, data>>

\* Faulty: it is not checked whether the decoder is blocked.
SendFindsAlways ==
    /\ At({"send"}, "find")
    /\ GoTo("remove")
    /\ UNCHANGED <<kernel, status, mask, data>>

SendFinds ==
    /\ At({"send"}, "find")
    /\ GoTo(IF IsProcessBlocked(kernel, Kcd) THEN "remove" ELSE "stay")
    /\ UNCHANGED <<kernel, status, mask, data>>

SendRemoves ==
    /\ At({"send"}, "remove")
    /\ kernel' = RemoveProcess(kernel, Kcd)
    /\ GoTo("ready")
    /\ UNCHANGED <<status, mask, data>>

SendReadies ==
    /\ At({"send"}, "ready")
    /\ kernel' = EnqueueProcess([kernel EXCEPT !.state[Kcd] = "ready"], "ready", Kcd)
    /\ GoTo(Outranked(Kcd))
    /\ UNCHANGED <<status, mask, data>>

(* receive_message. *)

Receive ==
    /\ At({"receive"}, "body")
    /\ AtomicDown
    /\ IF mail = {}
       THEN GoTo("block") /\ UNCHANGED <<held, mail>>
       ELSE /\ \E b \in mail :
                  /\ held' = [held EXCEPT ![p0] = @ \cup {b}]
                  /\ mail' = mail \ {b}
            /\ GoTo("return")
    /\ UNCHANGED <<kernel, available, keys>>

-----------------------------------------------------------------------------
(* uart_handler. *)

\* Faulty: it returns at once when no block is available.
UartDropsEarly ==
    /\ At({"uart"}, "body") /\ available = <<>>
    /\ GoTo("return")
    /\ UNCHANGED <<kernel, status, mask, data>>

UartDrops ==
    /\ At({"uart"}, "body") /\ available = <<>>
    /\ AtomicDown /\ GoTo("return")
    /\ UNCHANGED <<kernel, data>>

UartRequests ==
    /\ At({"uart"}, "body") /\ available # <<>>
    /\ CallFrom("deliver", Frame("request", "up", NoBlock))
    /\ UNCHANGED <<kernel, status, mask, data>>

UartSends ==
    /\ At({"uart"}, "deliver")
    /\ CallFrom("finish", Frame("send", "up", Top.block))
    /\ UNCHANGED <<kernel, status, mask, data>>

UartReturns ==
    /\ At({"uart"}, "finish")
    /\ AtomicDown /\ GoTo("return")
    /\ UNCHANGED <<kernel, data>>

-----------------------------------------------------------------------------
Next ==
    \/ CallYield \/ CallRequest \/ CallReceive \/ Begin \/ Return \/ Switch
    \/ \E b \in MemBlock : CallRelease(b) \/ CallSend(b)
    \/ Block \/ BlockSetsState \/ BlockEnqueues \/ BlockReleasesProcessor
    \/ UnblockStays \/ UnblockYields
    \/ Request \/ RequestTakes \/ RequestCloses \/ RequestRetries \/ RequestReturns
    \/ Release \/ ReleaseUnblocks \/ ReleaseReadies
    \/ Send \/ SendUnblocks \/ SendFinds \/ SendRemoves \/ SendReadies \/ Receive
    \/ SerialInterrupt \/ UartDrops \/ UartRequests \/ UartSends \/ UartReturns

Spec == Init /\ [][Next]_vars

-----------------------------------------------------------------------------
(* Properties. *)

PreemptTypeOK ==
    /\ kernel \in KernelType /\ p0 \in Proc
    /\ status \in Nat /\ mask \in {Open, SerialLevel, Closed}
    /\ \A p \in Proc : \A f \in Frames(p) :
          /\ f.call \in HandlerCall /\ f.at \in InBracket \cup Outside
          /\ f.sr \in {Open, SerialLevel, Closed} /\ f.first \in BOOLEAN
          /\ f.block \in MemBlock \cup {NoBlock}
    /\ available \in Seq(MemBlock) /\ mail \subseteq MemBlock
    /\ held \in [Proc -> SUBSET MemBlock] /\ keys \in 0..Keys

\* Where a bracket is open: which process, and how many handlers are below.
OpenBrackets ==
    UNION {{<<p, n>> : n \in {m \in 0..(Len(stack[p]) - 1) :
                                stack[p][Len(stack[p]) - m].at \in InBracket}} : p \in Proc}

\* atomic_status is the number of brackets open on all stacks together, those
\* of handlers that were left by a switch included.
CountMatches == status = Cardinality(OpenBrackets)

\* However the brackets nest, interrupts are never left masked: in user mode
\* every one is let through.
UserModeOpen == UserMode => mask = Open

\* A bracket of one primitive that atomic_up opened at a count of 0 is never
\* interrupted.
FirstBracketExcludes ==
    \A p \in Proc : \A f \in Frames(p) :
        f.first /\ f.at \in InBracket /\ f.call # "uart" =>
            p = p0 /\ f = Top /\ mask = Closed

\* A block is handed out a second time only by an allocation whose bracket was
\* not opened by atomic_up at a count of 0: one that has waited, or that runs
\* with the count of an interrupt handler left behind.
SharedAfterOpenBracketOnly ==
    [][\A b \in MemBlock : ~Shared(b) /\ Shared(b)' =>
          At({"request"}, "take") /\ Top.block = b /\ ~Top.first]_vars

\* A running process is put into the ready queue only while it is itself in
\* block_process, from there on where it has changed its state.
ReadiedWhileBlockingOnly ==
    [][~RunningIsReady /\ RunningIsReady' =>
          \E f \in Frames(p0) : f.at \in {"queue", "queued", "retry", "return"}
                                /\ f.call \in {"request", "receive"}]_vars

\* A block is lost only when the serial interrupt has come while the decoder,
\* being made ready by a sender, is in no queue; or when an allocation takes
\* one block from the list and hands out another.
LostWhileReadyingOnly ==
    [][\A b \in MemBlock : ~Lost(b) /\ Lost(b)' =>
          \/ \E p \in Proc : \E f \in Frames(p) : f.call = "send" /\ f.at = "ready"
          \/ At({"request"}, "take") /\ Top.block # b]_vars

\* "turn on atomic mode so interupts won't, well, interupt!" (mem.c:203): no
\* block is handed out twice.
NoBlockShared == \A b \in MemBlock : ~Shared(b)
=============================================================================
