--------------------------------- MODULE Rtx ---------------------------------
(***************************************************************************)
(* The kernel as a whole: module Scheduler with the memory blocks of       *)
(* mm/mem.c, the mailboxes of messaging/messaging.c, the timer interrupt   *)
(* of timer/timer.c and the serial interrupt of io/uart.c.                 *)
(*                                                                         *)
(* A process calls the primitives in any order, with blocks it holds.      *)
(* Where a primitive closes its TRAP #1/#2 or atomic_up/atomic_down        *)
(* bracket and opens another one, an interrupt can come in between; "at"   *)
(* says where in a primitive each process is:                              *)
(*                                                                         *)
(*   run        outside the primitives                                     *)
(*   mem_gap    request_memory_block found nothing, is about to block      *)
(*   mem        blocked there; will look again when it resumes             *)
(*   recv_gap   receive_message found nothing, is about to block           *)
(*   recv       blocked there; will look again when it resumes             *)
(*   rel_gap    release_memory_block is about to unblock a waiter          *)
(*   send_gap   send_message is about to unblock the receiver              *)
(***************************************************************************)
EXTENDS Scheduler, FiniteSets

CONSTANTS
    MemBlock,       \* the memory blocks
    BlockOrder,     \* the same, in the order of the initial list
    NoBlock,        \* NULL in a mailbox
    NoOwner,        \* pid -1 of a free block
    Kcd,            \* the process the serial interrupt sends to
    Receivers,      \* the processes messages are sent to
    Ending,         \* the processes whose body may return
    Delays          \* the delays tried in delayed_send

ASSUME BlockAssumption ==
    /\ IsFiniteSet(MemBlock) /\ NoBlock \notin MemBlock
    /\ BlockOrder \in Seq(MemBlock) /\ Len(BlockOrder) = Cardinality(MemBlock)
    /\ \A b \in MemBlock : Contains(BlockOrder, b)
ASSUME ReceiverAssumption ==
    /\ NoOwner \notin Proc
    /\ Kcd \in Proc \ {NullProc} /\ Receivers \subseteq Proc \ {NullProc}
    /\ Delays \subseteq Nat /\ Ending \subseteq Proc \ {NullProc}

VARIABLES
    available,      \* availableBlocks, oldest first
    used,           \* usedBlocks
    owner,          \* the pid field of each block's memBlock
    rx,             \* the receiver in each envelope
    left,           \* send_time - ticks of each envelope
    mailbox,        \* the mailbox array
    delayed,        \* the delayed_mailbox array
    scan,           \* check_existing_delayed_message: its index i
    at,             \* where in a primitive each process is
    to,             \* send_gap: the receiver
    held            \* the blocks each process has a pointer to and may use

memVars  == <<available, used, owner>>
mailVars == <<rx, left, mailbox, delayed>>
callVars == <<at, to>>
dataVars == <<memVars, mailVars, scan, callVars, held>>
rtxVars  == <<vars, dataVars>>

Slot == 1..Cardinality(MemBlock)           \* MEM_BLOCK_COUNT entries

\* Times further back than this one, which is later than any message may be
\* delivered (OnTime), are not told apart.
Past == -(Cardinality(MemBlock) + 1)

Point == {"run", "mem_gap", "mem", "recv_gap", "recv", "rel_gap", "send_gap"}

RtxInit ==
    /\ Init
    /\ available = BlockOrder
    /\ used = {}
    /\ owner = [b \in MemBlock |-> NoOwner]
    /\ rx = [b \in MemBlock |-> NullProc]
    /\ left = [b \in MemBlock |-> Past]
    /\ mailbox = [i \in Slot |-> NoBlock]
    /\ delayed = [i \in Slot |-> NoBlock]
    /\ scan = 0
    /\ at = [p \in Proc |-> "run"]
    /\ to = [p \in Proc |-> NullProc]
    /\ held = [p \in Proc |-> {}]

-----------------------------------------------------------------------------
(* The mailbox arrays. *)

InBox(box, b) == \E i \in Slot : box[i] = b

\* The first free entry, or none if the array is full.
FirstFree(box) ==
    {i \in Slot : box[i] = NoBlock /\ \A j \in 1..(i - 1) : box[j] # NoBlock}

Put(box, b) == [i \in Slot |-> IF i \in FirstFree(box) THEN b ELSE box[i]]

\* The end of the run of messages that starts at entry i: the first free
\* entry after i, or the end of the array.
RunEnd(box, i) ==
    CHOOSE k \in (i + 1)..(Cardinality(MemBlock) + 1) :
        /\ k \in Slot => box[k] = NoBlock
        /\ \A j \in (i + 1)..(k - 1) : box[j] # NoBlock

\* Faulty: what follows is not moved up.
TakeWithoutShift(box, i) == [box EXCEPT ![i] = NoBlock]

\* Entry i is taken out, and the run of messages after it moves up.
Take(box, i) ==
    [j \in Slot |-> IF j \notin i..(RunEnd(box, i) - 1) THEN box[j]
                    ELSE IF j + 1 < RunEnd(box, i) THEN box[j + 1] ELSE NoBlock]

\* Faulty: receive_message takes the newest of its messages.
LastMail(p) ==
    {i \in Slot : /\ mailbox[i] # NoBlock /\ rx[mailbox[i]] = p
                  /\ \A j \in (i + 1)..Cardinality(MemBlock) :
                        mailbox[j] # NoBlock => rx[mailbox[j]] # p}

\* The entry receive_message finds for p; the search ends at a free entry.
FirstMail(p) ==
    {i \in Slot : /\ mailbox[i] # NoBlock /\ rx[mailbox[i]] = p
                  /\ \A j \in 1..(i - 1) :
                        mailbox[j] # NoBlock /\ rx[mailbox[j]] # p}

-----------------------------------------------------------------------------
(* The running process. *)

Running(p, points) ==
    /\ Calling /\ kernel.running = p
    /\ at[p] \in points

GoTo(p, point) == at' = [at EXCEPT ![p] = point] /\ UNCHANGED to

Yield(p) ==
    /\ Running(p, {"run"})
    /\ ReleaseProcessor
    /\ UNCHANGED dataVars

ChangePriority(p, q, n) ==
    /\ Running(p, {"run"})
    /\ SetPriority(q, n)
    /\ UNCHANGED dataVars

\* request_memory_block, from its "while" on.
Request(p) ==
    /\ Running(p, {"run", "mem"}) /\ available # <<>>
    /\ available' = Tail(available)
    /\ used' = used \cup {Head(available)}
    /\ owner' = [owner EXCEPT ![Head(available)] = p]
    /\ held' = [held EXCEPT ![p] = @ \cup {Head(available)}]
    /\ GoTo(p, "run")
    /\ UNCHANGED <<vars, mailVars, scan>>

RequestFindsNone(p) ==
    /\ Running(p, {"run", "mem"}) /\ available = <<>>
    /\ GoTo(p, "mem_gap")
    /\ UNCHANGED <<vars, memVars, mailVars, scan, held>>

RequestBlocks(p) ==
    /\ Running(p, {"mem_gap"})
    /\ Block("mem")
    /\ GoTo(p, "mem")
    /\ UNCHANGED <<memVars, mailVars, scan, held>>

\* Faulty: anybody may release any block in use.
MayReleaseAny(p, b) == b \in used

\* remove_mem_block finds the block and its owner is the caller.
MayRelease(p, b) == b \in used /\ owner[b] = p

\* release_memory_block, of a block the process holds or of one it only has
\* an old pointer to.  It is taken not to touch a message on its way to it.
Release(p, b) ==
    /\ Running(p, {"run"})
    /\ owner[b] = p => b \in held[p]
    /\ MayRelease(p, b)
    /\ used' = used \ {b}
    /\ available' = Append(available, b)
    /\ owner' = [owner EXCEPT ![b] = NoOwner]
    /\ rx' = [rx EXCEPT ![b] = NullProc]        \* zero_memory
    /\ left' = [left EXCEPT ![b] = Past]
    /\ held' = [held EXCEPT ![p] = @ \ {b}]
    /\ GoTo(p, "rel_gap")
    /\ UNCHANGED <<vars, mailbox, delayed, scan>>

\* Faulty: a process waiting for a message is woken instead.
ReleaseUnblocksReceiver(p) ==
    /\ Running(p, {"rel_gap"})
    /\ IF IsEmpty(kernel, "msg") THEN UNCHANGED vars ELSE UnblockByType("msg")
    /\ GoTo(p, "run")
    /\ UNCHANGED <<memVars, mailVars, scan, held>>

ReleaseUnblocks(p) ==
    /\ Running(p, {"rel_gap"})
    /\ IF IsEmpty(kernel, "mem") THEN UNCHANGED vars ELSE UnblockByType("mem")
    /\ GoTo(p, "run")
    /\ UNCHANGED <<memVars, mailVars, scan, held>>

\* The header is filled in and the block handed over to the receiver.
Address(p, b, q) ==
    /\ b \in held[p] /\ IsPidValid(kernel, q)
    /\ rx' = [rx EXCEPT ![b] = q]
    /\ owner' = [owner EXCEPT ![b] = q]
    /\ held' = [held EXCEPT ![p] = @ \ {b}]

Send(p, b, q) ==
    /\ Running(p, {"run"})
    /\ Address(p, b, q)
    /\ mailbox' = Put(mailbox, b)
    /\ at' = [at EXCEPT ![p] = "send_gap"]
    /\ to' = [to EXCEPT ![p] = q]
    /\ UNCHANGED <<vars, available, used, left, delayed, scan>>

\* Faulty: the sender is unblocked instead of the receiver.
SendUnblocksSender(p) ==
    /\ Running(p, {"send_gap"})
    /\ UnblockByPid(p)
    /\ at' = [at EXCEPT ![p] = "run"]
    /\ to' = [to EXCEPT ![p] = NullProc]
    /\ UNCHANGED <<memVars, mailVars, scan, held>>

SendUnblocks(p) ==
    /\ Running(p, {"send_gap"})
    /\ UnblockByPid(to[p])
    /\ at' = [at EXCEPT ![p] = "run"]
    /\ to' = [to EXCEPT ![p] = NullProc]
    /\ UNCHANGED <<memVars, mailVars, scan, held>>

DelayedSend(p, b, q, d) ==
    /\ Running(p, {"run"})
    /\ Address(p, b, q)
    /\ left' = [left EXCEPT ![b] = d]
    /\ delayed' = Put(delayed, b)
    /\ UNCHANGED <<vars, available, used, mailbox, scan, callVars>>

Receive(p) ==
    /\ Running(p, {"run", "recv"})
    /\ \E i \in FirstMail(p) :
          /\ held' = [held EXCEPT ![p] = @ \cup {mailbox[i]}]
          /\ mailbox' = Take(mailbox, i)
    /\ GoTo(p, "run")
    /\ UNCHANGED <<vars, memVars, rx, left, delayed, scan>>

ReceiveFindsNone(p) ==
    /\ Running(p, {"run", "recv"}) /\ FirstMail(p) = {}
    /\ GoTo(p, "recv_gap")
    /\ UNCHANGED <<vars, memVars, mailVars, scan, held>>

ReceiveBlocks(p) ==
    /\ Running(p, {"recv_gap"})
    /\ Block("msg")
    /\ GoTo(p, "recv")
    /\ UNCHANGED <<memVars, mailVars, scan, held>>

-----------------------------------------------------------------------------
(* The interrupts. *)

Tick ==
    /\ TimerEnter
    /\ left' = [b \in MemBlock |-> IF left[b] = Past THEN Past ELSE left[b] - 1]
    /\ scan' = 1
    /\ UNCHANGED <<memVars, rx, mailbox, delayed, callVars, held>>

\* Faulty: the comparison is off by one.
DueEarly(i) == delayed[i] # NoBlock /\ left[delayed[i]] <= 1

\* Faulty: a message is due at one tick only.
DueNow(i) == delayed[i] # NoBlock /\ left[delayed[i]] = 0

Due(i) == delayed[i] # NoBlock /\ left[delayed[i]] <= 0

\* Faulty: the index is moved back one too many.
NextScanBack(i) ==
    IF RunEnd(delayed, i) \in Slot /\ RunEnd(delayed, i) # i + 1 THEN i - 1 ELSE i + 1

\* The next value of i: it stays when messages moved up, except when they
\* moved up from the last entry of the array.
NextScan(i) ==
    IF RunEnd(delayed, i) \in Slot /\ RunEnd(delayed, i) # i + 1 THEN i ELSE i + 1

\* Faulty: the receiver is looked up in the delayed mailbox after the shift.
TickDeliversWakesNext(b) ==
    /\ isr # Idle /\ scan \in Slot /\ Due(scan) /\ delayed[scan] = b
    /\ mailbox' = Put(mailbox, b)
    /\ delayed' = Take(delayed, scan)
    /\ scan' = NextScan(scan)
    /\ IF delayed'[scan] # NoBlock /\ IsProcessBlocked(kernel, rx[delayed'[scan]])
       THEN TimerUnblock(rx[delayed'[scan]]) ELSE UNCHANGED vars
    /\ UNCHANGED <<memVars, rx, left, callVars, held>>

\* One round of the loop of check_existing_delayed_message.  The mailbox has
\* room: BlockAccounting.
TickDelivers(b) ==
    /\ isr # Idle /\ scan \in Slot /\ Due(scan) /\ delayed[scan] = b
    /\ mailbox' = Put(mailbox, b)
    /\ delayed' = Take(delayed, scan)
    /\ scan' = NextScan(scan)
    /\ IF IsProcessBlocked(kernel, rx[b]) THEN TimerUnblock(rx[b]) ELSE UNCHANGED vars
    /\ UNCHANGED <<memVars, rx, left, callVars, held>>

TickSkips ==
    /\ isr # Idle /\ scan \in Slot /\ ~Due(scan)
    /\ scan' = scan + 1
    /\ UNCHANGED <<vars, memVars, mailVars, callVars, held>>

\* Faulty: the interrupt returns to whoever it interrupted.
TickEndsWithoutSwitch ==
    /\ scan \notin Slot /\ TimerExitWithoutSwitch
    /\ scan' = 0
    /\ UNCHANGED <<memVars, mailVars, callVars, held>>

TickEnds ==
    /\ scan \notin Slot /\ TimerExit
    /\ scan' = 0
    /\ UNCHANGED <<memVars, mailVars, callVars, held>>

\* uart_handler: the character goes to the keyboard command decoder, unless
\* there is no block to send it in.
SerialInterrupt ==
    /\ Booted /\ isr = Idle /\ available # <<>>
    /\ available' = Tail(available)
    /\ used' = used \cup {Head(available)}
    /\ owner' = [owner EXCEPT ![Head(available)] = Kcd]
    /\ rx' = [rx EXCEPT ![Head(available)] = Kcd]
    /\ mailbox' = Put(mailbox, Head(available))
    /\ UnblockByPid(Kcd)
    /\ UNCHANGED <<left, delayed, scan, callVars, held>>

\* main, before the first process runs.
Boot ==
    /\ CreateProcess \/ EnterMain \/ (kernel.running = Main /\ ReleaseProcessor)
    /\ UNCHANGED dataVars

\* process_bootstrap: the body of the process has returned, with whatever blocks
\* the process had, ...
Ends(p) ==
    /\ Running(p, {"run"})
    /\ TerminateProcess
    /\ UNCHANGED dataVars

\* ... and another one is to run.
EndReleases ==
    /\ kernel.running = NoProc
    /\ ReleaseProcessor
    /\ UNCHANGED dataVars

-----------------------------------------------------------------------------
RtxNext ==
    \/ Boot
    \/ \E p \in Ending : Ends(p)
    \/ EndReleases
    \/ \E p \in Proc :
          \/ Yield(p)
          \/ \E q \in Proc, n \in PriorityArg : ChangePriority(p, q, n)
          \/ Request(p) \/ RequestFindsNone(p) \/ RequestBlocks(p)
          \/ \E b \in MemBlock : Release(p, b)
          \/ ReleaseUnblocks(p)
          \/ \E b \in MemBlock, q \in Receivers : Send(p, b, q)
          \/ SendUnblocks(p)
          \/ \E b \in MemBlock, q \in Receivers, d \in Delays : DelayedSend(p, b, q, d)
          \/ Receive(p) \/ ReceiveFindsNone(p) \/ ReceiveBlocks(p)
    \/ Tick \/ TickSkips \/ TickEnds
    \/ \E b \in MemBlock : TickDelivers(b)
    \/ SerialInterrupt

RtxSpec == RtxInit /\ [][RtxNext]_rtxVars

\* The timer keeps interrupting, and its handler runs to its end.
TimerFairness ==
    /\ WF_rtxVars(Tick)
    /\ WF_rtxVars(TickSkips \/ TickEnds \/ \E b \in MemBlock : TickDelivers(b))

RtxFairSpec == RtxSpec /\ TimerFairness

-----------------------------------------------------------------------------
(* Properties. *)

\* The entries of s that are in S, in their order.  It is defined by itself because
\* theorems are proved about it, which SelectSeq does not allow.
Among(s, S) ==
    LET upto[i \in 0..Len(s)] == IF i = 0 THEN <<>>
                                 ELSE IF s[i] \in S THEN Append(upto[i - 1], s[i])
                                 ELSE upto[i - 1]
    IN  upto[Len(s)]

\* Every variable keeps its type; the index of the timer interrupt stays in
\* the array while the interrupt lasts.
RtxTypeOK ==
    /\ TypeOK
    /\ available \in Seq(MemBlock) /\ used \subseteq MemBlock
    /\ owner \in [MemBlock -> Proc \cup {NoOwner}]
    /\ rx \in [MemBlock -> Proc] /\ left \in [MemBlock -> Int]
    /\ mailbox \in [Slot -> MemBlock \cup {NoBlock}]
    /\ delayed \in [Slot -> MemBlock \cup {NoBlock}]
    /\ scan \in 0..(Cardinality(MemBlock) + 1) /\ (scan = 0 <=> isr = Idle)
    /\ at \in [Proc -> Point] /\ to \in [Proc -> Proc]
    /\ held \in [Proc -> SUBSET MemBlock]

Places(b) ==
    Cardinality({i \in DOMAIN available : available[i] = b})
    + Cardinality({i \in Slot : mailbox[i] = b})
    + Cardinality({i \in Slot : delayed[i] = b})
    + Cardinality({p \in Proc : b \in held[p]})

\* No block is lost or handed out twice: it is free, or in one mailbox, or
\* held by one process, and its owner is the one who may use it next.
BlockAccounting ==
    /\ \A b \in MemBlock : Places(b) = 1
    /\ used = MemBlock \ ToSet(available)
    /\ \A b \in MemBlock :
          /\ Contains(available, b) => owner[b] = NoOwner
          /\ InBox(mailbox, b) \/ InBox(delayed, b) => owner[b] = rx[b]
          /\ \A p \in Proc : b \in held[p] => owner[b] = p

\* receive_message and the shift loops stop at the first free entry, so there
\* must be no message behind one.
NoHoles ==
    \A i, j \in Slot : i < j =>
        /\ mailbox[j] # NoBlock => mailbox[i] # NoBlock
        /\ delayed[j] # NoBlock => delayed[i] # NoBlock

\* A delayed message is in the mailbox no earlier than its send_time.  It leaves
\* the delayed mailbox at the first tick from then on (which may come one late:
\* a delay of 0 asks for the tick that has just been), or as many ticks later
\* as it was skipped, each time on the way to a lower entry of the array: at
\* most Cardinality(MemBlock) - 1 times.
OnTime ==
    \A i \in Slot :
        /\ mailbox[i] # NoBlock => left[mailbox[i]] <= 0
        /\ delayed[i] # NoBlock => left[delayed[i]] >= i - 1 - Cardinality(MemBlock)

\* There is mail for p, p is blocked on mail, and nobody is about to wake it.
Overslept(p) ==
    /\ kernel.state[p] = "blocked_msg"
    /\ \E i \in Slot : mailbox[i] # NoBlock /\ rx[mailbox[i]] = p
    /\ \A q \in Proc : ~(at[q] = "send_gap" /\ to[q] = p)

\* The one way to oversleep a message is to block after it has arrived in the
\* gap of receive_message: no other step of anybody leaves a receiver asleep.
OversleepsInGapOnly ==
    [][\A p \in Proc : ~Overslept(p) /\ Overslept(p)' => at[p] = "recv_gap"]_rtxVars

\* The processes that are about to wake a waiter for memory, or that have been
\* woken and will take a block when they run.
Wakers == {q \in Proc : at[q] = "rel_gap"}
          \cup {q \in Proc : at[q] = "mem" /\ kernel.state[q] = "ready"}

\* Somebody waits for memory though there is a block for which nobody comes.
MemoryOverslept == ~IsEmpty(kernel, "mem") /\ Len(available) > Cardinality(Wakers)

\* The same of request_memory_block.
StarvesInGapOnly ==
    [][~MemoryOverslept /\ MemoryOverslept' =>
          \E p \in Proc : at[p] = "mem_gap" /\ at'[p] = "mem"]_rtxVars

\* What a process had when it ended, and what is sent to it, stays its own for ever:
\* only the owner may release a block, and nothing returns its blocks for it.
DeadKeepTheirBlocks ==
    [][\A p \in terminated, b \in MemBlock :
          owner[b] = p => owner'[b] = p]_rtxVars

\* The primitives and interrupts move processes between the queues only in the
\* ways module Scheduler describes, so its invariants are theirs too.
ImplementsScheduler == Spec

\* The messages for each process, oldest first, and who will get those that wait for
\* their time.
Inbox == [p \in Proc |-> Among(mailbox, {b \in MemBlock : rx[b] = p})]
Later == [b \in {delayed[i] : i \in Slot} \ {NoBlock} |-> rx[b]]

\* The mailbox arrays, with their shifting, implement inboxes that deliver
\* each message once, in order of arrival.
Post == INSTANCE Post WITH inbox <- Inbox, later <- Later
ImplementsPost == Post!PostSpec

\* A delayed message does not stay in the delayed mailbox for ever.
DelayedArrives ==
    \A b \in MemBlock : InBox(delayed, b) ~> InBox(mailbox, b)

\* "Block the process if the location is not found" (messaging.c:254): a
\* receiver is not put to sleep while there is mail for it.
NoOversleeping == \A p \in Proc : ~Overslept(p)

\* "if something was shifted back, we also need to shift i back"
\* (messaging.c:428), so that a tick delivers every message that is due.
TickDeliversAll ==
    [][TickEnds => \A i \in Slot : ~Due(i)]_rtxVars
=============================================================================
