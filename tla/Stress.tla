------------------------------ MODULE Stress ------------------------------
(***************************************************************************)
(* The stress processes of stress/stress.c with the console: stress_a      *)
(* sends numbered messages as fast as it gets blocks, stress_b hands them  *)
(* on, and stress_c, at every twentieth, announces itself on the CRT and   *)
(* sleeps, keeping what comes meanwhile in a queue of its own.             *)
(*                                                                         *)
(* Their places in their programs are those of module Console and          *)
(*                                                                         *)
(*   yield    about to release the processor                               *)
(*   dequeue  stress_c: about to take a message from its own queue         *)
(*   sleep    stress_c: in the receive_message of its inner loop           *)
(*   stale    stress_c: about to release "hibernate"                       *)
(***************************************************************************)
EXTENDS Console

CONSTANTS
    StressA, StressB, StressC,
    Period,             \* 20: every so many messages stress_c sleeps
    Sleep,              \* 10 seconds, in ticks
    Announcement        \* "Process C"

Stressed == {StressA, StressB, StressC}

ASSUME StressAssumption ==
    /\ Stressed \subseteq Proc \ (Client \cup {NullProc}) /\ Cardinality(Stressed) = 3
    /\ Period \in Nat \ {0} /\ Sleep \in Nat
    /\ Announcement \in Seq(STRING)

VARIABLES
    num,        \* stress_a's counter, modulo Period; -1 before it counts
    number,     \* the number in each block that carries one
    local,      \* stress_c's own queue
    hibernate,  \* its pointer to the message that wakes it
    damaged,    \* a block has been released that lies in a mailbox
    seen        \* history: the number stress_c is to see next

stressLocal == <<num, number, local, hibernate, damaged, seen>>
stressVars  == <<consoleVars, stressLocal>>

COUNT_REPORT == 4
WAKEUP10 == 5
Start == <<"%", "Z">>

StressInit ==
    /\ ProgramInit({Prio, StressA})
    /\ num = -1 /\ number = [b \in MemBlock |-> 0]
    /\ local = <<>> /\ hibernate = NoBlock
    /\ damaged = FALSE /\ seen = 0

\* The rest of the console's variables, which the stress processes leave alone.
Elsewhere == <<line, cmds, pos, char_out, reply, userVars, historyVars>>

-----------------------------------------------------------------------------
(* stress_a. *)

ARegisters ==
    /\ pc[StressA] = "fill" /\ num = -1
    /\ Register(StressA, new[StressA], Start)
    /\ GoOn(StressA, "receive")
    /\ UNCHANGED <<msg, new, Elsewhere, stressLocal>>

\* It waits for its command, and releases whatever else it gets.
AStarts ==
    /\ pc[StressA] = "got"
    /\ Free(StressA, msg[StressA])
    /\ IF IsPrefix(Start, Text(StressA))
       THEN num' = 0 /\ GoOn(StressA, "request")
       ELSE UNCHANGED num /\ GoOn(StressA, "receive")
    /\ UNCHANGED <<msg, new, Elsewhere, number, local, hibernate, damaged, seen>>

ACounts ==
    /\ pc[StressA] = "fill" /\ num # -1
    /\ Send(StressA, new[StressA], StressB)
    /\ content' = [content EXCEPT ![new[StressA]].type = COUNT_REPORT,
                                  ![new[StressA]].tx = StressA]
    /\ number' = [number EXCEPT ![new[StressA]] = num]
    /\ num' = (num + 1) % Period
    /\ GoOn(StressA, "yield")
    /\ UNCHANGED <<msg, new, Elsewhere, local, hibernate, damaged, seen>>

AYields ==
    /\ pc[StressA] = "yield"
    /\ Yield(StressA)
    /\ GoOn(StressA, "request")
    /\ UNCHANGED <<content, msg, new, Elsewhere, stressLocal>>

(* stress_b. *)

BForwards ==
    /\ pc[StressB] = "got"
    /\ Mail(StressB, msg[StressB], StressC, <<>>)
    /\ GoOn(StressB, "receive")
    /\ UNCHANGED <<msg, new, Elsewhere, stressLocal>>

(* stress_c. *)

CDequeues ==
    /\ pc[StressC] = "dequeue" /\ Running(StressC, {"run"})
    /\ msg' = [msg EXCEPT ![StressC] = Head(local)]
    /\ local' = Tail(local)
    /\ GoOn(StressC, "got")
    /\ UNCHANGED <<rtxVars, content, new, Elsewhere, num, number, hibernate, damaged, seen>>

\* The type and the number are read before the block is released.
CTakes ==
    /\ pc[StressC] = "got"
    /\ Free(StressC, msg[StressC])
    /\ number' = [number EXCEPT ![msg[StressC]] = 0]
    /\ seen' = IF content[msg[StressC]].type = COUNT_REPORT THEN (seen + 1) % Period ELSE seen
    /\ GoOn(StressC, IF /\ content[msg[StressC]].type = COUNT_REPORT
                        /\ number[msg[StressC]] = 0
                     THEN "request" ELSE "stale")
    /\ UNCHANGED <<msg, new, Elsewhere, num, local, hibernate, damaged>>

CAnnounces ==
    /\ pc[StressC] = "fill"
    /\ Mail(StressC, new[StressC], Crt, Announcement)
    /\ GoOn(StressC, "request2")
    /\ UNCHANGED <<msg, new, Elsewhere, stressLocal>>

CSleeps ==
    /\ pc[StressC] = "fill2"
    /\ DelayedSend(StressC, new[StressC], StressC, Sleep)
    /\ content' = [content EXCEPT ![new[StressC]].type = WAKEUP10,
                                  ![new[StressC]].tx = StressC]
    /\ hibernate' = new[StressC]
    /\ GoOn(StressC, "sleep")
    /\ UNCHANGED <<msg, new, Elsewhere, num, number, local, damaged, seen>>

CSleepsOn ==
    /\ pc[StressC] = "sleep"
    /\ ReceiveFindsNone(StressC) \/ ReceiveBlocks(StressC)
    /\ UNCHANGED <<localVars, userVars, historyVars, stressLocal>>

\* Faulty: the message is put at the head of the queue.
CGetsLast ==
    /\ pc[StressC] = "sleep"
    /\ Receive(StressC)
    /\ \E b \in held'[StressC] \ held[StressC] :
          IF content[b].type = WAKEUP10
          THEN GoOn(StressC, "stale") /\ UNCHANGED local
          ELSE local' = <<b>> \o local /\ UNCHANGED pc
    /\ UNCHANGED <<content, msg, new, Elsewhere, num, number, hibernate, damaged, seen>>

CGets ==
    /\ pc[StressC] = "sleep"
    /\ Receive(StressC)
    /\ \E b \in held'[StressC] \ held[StressC] :
          IF content[b].type = WAKEUP10
          THEN GoOn(StressC, "stale") /\ UNCHANGED local
          ELSE local' = Append(local, b) /\ UNCHANGED pc
    /\ UNCHANGED <<content, msg, new, Elsewhere, num, number, hibernate, damaged, seen>>

\* Faulty: hibernate is not released.
CReleasesNothing ==
    /\ pc[StressC] = "stale" /\ Running(StressC, {"run"})
    /\ GoOn(StressC, "yield")
    /\ UNCHANGED <<rtxVars, content, msg, new, Elsewhere, stressLocal>>

\* Faulty: the release is tried until it succeeds.
CReleasesAtLast ==
    /\ pc[StressC] = "stale" /\ MayRelease(StressC, hibernate)
    /\ hibernate \in held[StressC] /\ Free(StressC, hibernate)
    /\ GoOn(StressC, "yield")
    /\ UNCHANGED <<msg, new, Elsewhere, stressLocal>>

\* hibernate is released in every round: rightly if stress_c has just been woken
\* by it, in vain if the block is free or somebody else's ...
CReleases ==
    /\ pc[StressC] = "stale"
    /\ IF MayRelease(StressC, hibernate)
       THEN hibernate \in held[StressC] /\ Free(StressC, hibernate)
       ELSE Running(StressC, {"run"}) /\ UNCHANGED <<rtxVars, content>>
    /\ GoOn(StressC, "yield")
    /\ UNCHANGED <<msg, new, Elsewhere, stressLocal>>

\* ... and wrongly if it is stress_c's again, as a message on its way to it.  The
\* block is then free and in a mailbox, and the model ends.
CDamages ==
    /\ pc[StressC] = "stale" /\ Running(StressC, {"run"})
    /\ MayRelease(StressC, hibernate) /\ hibernate \notin held[StressC]
    /\ damaged' = TRUE
    /\ UNCHANGED <<consoleVars, num, number, local, hibernate, seen>>

CYields ==
    /\ pc[StressC] = "yield"
    /\ Yield(StressC)
    /\ GoOn(StressC, IF local = <<>> THEN "receive" ELSE "dequeue")
    /\ UNCHANGED <<content, msg, new, Elsewhere, stressLocal>>

-----------------------------------------------------------------------------
(* The timer; its interrupt does nothing when no message is delayed. *)

StressTick ==
    /\ Tick /\ (\E b \in MemBlock : InBox(delayed, b))
    /\ UNCHANGED <<localVars, userVars, historyVars, stressLocal>>

StressScan ==
    /\ TickSkips \/ TickEnds \/ \E b \in MemBlock : TickDelivers(b)
    /\ UNCHANGED <<localVars, userVars, historyVars, stressLocal>>

StressProcessor ==
    /\ ~damaged
    /\ \/ (Processor \/ \E p \in Stressed : ClientStep(p)) /\ UNCHANGED stressLocal
       \/ ARegisters \/ AStarts \/ ACounts \/ AYields
       \/ BForwards
       \/ CDequeues \/ CTakes \/ CAnnounces \/ CSleeps \/ CSleepsOn \/ CGets
       \/ CReleases \/ CDamages \/ CYields
       \/ StressScan

StressNext ==
    \/ StressProcessor
    \/ ~damaged /\ StressTick
    \/ ~damaged /\ (Types \/ TypesInVain) /\ UNCHANGED stressLocal

StressSpec == StressInit /\ [][StressNext]_stressVars

\* The processor runs and the timer ticks.
StressFairSpec ==
    /\ StressSpec
    /\ WF_stressVars(StressProcessor)
    /\ WF_stressVars(~damaged /\ StressTick)

-----------------------------------------------------------------------------
(* Properties. *)

\* As in module Console; stress_c has its own queue besides, and, when it is about
\* to release the message that woke it, that message: no block leaks in a round.
\* hibernate, a local pointer without a value at first, has been given one by then.
StressHoldsWhatItNames ==
    ~damaged =>
        /\ \A p \in Client \cup {StressA, StressB} : held[p] = Named(p)
        /\ held[StressC] \ (IF pc[StressC] = "stale" THEN {hibernate} ELSE {})
              = Named(StressC) \cup Range(local)
        /\ pc[StressC] = "stale" => hibernate # NoBlock

\* The numbered messages, in the order in which stress_c is to see them.
Travelling ==
    Among(Handed(StressC) \o local \o Inbox[StressC] \o Coming(StressB),
          {b \in MemBlock : content[b].type = COUNT_REPORT})

\* Through two mailboxes and a local queue, stress_c sees the numbers that stress_a
\* counts: each once, in order, none left out, whatever it puts aside while it
\* sleeps.
NumbersInOrder ==
    ~damaged =>
        /\ \A i \in DOMAIN Travelling :
              number[Travelling[i]] = (seen + i - 1) % Period
        /\ (seen + Len(Travelling)) % Period = Max({num, 0})

\* stress_c releases a block that is on its way to it (stress.c:180) only if it has
\* been put no higher than stress_a, which then gets to send the block again before
\* stress_c has come to its pointer.
DamagesOnlyIfLowered == damaged => kernel.priority[StressC] >= kernel.priority[StressA]

\* Everybody waits, and nothing is to come.
Stopped ==
    /\ kernel.running = NullProc /\ isr = Idle
    /\ \A i \in Slot : delayed[i] = NoBlock

\* The test is meant to run for ever.  What stops it, until the user types something
\* if ever: stress_c sleeps through its wake-up or a number, stress_a through
\* a release, both in the gaps of the primitives; or the CRT is left without blocks,
\* for which a priority must have been changed, or a later %Z taken a block out of
\* the game - nobody receives it (stress.c:56).
StopsAsKnownOnly ==
    num # -1 /\ Stopped /\ ~damaged =>
        \/ Overslept(StressC) \/ MemoryOverslept
        \/ CrtJams /\ (kernel.priority # InitPriority \/ Inbox[StressA] # <<>>)

\* As long as nothing stops it, stress_c announces itself again and again: every
\* sleep ends, and every queue it leaves behind is worked off.
AnnouncesAgain ==
    <>[](num = -1 \/ damaged \/ Stopped) \/ []<>(pc[StressC] = "fill2")
===========================================================================
