----------------------------- MODULE Wallclock -----------------------------
(***************************************************************************)
(* The wall clock process.  While it is on it sends itself a message with  *)
(* a delay of one second, and shows the time when that message - a tick -  *)
(* comes.  "%WS HH:MM:SS" starts or sets it, "%WT" stops it.               *)
(*                                                                         *)
(* Of messaging there are the messages the clock has not received yet and  *)
(* the delayed ones, which the timer interrupt compares with the tick      *)
(* counter; both the counter and send_time are unsigned words that wrap.   *)
(* Time passes between any two steps of the clock: where it requests a     *)
(* memory block it may have to wait for one.                               *)
(***************************************************************************)
EXTENDS Integers, Sequences

CONSTANTS
    Wrap,           \* the tick counter counts modulo Wrap: 2^32
    Second,         \* ticks in a second: 1000
    Times,          \* what the user types behind %WS
    Malformed,      \* any text that is not HH:MM:SS in digits
    NoTime,         \* no time
    MaxMail         \* bound on the messages under way when a command is typed

TwoDigits == 0..99
Entered == [hour : TwoDigits, min : TwoDigits, sec : TwoDigits]
TimeOfDay == [hour : 0..23, min : 0..59, sec : 0..59]

ASSUME WallclockAssumption ==
    /\ Second \in Nat \ {0} /\ Wrap \in Nat /\ Second < Wrap
    /\ Times \subseteq Entered \cup {Malformed}
    /\ Malformed \notin Entered /\ NoTime \notin Entered
    /\ MaxMail \in Nat

VARIABLES
    ticks,          \* the tick counter
    inbox,          \* the messages for the clock, in order of arrival
    due,            \* the send_time of each of its delayed messages
    at,             \* where it is in its loop
    clockOn,        \* clock_on
    setTime,        \* hour, min and sec
    baseTime,       \* base_time
    shown,          \* the time sent to the CRT last
    elapsed,        \* ticks since the time was set, up to Wrap (history)
    quiet           \* ticks since a time was shown, up to Second (history)

clock == <<clockOn, setTime, baseTime>>
history == <<elapsed, quiet>>
vars == <<ticks, inbox, due, at, clock, shown, history>>

Init ==
    /\ ticks = 0
    /\ inbox = <<>> /\ due = <<>> /\ at = "receive"
    /\ clockOn = FALSE
    /\ setTime = [hour |-> 0, min |-> 0, sec |-> 0] /\ baseTime = 0
    /\ shown = NoTime
    /\ elapsed = Wrap /\ quiet = Second

-----------------------------------------------------------------------------
(* Unsigned words. *)

Word == 0..(Wrap - 1)
Plus(t, n) == IF t + n < Wrap THEN t + n ELSE t + n - Wrap
Minus(t, u) == IF t >= u THEN t - u ELSE t - u + Wrap
UpTo(n, limit) == IF n < limit THEN n + 1 ELSE n

(* The environment: commands by way of the decoder, and the timer. *)

Command == [kind : {"set"}, time : Times] \cup [kind : {"stop"}, time : {NoTime}]
Tick == [kind : {"tick"}, time : {NoTime}]

\* The entries of s that are in S, in their order.
Among(s, S) ==
    LET upto[i \in 0..Len(s)] == IF i = 0 THEN <<>>
                                 ELSE IF s[i] \in S THEN Append(upto[i - 1], s[i])
                                 ELSE upto[i - 1]
    IN  upto[Len(s)]

TicksIn(s) == Among(s, Tick)

\* The ticks of the clock on their way: delayed, arrived, or being answered.
Chains == Len(due) + Len(TicksIn(inbox)) + (IF at = "receive" THEN 0 ELSE 1)

TypeCommand ==
    /\ Len(due) + Len(inbox) < MaxMail
    /\ \E m \in Command : inbox' = Append(inbox, m)
    /\ UNCHANGED <<ticks, due, at, clock, shown, history>>

\* Faulty: a message is sent after its send_time, never at it.
IsDueAfter(time, now) == time < now

IsDue(time, now) == time <= now

TimerTick ==
    LET now == Plus(ticks, 1)
    IN  /\ ticks' = now
        /\ due' = Among(due, {time \in Word : ~IsDue(time, now)})
        /\ inbox' = inbox \o [i \in 1..(Len(due) - Len(due')) |->
                                 [kind |-> "tick", time |-> NoTime]]
        /\ elapsed' = UpTo(elapsed, Wrap) /\ quiet' = UpTo(quiet, Second)
        /\ UNCHANGED <<at, clock, shown>>

-----------------------------------------------------------------------------
(* The loop of the process. *)

Receives(kind) ==
    /\ at = "receive" /\ inbox # <<>> /\ Head(inbox).kind = kind
    /\ inbox' = Tail(inbox)

\* error_check, then convert_to_dec.
IsValid(t) == t \in Entered /\ t.hour <= 23 /\ t.min <= 59 /\ t.sec <= 59

Set(t) ==
    /\ setTime' = t /\ baseTime' = ticks
    /\ elapsed' = 0 /\ UNCHANGED quiet

RefuseTime ==
    /\ Receives("set") /\ ~IsValid(Head(inbox).time)
    /\ UNCHANGED <<ticks, due, at, clock, shown, history>>

\* Faulty: the clock sends itself a tick though one is on its way.
SetAndTickAgain ==
    /\ Receives("set") /\ IsValid(Head(inbox).time) /\ clockOn
    /\ Set(Head(inbox).time) /\ at' = "again"
    /\ UNCHANGED <<ticks, due, clockOn, shown>>

\* Faulty: base_time stays what it was.
SetFromOldBase ==
    /\ Receives("set") /\ IsValid(Head(inbox).time) /\ clockOn
    /\ setTime' = Head(inbox).time /\ elapsed' = 0
    /\ UNCHANGED <<ticks, due, at, clockOn, baseTime, shown, quiet>>

SetWhileOn ==
    /\ Receives("set") /\ IsValid(Head(inbox).time) /\ clockOn
    /\ Set(Head(inbox).time)
    /\ UNCHANGED <<ticks, due, at, clockOn, shown>>

Start ==
    /\ Receives("set") /\ IsValid(Head(inbox).time) /\ ~clockOn
    /\ Set(Head(inbox).time)
    /\ clockOn' = TRUE /\ at' = "again"
    /\ UNCHANGED <<ticks, due, shown>>

Stop ==
    /\ Receives("stop")
    /\ clockOn' = FALSE
    /\ UNCHANGED <<ticks, due, at, setTime, baseTime, shown, history>>

ReceiveTick ==
    /\ Receives("tick") /\ clockOn
    /\ at' = "show"
    /\ UNCHANGED <<ticks, due, clock, shown, history>>

DropTick ==
    /\ Receives("tick") /\ ~clockOn
    /\ UNCHANGED <<ticks, due, at, clock, shown, history>>

\* The time s seconds after t.
TimeAfter(t, s) ==
    [hour |-> (t.hour + (t.min + (t.sec + s) \div 60) \div 60) % 24,
     min  |-> (t.min + (t.sec + s) \div 60) % 60,
     sec  |-> (t.sec + s) % 60]

Show ==
    /\ at = "show" /\ at' = "again"
    /\ shown' = TimeAfter(setTime, Minus(ticks, baseTime) \div Second)
    /\ quiet' = 0
    /\ UNCHANGED <<ticks, inbox, due, clock, elapsed>>

\* Faulty: the tick is sent at once.
SendTickNow ==
    /\ at = "again" /\ at' = "receive"
    /\ due' = Append(due, ticks)
    /\ UNCHANGED <<ticks, inbox, clock, shown, history>>

SendTick ==
    /\ at = "again" /\ at' = "receive"
    /\ due' = Append(due, Plus(ticks, Second))
    /\ UNCHANGED <<ticks, inbox, clock, shown, history>>

Process ==
    \/ RefuseTime \/ SetWhileOn \/ Start \/ Stop
    \/ ReceiveTick \/ DropTick \/ Show \/ SendTick

Next == TypeCommand \/ TimerTick \/ Process

Spec == Init /\ [][Next]_vars

\* The clock is at the highest level, where everybody soon waits for a message.
FairSpec == Spec /\ WF_vars(TimerTick) /\ WF_vars(Process)

-----------------------------------------------------------------------------
(* Properties. *)

SecondOfDay(t) == t.hour * 3600 + t.min * 60 + t.sec

\* What is shown is the time set and the whole seconds since, past midnight
\* and past the wrap of the tick counter, until 2^32 ticks have gone by.
ShownIsTrue ==
    [][Show /\ elapsed < Wrap =>
          SecondOfDay(shown') = (SecondOfDay(setTime) + elapsed \div Second) % 86400]_vars

\* "if the clock is already on, set the new time and continue"
\* (wallclock.c:121): only turning it on begins a new chain of ticks.
ChainBegunByStartOnly == [][Chains' > Chains => ~clockOn /\ clockOn']_vars

\* The time is shown twice within a second only if there is a second chain, or
\* if send_time was past the wrap of the counter.
TwiceASecondOnly ==
    [][Show /\ quiet < Second =>
          Chains > 1 \/ ticks >= Wrap - Second \/ ticks < Second]_vars

\* A clock that is on shows the time again.
ClockShows == clockOn ~> (at = "show" \/ ~clockOn)

\* "(so time not updated twice a second)" (wallclock.c:121).
NotTwiceASecond == [][Show => quiet >= Second]_vars
=============================================================================
