--------------------------- MODULE PreemptProofs ---------------------------
(***************************************************************************)
(* Proofs about module Preempt, for any processes, priorities, blocks and  *)
(* any number of characters typed.                                         *)
(***************************************************************************)
EXTENDS Preempt, KernelProofs, FiniteSetTheorems

(***************************************************************************)
(* The inductive invariant.  "inner" tells a handler that runs inside      *)
(* another one from one that was called in user mode.                      *)
(***************************************************************************)
FrameType ==
    [call : HandlerCall, at : InBracket \cup Outside, sr : {Open, SerialLevel, Closed},
     first : BOOLEAN, block : MemBlock \cup {NoBlock}]

PointsOf(call) ==
    CASE call = "request" -> {"up", "body", "block", "state", "queue", "queued", "retry",
                              "take", "taken", "return"}
      [] call = "release" -> {"up", "body", "unblock", "find", "stay", "yield", "return"}
      [] call = "send"    -> {"up", "body", "unblock", "find", "remove", "ready",
                              "stay", "yield", "return"}
      [] call = "receive" -> {"up", "body", "block", "state", "queue", "queued", "return"}
      [] call = "uart"    -> {"up", "body", "deliver", "finish", "return"}
      [] call = "switch"  -> {"switch"}

\* The points of a bracket that atomic_up opened before the first close.
FirstPoint == {"body", "take", "taken"}

\* A handler that gives a block away has one, and so has a request that was
\* granted.  Interrupts were open in user mode, and the null process has made
\* no call.  What runs inside another handler does not wait; a sender on the
\* stack of the decoder itself does not yield to it.
GoodFrame(p, f, inner) ==
    /\ f \in FrameType /\ f.at \in PointsOf(f.call)
    /\ f.call \in {"release", "send"} => f.block \in MemBlock
    /\ f.call = "request" /\ f.at \in {"take", "taken", "return"} => f.block \in MemBlock
    /\ f.call = "uart" /\ f.at \in {"up", "body"} => f.block = NoBlock
    /\ f.first /\ f.at \in InBracket => f.call = "uart" \/ f.at \in FirstPoint
    /\ p = Kcd /\ f.call = "send" => f.at # "yield"
    /\ IF inner
       THEN /\ f.call \in {"uart", "request", "send", "switch"}
            /\ f.call = "request" => f.at \in {"up", "body", "take", "taken", "return"}
       ELSE /\ f.sr = Open
            /\ p = NullProc => f.call = "uart"
            /\ p = Kcd => f.call \in {"receive", "release", "uart"}

\* The points where the serial interrupt is masked whatever the count.
Guarded(f, inner) ==
    \/ f.call = "uart" /\ f.at \in {"up", "body"}
    \/ f.call = "request" /\ inner /\ f.at \in {"up", "body"}
    \/ f.first /\ f.at \in FirstPoint

\* Handler f below a handler of kind "call": the interrupt handler goes on to
\* deliver with the block that it has asked for.
Linked(call, f) ==
    /\ f.call = "uart" /\ f.at = "deliver" =>
          IF call = "request" THEN f.block = NoBlock ELSE f.block \in MemBlock
    /\ call = "request" => f.call = "uart" /\ f.at = "deliver"

Above(s, i) == IF i = 1 THEN "none" ELSE s[i - 1].call

\* A stack of process q all of whose handlers are good.
GoodStack(q, s) ==
    /\ s \in Seq(FrameType)
    /\ \A i \in 1..Len(s) : /\ GoodFrame(q, s[i], i < Len(s))
                            /\ Guarded(s[i], i < Len(s)) => i = 1
                            /\ Linked(Above(s, i), s[i])

Depth(p) == Len(stack[p])
Bottom(p) == stack[p][Depth(p)]
InnerTop == 1 < Depth(p0)

\* Nothing is on top of a guarded handler, and its process is running.
Stacks ==
    /\ stack \in [Proc -> Seq(FrameType)]
    /\ \A p \in Proc : GoodStack(p, stack[p])
    /\ \A p \in Proc \ {p0} : stack[p] # <<>> => ~Guarded(Head(stack[p]), 1 < Depth(p))

\* What a guarded handler that is running may rely on.
Running ==
    IF UserMode THEN mask = Open
    ELSE /\ Guarded(Top, InnerTop) => mask \in {SerialLevel, Closed}
         /\ Top.first /\ Top.at \in FirstPoint => mask = Closed
         /\ Top.call = "request" /\ InnerTop /\ Top.at \in {"up", "body"} => available # <<>>
         /\ Top.call = "request" /\ Top.first /\ Top.at = "take" =>
               available # <<>> /\ Top.block = Head(available)

\* A process that has run and is not running was left in release_processor.
Left ==
    /\ kernel.state[p0] # "new"
    /\ \A p \in Proc \ {p0} :
          IF kernel.state[p] = "new" THEN stack[p] = <<>>
          ELSE stack[p] # <<>> /\ Head(stack[p]).call = "switch"

Readying(f) == f.call = "send" /\ f.at = "ready"
Moving(f) == f.call = "send" /\ f.at \in {"remove", "ready"}

StackInv ==
    /\ PreemptTypeOK /\ Stacks /\ Running /\ Left
    /\ held[NullProc] = {} /\ kernel.state[NullProc] \in {"new", "ready"}
    /\ \A p \in Proc : \A i \in 1..Depth(p) :
          Moving(stack[p][i]) => kernel.state[Kcd] # "new"

(* The queues, as long as the running process is not in the ready queue. *)

Loose == {p \in Proc : \A kind \in Kind, l \in Level : ~InQueue(kernel, kind, l, p)}

\* A process is nowhere but where its state and priority say, and the null
\* process is at hand.
Queues ==
    /\ Filed(kernel, Loose)
    /\ p0 # NullProc => NullProc \notin Loose

Waiting(call) == BlockedState(IF call = "request" THEN "mem" ELSE "msg")
Waits(p, point) ==
    /\ stack[p] # <<>> /\ Bottom(p).call \in {"request", "receive"}
    /\ Bottom(p).at \in point

\* A process in block_process: blocked before it is in the queue, and in the
\* queue until it is left.
Blocking ==
    /\ \A p \in Proc : Waits(p, {"queue"}) =>
          p \in Loose /\ kernel.state[p] = Waiting(Bottom(p).call)
    /\ kernel.state[p0] # "ready" =>
          \/ Waits(p0, {"queue"})
          \/ /\ p0 \notin Loose
             /\ \/ Waits(p0, {"queued"})
                \/ /\ Waits(p0, {"retry", "return"})
                   /\ InnerTop /\ stack[p0][Depth(p0) - 1].call = "switch"

\* The decoder is in no queue only while it runs, or between the two steps of a
\* sender that makes it ready, which no other sender can come between then.
Decoder ==
    /\ Kcd \in Loose /\ p0 # Kcd => \E i \in 1..Depth(p0) : Readying(stack[p0][i])
    /\ \A i \in 1..Depth(Kcd) :
          /\ stack[Kcd][i].call = "switch" => i = Depth(Kcd) - 1 /\ Bottom(Kcd).at = "return"
          /\ Moving(stack[Kcd][i]) => p0 = Kcd /\ kernel.state[Kcd] # "ready"
    /\ \A p \in Proc \ {Kcd} : \A i \in 1..Depth(p) : Readying(stack[p][i]) =>
          /\ p = p0 /\ Kcd \in Loose
          /\ \A j \in 1..(i - 1) :
                \/ stack[p][j].call \in {"uart", "request"}
                \/ stack[p][j].call = "send" /\ stack[p][j].at \in {"up", "body", "return"}

QueueInv == ~RunningIsReady => Queues /\ Blocking /\ Decoder

-----------------------------------------------------------------------------
(* Stacks.  A handler is put on top, the one on top goes on, or leaves.     *)

LEMMA OnTop ==
  ASSUME NEW S, NEW s \in Seq(S), NEW f \in S, NEW t, t = <<f>> \o s
  PROVE  /\ t \in Seq(S) /\ Len(t) = Len(s) + 1 /\ t # <<>>
         /\ t[1] = f /\ Head(t) = f
         /\ \A i \in 1..Len(t) : i > 1 => i - 1 \in 1..Len(s) /\ t[i] = s[i - 1]
<1>1. <<f>> \in Seq(S) /\ Len(<<f>>) = 1 /\ <<f>>[1] = f
  OBVIOUS
<1>. DEFINE u == <<f>>
<1>2. u \in Seq(S) /\ Len(u) = 1 /\ u[1] = f /\ t = u \o s
  BY <1>1
<1>. HIDE DEF u
<1>3. /\ t \in Seq(S) /\ Len(t) = 1 + Len(s)
      /\ \A i \in 1..(1 + Len(s)) : t[i] = IF i <= 1 THEN u[i] ELSE s[i - 1]
  BY <1>2, ConcatProperties
<1>4. Len(s) \in Nat
  BY LenProperties
<1>. QED BY <1>2, <1>3, <1>4

LEMMA NextOnTop ==
  ASSUME NEW S, NEW s \in Seq(S), s # <<>>, NEW f \in S, NEW t, t = [s EXCEPT ![1] = f]
  PROVE  /\ t \in Seq(S) /\ Len(t) = Len(s) /\ t # <<>>
         /\ 1 \in 1..Len(s) /\ t[1] = f /\ Head(t) = f /\ Head(s) = s[1]
         /\ \A i \in 1..Len(t) : i > 1 => t[i] = s[i]
<1>1. Len(s) \in Nat \ {0}
  BY EmptySeq
<1>2. t \in Seq(S) /\ Len(t) = Len(s) /\ \A j \in 1..Len(s) : t[j] = IF j = 1 THEN f ELSE s[j]
  BY <1>1, ExceptSeq
<1>. QED BY <1>1, <1>2

LEMMA OffTop ==
  ASSUME NEW S, NEW s \in Seq(S), s # <<>>, NEW t, t = Tail(s)
  PROVE  /\ t \in Seq(S) /\ Len(t) = Len(s) - 1 /\ Len(s) \in Nat \ {0}
         /\ t = <<>> <=> Len(s) = 1
         /\ Head(s) = s[1] /\ 1 \in 1..Len(s)
         /\ \A i \in 1..Len(t) : i + 1 \in 1..Len(s) /\ t[i] = s[i + 1]
<1>1. Len(s) \in Nat \ {0}
  BY EmptySeq
<1>2. t \in Seq(S) /\ Len(t) = Len(s) - 1 /\ \A i \in 1..Len(t) : t[i] = s[i + 1]
  BY HeadTailProperties
<1>3. t = <<>> <=> Len(t) = 0
  BY <1>2, EmptySeq
<1>. QED BY <1>1, <1>2, <1>3

\* The handlers below one of kind "call" that begins or has left.
GoodBelow(q, s, call) ==
    /\ s \in Seq(FrameType)
    /\ \A i \in 1..Len(s) : /\ GoodFrame(q, s[i], i < Len(s))
                            /\ ~Guarded(s[i], i < Len(s))
                            /\ Linked(IF i = 1 THEN call ELSE s[i - 1].call, s[i])

\* The handler on top goes on as g.
LEMMA GoodNext ==
  ASSUME NEW q, NEW s, GoodStack(q, s), s # <<>>,
         NEW inner, inner <=> 1 < Len(s),
         NEW g, GoodFrame(q, g, inner), g.call = s[1].call, Linked("none", g),
         NEW t, t = [s EXCEPT ![1] = g]
  PROVE  GoodStack(q, t) /\ Len(t) = Len(s) /\ t # <<>> /\ Head(t) = g
<1>1. g \in FrameType /\ s \in Seq(FrameType) /\ Len(s) \in Nat
  BY LenProperties DEF GoodFrame, GoodStack
<1>2. /\ t \in Seq(FrameType) /\ Len(t) = Len(s) /\ t # <<>> /\ t[1] = g /\ Head(t) = g
      /\ \A i \in 1..Len(t) : i > 1 => t[i] = s[i]
  BY <1>1, NextOnTop
<1>3. ASSUME NEW i \in 1..Len(t)
      PROVE  /\ GoodFrame(q, t[i], i < Len(t))
             /\ Guarded(t[i], i < Len(t)) => i = 1
             /\ Linked(Above(t, i), t[i])
  <2>1. CASE i = 1
    BY <2>1, <1>2 DEF Above, GoodFrame
  <2>2. CASE i > 1
    <3>1. t[i] = s[i] /\ t[i - 1].call = s[i - 1].call
      <4>1. CASE i = 2
        BY <4>1, <1>2
      <4>2. CASE i > 2
        BY <4>2, <1>1, <1>2
      <4>. QED BY <4>1, <4>2, <2>2, <1>2
    <3>2. /\ GoodFrame(q, s[i], i < Len(s)) /\ Linked(s[i - 1].call, s[i])
          /\ Guarded(s[i], i < Len(s)) => i = 1
      BY <2>2, <1>2 DEF GoodStack, Above
    <3>. QED BY <3>1, <3>2, <1>2, <2>2 DEF Above
  <2>. QED BY <2>1, <2>2, <1>1, <1>2
<1>. QED BY <1>2, <1>3 DEF GoodStack

LEMMA GoodOnTop ==
  ASSUME NEW q, NEW f, NEW s, GoodBelow(q, s, f.call), GoodFrame(q, f, s # <<>>),
         Linked("none", f), NEW t, t = <<f>> \o s
  PROVE  /\ GoodStack(q, t) /\ t # <<>> /\ Head(t) = f /\ Len(t) = Len(s) + 1
         /\ 1 < Len(t) <=> s # <<>>
<1>1. f \in FrameType /\ s \in Seq(FrameType)
  BY DEF GoodFrame, GoodBelow
<1>2. /\ t \in Seq(FrameType) /\ Len(t) = Len(s) + 1 /\ t # <<>> /\ t[1] = f /\ Head(t) = f
      /\ \A i \in 1..Len(t) : i > 1 => i - 1 \in 1..Len(s) /\ t[i] = s[i - 1]
  BY <1>1, OnTop
<1>3. Len(s) \in Nat /\ (s = <<>> <=> Len(s) = 0)
  BY <1>1, EmptySeq
<1>4. ASSUME NEW i \in 1..Len(t)
      PROVE  /\ GoodFrame(q, t[i], i < Len(t))
             /\ Guarded(t[i], i < Len(t)) => i = 1
             /\ Linked(Above(t, i), t[i])
  <2>1. CASE i = 1
    BY <2>1, <1>2, <1>3 DEF Above
  <2>2. CASE i > 1
    <3>1. /\ i - 1 \in 1..Len(s) /\ t[i] = s[i - 1] /\ s # <<>>
          /\ (i < Len(t)) <=> (i - 1 < Len(s))
      BY <2>2, <1>2, <1>3
    <3>2. /\ GoodFrame(q, s[i - 1], i - 1 < Len(s))
          /\ ~Guarded(s[i - 1], i - 1 < Len(s))
          /\ Linked(IF i - 1 = 1 THEN f.call ELSE s[(i - 1) - 1].call, s[i - 1])
      BY <3>1 DEF GoodBelow
    <3>3. Above(t, i) = IF i - 1 = 1 THEN f.call ELSE s[(i - 1) - 1].call
      <4>1. CASE i = 2
        BY <4>1, <1>2 DEF Above
      <4>2. CASE i > 2
        <5>1. i - 1 \in 1..Len(t) /\ t[i - 1] = s[(i - 1) - 1]
          BY <4>2, <1>2, <1>3
        <5>. QED BY <4>2, <5>1 DEF Above
      <4>. QED BY <4>1, <4>2, <2>2
    <3>. QED BY <3>1, <3>2, <3>3, <2>2 DEF GoodFrame, Guarded
  <2>. QED BY <2>1, <2>2
<1>. QED BY <1>2, <1>3, <1>4 DEF GoodStack

\* A handler begins in user mode, or on top of one that may be interrupted.
LEMMA GoodPush ==
  ASSUME NEW q, NEW f, NEW s, GoodStack(q, s), GoodFrame(q, f, s # <<>>),
         s # <<>> => ~Guarded(s[1], 1 < Len(s)) /\ f.call # "request",
         Linked("none", f), NEW t, t = <<f>> \o s
  PROVE  /\ GoodStack(q, t) /\ t # <<>> /\ Head(t) = f /\ Len(t) = Len(s) + 1
         /\ 1 < Len(t) <=> s # <<>>
<1>1. Len(s) \in Nat /\ (s = <<>> <=> Len(s) = 0)
  BY EmptySeq DEF GoodStack
<1>2. GoodBelow(q, s, f.call)
  BY <1>1 DEF GoodStack, GoodBelow, Above, Linked
<1>3. GoodFrame(q, f, s # <<>>) /\ Linked("none", f) /\ t = <<f>> \o s
  OBVIOUS
<1>. QED BY <1>2, <1>3, GoodOnTop

\* The handler on top calls another one, and is g until that returns.
LEMMA GoodCall ==
  ASSUME NEW q, NEW f, NEW s, GoodStack(q, s), s # <<>>, GoodFrame(q, f, TRUE),
         NEW g, GoodFrame(q, g, 1 < Len(s)), ~Guarded(g, 1 < Len(s)), g.call = s[1].call,
         Linked(f.call, g), Linked("none", f),
         NEW t, t = <<f>> \o [s EXCEPT ![1] = g]
  PROVE  GoodStack(q, t) /\ t # <<>> /\ Head(t) = f /\ Len(t) = Len(s) + 1 /\ 1 < Len(t)
<1>. DEFINE u == [s EXCEPT ![1] = g]
<1>1. g \in FrameType /\ s \in Seq(FrameType) /\ Len(s) \in Nat
  BY LenProperties DEF GoodFrame, GoodStack
<1>2. t = <<f>> \o u /\ u = [s EXCEPT ![1] = g]
  OBVIOUS
<1>. HIDE DEF u
<1>3. /\ u \in Seq(FrameType) /\ Len(u) = Len(s) /\ u # <<>> /\ u[1] = g
      /\ \A i \in 1..Len(u) : i > 1 => u[i] = s[i]
  BY <1>1, <1>2, NextOnTop
<1>4. ASSUME NEW i \in 1..Len(u)
      PROVE  /\ GoodFrame(q, u[i], i < Len(u))
             /\ ~Guarded(u[i], i < Len(u))
             /\ Linked(IF i = 1 THEN f.call ELSE u[i - 1].call, u[i])
  <2>1. CASE i = 1
    BY <2>1, <1>3
  <2>2. CASE i > 1
    <3>1. u[i] = s[i] /\ u[i - 1].call = s[i - 1].call
      <4>1. CASE i = 2
        BY <4>1, <1>3
      <4>2. CASE i > 2
        BY <4>2, <1>1, <1>3
      <4>. QED BY <4>1, <4>2, <2>2, <1>3
    <3>2. /\ GoodFrame(q, s[i], i < Len(s)) /\ ~Guarded(s[i], i < Len(s))
          /\ Linked(s[i - 1].call, s[i])
      BY <2>2, <1>3 DEF GoodStack, Above
    <3>. QED BY <3>1, <3>2, <1>3, <2>2
  <2>. QED BY <2>1, <2>2, <1>1, <1>3
<1>5. GoodBelow(q, u, f.call)
  BY <1>3, <1>4 DEF GoodBelow
<1>6. GoodFrame(q, f, u # <<>>)
  BY <1>3 DEF GoodFrame
<1>7. t = <<f>> \o u
  BY <1>2
<1>8. /\ GoodStack(q, t) /\ t # <<>> /\ Head(t) = f /\ Len(t) = Len(u) + 1
      /\ 1 < Len(t) <=> u # <<>>
  BY <1>5, <1>6, <1>7, GoodOnTop
<1>. QED BY <1>3, <1>8

\* The handler on top leaves.
LEMMA GoodTail ==
  ASSUME NEW q, NEW s, GoodStack(q, s), s # <<>>, NEW t, t = Tail(s)
  PROVE  /\ GoodBelow(q, t, s[1].call)
         /\ Len(s) \in Nat \ {0} /\ Len(t) = Len(s) - 1 /\ (t = <<>> <=> Len(s) = 1)
         /\ t = <<>> => s[1].sr = Open
<1>1. s \in Seq(FrameType)
  BY DEF GoodStack
<1>2. /\ t \in Seq(FrameType) /\ Len(t) = Len(s) - 1 /\ Len(s) \in Nat \ {0}
      /\ t = <<>> <=> Len(s) = 1
      /\ \A i \in 1..Len(t) : i + 1 \in 1..Len(s) /\ t[i] = s[i + 1]
  BY <1>1, OffTop
<1>3. ASSUME NEW i \in 1..Len(t)
      PROVE  /\ GoodFrame(q, t[i], i < Len(t))
             /\ ~Guarded(t[i], i < Len(t))
             /\ Linked(IF i = 1 THEN s[1].call ELSE t[i - 1].call, t[i])
  <2>1. /\ i + 1 \in 1..Len(s) /\ t[i] = s[i + 1] /\ i \in Nat \ {0}
        /\ (i < Len(t)) <=> (i + 1 < Len(s))
        /\ (i + 1) - 1 = i /\ i + 1 # 1
    BY <1>2
  <2>2. /\ GoodFrame(q, s[i + 1], i + 1 < Len(s)) /\ Linked(s[i].call, s[i + 1])
        /\ ~Guarded(s[i + 1], i + 1 < Len(s))
    BY <2>1 DEF GoodStack, Above
  <2>3. s[i].call = IF i = 1 THEN s[1].call ELSE t[i - 1].call
    <3>1. CASE i > 1
      <4>1. i - 1 \in 1..Len(t) /\ (i - 1) + 1 = i
        BY <3>1, <1>2
      <4>. QED BY <4>1, <1>2, <3>1
    <3>. QED BY <3>1, <2>1
  <2>. QED BY <2>1, <2>2, <2>3 DEF GoodFrame, Guarded
<1>4. t = <<>> => s[1].sr = Open
  BY <1>2 DEF GoodStack, GoodFrame
<1>. QED BY <1>2, <1>3, <1>4 DEF GoodBelow

\* The interrupt handler gets the block it has asked for.
Answered(f, b) == [f EXCEPT !.block = b]
WithTop(s, g) == [s EXCEPT ![1] = g]

LEMMA GoodReturn ==
  ASSUME NEW q, NEW s, GoodBelow(q, s, "request"), s # <<>>, NEW b \in MemBlock,
         NEW g, g = Answered(s[1], b), NEW t, t = WithTop(s, g)
  PROVE  /\ GoodStack(q, t) /\ t # <<>> /\ Head(t) = g
         /\ Len(t) = Len(s) /\ ~Guarded(g, 1 < Len(t))
<1>g. g = [s[1] EXCEPT !.block = b]
  BY DEF Answered
<1>t. t = [s EXCEPT ![1] = g]
  BY DEF WithTop
<1>1. s \in Seq(FrameType) /\ Len(s) \in Nat \ {0} /\ 1 \in 1..Len(s)
  BY EmptySeq DEF GoodBelow
<1>2. /\ s[1] \in FrameType /\ GoodFrame(q, s[1], 1 < Len(s)) /\ ~Guarded(s[1], 1 < Len(s))
      /\ s[1].call = "uart" /\ s[1].at = "deliver"
  BY <1>1 DEF GoodBelow, GoodFrame, Linked
<1>3. /\ g \in FrameType /\ g.call = s[1].call /\ g.at = s[1].at /\ g.sr = s[1].sr
      /\ g.first = s[1].first /\ g.block = b
  BY <1>g, <1>2 DEF FrameType
<1>4. GoodFrame(q, g, 1 < Len(s)) /\ ~Guarded(g, 1 < Len(s)) /\ Linked("none", g)
  BY <1>2, <1>3 DEF GoodFrame, Guarded, Linked
<1>6. /\ t \in Seq(FrameType) /\ Len(t) = Len(s) /\ t # <<>> /\ t[1] = g /\ Head(t) = g
      /\ \A i \in 1..Len(t) : i > 1 => t[i] = s[i]
  BY <1>t, <1>1, <1>3, NextOnTop
<1>7. ASSUME NEW i \in 1..Len(t)
      PROVE  /\ GoodFrame(q, t[i], i < Len(t))
             /\ ~Guarded(t[i], i < Len(t))
             /\ Linked(Above(t, i), t[i])
  <2>1. CASE i = 1
    BY <2>1, <1>4, <1>6 DEF Above
  <2>2. CASE i > 1
    <3>1. t[i] = s[i] /\ t[i - 1].call = s[i - 1].call
      <4>1. CASE i = 2
        BY <4>1, <1>3, <1>6
      <4>2. CASE i > 2
        BY <4>2, <1>1, <1>6
      <4>. QED BY <4>1, <4>2, <2>2, <1>6
    <3>2. /\ GoodFrame(q, s[i], i < Len(s)) /\ ~Guarded(s[i], i < Len(s))
          /\ Linked(s[i - 1].call, s[i])
      BY <2>2, <1>6 DEF GoodBelow
    <3>. QED BY <3>1, <3>2, <1>6, <2>2 DEF Above
  <2>. QED BY <2>1, <2>2, <1>1, <1>6
<1>. QED BY <1>4, <1>6, <1>7 DEF GoodStack

\* Nothing of what is below another handler is guarded.
LEMMA GoodUncovered ==
  ASSUME NEW q, NEW s, NEW call, GoodBelow(q, s, call), call # "request"
  PROVE  /\ GoodStack(q, s)
         /\ s # <<>> => ~Guarded(s[1], 1 < Len(s))
<1>1. Len(s) \in Nat /\ (s = <<>> <=> Len(s) = 0)
  BY EmptySeq DEF GoodBelow
<1>. QED BY <1>1 DEF GoodBelow, GoodStack, Above, Linked

\* The stack of q alone has become s.
StackBecomes(q, s) ==
    /\ stack' \in [Proc -> Seq(FrameType)] /\ stack'[q] = s
    /\ \A p \in Proc : p # q => stack'[p] = stack[p]

LEMMA TopIsFirst ==
  ASSUME Stacks, p0 \in Proc, ~UserMode
  PROVE  /\ stack[p0] \in Seq(FrameType) /\ Depth(p0) \in Nat \ {0}
         /\ stack[p0] # <<>> /\ GoodStack(p0, stack[p0])
         /\ Top = stack[p0][1] /\ GoodFrame(p0, Top, InnerTop) /\ Linked("none", Top)
         /\ Top \in FrameType
<1>1. stack[p0] \in Seq(FrameType) /\ stack[p0] # <<>> /\ GoodStack(p0, stack[p0])
  BY DEF Stacks, UserMode
<1>2. Depth(p0) \in Nat \ {0}
  BY <1>1, EmptySeq DEF Depth
<1>3. Top = stack[p0][1]
  BY <1>1, <1>2 DEF Top
<1>4. GoodFrame(p0, Top, InnerTop) /\ Linked("none", Top)
  BY <1>1, <1>2, <1>3 DEF GoodStack, Depth, InnerTop, Above
<1>. QED BY <1>1, <1>2, <1>3, <1>4 DEF GoodFrame

\* The processor goes to q, or stays with it, and q has another stack.
LEMMA StepToStack ==
  ASSUME Stacks, p0 \in Proc, NEW q \in Proc, p0' = q,
         NEW t, GoodStack(q, t), StackBecomes(q, t),
         q = p0 \/ (~UserMode /\ ~Guarded(Top, InnerTop))
  PROVE  Stacks'
<1>1. \A p \in Proc : p # q => stack'[p] = stack[p]
  BY DEF StackBecomes
<1>2. stack'[q] = t
  BY DEF StackBecomes
<1>3. ASSUME NEW p \in Proc
      PROVE  GoodStack(p, stack'[p])
  BY <1>1, <1>2 DEF Stacks
<1>4. ASSUME NEW p \in Proc \ {q}, stack'[p] # <<>>
      PROVE  ~Guarded(Head(stack'[p]), 1 < Len(stack'[p]))
  <2>1. stack'[p] = stack[p]
    BY <1>1, <1>4
  <2>2. CASE p # p0
    BY <2>1, <2>2, <1>4 DEF Stacks, Depth
  <2>3. CASE p = p0
    BY <2>1, <2>3, <1>4 DEF UserMode, Top, InnerTop, Depth
  <2>. QED BY <2>2, <2>3
<1>. QED BY <1>3, <1>4 DEF Stacks, StackBecomes, Depth, Guarded, GoodStack, GoodFrame

-----------------------------------------------------------------------------
(* The handler on top goes on. *)

\* g is f but for its point, its block, and whether it has opened its bracket.
Goes(f, g, point, first, b) ==
    /\ g \in FrameType /\ g.call = f.call /\ g.sr = f.sr
    /\ g.at = point /\ g.first = first /\ g.block = b

LEMMA TopBecomes ==
  ASSUME Stacks, p0 \in Proc, ~UserMode, NEW g \in FrameType,
         stack' = [stack EXCEPT ![p0] = [stack[p0] EXCEPT ![1] = g]]
  PROVE  StackBecomes(p0, [stack[p0] EXCEPT ![1] = g])
<1>0. /\ stack \in [Proc -> Seq(FrameType)]
      /\ stack[p0] \in Seq(FrameType) /\ stack[p0] # <<>>
  BY TopIsFirst DEF Stacks
<1>. DEFINE t == [stack[p0] EXCEPT ![1] = g]
<1>1. t \in Seq(FrameType) /\ stack' = [stack EXCEPT ![p0] = t]
  BY <1>0, NextOnTop
<1>. HIDE DEF t
<1>2. StackBecomes(p0, t)
  BY <1>0, <1>1 DEF StackBecomes
<1>. QED BY <1>2 DEF t

LEMMA GoesTo ==
  ASSUME Stacks, p0 \in Proc, ~UserMode, NEW point \in InBracket \cup Outside,
         GoTo(point), NEW g, g = [Top EXCEPT !.at = point]
  PROVE  /\ StackBecomes(p0, [stack[p0] EXCEPT ![1] = g])
         /\ Goes(Top, g, point, Top.first, Top.block)
<1>0. Top = stack[p0][1] /\ Top \in FrameType
  BY TopIsFirst
<1>1. Goes(Top, g, point, Top.first, Top.block)
  BY <1>0 DEF FrameType, Goes
<1>2. stack' = [stack EXCEPT ![p0] = [stack[p0] EXCEPT ![1] = g]]
  BY <1>0 DEF GoTo
<1>. QED BY <1>1, <1>2, TopBecomes DEF Goes

LEMMA GoesWithFirst ==
  ASSUME Stacks, p0 \in Proc, ~UserMode, NEW point \in InBracket \cup Outside,
         NEW x \in BOOLEAN,
         stack' = [stack EXCEPT ![p0][1].at = point, ![p0][1].first = x],
         NEW g, g = [Top EXCEPT !.at = point, !.first = x]
  PROVE  /\ StackBecomes(p0, [stack[p0] EXCEPT ![1] = g])
         /\ Goes(Top, g, point, x, Top.block)
<1>0. /\ Top = stack[p0][1] /\ Top \in FrameType /\ stack[p0] \in Seq(FrameType)
      /\ stack \in [Proc -> Seq(FrameType)] /\ 1 \in DOMAIN stack[p0]
  BY TopIsFirst, LenProperties DEF Stacks, Depth
<1>1. Goes(Top, g, point, x, Top.block)
  BY <1>0 DEF FrameType, Goes
<1>2. stack' = [stack EXCEPT ![p0] = [stack[p0] EXCEPT ![1] = g]]
  BY <1>0
<1>. QED BY <1>1, <1>2, TopBecomes DEF Goes

LEMMA GoesWithBlock ==
  ASSUME Stacks, p0 \in Proc, ~UserMode, NEW point \in InBracket \cup Outside,
         NEW b \in MemBlock,
         stack' = [stack EXCEPT ![p0][1].at = point, ![p0][1].block = b],
         NEW g, g = [Top EXCEPT !.at = point, !.block = b]
  PROVE  /\ StackBecomes(p0, [stack[p0] EXCEPT ![1] = g])
         /\ Goes(Top, g, point, Top.first, b)
<1>0. /\ Top = stack[p0][1] /\ Top \in FrameType /\ stack[p0] \in Seq(FrameType)
      /\ stack \in [Proc -> Seq(FrameType)] /\ 1 \in DOMAIN stack[p0]
  BY TopIsFirst, LenProperties DEF Stacks, Depth
<1>1. Goes(Top, g, point, Top.first, b)
  BY <1>0 DEF FrameType, Goes
<1>2. stack' = [stack EXCEPT ![p0] = [stack[p0] EXCEPT ![1] = g]]
  BY <1>0
<1>. QED BY <1>1, <1>2, TopBecomes DEF Goes

\* The rest of the type invariant, without the stacks.
Typed ==
    /\ kernel \in KernelType /\ p0 \in Proc
    /\ status \in Nat /\ mask \in {Open, SerialLevel, Closed}
    /\ available \in Seq(MemBlock) /\ mail \subseteq MemBlock
    /\ held \in [Proc -> SUBSET MemBlock] /\ keys \in 0..Keys
    /\ held[NullProc] = {} /\ kernel.state[NullProc] \in {"new", "ready"}

LEMMA TypesAgree ==
  /\ StackInv => Typed
  /\ Stacks /\ Typed => PreemptTypeOK
<1>1. StackInv => Typed
  BY DEF StackInv, Typed, PreemptTypeOK
<1>2. ASSUME Stacks, Typed PROVE PreemptTypeOK
  <2>1. ASSUME NEW p \in Proc, NEW f \in Frames(p) PROVE f \in FrameType
    <3>1. stack[p] \in Seq(FrameType)
      BY <1>2 DEF Stacks
    <3>2. f \in {stack[p][i] : i \in DOMAIN stack[p]}
      BY DEF Frames, ToSet
    <3>. QED BY <3>1, <3>2, LenProperties
  <2>2. \A p \in Proc : \A f \in Frames(p) :
          /\ f.call \in HandlerCall /\ f.at \in InBracket \cup Outside
          /\ f.sr \in {Open, SerialLevel, Closed} /\ f.first \in BOOLEAN
          /\ f.block \in MemBlock \cup {NoBlock}
    BY <2>1 DEF FrameType
  <2>. QED BY <1>2, <2>2 DEF Typed, PreemptTypeOK
<1>. QED BY <1>1, <1>2

\* What a handler f on top may rely on, with this mask and these blocks.
RunsAs(f, inner, level, blocks) ==
    /\ Guarded(f, inner) => level \in {SerialLevel, Closed}
    /\ f.first /\ f.at \in FirstPoint => level = Closed
    /\ f.call = "request" /\ inner /\ f.at \in {"up", "body"} => blocks # <<>>
    /\ f.call = "request" /\ f.first /\ f.at = "take" =>
          blocks # <<>> /\ f.block = Head(blocks)

LEMMA RunningIs ==
  Running <=> IF UserMode THEN mask = Open ELSE RunsAs(Top, InnerTop, mask, available)
BY DEF Running, RunsAs

\* Whoever has run so far stays so, and nobody else begins to.
SameNew ==
    /\ p0' = p0
    /\ \A p \in Proc : kernel'.state[p] = "new" <=> kernel.state[p] = "new"

MovesLive(s) == \A i \in 1..Len(s) : Moving(s[i]) => kernel.state[Kcd] # "new"

\* Any step that leaves the processor with the same process, whose stack
\* becomes t.
LEMMA StepKeepsStackInv ==
  ASSUME StackInv, Typed', SameNew,
         NEW t, GoodStack(p0, t), StackBecomes(p0, t), MovesLive(t),
         IF t = <<>> THEN mask' = Open ELSE RunsAs(Head(t), 1 < Len(t), mask', available')
  PROVE  StackInv'
<1>1. Stacks /\ Typed /\ p0 \in Proc /\ p0' = p0
  BY TypesAgree DEF StackInv, Typed, SameNew
<1>2. Stacks'
  BY <1>1, StepToStack
<1>3. stack'[p0] = t /\ \A p \in Proc : p # p0 => stack'[p] = stack[p]
  BY DEF StackBecomes
<1>4. Running'
  <2>1. UserMode' <=> t = <<>>
    BY <1>1, <1>3 DEF UserMode
  <2>2. Top' = Head(t) /\ (InnerTop' <=> 1 < Len(t))
    BY <1>1, <1>3 DEF Top, InnerTop, Depth
  <2>. QED BY <2>1, <2>2 DEF Running, RunsAs, Guarded
<1>5. Left'
  BY <1>1, <1>3 DEF Left, StackInv, SameNew
<1>6. Kcd \in Proc
  BY PreemptAssumption
<1>7. ASSUME NEW p \in Proc, NEW i \in 1..Depth(p)', Moving(stack'[p][i])
      PROVE  kernel'.state[Kcd] # "new"
  BY <1>3, <1>6, <1>7 DEF StackInv, MovesLive, SameNew, Depth, Moving
<1>8. PreemptTypeOK'
  BY <1>2, TypesAgree, PTL
<1>. QED BY <1>2, <1>4, <1>5, <1>7, <1>8 DEF StackInv, Typed, Moving

\* What is known where a handler is at a point.
LEMMA AtTop ==
  ASSUME StackInv, NEW calls, NEW point, At(calls, point)
  PROVE  /\ ~UserMode /\ Stacks /\ Typed /\ Left /\ p0 \in Proc /\ Top.at = point /\ Top.call \in calls
         /\ ~RunningIsReady
         /\ GoodStack(p0, stack[p0]) /\ stack[p0] # <<>> /\ Top = stack[p0][1]
         /\ GoodFrame(p0, Top, InnerTop) /\ Linked("none", Top) /\ Top \in FrameType
         /\ RunsAs(Top, InnerTop, mask, available)
         /\ MovesLive(stack[p0])
<1>1. ~UserMode /\ Stacks /\ Typed /\ Left /\ p0 \in Proc /\ Top.at = point /\ Top.call \in calls
  BY TypesAgree DEF At, StackInv, Typed
<1>2. RunsAs(Top, InnerTop, mask, available)
  BY <1>1, RunningIs DEF StackInv
<1>3. MovesLive(stack[p0])
  BY <1>1 DEF StackInv, MovesLive, Depth
<1>4. ~RunningIsReady
  BY DEF At, Intact
<1>. QED BY <1>1, <1>2, <1>3, <1>4, TopIsFirst

LEMMA NextKeepsStackInv ==
  ASSUME StackInv, Typed', SameNew, NEW calls, NEW point, At(calls, point),
         NEW g, GoodFrame(p0, g, InnerTop), g.call = Top.call, Linked("none", g),
         StackBecomes(p0, [stack[p0] EXCEPT ![1] = g]),
         Moving(g) => Moving(Top) \/ kernel.state[Kcd] # "new",
         RunsAs(g, InnerTop, mask', available')
  PROVE  StackInv'
<1>. DEFINE s == stack[p0]
            t == [s EXCEPT ![1] = g]
<1>1. /\ GoodStack(p0, s) /\ s # <<>> /\ Top = s[1] /\ MovesLive(s)
      /\ InnerTop <=> 1 < Len(s)
  BY AtTop DEF InnerTop, Depth
<1>2. g \in FrameType /\ s \in Seq(FrameType) /\ Len(s) \in Nat
  BY <1>1, LenProperties DEF GoodFrame, GoodStack
<1>3. StackBecomes(p0, t)
  OBVIOUS
<1>4. GoodFrame(p0, g, InnerTop) /\ (InnerTop <=> 1 < Len(s))
  BY <1>1
<1>t. t = [s EXCEPT ![1] = g]
  OBVIOUS
<1>. HIDE DEF s, t
<1>5. GoodStack(p0, t) /\ Len(t) = Len(s) /\ t # <<>> /\ Head(t) = g
  <2>1. GoodStack(p0, s) /\ s # <<>> /\ g.call = s[1].call
    BY <1>1
  <2>2. Linked("none", g)
    OBVIOUS
  <2>3. GoodStack(p0, t)
    BY <2>1, <2>2, <1>4, <1>t, GoodNext
  <2>4. Len(t) = Len(s) /\ t # <<>> /\ Head(t) = g
    BY <1>1, <1>2, <1>t, NextOnTop
  <2>. QED BY <2>3, <2>4
<1>6. t[1] = g /\ \A i \in 1..Len(t) : i > 1 => t[i] = s[i]
  BY <1>1, <1>2, <1>t, NextOnTop
<1>7. MovesLive(t)
  <2>1. ASSUME NEW i \in 1..Len(t), Moving(t[i]) PROVE kernel.state[Kcd] # "new"
    <3>1. CASE i = 1
      BY <3>1, <2>1, <1>1, <1>5, <1>6 DEF MovesLive
    <3>2. CASE i > 1
      BY <3>2, <2>1, <1>1, <1>5, <1>6 DEF MovesLive
    <3>. QED BY <3>1, <3>2
  <2>. QED BY <2>1 DEF MovesLive
<1>8. RunsAs(Head(t), 1 < Len(t), mask', available')
  BY <1>1, <1>5 DEF RunsAs, Guarded
<1>. QED BY <1>3, <1>5, <1>7, <1>8, StepKeepsStackInv

-----------------------------------------------------------------------------
(* The steps within a handler that leave the kernel as it is. *)

LEMMA BeginKeeps ==
  ASSUME StackInv, Begin
  PROVE  StackInv'
<1>1. At(HandlerCall, "up")
  BY DEF Begin
<1>2. /\ Top.at = "up" /\ ~UserMode /\ Stacks /\ Typed /\ p0 \in Proc
      /\ GoodFrame(p0, Top, InnerTop) /\ RunsAs(Top, InnerTop, mask, available)
  BY <1>1, AtTop
<1>. DEFINE x == status = 0
            g == [Top EXCEPT !.at = "body", !.first = x]
<1>3. /\ StackBecomes(p0, [stack[p0] EXCEPT ![1] = g])
      /\ Goes(Top, g, "body", x, Top.block)
  <2>1. /\ stack' = [stack EXCEPT ![p0][1].at = "body", ![p0][1].first = x]
        /\ x \in BOOLEAN /\ "body" \in InBracket \cup Outside
    BY DEF Begin, AtomicUp, InBracket
  <2>. QED BY <1>2, <2>1, GoesWithFirst
<1>. HIDE DEF g
<1>4. SameNew /\ Typed'
  BY <1>2 DEF Begin, AtomicUp, data, SameNew, Typed, p0, Closed
<1>5. GoodFrame(p0, g, InnerTop) /\ g.call = Top.call /\ Linked("none", g) /\ ~Moving(g)
  BY <1>2, <1>3 DEF Goes, GoodFrame, PointsOf, Linked, Moving, FirstPoint, FrameType, HandlerCall
<1>6. RunsAs(g, InnerTop, mask', available')
  BY <1>2, <1>3 DEF Goes, GoodFrame, RunsAs, Guarded, Begin, AtomicUp, data, FirstPoint
<1>. QED BY <1>1, <1>3, <1>4, <1>5, <1>6, NextKeepsStackInv

\* At a point outside its bracket a handler relies on nothing.
LEMMA GoesOut ==
  ASSUME StackInv, Typed', SameNew, NEW calls, NEW point, At(calls, point),
         NEW next \in Outside \ {"up"}, GoTo(next), next \in PointsOf(Top.call),
         Top.call = "request" =>
             (next = "return" /\ point = "taken") \/ (next = "block" /\ ~InnerTop)
  PROVE  StackInv'
<1>. DEFINE g == [Top EXCEPT !.at = next]
<1>1. /\ ~UserMode /\ Stacks /\ p0 \in Proc /\ Top.at = point
      /\ GoodFrame(p0, Top, InnerTop) /\ Top \in FrameType
  BY AtTop
<1>2. StackBecomes(p0, [stack[p0] EXCEPT ![1] = g]) /\ Goes(Top, g, next, Top.first, Top.block)
  BY <1>1, GoesTo
<1>. HIDE DEF g
<1>3. GoodFrame(p0, g, InnerTop) /\ g.call = Top.call /\ Linked("none", g) /\ ~Moving(g)
  BY <1>1, <1>2 DEF Goes, GoodFrame, Linked, Moving, Outside, InBracket
<1>4. RunsAs(g, InnerTop, mask', available')
  BY <1>2 DEF Goes, RunsAs, Guarded, FirstPoint, Outside
<1>. QED BY <1>2, <1>3, <1>4, NextKeepsStackInv

\* A bracket that is opened by TRAP #1 is not guarded.
LEMMA GoesIn ==
  ASSUME StackInv, Typed', SameNew, NEW calls, NEW point, At(calls, point),
         NEW next \in InBracket, Trap1(next), next \in PointsOf(Top.call),
         Top.call # "uart", Top.call = "request" => ~InnerTop /\ next \in {"state", "body"},
         ~Moving([Top EXCEPT !.at = next]), next # "yield"
  PROVE  StackInv'
<1>. DEFINE g == [Top EXCEPT !.at = next, !.first = FALSE]
<1>1. /\ ~UserMode /\ Stacks /\ p0 \in Proc /\ Top.at = point
      /\ GoodFrame(p0, Top, InnerTop) /\ Top \in FrameType
  BY AtTop
<1>2. StackBecomes(p0, [stack[p0] EXCEPT ![1] = g]) /\ Goes(Top, g, next, FALSE, Top.block)
  <2>1. /\ stack' = [stack EXCEPT ![p0][1].at = next, ![p0][1].first = FALSE]
        /\ FALSE \in BOOLEAN /\ next \in InBracket \cup Outside
    BY DEF Trap1
  <2>. QED BY <1>1, <2>1, GoesWithFirst
<1>. HIDE DEF g
<1>3. GoodFrame(p0, g, InnerTop) /\ g.call = Top.call /\ Linked("none", g)
  BY <1>1, <1>2 DEF Goes, GoodFrame, Linked
<1>4. ~Moving(g)
  BY <1>1, <1>2 DEF Goes, Moving, FrameType
<1>5. RunsAs(g, InnerTop, mask', available')
  BY <1>1, <1>2 DEF Goes, RunsAs, Guarded
<1>. QED BY <1>2, <1>3, <1>4, <1>5, NextKeepsStackInv

\* Opening and closing brackets changes no more than the count and the mask.
LEMMA Counting ==
  /\ \A s \in Nat : s + 1 \in Nat /\ (IF s > 0 THEN s - 1 ELSE 0) \in Nat
  /\ Open \in Nat /\ SerialLevel \in Nat /\ Closed \in Nat
  /\ Open # SerialLevel /\ Open # Closed /\ SerialLevel # Closed
BY DEF Open, SerialLevel, Closed

LEMMA DownTyped ==
  ASSUME Typed, AtomicDown
  PROVE  status' \in Nat /\ mask' \in {Open, SerialLevel, Closed}
BY DEF Typed, AtomicDown

LEMMA RequestSteps ==
  ASSUME StackInv
  PROVE  /\ Request => StackInv'
         /\ RequestTakes => StackInv'
         /\ RequestCloses => StackInv'
         /\ RequestRetries => StackInv'
<1>1. ASSUME Request PROVE StackInv'
  <2>1. At({"request"}, "body")
    BY <1>1 DEF Request
  <2>2. /\ Top.at = "body" /\ Top.call = "request" /\ ~UserMode /\ Stacks /\ Typed /\ p0 \in Proc
        /\ GoodFrame(p0, Top, InnerTop) /\ RunsAs(Top, InnerTop, mask, available)
        /\ Top \in FrameType
    BY <2>1, AtTop
  <2>3. SameNew
    BY <1>1 DEF Request, data, SameNew, p0
  <2>4. CASE available = <<>>
    <3>1. AtomicDown /\ GoTo("block") /\ ~InnerTop
      BY <1>1, <2>2, <2>4 DEF Request, RunsAs
    <3>2. Typed'
      BY <1>1, <2>2, <3>1, DownTyped DEF Request, data, Typed, p0
    <3>. QED BY <2>1, <2>2, <2>3, <3>1, <3>2, GoesOut DEF Outside, PointsOf
  <2>5. CASE available # <<>>
    <3>. DEFINE b == Head(available)
                g == [Top EXCEPT !.at = "take", !.block = b]
    <3>1. b \in MemBlock
      BY <2>2, <2>5, HeadTailProperties DEF Typed
    <3>2. /\ StackBecomes(p0, [stack[p0] EXCEPT ![1] = g])
          /\ Goes(Top, g, "take", Top.first, b)
      <4>1. /\ stack' = [stack EXCEPT ![p0][1].at = "take", ![p0][1].block = b]
            /\ "take" \in InBracket \cup Outside
        BY <1>1, <2>5 DEF Request, InBracket
      <4>. HIDE DEF b
      <4>. QED BY <2>2, <3>1, <4>1, GoesWithBlock
    <3>3. Typed' /\ mask' = mask /\ available' = available
      BY <1>1, <2>2, <2>5 DEF Request, data, Typed, p0
    <3>. HIDE DEF g
    <3>4. GoodFrame(p0, g, InnerTop) /\ g.call = Top.call /\ Linked("none", g) /\ ~Moving(g)
      BY <2>2, <3>1, <3>2 DEF Goes, GoodFrame, PointsOf, Linked, Moving, FirstPoint
    <3>5. RunsAs(g, InnerTop, mask', available')
      BY <2>2, <2>5, <3>2, <3>3 DEF Goes, RunsAs, Guarded, FirstPoint
    <3>. QED BY <2>1, <2>3, <3>2, <3>3, <3>4, <3>5, NextKeepsStackInv
  <2>. QED BY <2>4, <2>5
<1>2. ASSUME RequestTakes PROVE StackInv'
  <2>. DEFINE g == [Top EXCEPT !.at = "taken"]
  <2>1. At({"request"}, "take")
    BY <1>2 DEF RequestTakes
  <2>2. /\ Top.at = "take" /\ Top.call = "request" /\ ~UserMode /\ Stacks /\ Typed /\ p0 \in Proc
        /\ GoodFrame(p0, Top, InnerTop) /\ RunsAs(Top, InnerTop, mask, available)
        /\ Top \in FrameType
    BY <2>1, AtTop
  <2>3. SameNew /\ mask' = mask
    BY <1>2 DEF RequestTakes, SameNew, p0
  <2>4. Typed'
    <3>1. available' \in Seq(MemBlock)
      BY <1>2, <2>2, HeadTailProperties DEF RequestTakes, Typed
    <3>. QED BY <1>2, <2>2, <3>1 DEF RequestTakes, Typed, p0
  <2>5. StackBecomes(p0, [stack[p0] EXCEPT ![1] = g]) /\ Goes(Top, g, "taken", Top.first, Top.block)
    BY <1>2, <2>2, GoesTo DEF RequestTakes, InBracket
  <2>. HIDE DEF g
  <2>6. GoodFrame(p0, g, InnerTop) /\ g.call = Top.call /\ Linked("none", g) /\ ~Moving(g)
    BY <2>2, <2>5 DEF Goes, GoodFrame, PointsOf, Linked, Moving, FirstPoint
  <2>7. RunsAs(g, InnerTop, mask', available')
    BY <2>2, <2>3, <2>5 DEF Goes, RunsAs, Guarded, FirstPoint
  <2>. QED BY <2>1, <2>3, <2>4, <2>5, <2>6, <2>7, NextKeepsStackInv
<1>3. ASSUME RequestCloses PROVE StackInv'
  <2>1. At({"request"}, "taken") /\ GoTo("return") /\ SameNew
    BY <1>3 DEF RequestCloses, data, SameNew, p0
  <2>2. Top.at = "taken" /\ Top.call = "request" /\ Typed
    BY <2>1, AtTop
  <2>3. Typed'
    BY <1>3, <2>2 DEF RequestCloses, Trap2, data, Typed, p0
  <2>4. "return" \in Outside \ {"up"} /\ "return" \in PointsOf(Top.call)
    BY <2>2 DEF Outside, PointsOf
  <2>. QED BY <2>1, <2>2, <2>3, <2>4, GoesOut
<1>4. ASSUME RequestRetries PROVE StackInv'
  <2>1. At({"request"}, "retry") /\ Trap1("body") /\ SameNew
    BY <1>4 DEF RequestRetries, data, SameNew, p0
  <2>2. /\ Top.at = "retry" /\ Top.call = "request" /\ Typed /\ Top \in FrameType
        /\ GoodFrame(p0, Top, InnerTop)
    BY <2>1, AtTop
  <2>3. Typed'
    BY <1>4, <2>2 DEF RequestRetries, Trap1, data, Typed, p0
  <2>4. ~Moving([Top EXCEPT !.at = "body"]) /\ ~InnerTop
    BY <2>2 DEF Moving, FrameType, GoodFrame
  <2>. QED BY <2>1, <2>2, <2>3, <2>4, GoesIn DEF InBracket, PointsOf
<1>. QED BY <1>1, <1>2, <1>3, <1>4

LEMMA ReleaseSteps ==
  ASSUME StackInv
  PROVE  /\ Release => StackInv'
         /\ ReleaseUnblocks => StackInv'
<1>1. ASSUME Release PROVE StackInv'
  <2>1. At({"release"}, "body") /\ GoTo("unblock") /\ AtomicDown /\ SameNew
    BY <1>1 DEF Release, SameNew, p0
  <2>2. Top.at = "body" /\ Top.call = "release" /\ Typed /\ GoodFrame(p0, Top, InnerTop)
    BY <2>1, AtTop
  <2>3. Typed'
    <3>1. available' \in Seq(MemBlock)
      BY <1>1, <2>2, AppendProperties DEF Release, Typed, GoodFrame
    <3>. QED BY <1>1, <2>1, <2>2, <3>1, DownTyped DEF Release, Typed, p0
  <2>4. "unblock" \in Outside \ {"up"} /\ "unblock" \in PointsOf(Top.call)
    BY <2>2 DEF Outside, PointsOf
  <2>. QED BY <2>1, <2>2, <2>3, <2>4, GoesOut
<1>2. ASSUME ReleaseUnblocks PROVE StackInv'
  <2>1. At({"release"}, "unblock") /\ Trap1("find") /\ SameNew
    BY <1>2 DEF ReleaseUnblocks, SameNew, p0
  <2>2. Top.at = "unblock" /\ Top.call = "release" /\ Typed /\ Top \in FrameType
    BY <2>1, AtTop
  <2>3. Typed'
    BY <1>2, <2>2 DEF ReleaseUnblocks, Trap1, data, Typed, p0
  <2>4. ~Moving([Top EXCEPT !.at = "find"]) /\ "find" \in InBracket /\ "find" \in PointsOf(Top.call)
    BY <2>2 DEF Moving, FrameType, InBracket, PointsOf
  <2>. QED BY <2>1, <2>2, <2>3, <2>4, GoesIn
<1>. QED BY <1>1, <1>2

LEMMA NullHasNone ==
  ASSUME StackInv, NEW calls, NEW point, At(calls, point), ~InnerTop, Top.call # "uart"
  PROVE  p0 # NullProc
BY AtTop DEF GoodFrame

LEMMA SendSteps ==
  ASSUME StackInv
  PROVE  /\ Send => StackInv'
         /\ SendUnblocks => StackInv'
         /\ SendFinds => StackInv'
<1>1. ASSUME Send PROVE StackInv'
  <2>1. At({"send"}, "body") /\ AtomicDown /\ SameNew
    BY <1>1 DEF Send, SameNew, p0
  <2>2. /\ Top.at = "body" /\ Top.call = "send" /\ Typed /\ GoodFrame(p0, Top, InnerTop)
        /\ p0 \in Proc /\ Stacks /\ ~UserMode
    BY <2>1, AtTop
  <2>3. Top.block \in MemBlock
    BY <2>2 DEF GoodFrame
  <2>4. \E next \in {"unblock", "return"} : GoTo(next)
    BY <1>1 DEF Send
  <2>5. mail' \subseteq MemBlock
    BY <1>1, <2>2, <2>3 DEF Send, Typed
  <2>6. held' \in [Proc -> SUBSET MemBlock] /\ held'[NullProc] = {}
    <3>1. CASE held' = held
      BY <2>2, <3>1 DEF Typed
    <3>2. CASE held' # held
      <4>1. Len(stack[p0]) = 1 /\ held' = [held EXCEPT ![p0] = @ \cup {Top.block}]
        BY <1>1, <3>2 DEF Send
      <4>2. p0 # NullProc
        BY <2>1, <2>2, <4>1, NullHasNone DEF InnerTop, Depth
      <4>. QED BY <2>2, <2>3, <4>1, <4>2, ProcAssumption DEF Typed
    <3>. QED BY <3>1, <3>2
  <2>7. Typed'
    BY <1>1, <2>1, <2>2, <2>5, <2>6, DownTyped DEF Send, Typed, p0
  <2>8. {"unblock", "return"} \subseteq Outside \ {"up"} /\ {"unblock", "return"} \subseteq PointsOf(Top.call)
    BY <2>2 DEF Outside, PointsOf
  <2>. QED BY <2>1, <2>2, <2>4, <2>7, <2>8, GoesOut
<1>2. ASSUME SendUnblocks PROVE StackInv'
  <2>1. At({"send"}, "unblock") /\ Trap1("find") /\ SameNew
    BY <1>2 DEF SendUnblocks, SameNew, p0
  <2>2. Top.at = "unblock" /\ Top.call = "send" /\ Typed /\ Top \in FrameType
    BY <2>1, AtTop
  <2>3. Typed'
    BY <1>2, <2>2 DEF SendUnblocks, Trap1, data, Typed, p0
  <2>4. ~Moving([Top EXCEPT !.at = "find"]) /\ "find" \in InBracket /\ "find" \in PointsOf(Top.call)
    BY <2>2 DEF Moving, FrameType, InBracket, PointsOf
  <2>. QED BY <2>1, <2>2, <2>3, <2>4, GoesIn
<1>3. ASSUME SendFinds PROVE StackInv'
  <2>. DEFINE next == IF IsProcessBlocked(kernel, Kcd) THEN "remove" ELSE "stay"
              g == [Top EXCEPT !.at = next]
  <2>1. At({"send"}, "find") /\ GoTo(next) /\ SameNew /\ mask' = mask
    BY <1>3 DEF SendFinds, SameNew, p0
  <2>2. /\ Top.at = "find" /\ Top.call = "send" /\ Typed /\ GoodFrame(p0, Top, InnerTop)
        /\ Stacks /\ ~UserMode /\ p0 \in Proc
    BY <2>1, AtTop
  <2>3. Typed'
    BY <1>3, <2>2 DEF SendFinds, data, Typed, p0
  <2>4. /\ StackBecomes(p0, [stack[p0] EXCEPT ![1] = g])
        /\ Goes(Top, g, next, Top.first, Top.block)
    <3>1. next \in InBracket \cup Outside
      BY DEF InBracket
    <3>. HIDE DEF next
    <3>. QED BY <2>1, <2>2, <3>1, GoesTo
  <2>5. next \in {"remove", "stay"} /\ (next = "remove" => kernel.state[Kcd] # "new")
    BY DEF IsProcessBlocked
  <2>. HIDE DEF g, next
  <2>6. GoodFrame(p0, g, InnerTop) /\ g.call = Top.call /\ Linked("none", g)
    BY <2>2, <2>4, <2>5 DEF Goes, GoodFrame, PointsOf, Linked, FirstPoint, InBracket
  <2>7. Moving(g) => kernel.state[Kcd] # "new"
    BY <2>2, <2>4, <2>5 DEF Goes, Moving
  <2>8. RunsAs(g, InnerTop, mask', available')
    BY <2>2, <2>4, <2>5 DEF Goes, RunsAs, Guarded, FirstPoint
  <2>. QED BY <2>1, <2>3, <2>4, <2>6, <2>7, <2>8, NextKeepsStackInv
<1>. QED BY <1>1, <1>2, <1>3

LEMMA ReceiveKeeps ==
  ASSUME StackInv, Receive
  PROVE  StackInv'
<1>1. At({"receive"}, "body") /\ AtomicDown /\ SameNew
  BY DEF Receive, SameNew, p0
<1>2. /\ Top.at = "body" /\ Top.call = "receive" /\ Typed /\ GoodFrame(p0, Top, InnerTop)
      /\ p0 \in Proc /\ Stacks /\ ~UserMode
  BY <1>1, AtTop
<1>3. p0 # NullProc
  BY <1>1, <1>2, NullHasNone DEF GoodFrame
<1>4. /\ \E next \in {"block", "return"} : GoTo(next)
      /\ mail' \subseteq MemBlock
      /\ held' \in [Proc -> SUBSET MemBlock] /\ held'[NullProc] = {}
  <2>1. CASE mail = {}
    BY <2>1, <1>2 DEF Receive, Typed
  <2>2. CASE mail # {}
    BY <2>2, <1>2, <1>3, ProcAssumption DEF Receive, Typed
  <2>. QED BY <2>1, <2>2
<1>5. Typed'
  BY <1>1, <1>2, <1>4, DownTyped DEF Receive, Typed, p0
<1>6. {"block", "return"} \subseteq Outside \ {"up"} /\ {"block", "return"} \subseteq PointsOf(Top.call)
  BY <1>2 DEF Outside, PointsOf
<1>. QED BY <1>1, <1>2, <1>4, <1>5, <1>6, GoesOut

LEMMA OtherSteps ==
  ASSUME StackInv
  PROVE  /\ Block => StackInv'
         /\ UnblockStays => StackInv'
         /\ UartDrops => StackInv'
         /\ UartReturns => StackInv'
<1>1. ASSUME Block PROVE StackInv'
  <2>1. At(HandlerCall, "block") /\ Trap1("state") /\ SameNew
    BY <1>1 DEF Block, SameNew, p0
  <2>2. /\ Top.at = "block" /\ Typed /\ GoodFrame(p0, Top, InnerTop) /\ Top \in FrameType
        /\ Top.call \in HandlerCall
    BY <2>1, AtTop
  <2>3. Top.call \in {"request", "receive"} /\ ~InnerTop
    BY <2>2 DEF GoodFrame, PointsOf, HandlerCall
  <2>4. Typed'
    BY <1>1, <2>2 DEF Block, Trap1, data, Typed, p0
  <2>5. ~Moving([Top EXCEPT !.at = "state"]) /\ "state" \in InBracket /\ "state" \in PointsOf(Top.call)
    BY <2>2, <2>3 DEF Moving, FrameType, InBracket, PointsOf
  <2>. QED BY <2>1, <2>2, <2>3, <2>4, <2>5, GoesIn
<1>2. ASSUME UnblockStays PROVE StackInv'
  <2>1. At(HandlerCall, "stay") /\ Trap2 /\ GoTo("return") /\ SameNew
    BY <1>2 DEF UnblockStays, SameNew, p0
  <2>2. /\ Top.at = "stay" /\ Typed /\ GoodFrame(p0, Top, InnerTop) /\ Top.call \in HandlerCall
    BY <2>1, AtTop
  <2>3. Top.call \in {"release", "send"}
    BY <2>2 DEF GoodFrame, PointsOf, HandlerCall
  <2>4. Typed'
    BY <1>2, <2>2 DEF UnblockStays, Trap2, data, Typed, p0
  <2>5. "return" \in Outside \ {"up"} /\ "return" \in PointsOf(Top.call)
    BY <2>3 DEF Outside, PointsOf
  <2>. QED BY <2>1, <2>2, <2>3, <2>4, <2>5, GoesOut
<1>3. ASSUME UartDrops PROVE StackInv'
  <2>1. At({"uart"}, "body") /\ AtomicDown /\ GoTo("return") /\ SameNew
    BY <1>3 DEF UartDrops, SameNew, p0
  <2>2. Top.at = "body" /\ Top.call = "uart" /\ Typed
    BY <2>1, AtTop
  <2>3. Typed'
    BY <1>3, <2>1, <2>2, DownTyped DEF UartDrops, data, Typed, p0
  <2>5. "return" \in Outside \ {"up"} /\ "return" \in PointsOf(Top.call)
    BY <2>2 DEF Outside, PointsOf
  <2>. QED BY <2>1, <2>2, <2>3, <2>5, GoesOut
<1>4. ASSUME UartReturns PROVE StackInv'
  <2>1. At({"uart"}, "finish") /\ AtomicDown /\ GoTo("return") /\ SameNew
    BY <1>4 DEF UartReturns, SameNew, p0
  <2>2. Top.at = "finish" /\ Top.call = "uart" /\ Typed
    BY <2>1, AtTop
  <2>3. Typed'
    BY <1>4, <2>1, <2>2, DownTyped DEF UartReturns, data, Typed, p0
  <2>5. "return" \in Outside \ {"up"} /\ "return" \in PointsOf(Top.call)
    BY <2>2 DEF Outside, PointsOf
  <2>. QED BY <2>1, <2>2, <2>3, <2>5, GoesOut
<1>. QED BY <1>1, <1>2, <1>3, <1>4

-----------------------------------------------------------------------------
(* Handlers that begin, call and return. *)

LEMMA StackOf ==
  ASSUME StackInv
  PROVE  /\ Stacks /\ Typed /\ p0 \in Proc /\ stack \in [Proc -> Seq(FrameType)]
         /\ GoodStack(p0, stack[p0]) /\ MovesLive(stack[p0])
         /\ Depth(p0) \in Nat
         /\ UserMode => mask = Open
<1>1. /\ Stacks /\ Typed /\ p0 \in Proc /\ stack \in [Proc -> Seq(FrameType)]
      /\ GoodStack(p0, stack[p0]) /\ MovesLive(stack[p0])
  BY TypesAgree DEF StackInv, Typed, Stacks, MovesLive, Depth
<1>2. Depth(p0) \in Nat
  BY <1>1, LenProperties DEF Depth, GoodStack
<1>3. UserMode => mask = Open
  BY DEF StackInv, Running
<1>. QED BY <1>1, <1>2, <1>3

LEMMA PushKeepsStackInv ==
  ASSUME StackInv, Typed', SameNew, NEW f, f \in FrameType, Push(f),
         GoodFrame(p0, f, ~UserMode),
         UserMode \/ (~Guarded(Top, InnerTop) /\ f.call # "request"),
         Linked("none", f), ~Moving(f),
         RunsAs(f, ~UserMode, mask', available')
  PROVE  StackInv'
<1>. DEFINE s == stack[p0]
            t == <<f>> \o s
<1>1. /\ GoodStack(p0, s) /\ MovesLive(s) /\ s \in Seq(FrameType)
      /\ s # <<>> => Top = s[1]
      /\ InnerTop <=> 1 < Len(s)
      /\ UserMode <=> s = <<>>
  BY StackOf, TopIsFirst DEF UserMode, InnerTop, Depth, GoodStack
<1>2. StackBecomes(p0, t)
  <2>1. t \in Seq(FrameType) /\ stack' = [stack EXCEPT ![p0] = t]
    BY <1>1, OnTop DEF Push
  <2>. HIDE DEF t
  <2>. QED BY <2>1, StackOf DEF StackBecomes
<1>t. t = <<f>> \o s
  OBVIOUS
<1>. HIDE DEF s, t
<1>3. s # <<>> => ~Guarded(s[1], 1 < Len(s)) /\ f.call # "request"
  BY <1>1 DEF Guarded
<1>4. GoodFrame(p0, f, s # <<>>)
  BY <1>1 DEF GoodFrame
<1>5. GoodStack(p0, t)
  BY <1>1, <1>3, <1>4, <1>t, GoodPush
<1>6. /\ Len(t) = Len(s) + 1 /\ t # <<>> /\ t[1] = f /\ Head(t) = f
      /\ \A i \in 1..Len(t) : i > 1 => i - 1 \in 1..Len(s) /\ t[i] = s[i - 1]
  BY <1>1, <1>t, OnTop
<1>7. MovesLive(t)
  <2>1. ASSUME NEW i \in 1..Len(t), Moving(t[i]) PROVE kernel.state[Kcd] # "new"
    <3>1. i > 1
      BY <2>1, <1>6
    <3>. QED BY <3>1, <2>1, <1>1, <1>6 DEF MovesLive
  <2>. QED BY <2>1 DEF MovesLive
<1>8. RunsAs(Head(t), 1 < Len(t), mask', available')
  <2>1. 1 < Len(t) <=> ~UserMode
    BY <1>1, <1>6, EmptySeq
  <2>. QED BY <2>1, <1>6 DEF RunsAs, Guarded
<1>. QED BY <1>2, <1>5, <1>6, <1>7, <1>8, StepKeepsStackInv

LEMMA CallKeepsStackInv ==
  ASSUME StackInv, Typed', SameNew, NEW calls, NEW point, At(calls, point),
         NEW next \in InBracket \cup Outside, NEW f, CallFrom(next, f),
         f \in FrameType, GoodFrame(p0, f, TRUE), Linked("none", f), ~Moving(f),
         RunsAs(f, TRUE, mask', available'),
         NEW g, g = [Top EXCEPT !.at = next],
         GoodFrame(p0, g, InnerTop), ~Guarded(g, InnerTop), Linked(f.call, g), ~Moving(g)
  PROVE  StackInv'
<1>. DEFINE s == stack[p0]
            u == [s EXCEPT ![1] = g]
            t == <<f>> \o u
<1>1. /\ GoodStack(p0, s) /\ MovesLive(s) /\ s \in Seq(FrameType) /\ s # <<>> /\ Top = s[1]
      /\ InnerTop <=> 1 < Len(s)
  BY AtTop DEF InnerTop, Depth, GoodStack
<1>2. g \in FrameType /\ g.call = s[1].call
  BY <1>1, AtTop DEF GoodFrame, FrameType
<1>3. u \in Seq(FrameType) /\ t \in Seq(FrameType)
  <2>1. u \in Seq(FrameType)
    BY <1>1, <1>2, NextOnTop
  <2>. HIDE DEF u
  <2>. QED BY <2>1, OnTop
<1>4. stack' = [stack EXCEPT ![p0] = t]
  BY <1>1 DEF CallFrom
<1>5. StackBecomes(p0, t)
  <2>. HIDE DEF t
  <2>. QED BY <1>3, <1>4, StackOf DEF StackBecomes
<1>t. t = <<f>> \o u /\ u = [s EXCEPT ![1] = g]
  OBVIOUS
<1>. HIDE DEF s, t, u
<1>6. GoodStack(p0, t)
  <2>1. GoodFrame(p0, g, 1 < Len(s)) /\ ~Guarded(g, 1 < Len(s))
    BY <1>1 DEF GoodFrame, Guarded
  <2>2. t = <<f>> \o [s EXCEPT ![1] = g]
    BY <1>t
  <2>3. GoodFrame(p0, f, TRUE) /\ Linked(f.call, g) /\ Linked("none", f)
    OBVIOUS
  <2>. QED BY <1>1, <1>2, <2>1, <2>2, <2>3, GoodCall
<1>7. /\ Len(u) = Len(s) /\ u # <<>> /\ u[1] = g
      /\ \A i \in 1..Len(u) : i > 1 => u[i] = s[i]
  BY <1>1, <1>2, <1>t, NextOnTop
<1>8. /\ Len(t) = Len(u) + 1 /\ t # <<>> /\ t[1] = f /\ Head(t) = f
      /\ \A i \in 1..Len(t) : i > 1 => i - 1 \in 1..Len(u) /\ t[i] = u[i - 1]
  BY <1>3, <1>t, OnTop DEF u, t
<1>9. MovesLive(t)
  <2>1. ASSUME NEW i \in 1..Len(t), Moving(t[i]) PROVE kernel.state[Kcd] # "new"
    <3>1. i > 1 /\ i - 1 > 1
      BY <2>1, <1>7, <1>8
    <3>2. i - 1 \in 1..Len(s) /\ t[i] = s[i - 1]
      BY <3>1, <1>7, <1>8
    <3>. QED BY <3>2, <2>1, <1>1 DEF MovesLive
  <2>. QED BY <2>1 DEF MovesLive
<1>10. RunsAs(Head(t), 1 < Len(t), mask', available')
  <2>1. 1 < Len(t)
    BY <1>1, <1>7, <1>8, EmptySeq
  <2>. QED BY <2>1, <1>8 DEF RunsAs, Guarded
<1>. QED BY <1>5, <1>6, <1>8, <1>9, <1>10, StepKeepsStackInv

LEMMA UserCalls ==
  ASSUME StackInv, UserMode
  PROVE  /\ CallYield => StackInv'
         /\ CallRequest => StackInv'
         /\ CallReceive => StackInv'
         /\ \A b \in MemBlock : (CallRelease(b) => StackInv') /\ (CallSend(b) => StackInv')
<1>1. Typed /\ p0 \in Proc /\ mask = Open
  BY StackOf
<1>2. ASSUME NEW call \in {"switch", "request", "receive"}, NEW point \in {"switch", "up"},
             call = "switch" <=> point = "switch",
             p0 # NullProc, p0 = Kcd => call = "receive",
             Push(Frame(call, point, NoBlock)), UNCHANGED <<kernel, status, mask, data>>
      PROVE  StackInv'
  <2>. DEFINE f == Frame(call, point, NoBlock)
  <2>1. /\ f \in FrameType /\ f.call = call /\ f.at = point /\ f.sr = Open
        /\ f.first = FALSE /\ f.block = NoBlock
    BY <1>1 DEF Frame, FrameType, HandlerCall, Outside
  <2>2. Push(f)
    BY <1>2
  <2>. HIDE DEF f
  <2>3. GoodFrame(p0, f, ~UserMode) /\ Linked("none", f) /\ ~Moving(f)
    BY <1>2, <2>1 DEF GoodFrame, PointsOf, Linked, Moving
  <2>4. SameNew /\ Typed'
    BY <1>1, <1>2 DEF SameNew, Typed, data, p0
  <2>5. RunsAs(f, ~UserMode, mask', available')
    BY <2>1 DEF RunsAs, Guarded
  <2>. QED BY <2>1, <2>2, <2>3, <2>4, <2>5, PushKeepsStackInv
<1>3. ASSUME NEW b \in MemBlock, NEW call \in {"release", "send"},
             p0 # NullProc, p0 = Kcd => call = "release", Take(b),
             Push(Frame(call, "up", b)), UNCHANGED <<kernel, status, mask, available, mail, keys>>
      PROVE  StackInv'
  <2>. DEFINE f == Frame(call, "up", b)
  <2>1. /\ f \in FrameType /\ f.call = call /\ f.at = "up" /\ f.sr = Open
        /\ f.first = FALSE /\ f.block = b
    BY <1>1 DEF Frame, FrameType, HandlerCall, Outside
  <2>2. Push(f)
    BY <1>3
  <2>. HIDE DEF f
  <2>3. GoodFrame(p0, f, ~UserMode) /\ Linked("none", f) /\ ~Moving(f)
    BY <1>3, <2>1 DEF GoodFrame, PointsOf, Linked, Moving
  <2>4. held' \in [Proc -> SUBSET MemBlock] /\ held'[NullProc] = {}
    BY <1>1, <1>3, ProcAssumption DEF Take, Typed
  <2>5. SameNew /\ Typed'
    BY <1>1, <1>3, <2>4 DEF SameNew, Typed, p0
  <2>6. RunsAs(f, ~UserMode, mask', available')
    BY <2>1 DEF RunsAs, Guarded
  <2>. QED BY <2>1, <2>2, <2>3, <2>5, <2>6, PushKeepsStackInv
<1>4. CallYield => StackInv'
  BY <1>2 DEF CallYield, Client
<1>5. CallRequest => StackInv'
  BY <1>2 DEF CallRequest, Client
<1>6. CallReceive => StackInv'
  BY <1>2, PreemptAssumption DEF CallReceive
<1>7. ASSUME NEW b \in MemBlock PROVE CallRelease(b) => StackInv'
  <2>1. b \in held[p0] => p0 # NullProc
    BY <1>1 DEF Typed
  <2>. QED BY <2>1, <1>3 DEF CallRelease, Take
<1>8. ASSUME NEW b \in MemBlock PROVE CallSend(b) => StackInv'
  BY <1>3 DEF CallSend, Client
<1>. QED BY <1>4, <1>5, <1>6, <1>7, <1>8

LEMMA SerialKeeps ==
  ASSUME StackInv, SerialInterrupt
  PROVE  StackInv'
<1>1. Typed /\ p0 \in Proc /\ Stacks /\ (UserMode => mask = Open)
  BY StackOf
<1>. DEFINE f == Frame("uart", "up", NoBlock)
<1>2. /\ f \in FrameType /\ f.call = "uart" /\ f.at = "up" /\ f.sr = mask
      /\ f.first = FALSE /\ f.block = NoBlock
  BY <1>1 DEF Frame, FrameType, HandlerCall, Outside, Typed
<1>3. Push(f) /\ mask < SerialLevel /\ mask' = SerialLevel
  BY DEF SerialInterrupt
<1>. HIDE DEF f
<1>4. mask \notin {SerialLevel, Closed}
  BY <1>3 DEF SerialLevel, Closed
<1>5. ~UserMode => ~Guarded(Top, InnerTop)
  BY <1>4 DEF StackInv, Running
<1>6. GoodFrame(p0, f, ~UserMode) /\ Linked("none", f) /\ ~Moving(f)
  BY <1>1, <1>2 DEF GoodFrame, PointsOf, Linked, Moving
<1>7. SameNew /\ Typed'
  <2>1. keys' \in 0..Keys
    BY <1>1, PreemptAssumption DEF SerialInterrupt, Typed
  <2>. QED BY <1>1, <2>1 DEF SerialInterrupt, SameNew, Typed, p0
<1>8. RunsAs(f, ~UserMode, mask', available')
  BY <1>2, <1>3 DEF RunsAs, Guarded
<1>. QED BY <1>2, <1>3, <1>5, <1>6, <1>7, <1>8, PushKeepsStackInv

LEMMA UartCalls ==
  ASSUME StackInv
  PROVE  /\ UartRequests => StackInv'
         /\ UartSends => StackInv'
<1>1. ASSUME UartRequests PROVE StackInv'
  <2>. DEFINE f == Frame("request", "up", NoBlock)
              g == [Top EXCEPT !.at = "deliver"]
  <2>1. /\ At({"uart"}, "body") /\ CallFrom("deliver", f) /\ SameNew
        /\ available' # <<>> /\ mask' = mask
    BY <1>1 DEF UartRequests, SameNew, p0, data
  <2>2. /\ Top.at = "body" /\ Top.call = "uart" /\ Typed /\ GoodFrame(p0, Top, InnerTop)
        /\ RunsAs(Top, InnerTop, mask, available) /\ Top \in FrameType
    BY <2>1, AtTop
  <2>3. Typed'
    BY <1>1, <2>2 DEF UartRequests, data, Typed, p0
  <2>4. /\ f \in FrameType /\ f.call = "request" /\ f.at = "up" /\ f.sr = mask
        /\ f.first = FALSE /\ f.block = NoBlock
    BY <2>2 DEF Frame, FrameType, HandlerCall, Outside, Typed
  <2>5. /\ g \in FrameType /\ g.call = "uart" /\ g.at = "deliver" /\ g.sr = Top.sr
        /\ g.first = Top.first /\ g.block = Top.block
    BY <2>2 DEF FrameType, InBracket
  <2>6. g = [Top EXCEPT !.at = "deliver"]
    OBVIOUS
  <2>. HIDE DEF f, g
  <2>7. GoodFrame(p0, f, TRUE) /\ Linked("none", f) /\ ~Moving(f)
    BY <2>4 DEF GoodFrame, PointsOf, Linked, Moving
  <2>8. GoodFrame(p0, g, InnerTop) /\ ~Guarded(g, InnerTop) /\ Linked(f.call, g) /\ ~Moving(g)
    BY <2>2, <2>4, <2>5 DEF GoodFrame, PointsOf, Linked, Moving, Guarded, FirstPoint
  <2>9. RunsAs(f, TRUE, mask', available')
    BY <2>1, <2>2, <2>4 DEF RunsAs, Guarded
  <2>10. "deliver" \in InBracket \cup Outside
    BY DEF InBracket
  <2>. QED BY <2>1, <2>3, <2>4, <2>6, <2>7, <2>8, <2>9, <2>10, CallKeepsStackInv
<1>2. ASSUME UartSends PROVE StackInv'
  <2>. DEFINE f == Frame("send", "up", Top.block)
              g == [Top EXCEPT !.at = "finish"]
  <2>1. At({"uart"}, "deliver") /\ CallFrom("finish", f) /\ SameNew /\ mask' = mask
    BY <1>2 DEF UartSends, SameNew, p0, data
  <2>2. /\ Top.at = "deliver" /\ Top.call = "uart" /\ Typed /\ GoodFrame(p0, Top, InnerTop)
        /\ Linked("none", Top) /\ Top \in FrameType
    BY <2>1, AtTop
  <2>3. Typed'
    BY <1>2, <2>2 DEF UartSends, data, Typed, p0
  <2>4. /\ f \in FrameType /\ f.call = "send" /\ f.at = "up" /\ f.sr = mask
        /\ f.first = FALSE /\ f.block = Top.block /\ f.block \in MemBlock
    BY <2>2 DEF Frame, FrameType, HandlerCall, Outside, Typed, Linked
  <2>5. /\ g \in FrameType /\ g.call = "uart" /\ g.at = "finish" /\ g.sr = Top.sr
        /\ g.first = Top.first /\ g.block = Top.block
    BY <2>2 DEF FrameType, InBracket
  <2>6. g = [Top EXCEPT !.at = "finish"]
    OBVIOUS
  <2>. HIDE DEF f, g
  <2>7. GoodFrame(p0, f, TRUE) /\ Linked("none", f) /\ ~Moving(f)
    BY <2>4 DEF GoodFrame, PointsOf, Linked, Moving
  <2>8. GoodFrame(p0, g, InnerTop) /\ ~Guarded(g, InnerTop) /\ Linked(f.call, g) /\ ~Moving(g)
    BY <2>2, <2>4, <2>5 DEF GoodFrame, PointsOf, Linked, Moving, Guarded, FirstPoint
  <2>9. RunsAs(f, TRUE, mask', available')
    BY <2>4 DEF RunsAs, Guarded
  <2>10. "finish" \in InBracket \cup Outside
    BY DEF InBracket
  <2>. QED BY <2>1, <2>3, <2>4, <2>6, <2>7, <2>8, <2>9, <2>10, CallKeepsStackInv
<1>. QED BY <1>1, <1>2

\* A handler that releases the processor.
LEMMA Yielding ==
  ASSUME StackInv
  PROVE  /\ UnblockYields => StackInv'
         /\ BlockReleasesProcessor => StackInv'
<1>1. ASSUME NEW point \in {"yield", "queued"}, At(HandlerCall, point), NEW next \in {"return", "retry"},
             CallFrom(next, Frame("switch", "switch", NoBlock)),
             point = "yield" => next = "return",
             point = "queued" => (next = "retry" <=> Top.call = "request"),
             Trap2, UNCHANGED <<kernel, data>>
      PROVE  StackInv'
  <2>. DEFINE f == Frame("switch", "switch", NoBlock)
              g == [Top EXCEPT !.at = next]
  <2>1. CallFrom(next, f) /\ SameNew
    BY <1>1 DEF SameNew, p0
  <2>2. /\ Top.at = point /\ Top.call \in HandlerCall /\ Typed /\ GoodFrame(p0, Top, InnerTop)
        /\ Top \in FrameType
    BY <1>1, AtTop
  <2>3. Typed'
    BY <1>1, <2>2 DEF Trap2, data, Typed, p0
  <2>4. /\ f \in FrameType /\ f.call = "switch" /\ f.at = "switch" /\ f.sr = mask
        /\ f.first = FALSE /\ f.block = NoBlock
    BY <2>2 DEF Frame, FrameType, HandlerCall, Outside, Typed
  <2>5. /\ g \in FrameType /\ g.call = Top.call /\ g.at = next /\ g.sr = Top.sr
        /\ g.first = Top.first /\ g.block = Top.block
    BY <2>2 DEF FrameType, Outside
  <2>6. g = [Top EXCEPT !.at = next]
    OBVIOUS
  <2>. HIDE DEF f, g
  <2>7. GoodFrame(p0, f, TRUE) /\ Linked("none", f) /\ ~Moving(f)
    BY <2>4 DEF GoodFrame, PointsOf, Linked, Moving
  <2>8. \/ Top.call \in {"release", "send"} /\ next = "return"
        \/ Top.call = "request" /\ next = "retry" /\ ~InnerTop
        \/ Top.call = "receive" /\ next = "return"
    BY <1>1, <2>2 DEF GoodFrame, PointsOf, HandlerCall
  <2>9. GoodFrame(p0, g, InnerTop) /\ ~Guarded(g, InnerTop) /\ Linked(f.call, g) /\ ~Moving(g)
    BY <2>2, <2>4, <2>5, <2>8 DEF GoodFrame, PointsOf, Linked, Moving, Guarded, FirstPoint, InBracket
  <2>10. RunsAs(f, TRUE, mask', available')
    BY <2>4 DEF RunsAs, Guarded
  <2>11. next \in InBracket \cup Outside
    BY DEF Outside
  <2>. QED BY <1>1, <2>1, <2>3, <2>4, <2>6, <2>7, <2>9, <2>10, <2>11, CallKeepsStackInv
<1>2. UnblockYields => StackInv'
  BY <1>1 DEF UnblockYields
<1>3. BlockReleasesProcessor => StackInv'
  <2>1. SUFFICES ASSUME BlockReleasesProcessor PROVE StackInv'
    OBVIOUS
  <2>2. CASE Top.call = "request"
    BY <1>1, <2>1, <2>2 DEF BlockReleasesProcessor
  <2>3. CASE Top.call # "request"
    BY <1>1, <2>1, <2>3 DEF BlockReleasesProcessor
  <2>. QED BY <2>2, <2>3
<1>. QED BY <1>2, <1>3

LEMMA TailMovesLive ==
  ASSUME NEW s \in Seq(FrameType), s # <<>>, MovesLive(s), NEW t, t = Tail(s)
  PROVE  MovesLive(t)
BY OffTop DEF MovesLive

LEMMA ReturnKeeps ==
  ASSUME StackInv, Return
  PROVE  StackInv'
<1>. DEFINE s == stack[p0]
            t == Tail(s)
<1>1. /\ At(HandlerCall \ {"request"}, "return") /\ mask' = Top.sr /\ SameNew
      /\ stack' = [stack EXCEPT ![p0] = t]
  BY DEF Return, SameNew, p0
<1>2. /\ GoodStack(p0, s) /\ MovesLive(s) /\ s \in Seq(FrameType) /\ s # <<>> /\ Top = s[1]
      /\ Top.call # "request" /\ Typed /\ Top \in FrameType
      /\ stack \in [Proc -> Seq(FrameType)] /\ p0 \in Proc
  BY <1>1, AtTop, StackOf DEF GoodStack
<1>3. Typed'
  BY <1>1, <1>2 DEF Return, data, Typed, FrameType, p0
<1>t. t = Tail(s)
  OBVIOUS
<1>. HIDE DEF s, t
<1>4. /\ GoodBelow(p0, t, s[1].call) /\ (t = <<>> => s[1].sr = Open)
  BY <1>2, <1>t, GoodTail
<1>5. GoodStack(p0, t) /\ (t # <<>> => ~Guarded(t[1], 1 < Len(t)))
  BY <1>2, <1>4, GoodUncovered
<1>6. MovesLive(t)
  BY <1>2, <1>t, TailMovesLive
<1>7. t \in Seq(FrameType)
  BY <1>5 DEF GoodStack
<1>8. StackBecomes(p0, t)
  BY <1>1, <1>2, <1>7 DEF StackBecomes
<1>9. IF t = <<>> THEN mask' = Open ELSE RunsAs(Head(t), 1 < Len(t), mask', available')
  <2>1. CASE t = <<>>
    BY <1>1, <1>2, <1>4, <2>1
  <2>2. CASE t # <<>>
    <3>1. Head(t) = t[1] /\ ~Guarded(t[1], 1 < Len(t))
      BY <2>2, <1>5, <1>7, OffTop
    <3>. QED BY <2>2, <3>1 DEF RunsAs, Guarded, FirstPoint
  <2>. QED BY <2>1, <2>2
<1>. QED BY <1>1, <1>3, <1>5, <1>6, <1>8, <1>9, StepKeepsStackInv

LEMMA RequestReturnsKeeps ==
  ASSUME StackInv, RequestReturns
  PROVE  StackInv'
<1>. DEFINE s == stack[p0]
            t == Tail(s)
            b == Top.block
            g == [t[1] EXCEPT !.block = b]
            u == [t EXCEPT ![1] = g]
<1>1. /\ At({"request"}, "return") /\ mask' = Top.sr /\ SameNew
      /\ IF Len(s) = 1
         THEN /\ stack' = [stack EXCEPT ![p0] = t]
              /\ held' = [held EXCEPT ![p0] = @ \cup {b}]
         ELSE stack' = [stack EXCEPT ![p0] = u] /\ held' = held
  BY DEF RequestReturns, SameNew, p0
<1>2. /\ GoodStack(p0, s) /\ MovesLive(s) /\ s \in Seq(FrameType) /\ s # <<>> /\ Top = s[1]
      /\ Top.call = "request" /\ Top.at = "return" /\ Typed /\ Top \in FrameType
      /\ stack \in [Proc -> Seq(FrameType)] /\ p0 \in Proc /\ GoodFrame(p0, Top, InnerTop)
      /\ InnerTop <=> 1 < Len(s)
  BY <1>1, AtTop, StackOf DEF GoodStack, InnerTop, Depth
<1>3. b \in MemBlock
  BY <1>2 DEF GoodFrame
<1>4. held' \in [Proc -> SUBSET MemBlock] /\ held'[NullProc] = {}
  <2>1. CASE Len(s) = 1
    <3>1. p0 # NullProc
      BY <1>2, <2>1 DEF GoodFrame
    <3>2. held' = [held EXCEPT ![p0] = held[p0] \cup {b}]
      BY <1>1, <2>1
    <3>3. held \in [Proc -> SUBSET MemBlock] /\ held[NullProc] = {} /\ NullProc \in Proc
      BY <1>2, ProcAssumption DEF Typed
    <3>. HIDE DEF b
    <3>. QED BY <1>2, <1>3, <3>1, <3>2, <3>3
  <2>2. CASE Len(s) # 1
    BY <1>1, <1>2, <2>2 DEF Typed
  <2>. QED BY <2>1, <2>2
<1>5. Typed'
  BY <1>1, <1>2, <1>4 DEF RequestReturns, Typed, FrameType, p0
<1>t. t = Tail(s) /\ g = [t[1] EXCEPT !.block = b] /\ u = [t EXCEPT ![1] = g]
  OBVIOUS
<1>b. b = s[1].block
  BY <1>2
<1>. HIDE DEF s, t, g, u, b
<1>6. /\ GoodBelow(p0, t, s[1].call) /\ (t = <<>> => s[1].sr = Open)
      /\ t = <<>> <=> Len(s) = 1
  BY <1>2, <1>t, GoodTail
<1>7. t \in Seq(FrameType) /\ MovesLive(t) /\ GoodBelow(p0, t, "request")
  BY <1>2, <1>6, <1>t, TailMovesLive DEF GoodBelow
<1>8. CASE Len(s) = 1
  <2>1. t = <<>> /\ mask' = Open
    BY <1>1, <1>2, <1>6, <1>8
  <2>2. GoodStack(p0, t)
    BY <2>1, <1>7, EmptySeq DEF GoodStack
  <2>3. StackBecomes(p0, t)
    BY <1>1, <1>2, <1>7, <1>8 DEF StackBecomes
  <2>. QED BY <1>1, <1>5, <1>7, <2>1, <2>2, <2>3, StepKeepsStackInv
<1>9. CASE Len(s) # 1
  <2>1. t # <<>>
    BY <1>6, <1>9
  <2>r. /\ GoodStack(p0, u) /\ u # <<>> /\ Head(u) = g
        /\ Len(u) = Len(t) /\ ~Guarded(g, 1 < Len(u))
    <3>1. GoodBelow(p0, t, "request") /\ t # <<>>
      BY <1>7, <2>1
    <3>2. g = Answered(t[1], b) /\ u = WithTop(t, g)
      BY <1>t DEF Answered, WithTop
    <3>. QED BY <1>3, <3>1, <3>2, GoodReturn
  <2>2. GoodStack(p0, u) /\ u # <<>> /\ Head(u) = g /\ Len(u) = Len(t) /\ ~Guarded(g, 1 < Len(u))
    BY <2>r
  <2>3. u \in Seq(FrameType)
    BY <2>2 DEF GoodStack
  <2>4. StackBecomes(p0, u)
    BY <1>1, <1>2, <2>3, <1>9 DEF StackBecomes
  <2>5. t[1] \in FrameType
    BY <1>7, <2>1, EmptySeq, ElementOfSeq
  <2>6. g \in FrameType /\ g.call = t[1].call /\ g.at = t[1].at
    BY <2>5, <1>3, <1>t DEF FrameType
  <2>7. u[1] = g /\ \A i \in 1..Len(u) : i > 1 => u[i] = t[i]
    <3>1. u = [t EXCEPT ![1] = g]
      BY <1>t
    <3>. QED BY <1>7, <2>1, <2>6, <3>1, NextOnTop
  <2>8. MovesLive(u)
    <3>1. ASSUME NEW i \in 1..Len(u), Moving(u[i]) PROVE kernel.state[Kcd] # "new"
      <4>1. Moving(t[i]) /\ i \in 1..Len(t)
        BY <3>1, <2>2, <2>6, <2>7 DEF Moving
      <4>. QED BY <4>1, <1>7 DEF MovesLive
    <3>. QED BY <3>1 DEF MovesLive
  <2>9. RunsAs(Head(u), 1 < Len(u), mask', available')
    BY <2>2 DEF RunsAs, Guarded, FirstPoint
  <2>. QED BY <1>1, <1>5, <2>2, <2>4, <2>8, <2>9, StepKeepsStackInv
<1>. QED BY <1>8, <1>9

-----------------------------------------------------------------------------
(* Steps that move processes between the queues. *)

LEMMA AtQueues ==
  ASSUME StackInv, QueueInv, NEW calls, NEW point, At(calls, point)
  PROVE  /\ Queues /\ Blocking /\ Decoder /\ kernel \in KernelType /\ p0 \in Proc
         /\ Filed(kernel, Loose) /\ Kcd \in Proc \ {NullProc} /\ p0 = kernel.running
BY AtTop, PreemptAssumption DEF QueueInv, Queues, Typed, p0

\* The kernel may change, but not the processor, the count, the mask or a block.
LEMMA NextKernel ==
  ASSUME StackInv, NEW calls, NEW point, At(calls, point),
         kernel' \in KernelType, SameNew, kernel'.state[NullProc] \in {"new", "ready"},
         UNCHANGED <<status, mask, data>>,
         NEW next \in (InBracket \cup Outside) \ {"up", "body", "take", "taken", "deliver"},
         GoTo(next), next \in PointsOf(Top.call),
         Top.call # "request" \/ ~InnerTop,
         Top.first => Top.at \notin InBracket, next \in InBracket => ~Top.first,
         p0 = Kcd /\ Top.call = "send" => next # "yield",
         next \in {"remove", "ready"} => kernel.state[Kcd] # "new",
         Top.call = "request" => next # "return"
  PROVE  StackInv'
<1>. DEFINE g == [Top EXCEPT !.at = next]
<1>1. /\ ~UserMode /\ Stacks /\ p0 \in Proc /\ Top.at = point
      /\ GoodFrame(p0, Top, InnerTop) /\ Top \in FrameType /\ Typed
  BY AtTop
<1>2. StackBecomes(p0, [stack[p0] EXCEPT ![1] = g]) /\ Goes(Top, g, next, Top.first, Top.block)
  BY <1>1, GoesTo
<1>. HIDE DEF g
<1>3. GoodFrame(p0, g, InnerTop) /\ g.call = Top.call /\ Linked("none", g)
  BY <1>1, <1>2 DEF Goes, GoodFrame, Linked
<1>4. Moving(g) => kernel.state[Kcd] # "new"
  BY <1>2 DEF Goes, Moving
<1>5. RunsAs(g, InnerTop, mask', available')
  BY <1>1, <1>2 DEF Goes, RunsAs, Guarded, FirstPoint
<1>6. Typed'
  BY <1>1 DEF Typed, SameNew, data
<1>. QED BY <1>2, <1>3, <1>4, <1>5, <1>6, NextKeepsStackInv

\* A handler that has opened its bracket at a count of 0 is past it here.
LEMMA NotFirst ==
  ASSUME StackInv, NEW calls, NEW point, At(calls, point),
         point \in InBracket \ FirstPoint, Top.call # "uart"
  PROVE  ~Top.first
BY AtTop DEF GoodFrame, FrameType

LEMMA StateKeeps ==
  ASSUME StackInv, BlockSetsState
  PROVE  StackInv'
<1>. DEFINE type == IF Top.call = "request" THEN "mem" ELSE "msg"
            f == [kernel.state EXCEPT ![p0] = BlockedState(type)]
<1>1. /\ At(HandlerCall, "state") /\ GoTo("queue") /\ UNCHANGED <<status, mask, data>>
      /\ kernel' = [kernel EXCEPT !.state[p0] = BlockedState(type)]
  BY DEF BlockSetsState
<1>2. /\ Top.at = "state" /\ Typed /\ GoodFrame(p0, Top, InnerTop) /\ Top.call \in HandlerCall
      /\ p0 \in Proc /\ Left
  BY <1>1, AtTop
<1>3. Top.call \in {"request", "receive"} /\ ~InnerTop /\ p0 # NullProc
  BY <1>2 DEF GoodFrame, PointsOf, HandlerCall
<1>4. ~Top.first
  BY <1>1, <1>3, NotFirst DEF InBracket, FirstPoint
<1>5. BlockedState(type) \in ProcState \ {"new"}
  BY DEF BlockedState, ProcState
<1>6. kernel' = [kernel EXCEPT !.state = f] /\ kernel \in KernelType
  BY <1>1, <1>2 DEF Typed
<1>7. f \in [Proc -> ProcState] /\ f[NullProc] = kernel.state[NullProc]
      /\ \A p \in Proc : f[p] = IF p = p0 THEN BlockedState(type) ELSE kernel.state[p]
  BY <1>2, <1>3, <1>5, <1>6, KernelFields, ProcAssumption
<1>. HIDE DEF f
<1>8. kernel' \in KernelType /\ kernel'.state = f /\ kernel'.running = kernel.running
  BY <1>6, <1>7, KernelUpdate
<1>9. SameNew /\ kernel'.state[NullProc] \in {"new", "ready"}
  BY <1>2, <1>5, <1>7, <1>8 DEF SameNew, Left, p0, Typed
<1>10. /\ "queue" \in (InBracket \cup Outside) \ {"up", "body", "take", "taken", "deliver"}
       /\ "queue" \in PointsOf(Top.call)
  BY <1>3 DEF InBracket, PointsOf
<1>. QED BY <1>1, <1>3, <1>4, <1>8, <1>9, <1>10, NextKernel

\* Where the process is put does not matter here.
LEMMA EnqueueTyped ==
  ASSUME NEW k \in KernelType, NEW kind \in Kind, NEW p \in Proc
  PROVE  LET e == EnqueueProcess(k, kind, p)
         IN  e \in KernelType /\ e.running = k.running /\ e.state = k.state /\ e.priority = k.priority
<1>. DEFINE l == k.priority[p]
            s == Append(k.queue[kind][l], p)
            e == EnqueueProcess(k, kind, p)
<1>1. l \in Level
  BY KernelFields
<1>2. s \in Seq(Proc)
  BY <1>1, QueueIsSeq, AppendContains
<1>3. e = PutQueue(k, kind, l, s)
  BY DEF EnqueueProcess, PutQueue
<1>. HIDE DEF l, s, e
<1>4. e \in KernelType /\ e.running = k.running /\ e.state = k.state /\ e.priority = k.priority
  BY <1>1, <1>2, <1>3, PutQueueProperties
<1>. QED BY <1>4 DEF e

LEMMA EnqueuesKeeps ==
  ASSUME StackInv, BlockEnqueues
  PROVE  StackInv'
<1>. DEFINE type == IF Top.call = "request" THEN "mem" ELSE "msg"
<1>1. /\ At(HandlerCall, "queue") /\ GoTo("queued") /\ UNCHANGED <<status, mask, data>>
      /\ kernel' = EnqueueProcess(kernel, type, p0)
  BY DEF BlockEnqueues
<1>2. /\ Top.at = "queue" /\ Typed /\ GoodFrame(p0, Top, InnerTop) /\ Top.call \in HandlerCall
      /\ p0 \in Proc
  BY <1>1, AtTop
<1>3. Top.call \in {"request", "receive"} /\ ~InnerTop
  BY <1>2 DEF GoodFrame, PointsOf, HandlerCall
<1>4. ~Top.first
  BY <1>1, <1>3, NotFirst DEF InBracket, FirstPoint
<1>5. kernel \in KernelType /\ type \in Kind
  BY <1>2 DEF Typed, Kind, BlockType
<1>6. kernel' \in KernelType /\ kernel'.state = kernel.state /\ kernel'.running = kernel.running
  BY <1>1, <1>2, <1>5, EnqueueTyped
<1>7. SameNew /\ kernel'.state[NullProc] \in {"new", "ready"}
  BY <1>2, <1>6 DEF SameNew, p0, Typed
<1>8. /\ "queued" \in (InBracket \cup Outside) \ {"up", "body", "take", "taken", "deliver"}
      /\ "queued" \in PointsOf(Top.call)
  BY <1>3 DEF InBracket, PointsOf
<1>. QED BY <1>1, <1>3, <1>4, <1>6, <1>7, <1>8, NextKernel

\* e is k after p has become ready, and out is what is filed nowhere now.
Readied(k, p, out, e) ==
    /\ e \in KernelType /\ Filed(e, out)
    /\ e.running = k.running /\ e.priority = k.priority
    /\ e.state = [k.state EXCEPT ![p] = "ready"]

\* p, in no queue before, is made ready.
LEMMA ReadyFiles ==
  ASSUME NEW k \in KernelType, NEW out, Filed(k, out), NEW p \in Proc, p \in out,
         NEW e, e = EnqueueProcess([k EXCEPT !.state[p] = "ready"], "ready", p)
  PROVE  Readied(k, p, out \ {p}, e)
<1>. DEFINE c == [k EXCEPT !.state[p] = "ready"]
<1>1. c \in KernelType /\ Filed(c, out)
  BY ChangeFiled DEF ProcState
<1>2. /\ c.running = k.running /\ c.priority = k.priority
      /\ c.state = [k.state EXCEPT ![p] = "ready"]
  BY DEF KernelType
<1>3. QueueOf(c.state[p]) = "ready" /\ "ready" \in Kind
  BY <1>2, KernelFields DEF QueueOf, Kind
<1>4. e = EnqueueProcess(c, "ready", p)
  OBVIOUS
<1>. HIDE DEF c
<1>5. IsFiled(c, "ready", p, out, e)
  BY <1>1, <1>3, <1>4, EnqueueFiles
<1>. QED BY <1>2, <1>5 DEF IsFiled, Readied

\* The first process that waits for a block is made ready.
LEMMA FirstBlockedReadied ==
  ASSUME NEW k \in KernelType, NEW out \in SUBSET Proc, Filed(k, out), ~IsEmpty(k, "mem"),
         NEW p, p = FirstBlocked(k, "mem"), NEW e, e = UnblockProcessByType(k, "mem", FALSE)
  PROVE  /\ p \in Proc \ out /\ k.state[p] = "blocked_mem"
         /\ Readied(k, p, out, e)
<1>. DEFINE l == FirstLevel(k, "mem")
            r == PutQueue(k, "mem", l, Tail(k.queue["mem"][l]))
<1>1. "mem" \in Kind
  BY DEF Kind, BlockType
<1>2. l \in Level /\ k.queue["mem"][l] # <<>>
  BY <1>1, FirstLevelProperties
<1>3. p = Head(k.queue["mem"][l])
  BY DEF FirstBlocked
<1>4. e = EnqueueProcess([r EXCEPT !.state[p] = "ready"], "ready", p)
  BY DEF UnblockProcessByType, PutQueue
<1>r. r = PutQueue(k, "mem", l, Tail(k.queue["mem"][l]))
  OBVIOUS
<1>. HIDE DEF l, r
<1>5. Unfiled(k, "mem", p, out, r)
  BY <1>1, <1>2, <1>3, <1>r, TailUnfiles
<1>6. /\ p \in Proc /\ p \notin out /\ QueueOf(k.state[p]) = "mem" /\ r \in KernelType
      /\ Filed(r, out \cup {p}) /\ r.running = k.running /\ r.state = k.state
      /\ r.priority = k.priority
  BY <1>5 DEF Unfiled
<1>7. k.state[p] = "blocked_mem"
  BY <1>6, KernelFields DEF QueueOf, ProcState
<1>. DEFINE o == out \cup {p}
<1>8. p \in o /\ o \ {p} = out
  BY <1>6
<1>. HIDE DEF o
<1>9. Filed(r, o)
  BY <1>6 DEF o
<1>10. Readied(r, p, o \ {p}, e)
  BY <1>4, <1>6, <1>8, <1>9, ReadyFiles
<1>. QED BY <1>6, <1>7, <1>8, <1>10 DEF Readied

\* Filed names the processes that are in no queue.
LEMMA LooseIs ==
  ASSUME kernel' \in KernelType, NEW out \in SUBSET Proc, Filed(kernel', out)
  PROVE  Loose' = out
<1>1. ASSUME NEW p \in Proc
      PROVE  (\A kind \in Kind, l \in Level : ~InQueue(kernel', kind, l, p)) <=> p \in out
  <2>1. QueueOf(kernel'.state[p]) \in Kind /\ kernel'.priority[p] \in Level
    BY QueueOfKind DEF KernelType
  <2>. QED BY <2>1 DEF Filed
<1>. QED BY <1>1 DEF Loose

\* The running process is in no queue, unless it is blocked.
LEMMA RunningLoose ==
  ASSUME kernel \in KernelType, Queues, p0 \in Proc, ~RunningIsReady,
         kernel.state[p0] \in {"new", "ready"}
  PROVE  p0 \in Loose
<1>1. QueueOf(kernel.state[p0]) = "ready" /\ "ready" \in Kind /\ kernel.priority[p0] \in Level
  BY KernelFields DEF QueueOf, Kind
<1>2. p0 \notin Loose => InQueue(kernel, "ready", kernel.priority[p0], p0)
  BY <1>1 DEF Queues, Filed
<1>. QED BY <1>1, <1>2 DEF RunningIsReady

\* What a sender knows that is about to take the decoder out of its queue.
LEMMA DecoderQueued ==
  ASSUME StackInv, QueueInv, At({"send"}, "remove"), p0 # Kcd
  PROVE  Kcd \notin Loose
<1>1. Decoder /\ p0 \in Proc
  BY AtQueues
<1>2. Top = stack[p0][1] /\ Top.call = "send" /\ Top.at = "remove"
      /\ stack[p0] \in Seq(FrameType) /\ Depth(p0) \in Nat
  BY AtTop, StackOf DEF GoodStack
<1>3. ASSUME NEW i \in 1..Depth(p0), Readying(stack[p0][i]) PROVE FALSE
  <2>1. i # 1
    BY <1>2, <1>3 DEF Readying
  <2>2. 1 \in 1..(i - 1)
    BY <1>2, <2>1
  <2>3. Kcd \in Loose /\ p0 \in Proc \ {Kcd}
    BY <1>1, <1>3 DEF Decoder
  <2>. QED BY <1>1, <1>2, <1>3, <2>2, <2>3 DEF Decoder
<1>. QED BY <1>1, <1>3 DEF Decoder

LEMMA ReleaseReadiesKeeps ==
  ASSUME StackInv, QueueInv, ReleaseReadies
  PROVE  StackInv'
<1>. DEFINE p == FirstBlocked(kernel, "mem")
            next == IF IsEmpty(kernel, "mem") THEN "stay" ELSE Outranked(p)
<1>1. /\ At({"release"}, "find") /\ GoTo(next) /\ UNCHANGED <<status, mask, data>>
      /\ kernel' = UnblockProcessByType(kernel, "mem", FALSE)
  BY DEF ReleaseReadies
<1>2. next \in {"stay", "yield"}
  BY DEF Outranked
<1>p. p = FirstBlocked(kernel, "mem")
  OBVIOUS
<1>. HIDE DEF p, next
<1>3. /\ Top.at = "find" /\ Top.call = "release" /\ Typed
  BY <1>1, AtTop
<1>4. ~Top.first
  BY <1>1, <1>3, NotFirst DEF InBracket, FirstPoint
<1>5. Filed(kernel, Loose) /\ kernel \in KernelType /\ Loose \in SUBSET Proc
  BY <1>1, AtQueues DEF Loose
<1>6. kernel' \in KernelType /\ SameNew /\ kernel'.state[NullProc] \in {"new", "ready"}
  <2>1. CASE IsEmpty(kernel, "mem")
    <3>1. kernel' = kernel
      BY <1>1, <2>1 DEF UnblockProcessByType
    <3>. QED BY <1>3, <1>5, <3>1 DEF SameNew, p0, Typed
  <2>2. CASE ~IsEmpty(kernel, "mem")
    <3>. DEFINE e == UnblockProcessByType(kernel, "mem", FALSE)
                out == Loose
    <3>0. kernel' = e /\ e = UnblockProcessByType(kernel, "mem", FALSE)
          /\ Filed(kernel, out) /\ out \in SUBSET Proc
      BY <1>1, <1>5
    <3>. HIDE DEF e, out
    <3>1. /\ p \in Proc /\ kernel.state[p] = "blocked_mem" /\ kernel' \in KernelType
          /\ kernel'.running = kernel.running
          /\ kernel'.state = [kernel.state EXCEPT ![p] = "ready"]
      <4>1. /\ p \in Proc /\ kernel.state[p] = "blocked_mem"
            /\ Readied(kernel, p, out, e)
        BY <1>5, <1>p, <2>2, <3>0, FirstBlockedReadied
      <4>. QED BY <3>0, <4>1 DEF Readied
    <3>. QED BY <1>3, <1>5, <3>1, KernelFields, ProcAssumption DEF SameNew, p0, Typed
  <2>. QED BY <2>1, <2>2
<1>7. /\ next \in (InBracket \cup Outside) \ {"up", "body", "take", "taken", "deliver"}
      /\ next \in PointsOf(Top.call) /\ next \notin {"remove", "ready"}
  BY <1>2, <1>3 DEF InBracket, PointsOf
<1>. QED BY <1>1, <1>3, <1>4, <1>6, <1>7, NextKernel

\* What the two steps of a sender do to the queues.
LEMMA RemoveEffect ==
  ASSUME StackInv, QueueInv, SendRemoves
  PROVE  /\ kernel' \in KernelType /\ kernel'.running = kernel.running
         /\ kernel'.state = kernel.state /\ kernel'.priority = kernel.priority
         /\ IF p0 = Kcd THEN kernel' = kernel ELSE Filed(kernel', Loose \cup {Kcd})
<1>1. At({"send"}, "remove") /\ kernel' = RemoveProcess(kernel, Kcd)
  BY DEF SendRemoves
<1>2. kernel \in KernelType /\ Filed(kernel, Loose) /\ Kcd \in Proc /\ p0 = kernel.running
  BY <1>1, AtQueues
<1>3. CASE p0 = Kcd
  BY <1>1, <1>2, <1>3 DEF RemoveProcess
<1>4. CASE p0 # Kcd
  <2>1. Kcd \notin Loose
    BY <1>1, <1>4, DecoderQueued
  <2>2. /\ kernel' \in KernelType /\ Filed(kernel', Loose \cup {Kcd})
        /\ kernel'.running = kernel.running /\ kernel'.state = kernel.state
        /\ kernel'.priority = kernel.priority
    <3>. DEFINE out == Loose
                r == RemoveProcess(kernel, Kcd)
    <3>1. kernel' = r /\ Kcd \notin out /\ Filed(kernel, out) /\ Kcd # kernel.running
      BY <1>1, <1>2, <1>4, <2>1
    <3>. HIDE DEF out
    <3>2. /\ r \in KernelType /\ Filed(r, out \cup {Kcd})
          /\ r.running = kernel.running /\ r.state = kernel.state /\ r.priority = kernel.priority
      BY <1>2, <3>1, RemoveUnfiles
    <3>. QED BY <3>1, <3>2 DEF out
  <2>. QED BY <1>4, <2>2
<1>. QED BY <1>3, <1>4

LEMMA SendRemovesKeeps ==
  ASSUME StackInv, QueueInv, SendRemoves
  PROVE  StackInv'
<1>1. At({"send"}, "remove") /\ GoTo("ready") /\ UNCHANGED <<status, mask, data>>
  BY DEF SendRemoves
<1>2. /\ Top.at = "remove" /\ Top.call = "send" /\ Typed /\ MovesLive(stack[p0])
      /\ Top = stack[p0][1] /\ Depth(p0) \in Nat \ {0}
  BY <1>1, AtTop, TopIsFirst
<1>3. ~Top.first
  BY <1>1, <1>2, NotFirst DEF InBracket, FirstPoint
<1>4. kernel.state[Kcd] # "new"
  BY <1>2 DEF MovesLive, Moving, Depth
<1>5. kernel' \in KernelType /\ kernel'.state = kernel.state /\ kernel'.running = kernel.running
  BY RemoveEffect
<1>6. SameNew /\ kernel'.state[NullProc] \in {"new", "ready"}
  BY <1>2, <1>5 DEF SameNew, p0, Typed
<1>7. /\ "ready" \in (InBracket \cup Outside) \ {"up", "body", "take", "taken", "deliver"}
      /\ "ready" \in PointsOf(Top.call)
  BY <1>2 DEF InBracket, PointsOf
<1>. QED BY <1>1, <1>2, <1>3, <1>4, <1>5, <1>6, <1>7, NextKernel

LEMMA SendReadiesKeeps ==
  ASSUME StackInv, SendReadies
  PROVE  StackInv'
<1>. DEFINE next == Outranked(Kcd)
            c == [kernel EXCEPT !.state[Kcd] = "ready"]
<1>1. /\ At({"send"}, "ready") /\ GoTo(next) /\ UNCHANGED <<status, mask, data>>
      /\ kernel' = EnqueueProcess(c, "ready", Kcd)
  BY DEF SendReadies
<1>2. next \in {"stay", "yield"} /\ (p0 = Kcd /\ kernel \in KernelType => next = "stay")
  <2>1. kernel \in KernelType => kernel.priority[Kcd] \in Level
    BY PreemptAssumption, KernelFields
  <2>. QED BY <2>1 DEF Outranked, Level
<1>3. /\ Top.at = "ready" /\ Top.call = "send" /\ Typed /\ MovesLive(stack[p0])
      /\ Top = stack[p0][1] /\ Depth(p0) \in Nat \ {0} /\ Kcd \in Proc
  BY <1>1, AtTop, TopIsFirst, PreemptAssumption
<1>4. ~Top.first
  BY <1>1, <1>3, NotFirst DEF InBracket, FirstPoint
<1>5. kernel.state[Kcd] # "new"
  BY <1>3 DEF MovesLive, Moving, Depth
<1>6. kernel \in KernelType
  BY <1>3 DEF Typed
<1>7. /\ c \in KernelType /\ c.running = kernel.running
      /\ c.state = [kernel.state EXCEPT ![Kcd] = "ready"]
  BY <1>3, <1>6 DEF KernelType, ProcState
<1>. HIDE DEF c, next
<1>8. kernel' \in KernelType /\ kernel'.running = kernel.running /\ kernel'.state = c.state
  BY <1>1, <1>3, <1>7, EnqueueTyped DEF Kind
<1>9. SameNew /\ kernel'.state[NullProc] \in {"new", "ready"}
  BY <1>3, <1>5, <1>6, <1>7, <1>8, KernelFields, ProcAssumption DEF SameNew, p0, Typed
<1>10. /\ next \in (InBracket \cup Outside) \ {"up", "body", "take", "taken", "deliver"}
       /\ next \in PointsOf(Top.call) /\ next \notin {"remove", "ready"}
       /\ p0 = Kcd => next # "yield"
  BY <1>2, <1>3, <1>6 DEF InBracket, PointsOf
<1>. QED BY <1>1, <1>3, <1>4, <1>8, <1>9, <1>10, NextKernel

-----------------------------------------------------------------------------
(* The processor goes to another process. *)

\* Only the process that is dispatched changes: it is no longer new.
LEMMA DispatchOf ==
  ASSUME NEW k \in KernelType, NEW dead, Filed(k, dead),
         NullProc \notin dead, QueueOf(k.state[NullProc]) = "ready",
         NEW d, d = Dispatch(k)
  PROVE  /\ Settled(d, dead) /\ d.running \in Proc
         /\ k.state[d.running] \in {"new", "ready"}
         /\ \A x \in Proc : x # d.running => d.state[x] = k.state[x]
<1>1. Settled(d, dead) /\ TopRuns(d) /\ "ready" \in Kind
  BY DispatchSettles DEF Kind
<1>. DEFINE l == FirstLevel(k, "ready")
            q == k.queue["ready"][l]
            p == Head(q)
<1>2. ~IsEmpty(k, "ready")
  <2>1. k.priority[NullProc] \in Level
    BY ProcAssumption DEF KernelType
  <2>2. Contains(k.queue["ready"][k.priority[NullProc]], NullProc)
    BY <1>1, <2>1, ProcAssumption DEF Filed, InQueue
  <2>. QED BY <1>1, <2>1, <2>2, QueueIsSeq, NotEmptyContains DEF IsEmpty
<1>3. l \in Level /\ q # <<>>
  BY <1>1, <1>2, FirstLevelProperties
<1>4. q \in Seq(Proc) /\ IsInjective(q)
  BY <1>1, <1>3, QueueIsSeq DEF Filed
<1>5. p \in Proc /\ Contains(q, p)
  <2>. HIDE DEF q, l
  <2>1. HeadAndTail(Proc, q, p, Tail(q))
    BY <1>3, <1>4, TailContains
  <2>. QED BY <2>1 DEF HeadAndTail
<1>6. QueueOf(k.state[p]) = "ready"
  <2>. HIDE DEF p, q
  <2>. QED BY <1>1, <1>3, <1>5, FiledContains DEF q
<1>7. k.state[p] \in {"new", "ready"}
  BY <1>5, <1>6, KernelFields DEF ProcState, QueueOf
<1>8. /\ d.running = p
      /\ d.state = [k.state EXCEPT ![p] = IF k.state[p] = "new" THEN "ready" ELSE k.state[p]]
  <2>. HIDE DEF p, l
  <2>1. d = [k EXCEPT !.queue["ready"][l] = Tail(@), !.running = p,
                      !.state[p] = IF @ = "new" THEN "ready" ELSE @]
    BY <1>2 DEF Dispatch, p, l
  <2>. QED BY <2>1 DEF KernelType
<1>. HIDE DEF p
<1>. QED BY <1>1, <1>5, <1>7, <1>8, KernelFields

\* Who is left behind when the running process gives up the processor.
Behind == IF kernel.state[p0] = "ready" THEN Loose \ {p0} ELSE Loose

LEMMA SwitchEffect ==
  ASSUME StackInv, QueueInv, Switch
  PROVE  /\ Settled(kernel', Behind) /\ p0' \in Proc /\ p0' \notin Behind
         /\ kernel.state[p0'] \in {"new", "ready"} /\ kernel'.state[p0'] = "ready"
         /\ \A x \in Proc : x # p0' => kernel'.state[x] = kernel.state[x]
<1>1. At({"switch"}, "switch") /\ kernel' = ProcSwitch(kernel)
  BY DEF Switch
<1>2. /\ Queues /\ kernel \in KernelType /\ p0 \in Proc /\ Filed(kernel, Loose)
      /\ p0 = kernel.running /\ NullProc \in Proc
  BY <1>1, AtQueues, ProcAssumption
<1>3. /\ kernel.state[NullProc] \in {"new", "ready"} /\ kernel.state[p0] # "new"
      /\ ~RunningIsReady
  BY <1>1, AtTop DEF Typed, Left
<1>4. QueueOf(kernel.state[NullProc]) = "ready"
  BY <1>3 DEF QueueOf
<1>. DEFINE out == Loose
<1>5. ASSUME NEW k \in KernelType, Filed(k, Behind), k.state = kernel.state,
             NullProc \notin Behind, kernel' = Dispatch(k)
      PROVE  /\ Settled(kernel', Behind) /\ p0' \in Proc /\ p0' \notin Behind
             /\ kernel.state[p0'] \in {"new", "ready"} /\ kernel'.state[p0'] = "ready"
             /\ \A x \in Proc : x # p0' => kernel'.state[x] = kernel.state[x]
  <2>. DEFINE d == Dispatch(k)
              dead == Behind
  <2>1. d = Dispatch(k) /\ kernel' = d /\ Filed(k, dead) /\ NullProc \notin dead
    BY <1>5
  <2>. HIDE DEF d, dead
  <2>2. /\ Settled(d, dead) /\ d.running \in Proc
        /\ k.state[d.running] \in {"new", "ready"}
        /\ \A x \in Proc : x # d.running => d.state[x] = k.state[x]
    BY <1>4, <1>5, <2>1, DispatchOf
  <2>. QED BY <1>5, <2>1, <2>2 DEF Settled, dead, p0
<1>6. CASE kernel.state[p0] = "ready"
  <2>. DEFINE e == EnqueueProcess(kernel, "ready", p0)
  <2>1. p0 \in out /\ Filed(kernel, out)
    BY <1>2, <1>3, <1>6, RunningLoose
  <2>2. QueueOf(kernel.state[p0]) = "ready" /\ "ready" \in Kind
    BY <1>6 DEF QueueOf, Kind
  <2>. HIDE DEF out
  <2>3. IsFiled(kernel, "ready", p0, out, e)
    BY <1>2, <2>1, <2>2, EnqueueFiles
  <2>4. NullProc \notin Behind
    BY <1>2, <1>6 DEF Behind, Queues
  <2>5. kernel' = Dispatch(e)
    BY <1>1, <1>2, <1>6 DEF ProcSwitch
  <2>6. e \in KernelType /\ Filed(e, Behind) /\ e.state = kernel.state
    BY <1>6, <2>3 DEF IsFiled, out, Behind
  <2>. HIDE DEF e
  <2>. QED BY <1>5, <2>4, <2>5, <2>6
<1>7. CASE kernel.state[p0] # "ready"
  <2>1. NullProc \notin Behind
    BY <1>2, <1>3, <1>7 DEF Behind, Queues
  <2>2. kernel' = Dispatch(kernel)
    BY <1>1, <1>2, <1>7 DEF ProcSwitch
  <2>3. Filed(kernel, Behind)
    BY <1>2, <1>7 DEF Behind
  <2>. QED BY <1>2, <1>5, <2>1, <2>2, <2>3
<1>. QED BY <1>6, <1>7

\* The stack of the process that goes on, without its handler of the switch.
Resumed(p) == IF kernel.state[p] = "new" THEN <<>> ELSE Tail(stack[p])

LEMMA SwitchStack ==
  ASSUME StackInv, QueueInv, Switch
  PROVE  LET t == Resumed(p0')
         IN  /\ StackBecomes(p0', t) /\ GoodStack(p0', t)
             /\ t = <<>> => mask' = Open
             /\ t # <<>> => ~Guarded(t[1], 1 < Len(t))
             /\ t \in Seq(FrameType)
             /\ kernel.state[p0'] = "new" => stack[p0'] = <<>>
             /\ kernel.state[p0'] # "new" =>
                   /\ stack[p0'] \in Seq(FrameType) /\ stack[p0'] # <<>>
                   /\ stack[p0'][1].call = "switch"
<1>. DEFINE next == p0'
            s == stack[next]
<1>1. At({"switch"}, "switch") /\ next \in Proc /\ kernel' = ProcSwitch(kernel)
  BY SwitchEffect DEF Switch
<1>2. /\ stack \in [Proc -> Seq(FrameType)] /\ Top = stack[p0][1] /\ Top.call = "switch"
      /\ Left /\ Stacks /\ stack[p0] # <<>>
  BY <1>1, AtTop DEF Stacks
<1>3. CASE kernel.state[next] = "new"
  <2>1. next # p0 /\ s = <<>>
    BY <1>1, <1>2, <1>3 DEF Left
  <2>2. mask' = Open /\ stack' = stack
    BY <1>3 DEF Switch, p0
  <2>3. Resumed(next) = <<>>
    BY <1>3 DEF Resumed
  <2>4. GoodStack(next, s) /\ s \in Seq(FrameType)
    BY <1>1, <1>2 DEF Stacks
  <2>5. StackBecomes(next, <<>>) /\ GoodStack(next, <<>>) /\ <<>> \in Seq(FrameType)
    BY <1>1, <1>2, <2>1, <2>2, <2>4 DEF StackBecomes
  <2>. HIDE DEF next, s
  <2>. QED BY <1>3, <2>1, <2>2, <2>3, <2>5 DEF next, s
<1>4. CASE kernel.state[next] # "new"
  <2>. DEFINE t == Tail(s)
  <2>1. s \in Seq(FrameType) /\ s # <<>> /\ GoodStack(next, s)
    BY <1>1, <1>2, <1>4 DEF Left, Stacks
  <2>2. Head(s) = s[1] /\ s[1].call = "switch"
    <3>1. Head(s) = s[1]
      BY <2>1, OffTop
    <3>2. CASE next = p0
      BY <3>2, <1>2
    <3>3. CASE next # p0
      BY <3>1, <3>3, <1>1, <1>2, <1>4 DEF Left
    <3>. QED BY <3>1, <3>2, <3>3
  <2>3. mask' = Head(s).sr /\ stack' = [stack EXCEPT ![next] = t]
    BY <1>4 DEF Switch, p0
  <2>4. Resumed(next) = t /\ t = Tail(s)
    BY <1>4 DEF Resumed
  <2>. HIDE DEF s, t, next
  <2>5. GoodBelow(next, t, s[1].call) /\ (t = <<>> => s[1].sr = Open)
    BY <2>1, <2>4, GoodTail
  <2>6. GoodBelow(next, t, "switch")
    BY <2>2, <2>5
  <2>7. GoodStack(next, t) /\ (t # <<>> => ~Guarded(t[1], 1 < Len(t)))
    BY <2>6, GoodUncovered
  <2>8. t \in Seq(FrameType)
    BY <2>7 DEF GoodStack
  <2>9. StackBecomes(next, t)
    BY <1>1, <1>2, <2>3, <2>8 DEF StackBecomes
  <2>10. t = <<>> => mask' = Open
    BY <2>2, <2>3, <2>5
  <2>. QED BY <1>4, <2>1, <2>2, <2>4, <2>7, <2>8, <2>9, <2>10 DEF next, s
<1>. QED BY <1>3, <1>4

LEMMA SwitchKeeps ==
  ASSUME StackInv, QueueInv, Switch
  PROVE  StackInv'
<1>. DEFINE next == p0'
            t == Resumed(next)
<1>1. /\ Settled(kernel', Behind) /\ next \in Proc
      /\ kernel.state[next] \in {"new", "ready"} /\ kernel'.state[next] = "ready"
      /\ \A x \in Proc : x # next => kernel'.state[x] = kernel.state[x]
  BY SwitchEffect
<1>2. /\ StackBecomes(next, t) /\ GoodStack(next, t)
      /\ t = <<>> => mask' = Open
      /\ t # <<>> => ~Guarded(t[1], 1 < Len(t))
      /\ t \in Seq(FrameType)
  BY SwitchStack
<1>3. At({"switch"}, "switch") /\ UNCHANGED <<status, data>>
  BY DEF Switch
<1>4. /\ ~UserMode /\ Stacks /\ Typed /\ Left /\ p0 \in Proc /\ Top.call = "switch"
      /\ Top.at = "switch" /\ Top = stack[p0][1] /\ stack[p0] # <<>> /\ Head(stack[p0]) = Top
  BY <1>3, AtTop DEF Top
<1>5. ~Guarded(Top, InnerTop)
  BY <1>4 DEF Guarded, FirstPoint
<1>r. t = Resumed(next)
  OBVIOUS
<1>. HIDE DEF t
<1>6. Stacks'
  BY <1>1, <1>2, <1>4, <1>5, StepToStack
<1>7. mask' \in {Open, SerialLevel, Closed}
  <2>1. CASE kernel.state[next] = "new"
    BY <2>1 DEF Switch, p0
  <2>2. CASE kernel.state[next] # "new"
    <3>1. mask' = Head(stack[next]).sr
      BY <2>2 DEF Switch, p0
    <3>2. stack[next] \in Seq(FrameType) /\ stack[next] # <<>>
      BY <2>2, SwitchStack
    <3>3. Head(stack[next]) \in FrameType
      BY <3>2, HeadTailProperties
    <3>. QED BY <3>1, <3>3 DEF FrameType
  <2>. QED BY <2>1, <2>2
<1>8. Typed'
  <2>1. kernel'.state[NullProc] \in {"new", "ready"}
    BY <1>1, <1>4, ProcAssumption DEF Typed
  <2>. QED BY <1>1, <1>3, <1>4, <1>7, <2>1 DEF Typed, Settled, data
<1>9. stack'[next] = t /\ \A p \in Proc : p # next => stack'[p] = stack[p]
  BY <1>2 DEF StackBecomes
<1>10. Running'
  <2>1. UserMode' <=> t = <<>>
    BY <1>9 DEF UserMode
  <2>2. t # <<>> => Top' = t[1] /\ (InnerTop' <=> 1 < Len(t))
    <3>1. t # <<>> => Head(t) = t[1]
      BY <1>2, OffTop
    <3>. QED BY <1>9, <3>1 DEF Top, InnerTop, Depth
  <2>. QED BY <1>2, <2>1, <2>2 DEF Running, Guarded, FirstPoint
<1>11. Left'
  <2>1. ASSUME NEW p \in Proc \ {next}
        PROVE  IF kernel'.state[p] = "new" THEN stack'[p] = <<>>
               ELSE stack'[p] # <<>> /\ Head(stack'[p]).call = "switch"
    BY <1>1, <1>4, <1>9, <2>1 DEF Left
  <2>. QED BY <1>1, <2>1 DEF Left
<1>12. Kcd \in Proc
  BY PreemptAssumption
<1>13. ASSUME NEW p \in Proc, NEW i \in 1..Depth(p)', Moving(stack'[p][i])
       PROVE  kernel'.state[Kcd] # "new"
  <2>1. kernel.state[Kcd] # "new" => kernel'.state[Kcd] # "new"
    BY <1>1, <1>12
  <2>2. CASE p # next
    BY <1>9, <1>13, <2>1, <2>2 DEF StackInv, Depth
  <2>3. CASE p = next
    <3>1. t # <<>> /\ Moving(t[i]) /\ i \in 1..Len(t)
      BY <1>2, <1>9, <1>13, <2>3, EmptySeq DEF Depth
    <3>2. kernel.state[next] # "new" /\ t = Tail(stack[next])
      BY <3>1, <1>r DEF Resumed
    <3>3. stack[next] \in Seq(FrameType) /\ stack[next] # <<>>
      BY <3>2, SwitchStack
    <3>4. i + 1 \in 1..Len(stack[next]) /\ t[i] = stack[next][i + 1]
      BY <3>1, <3>2, <3>3, OffTop
    <3>. QED BY <1>1, <3>1, <3>4, <2>1 DEF StackInv, Depth
  <2>. QED BY <2>2, <2>3
<1>14. PreemptTypeOK'
  BY <1>6, <1>8, TypesAgree, PTL
<1>. QED BY <1>6, <1>8, <1>10, <1>11, <1>13, <1>14 DEF StackInv, Typed, Moving

-----------------------------------------------------------------------------
(* The queues while the handlers go on. *)

\* What may run on top of a sender that is making the decoder ready.
Quiet(f) == \/ f.call \in {"uart", "request"}
            \/ f.call = "send" /\ f.at \in {"up", "body", "return"}

\* Stack t is s with its "gone" topmost handlers replaced by "new" others.
Retopped(s, t, gone, new) ==
    /\ gone \in 0..1 /\ new \in 0..2 /\ gone <= Len(s)
    /\ Len(s) \in Nat /\ Len(t) \in Nat /\ Len(t) - new = Len(s) - gone
    /\ \A i \in (gone + 1)..Len(s) :
          LET j == i - gone + new
          IN  j \in 1..Len(t) /\ t[j].call = s[i].call /\ t[j].at = s[i].at
    /\ \A j \in (new + 1)..Len(t) :
          LET i == j - new + gone
          IN  i \in 1..Len(s) /\ t[j].call = s[i].call /\ t[j].at = s[i].at

\* The handlers that have changed are not the ones that QueueInv is about, and
\* if they are at the bottom, the process is not waiting any more.
Harmless(s, t, gone, new) ==
    /\ gone = 1 => ~Readying(s[1]) /\ (s[1].call = "switch" => FALSE)
    /\ \A j \in 1..new :
          /\ ~Readying(t[j])
          /\ Moving(t[j]) => kernel.state[Kcd] # "ready"
          /\ p0 = Kcd /\ t[j].call = "switch" => j = Len(t) - 1 /\ t[Len(t)].at = "return"
          /\ ~IsPidValid(kernel, Kcd) /\ (gone = 1 => Quiet(s[1])) /\ Len(t) > new => Quiet(t[j])
    /\ Len(t) = new =>
          /\ new > 0 => t[new].at # "queue"
          /\ \/ kernel.state[p0] = "ready"
             \/ /\ new = 2 /\ t[2].call \in {"request", "receive"}
                /\ t[2].at \in {"retry", "return"} /\ t[1].call = "switch"
                /\ s[1].call \in {"request", "receive"} /\ s[1].at = "queued"

LEMMA QueueInvNext ==
  ASSUME StackInv, QueueInv, ~RunningIsReady, kernel' = kernel,
         NEW s, s = stack[p0], NEW t, StackBecomes(p0, t),
         NEW gone, NEW new, Retopped(s, t, gone, new), Harmless(s, t, gone, new)
  PROVE  QueueInv'
<1>1. /\ Queues /\ Blocking /\ Decoder /\ p0 \in Proc /\ p0' = p0 /\ Kcd \in Proc
      /\ kernel \in KernelType
  BY StackOf, PreemptAssumption DEF QueueInv, p0, Typed
<1>2. Loose' = Loose /\ Queues' /\ p0 = kernel.running
  BY <1>1 DEF Loose, Queues, p0
<1>3. /\ stack'[p0] = t /\ Depth(p0)' = Len(t) /\ Depth(p0) = Len(s)
      /\ \A p \in Proc : p # p0 => stack'[p] = stack[p]
  BY <1>1 DEF StackBecomes, Depth
<1>4. /\ gone \in {0, 1} /\ new \in {0, 1, 2} /\ Len(s) \in Nat /\ Len(t) \in Nat
      /\ Len(t) - new = Len(s) - gone /\ gone <= Len(s)
  BY DEF Retopped
<1>5. (s = <<>> <=> Len(s) = 0) /\ (t = <<>> <=> Len(t) = 0)
  <2>1. s \in Seq(FrameType) /\ t \in Seq(FrameType)
    BY <1>1, StackOf DEF StackBecomes
  <2>. QED BY <2>1, EmptySeq
\* the bottom, when it is an old one
<1>6. ASSUME Len(t) > new PROVE Blocking'
  <2>1. /\ Len(s) > gone /\ Len(t) # 0 /\ Len(s) # 0
        /\ t[Len(t)].call = s[Len(s)].call /\ t[Len(t)].at = s[Len(s)].at
    <3>1. /\ Len(s) \in (gone + 1)..Len(s) /\ Len(s) - gone + new = Len(t)
          /\ Len(s) > gone /\ Len(t) # 0 /\ Len(s) # 0
      BY <1>4, <1>6
    <3>. QED BY <3>1 DEF Retopped
  <2>2. \A point : Waits(p0, point)' <=> Waits(p0, point)
    BY <1>1, <1>3, <1>5, <2>1 DEF Waits, Bottom
  <2>3. Len(s) > 1 /\ s[Len(s) - 1].call = "switch" =>
           Len(t) > 1 /\ t[Len(t) - 1].call = "switch"
    <3>1. SUFFICES ASSUME Len(s) > 1, s[Len(s) - 1].call = "switch"
                   PROVE  Len(t) > 1 /\ t[Len(t) - 1].call = "switch"
      OBVIOUS
    <3>0. gone = 1 => s[1].call # "switch"
      BY DEF Harmless
    <3>1a. ASSUME gone = 1, Len(s) = 2 PROVE FALSE
      <4>1. Len(s) - 1 = 1
        BY <3>1a
      <4>2. s[1].call = "switch"
        BY <3>1, <4>1
      <4>. QED BY <3>0, <3>1a, <4>2
    <3>1b. \A n \in Nat, g \in {0, 1} : n > 1 /\ (g = 1 => n # 2) => n - 1 > g
      OBVIOUS
    <3>2. Len(s) - 1 > gone
      BY ONLY <1>4, <3>1, <3>1a, <3>1b
    <3>3. /\ Len(s) - 1 \in (gone + 1)..Len(s)
          /\ (Len(s) - 1) - gone + new = Len(t) - 1 /\ Len(t) > 1
      <4>1. \A m \in Nat, n \in Nat, g \in {0, 1}, h \in {0, 1, 2} :
               n - h = m - g /\ m - 1 > g =>
                  m - 1 \in (g + 1)..m /\ (m - 1) - g + h = n - 1 /\ n > 1
        OBVIOUS
      <4>. QED BY ONLY <1>4, <3>2, <4>1
    <3>4. /\ s[Len(s) - 1].call = t[Len(t) - 1].call
      BY <3>3 DEF Retopped
    <3>. QED BY <3>1, <3>3, <3>4
  <2>4. Blocking'
    <3>1. ASSUME NEW p \in Proc, Waits(p, {"queue"})'
          PROVE  p \in Loose' /\ kernel'.state[p] = Waiting(stack'[p][Len(stack'[p])].call)
      <4>1. CASE p = p0
        BY <1>1, <1>2, <1>3, <2>1, <2>2, <3>1, <4>1 DEF Blocking, Bottom
      <4>2. CASE p # p0
        <5>1. stack'[p] = stack[p]
          BY <1>3, <4>2
        <5>2. Waits(p, {"queue"})
          BY <3>1, <5>1 DEF Waits, Bottom, Depth
        <5>. QED BY <1>1, <1>2, <5>1, <5>2 DEF Blocking, Bottom, Depth
      <4>. QED BY <4>1, <4>2
    <3>2. ASSUME kernel.state[p0] # "ready"
          PROVE  \/ Waits(p0, {"queue"})'
                 \/ /\ p0 \notin Loose
                    /\ \/ Waits(p0, {"queued"})'
                       \/ /\ Waits(p0, {"retry", "return"})'
                          /\ 1 < Len(t) /\ t[Len(t) - 1].call = "switch"
      BY <1>1, <1>3, <2>2, <2>3, <3>2 DEF Blocking, InnerTop
    <3>3. \A p \in Proc : Waits(p, {"queue"})' =>
             p \in Loose' /\ kernel'.state[p] = Waiting(Bottom(p).call)'
      BY <3>1 DEF Bottom, Depth, Waiting
    <3>4. kernel'.state[p0] # "ready" =>
             \/ Waits(p0, {"queue"})'
             \/ /\ p0 \notin Loose'
                /\ \/ Waits(p0, {"queued"})'
                   \/ /\ Waits(p0, {"retry", "return"})'
                      /\ InnerTop' /\ stack'[p0][Depth(p0)' - 1].call = "switch"
      BY <1>1, <1>2, <1>3, <3>2 DEF InnerTop
    <3>. QED BY <1>1, <3>3, <3>4 DEF Blocking
  <2>. QED BY <2>4
<1>7. ASSUME Len(t) = new PROVE Blocking'
  <2>1. Len(s) = gone
    BY <1>4, <1>7
  <2>2. ~Waits(p0, {"queue"})'
    BY <1>1, <1>3, <1>4, <1>5, <1>7 DEF Waits, Bottom, Harmless
  <2>3. ASSUME kernel.state[p0] # "ready"
        PROVE  /\ p0 \notin Loose /\ Waits(p0, {"retry", "return"})'
               /\ 1 < Len(t) /\ t[Len(t) - 1].call = "switch"
    <3>1. /\ new = 2 /\ t[2].call \in {"request", "receive"}
          /\ t[2].at \in {"retry", "return"} /\ t[1].call = "switch"
          /\ s[1].call \in {"request", "receive"} /\ s[1].at = "queued"
      BY <1>7, <2>3 DEF Harmless
    <3>2. s # <<>>
      BY <1>1, <2>3 DEF Blocking, Waits
    <3>3. Len(s) = 1 /\ Bottom(p0) = s[1]
      BY <1>3, <1>4, <1>5, <2>1, <3>2 DEF Bottom
    <3>4. p0 \notin Loose
      BY <1>1, <2>3, <3>1, <3>3 DEF Blocking, Waits
    <3>5. t # <<>> /\ Bottom(p0)' = t[2] /\ 1 < Len(t) /\ Len(t) - 1 = 1
      BY <1>1, <1>3, <1>5, <1>7, <3>1 DEF Bottom
    <3>. QED BY <1>1, <1>3, <3>1, <3>4, <3>5 DEF Waits
  <2>4. \A p \in Proc : Waits(p, {"queue"})' =>
           p \in Loose' /\ kernel'.state[p] = Waiting(Bottom(p).call)'
    <3>0. \A p \in Proc : Waits(p, {"queue"})' => p # p0
      BY <1>1, <2>2 DEF Waits, Bottom, Depth
    <3>1. SUFFICES ASSUME NEW p \in Proc, p # p0, Waits(p, {"queue"})'
                   PROVE  p \in Loose' /\ kernel'.state[p] = Waiting(Bottom(p).call)'
      BY <3>0
    <3>2. stack'[p] = stack[p]
      BY <1>3, <3>1
    <3>3. Waits(p, {"queue"}) /\ Bottom(p)' = Bottom(p)
      BY <3>1, <3>2 DEF Waits, Bottom, Depth
    <3>. QED BY <1>1, <1>2, <3>3 DEF Blocking, Waiting
  <2>5. kernel'.state[p0] # "ready" =>
           /\ p0 \notin Loose' /\ Waits(p0, {"retry", "return"})'
           /\ InnerTop' /\ stack'[p0][Depth(p0)' - 1].call = "switch"
    BY <1>1, <1>2, <1>3, <2>3 DEF InnerTop
  <2>. QED BY <1>1, <2>4, <2>5 DEF Blocking
<1>8. Blocking'
  BY <1>4, <1>6, <1>7 DEF Retopped
\* where the handlers have come from
<1>9. ASSUME NEW j \in (new + 1)..Len(t)
      PROVE  LET i == j - new + gone
             IN  /\ i \in 1..Len(s) /\ i > gone
                 /\ t[j].call = s[i].call /\ t[j].at = s[i].at
                 /\ Readying(t[j]) <=> Readying(s[i])
                 /\ Moving(t[j]) <=> Moving(s[i])
                 /\ Quiet(t[j]) <=> Quiet(s[i])
  <2>. DEFINE i == j - new + gone
  <2>1. i \in 1..Len(s) /\ t[j].call = s[i].call /\ t[j].at = s[i].at
    BY DEF Retopped
  <2>2. i > gone
    BY <1>4
  <2>. HIDE DEF i
  <2>3. /\ Readying(t[j]) <=> Readying(s[i])
        /\ Moving(t[j]) <=> Moving(s[i])
        /\ Quiet(t[j]) <=> Quiet(s[i])
    BY <2>1 DEF Readying, Moving, Quiet
  <2>. QED BY <2>1, <2>2, <2>3 DEF i
<1>10. Kcd \in Loose /\ p0 # Kcd => \E j \in 1..Len(t) : Readying(t[j])
  <2>1. SUFFICES ASSUME Kcd \in Loose, p0 # Kcd
                 PROVE  \E j \in 1..Len(t) : Readying(t[j])
    OBVIOUS
  <2>2. PICK i \in 1..Len(s) : Readying(s[i])
    BY <1>1, <1>3, <2>1 DEF Decoder
  <2>3. i \in (gone + 1)..Len(s)
    BY <1>4, <2>2 DEF Harmless
  <2>. DEFINE j == i - gone + new
  <2>4. j \in 1..Len(t) /\ t[j].call = s[i].call /\ t[j].at = s[i].at
    BY <2>3 DEF Retopped
  <2>. QED BY <2>2, <2>4 DEF Readying
<1>11. ASSUME NEW j \in 1..Len(t), p0 = Kcd
       PROVE  /\ t[j].call = "switch" => j = Len(t) - 1 /\ t[Len(t)].at = "return"
              /\ Moving(t[j]) => kernel.state[Kcd] # "ready"
  <2>1. CASE j <= new
    BY <1>4, <1>11, <2>1 DEF Harmless
  <2>2. CASE j > new
    <3>. DEFINE i == j - new + gone
    <3>0. j \in (new + 1)..Len(t)
      BY <1>4, <2>2
    <3>1. /\ i \in 1..Len(s) /\ t[j].call = s[i].call /\ (Moving(t[j]) <=> Moving(s[i]))
      BY <1>9, <3>0
    <3>2. /\ s[i].call = "switch" => i = Len(s) - 1 /\ s[Len(s)].at = "return"
          /\ Moving(s[i]) => kernel.state[Kcd] # "ready"
      BY <1>1, <1>3, <1>11, <3>1 DEF Decoder, Bottom
    <3>3. Len(t) \in (new + 1)..Len(t) /\ Len(t) - new + gone = Len(s)
      BY <1>4, <2>2
    <3>4. t[Len(t)].at = s[Len(s)].at
      BY <1>9, <3>3
    <3>5. t[j].call = "switch" => j = Len(t) - 1 /\ t[Len(t)].at = "return"
      BY <1>4, <2>2, <3>1, <3>2, <3>4
    <3>6. Moving(t[j]) => kernel.state[Kcd] # "ready"
      BY <3>1, <3>2
    <3>. QED BY <3>5, <3>6
  <2>. QED BY <1>4, <2>1, <2>2
<1>12. ASSUME NEW j \in 1..Len(t), Readying(t[j]), p0 # Kcd
       PROVE  Kcd \in Loose /\ \A h \in 1..(j - 1) : Quiet(t[h])
  <2>1. j \in (new + 1)..Len(t)
    BY <1>4, <1>12 DEF Harmless
  <2>. DEFINE i == j - new + gone
  <2>2. i \in 1..Len(s) /\ i > gone /\ Readying(s[i])
    BY <1>9, <1>12, <2>1
  <2>3. Kcd \in Loose /\ \A h \in 1..(i - 1) : Quiet(s[h])
    BY <1>1, <1>3, <1>12, <2>2 DEF Decoder, Quiet
  <2>4. ~IsPidValid(kernel, Kcd)
    BY <1>2, <1>12, <2>3 DEF IsPidValid, Loose
  <2>5. ASSUME NEW h \in 1..(j - 1) PROVE Quiet(t[h])
    <3>1. CASE h <= new
      <4>1. gone = 1 => Quiet(s[1])
        BY <1>4, <2>2, <2>3
      <4>2. Len(t) > new /\ h \in 1..new
        BY <1>4, <2>1, <3>1
      <4>. QED BY <2>4, <4>1, <4>2 DEF Harmless
    <3>2. CASE h > new
      <4>1. h \in (new + 1)..Len(t) /\ h - new + gone \in 1..(i - 1)
        BY <1>4, <2>1, <2>2, <3>2
      <4>. QED BY <1>9, <2>3, <4>1
    <3>. QED BY <1>4, <3>1, <3>2
  <2>. QED BY <2>3, <2>5
<1>13. Decoder'
  <2>1. Kcd \in Loose' /\ p0' # Kcd => \E i \in 1..Depth(p0)' : Readying(stack'[p0'][i])
    BY <1>1, <1>2, <1>3, <1>10
  <2>2. ASSUME NEW i \in 1..Depth(Kcd)'
        PROVE  /\ stack'[Kcd][i].call = "switch" =>
                     i = Depth(Kcd)' - 1 /\ Bottom(Kcd)'.at = "return"
               /\ Moving(stack'[Kcd][i]) => p0' = Kcd /\ kernel'.state[Kcd] # "ready"
    <3>1. CASE p0 = Kcd
      BY <1>1, <1>3, <1>11, <3>1 DEF Bottom
    <3>2. CASE p0 # Kcd
      <4>1. stack'[Kcd] = stack[Kcd] /\ Depth(Kcd)' = Depth(Kcd) /\ Bottom(Kcd)' = Bottom(Kcd)
        BY <1>1, <1>3, <3>2 DEF Depth, Bottom
      <4>. QED BY <1>1, <4>1 DEF Decoder
    <3>. QED BY <3>1, <3>2
  <2>3. ASSUME NEW p \in Proc \ {Kcd}, NEW i \in 1..Depth(p)', Readying(stack'[p][i])
        PROVE  /\ p = p0' /\ Kcd \in Loose'
               /\ \A j \in 1..(i - 1) : Quiet(stack'[p][j])
    <3>1. CASE p = p0
      BY <1>1, <1>2, <1>3, <1>12, <2>3, <3>1
    <3>2. CASE p # p0
      <4>1. stack'[p] = stack[p] /\ i \in 1..Depth(p)
        BY <1>3, <2>3, <3>2 DEF Depth
      <4>. QED BY <1>1, <2>3, <3>2, <4>1 DEF Decoder
    <3>. QED BY <3>1, <3>2
  <2>. QED BY <2>1, <2>2, <2>3 DEF Decoder, Readying, Moving, Quiet
<1>. QED BY <1>2, <1>8, <1>13 DEF QueueInv

LEMMA RetopNext ==
  ASSUME NEW s \in Seq(FrameType), s # <<>>, NEW g \in FrameType, NEW t, t = [s EXCEPT ![1] = g]
  PROVE  Retopped(s, t, 1, 1) /\ t[1] = g /\ Len(t) = Len(s)
<1>1. Len(s) \in Nat \ {0}
  BY EmptySeq
<1>2. /\ Len(t) = Len(s) /\ t[1] = g
      /\ \A i \in 1..Len(t) : i > 1 => t[i] = s[i]
  BY NextOnTop
<1>. QED BY <1>1, <1>2 DEF Retopped

LEMMA RetopPush ==
  ASSUME NEW s \in Seq(FrameType), NEW f \in FrameType, NEW t, t = <<f>> \o s
  PROVE  Retopped(s, t, 0, 1) /\ t[1] = f /\ Len(t) = Len(s) + 1
<1>1. Len(s) \in Nat
  BY EmptySeq
<1>2. /\ Len(t) = Len(s) + 1 /\ t[1] = f
      /\ \A i \in 1..Len(t) : i > 1 => i - 1 \in 1..Len(s) /\ t[i] = s[i - 1]
  BY OnTop
<1>3. ASSUME NEW i \in (0 + 1)..Len(s)
      PROVE  (i - 0) + 1 \in 1..Len(t) /\ t[(i - 0) + 1] = s[i]
  <2>1. i + 1 \in 1..Len(t) /\ (i + 1) - 1 = i /\ i + 1 > 1 /\ (i - 0) + 1 = i + 1
    BY <1>1, <1>2
  <2>. QED BY <1>2, <2>1
<1>4. ASSUME NEW j \in (1 + 1)..Len(t)
      PROVE  (j - 1) + 0 \in 1..Len(s) /\ t[j] = s[(j - 1) + 0]
  BY <1>1, <1>2
<1>. QED BY <1>1, <1>2, <1>3, <1>4 DEF Retopped

LEMMA RetopCall ==
  ASSUME NEW s \in Seq(FrameType), s # <<>>, NEW f \in FrameType, NEW g \in FrameType,
         NEW t, t = <<f>> \o [s EXCEPT ![1] = g]
  PROVE  Retopped(s, t, 1, 2) /\ t[1] = f /\ t[2] = g /\ Len(t) = Len(s) + 1
<1>. DEFINE u == [s EXCEPT ![1] = g]
<1>1. Len(s) \in Nat \ {0} /\ t = <<f>> \o u
  BY EmptySeq
<1>2. u \in Seq(FrameType) /\ Len(u) = Len(s) /\ u[1] = g /\ \A i \in 1..Len(u) : i > 1 => u[i] = s[i]
  BY NextOnTop
<1>. HIDE DEF u
<1>3. /\ Len(t) = Len(u) + 1 /\ t[1] = f
      /\ \A i \in 1..Len(t) : i > 1 => i - 1 \in 1..Len(u) /\ t[i] = u[i - 1]
  BY <1>1, <1>2, OnTop
<1>4. t[2] = g
  BY <1>1, <1>2, <1>3
<1>5. ASSUME NEW i \in (1 + 1)..Len(s)
      PROVE  (i - 1) + 2 \in 1..Len(t) /\ t[(i - 1) + 2] = s[i]
  <2>1. i + 1 \in 1..Len(t) /\ (i + 1) - 1 = i /\ i + 1 > 1 /\ (i - 1) + 2 = i + 1
    BY <1>1, <1>2, <1>3
  <2>2. t[i + 1] = u[i]
    BY <1>3, <2>1
  <2>. QED BY <1>2, <2>1, <2>2
<1>6. ASSUME NEW j \in (2 + 1)..Len(t)
      PROVE  (j - 2) + 1 \in 1..Len(s) /\ t[j] = s[(j - 2) + 1]
  <2>1. (j - 2) + 1 = j - 1 /\ j - 1 \in 1..Len(s) /\ j - 1 > 1
    BY <1>1, <1>2, <1>3
  <2>. QED BY <1>2, <1>3, <2>1
<1>. QED BY <1>1, <1>2, <1>3, <1>4, <1>5, <1>6 DEF Retopped

\* The handlers of t are those of u with other blocks.
LEMMA RetopTail ==
  ASSUME NEW s \in Seq(FrameType), s # <<>>, NEW u, u = Tail(s), NEW t, Len(t) = Len(u),
         \A i \in 1..Len(u) : t[i].call = u[i].call /\ t[i].at = u[i].at
  PROVE  Retopped(s, t, 1, 0)
<1>1. /\ Len(u) = Len(s) - 1 /\ Len(s) \in Nat \ {0}
      /\ \A i \in 1..Len(u) : i + 1 \in 1..Len(s) /\ u[i] = s[i + 1]
  BY OffTop
<1>2. ASSUME NEW i \in (1 + 1)..Len(s)
      PROVE  (i - 1) + 0 \in 1..Len(t) /\ u[(i - 1) + 0] = s[i]
  <2>1. (i - 1) + 0 = i - 1 /\ i - 1 \in 1..Len(u) /\ (i - 1) + 1 = i
    BY <1>1
  <2>. QED BY <1>1, <2>1
<1>3. ASSUME NEW j \in (0 + 1)..Len(t)
      PROVE  (j - 0) + 1 \in 1..Len(s) /\ u[j] = s[(j - 0) + 1]
  BY <1>1
<1>. QED BY <1>1, <1>2, <1>3 DEF Retopped

\* Only a process that blocks itself is at work without being ready.
LEMMA NotWaiting ==
  ASSUME StackInv, QueueInv, NEW calls, NEW point, At(calls, point), ~InnerTop,
         point \notin {"queue", "queued"}
  PROVE  kernel.state[p0] = "ready"
<1>1. Blocking /\ p0 \in Proc
  BY AtQueues
<1>2. Depth(p0) = 1 /\ Bottom(p0) = Top /\ Top.at = point
  BY AtTop, TopIsFirst DEF InnerTop, Bottom
<1>. QED BY <1>1, <1>2 DEF Blocking, Waits

LEMMA QueuesGoOn ==
  ASSUME StackInv, QueueInv, NEW calls, NEW point, At(calls, point), kernel' = kernel,
         NEW g \in FrameType, g.call = Top.call,
         StackBecomes(p0, [stack[p0] EXCEPT ![1] = g]),
         point \notin {"queue", "queued", "ready", "switch"}, g.at \notin {"queue", "ready"},
         Moving(g) => kernel.state[Kcd] # "ready",
         g.call = "send" /\ point \in {"up", "body", "return"} /\ ~IsPidValid(kernel, Kcd) =>
             g.at \in {"up", "body", "return"}
  PROVE  QueueInv'
<1>. DEFINE s == stack[p0]
            t == [s EXCEPT ![1] = g]
<1>1. /\ s \in Seq(FrameType) /\ s # <<>> /\ Top = s[1] /\ Top.at = point
      /\ GoodFrame(p0, Top, InnerTop) /\ ~RunningIsReady /\ (InnerTop <=> 1 < Len(s))
      /\ Top \in FrameType
  BY AtTop DEF GoodStack, InnerTop, Depth
<1>2. s = stack[p0] /\ StackBecomes(p0, t) /\ t = [s EXCEPT ![1] = g]
  OBVIOUS
<1>. HIDE DEF s, t
<1>3. Retopped(s, t, 1, 1) /\ t[1] = g /\ Len(t) = Len(s) /\ Len(s) \in Nat \ {0}
  BY <1>1, <1>2, RetopNext, EmptySeq
<1>4. Top.call # "switch"
  BY <1>1 DEF GoodFrame, PointsOf
<1>5. Len(t) = 1 => kernel.state[p0] = "ready"
  BY <1>1, <1>3, NotWaiting
<1>6. ~Readying(Top) /\ ~Readying(g)
  BY <1>1 DEF Readying
<1>7. ~IsPidValid(kernel, Kcd) /\ Quiet(Top) => Quiet(g)
  BY <1>1 DEF Quiet
<1>8. Harmless(s, t, 1, 1)
  BY <1>1, <1>3, <1>4, <1>5, <1>6, <1>7 DEF Harmless
<1>. QED BY <1>1, <1>2, <1>3, <1>8, QueueInvNext

\* The steps within a handler that only move it from point to point.
LEMMA QueuesGoTo ==
  ASSUME StackInv, QueueInv, NEW calls, NEW point, At(calls, point), kernel' = kernel,
         NEW next \in InBracket \cup Outside, GoTo(next) \/ Trap1(next) \/ AtomicUp(next),
         point \notin {"queue", "queued", "ready", "switch"}, next \notin {"queue", "ready"},
         next = "remove" => kernel.state[Kcd] # "ready",
         Top.call = "send" /\ point \in {"up", "body", "return"} /\ ~IsPidValid(kernel, Kcd) =>
             next \in {"up", "body", "return"}
  PROVE  QueueInv'
<1>1. ~UserMode /\ Stacks /\ p0 \in Proc
  BY AtTop
<1>2. ASSUME NEW g \in FrameType, g.call = Top.call, g.at = next,
             StackBecomes(p0, [stack[p0] EXCEPT ![1] = g])
      PROVE  QueueInv'
  <2>1. Moving(g) => kernel.state[Kcd] # "ready"
    BY <1>2 DEF Moving
  <2>. QED BY <1>2, <2>1, QueuesGoOn
<1>3. CASE GoTo(next)
  <2>. DEFINE g == [Top EXCEPT !.at = next]
  <2>1. StackBecomes(p0, [stack[p0] EXCEPT ![1] = g]) /\ Goes(Top, g, next, Top.first, Top.block)
    BY <1>1, <1>3, GoesTo
  <2>. HIDE DEF g
  <2>. QED BY <1>2, <2>1 DEF Goes
<1>4. ASSUME NEW x \in BOOLEAN, stack' = [stack EXCEPT ![p0][1].at = next, ![p0][1].first = x]
      PROVE  QueueInv'
  <2>. DEFINE g == [Top EXCEPT !.at = next, !.first = x]
  <2>1. StackBecomes(p0, [stack[p0] EXCEPT ![1] = g]) /\ Goes(Top, g, next, x, Top.block)
    BY <1>1, <1>4, GoesWithFirst
  <2>. HIDE DEF g
  <2>. QED BY <1>2, <2>1 DEF Goes
<1>5. CASE Trap1(next)
  BY <1>4, <1>5 DEF Trap1
<1>6. CASE AtomicUp(next)
  <2>. DEFINE x == status = 0
  <2>1. stack' = [stack EXCEPT ![p0][1].at = next, ![p0][1].first = x] /\ x \in BOOLEAN
    BY <1>6 DEF AtomicUp
  <2>. HIDE DEF x
  <2>. QED BY <1>4, <2>1
<1>. QED BY <1>3, <1>5, <1>6

LEMMA BlockedNotReady ==
  IsProcessBlocked(kernel, Kcd) => kernel.state[Kcd] # "ready"
BY DEF IsProcessBlocked

LEMMA QueuesWithin ==
  ASSUME StackInv, QueueInv,
         \/ Begin \/ Block \/ UnblockStays \/ Request \/ RequestTakes \/ RequestCloses
         \/ RequestRetries \/ Release \/ ReleaseUnblocks \/ Send \/ SendUnblocks
         \/ SendFinds \/ Receive \/ UartDrops \/ UartReturns
  PROVE  QueueInv'
<1>1. CASE Begin
  BY <1>1, QueuesGoTo DEF Begin, InBracket
<1>2. CASE Block
  <2>1. At(HandlerCall, "block") /\ Trap1("state") /\ kernel' = kernel
    BY <1>2 DEF Block
  <2>. QED BY <2>1, QueuesGoTo DEF InBracket
<1>3. CASE UnblockStays
  <2>1. At(HandlerCall, "stay") /\ GoTo("return") /\ kernel' = kernel
    BY <1>3 DEF UnblockStays
  <2>. QED BY <2>1, QueuesGoTo DEF Outside
<1>4. CASE Request
  <2>1. /\ At({"request"}, "body") /\ kernel' = kernel
        /\ IF available = <<>> THEN GoTo("block")
           ELSE stack' = [stack EXCEPT ![p0][1].at = "take", ![p0][1].block = Head(available)]
    BY <1>4 DEF Request
  <2>2. Top.call = "request" /\ Typed /\ ~UserMode /\ Stacks /\ p0 \in Proc
    BY <2>1, AtTop
  <2>3. CASE available = <<>>
    BY <2>1, <2>2, <2>3, QueuesGoTo DEF Outside
  <2>4. CASE available # <<>>
    <3>. DEFINE b == Head(available)
                g == [Top EXCEPT !.at = "take", !.block = b]
    <3>1. b \in MemBlock
      BY <2>2, <2>4, HeadTailProperties DEF Typed
    <3>2. /\ stack' = [stack EXCEPT ![p0][1].at = "take", ![p0][1].block = b]
          /\ "take" \in InBracket \cup Outside
      BY <2>1, <2>4 DEF InBracket
    <3>. HIDE DEF b
    <3>3. /\ StackBecomes(p0, [stack[p0] EXCEPT ![1] = g])
          /\ Goes(Top, g, "take", Top.first, b)
      BY <2>2, <3>1, <3>2, GoesWithBlock
    <3>. HIDE DEF g
    <3>4. g \in FrameType /\ g.call = "request" /\ g.call = Top.call /\ g.at = "take" /\ ~Moving(g)
      BY <2>2, <3>3 DEF Goes, Moving
    <3>. QED BY <2>1, <3>3, <3>4, QueuesGoOn
  <2>. QED BY <2>3, <2>4
<1>5. CASE RequestTakes
  <2>1. At({"request"}, "take") /\ GoTo("taken") /\ kernel' = kernel
    BY <1>5 DEF RequestTakes
  <2>. QED BY <2>1, QueuesGoTo DEF InBracket
<1>6. CASE RequestCloses
  <2>1. At({"request"}, "taken") /\ GoTo("return") /\ kernel' = kernel
    BY <1>6 DEF RequestCloses
  <2>. QED BY <2>1, QueuesGoTo DEF Outside
<1>7. CASE RequestRetries
  <2>1. At({"request"}, "retry") /\ Trap1("body") /\ kernel' = kernel
    BY <1>7 DEF RequestRetries
  <2>. QED BY <2>1, QueuesGoTo DEF InBracket
<1>8. CASE Release
  <2>1. At({"release"}, "body") /\ GoTo("unblock") /\ kernel' = kernel
    BY <1>8 DEF Release
  <2>2. Top.call = "release"
    BY <2>1, AtTop
  <2>. QED BY <2>1, <2>2, QueuesGoTo DEF Outside
<1>9. CASE ReleaseUnblocks
  <2>1. At({"release"}, "unblock") /\ Trap1("find") /\ kernel' = kernel
    BY <1>9 DEF ReleaseUnblocks
  <2>. QED BY <2>1, QueuesGoTo DEF InBracket
<1>10. CASE Send
  <2>1. /\ At({"send"}, "body") /\ kernel' = kernel
        /\ IF IsPidValid(kernel, Kcd) THEN GoTo("unblock") ELSE GoTo("return")
    BY <1>10 DEF Send
  <2>2. CASE IsPidValid(kernel, Kcd)
    BY <2>1, <2>2, QueuesGoTo DEF Outside
  <2>3. CASE ~IsPidValid(kernel, Kcd)
    BY <2>1, <2>3, QueuesGoTo DEF Outside
  <2>. QED BY <2>2, <2>3
<1>11. CASE SendUnblocks
  <2>1. At({"send"}, "unblock") /\ Trap1("find") /\ kernel' = kernel
    BY <1>11 DEF SendUnblocks
  <2>. QED BY <2>1, QueuesGoTo DEF InBracket
<1>12. CASE SendFinds
  <2>1. /\ At({"send"}, "find") /\ kernel' = kernel
        /\ IF IsProcessBlocked(kernel, Kcd) THEN GoTo("remove") ELSE GoTo("stay")
    BY <1>12 DEF SendFinds
  <2>2. CASE IsProcessBlocked(kernel, Kcd)
    BY <2>1, <2>2, BlockedNotReady, QueuesGoTo DEF InBracket
  <2>3. CASE ~IsProcessBlocked(kernel, Kcd)
    BY <2>1, <2>3, QueuesGoTo DEF InBracket
  <2>. QED BY <2>2, <2>3
<1>13. CASE Receive
  <2>1. /\ At({"receive"}, "body") /\ kernel' = kernel
        /\ \/ GoTo("block")
           \/ GoTo("return")
    BY <1>13 DEF Receive
  <2>2. Top.call = "receive"
    BY <2>1, AtTop
  <2>. QED BY <2>1, <2>2, QueuesGoTo DEF Outside
<1>14. CASE UartDrops
  <2>1. At({"uart"}, "body") /\ GoTo("return") /\ kernel' = kernel
    BY <1>14 DEF UartDrops
  <2>. QED BY <2>1, QueuesGoTo DEF Outside
<1>15. CASE UartReturns
  <2>1. At({"uart"}, "finish") /\ GoTo("return") /\ kernel' = kernel
    BY <1>15 DEF UartReturns
  <2>. QED BY <2>1, QueuesGoTo DEF Outside
<1>. QED BY <1>1, <1>2, <1>3, <1>4, <1>5, <1>6, <1>7, <1>8, <1>9, <1>10, <1>11, <1>12, <1>13, <1>14, <1>15

-----------------------------------------------------------------------------
(* The queues while handlers begin, call and return. *)

LEMMA QueuesPush ==
  ASSUME StackInv, QueueInv, ~RunningIsReady, kernel' = kernel, NEW f \in FrameType, Push(f),
         f.at \in {"up", "switch"}, f.call = "switch" => p0 # Kcd /\ UserMode,
         ~UserMode => f.call = "uart"
  PROVE  QueueInv'
<1>. DEFINE s == stack[p0]
            t == <<f>> \o s
<1>1. /\ s \in Seq(FrameType) /\ p0 \in Proc /\ stack \in [Proc -> Seq(FrameType)] /\ Blocking
      /\ UserMode <=> s = <<>>
  BY StackOf DEF GoodStack, UserMode, QueueInv
<1>2. stack' = [stack EXCEPT ![p0] = t] /\ t = <<f>> \o s /\ s = stack[p0]
  BY DEF Push
<1>. HIDE DEF s, t
<1>3. t \in Seq(FrameType)
  BY <1>1, <1>2, OnTop
<1>4. StackBecomes(p0, t)
  BY <1>1, <1>2, <1>3 DEF StackBecomes
<1>5. Retopped(s, t, 0, 1) /\ t[1] = f /\ Len(t) = Len(s) + 1 /\ Len(s) \in Nat
  BY <1>1, <1>2, RetopPush, EmptySeq
<1>6. Len(t) = 1 => kernel.state[p0] = "ready"
  <2>0. Len(t) - 1 = Len(s)
    BY <1>5
  <2>1. Len(t) = 1 => Len(s) = 0
    BY <2>0
  <2>2. Len(s) = 0 => s = <<>>
    BY <1>1, EmptySeq
  <2>. QED BY <1>1, <1>2, <2>1, <2>2 DEF Blocking, Waits
<1>7. Len(t) > 1 => f.call = "uart"
  BY <1>1, <1>5, EmptySeq
<1>8. ~Readying(f) /\ ~Moving(f) /\ f.at # "queue" /\ (f.call = "switch" => p0 # Kcd)
      /\ (f.call = "uart" => Quiet(f))
  BY DEF Readying, Moving, Quiet
<1>9. Harmless(s, t, 0, 1)
  BY <1>5, <1>6, <1>7, <1>8 DEF Harmless
<1>. QED BY <1>2, <1>4, <1>5, <1>9, QueueInvNext

LEMMA QueuesBegin ==
  ASSUME StackInv, QueueInv,
         \/ CallYield \/ CallRequest \/ CallReceive \/ SerialInterrupt
         \/ \E b \in MemBlock : CallRelease(b) \/ CallSend(b)
  PROVE  QueueInv'
<1>1. Typed
  BY StackOf
<1>2. ASSUME NEW call \in HandlerCall, NEW point \in {"up", "switch"},
             NEW b \in MemBlock \cup {NoBlock}
      PROVE  LET f == Frame(call, point, b)
             IN  f \in FrameType /\ f.at \in {"up", "switch"} /\ f.call = call
  BY <1>1, <1>2 DEF Frame, FrameType, Outside, Typed
<1>3. ASSUME NEW call \in HandlerCall, NEW point \in {"up", "switch"},
             NEW b \in MemBlock \cup {NoBlock}, Push(Frame(call, point, b)),
             kernel' = kernel, Intact, call = "switch" => p0 # Kcd /\ UserMode,
             ~UserMode => call = "uart"
      PROVE  QueueInv'
  <2>. DEFINE f == Frame(call, point, b)
  <2>1. f \in FrameType /\ f.at \in {"up", "switch"} /\ f.call = call /\ Push(f)
    BY <1>2, <1>3
  <2>. HIDE DEF f
  <2>2. ~RunningIsReady
    BY <1>3 DEF Intact
  <2>. QED BY <1>3, <2>1, <2>2, QueuesPush
<1>4. HandlerCall = {"request", "release", "send", "receive", "uart", "switch"}
  BY DEF HandlerCall
<1>5. CASE CallYield
  BY <1>3, <1>4, <1>5 DEF CallYield, Client, InUser
<1>6. CASE CallRequest
  BY <1>3, <1>4, <1>6 DEF CallRequest, Client, InUser
<1>7. CASE CallReceive
  BY <1>3, <1>4, <1>7 DEF CallReceive, InUser
<1>8. CASE SerialInterrupt
  BY <1>3, <1>4, <1>8 DEF SerialInterrupt
<1>9. ASSUME NEW b \in MemBlock, CallRelease(b) PROVE QueueInv'
  BY <1>3, <1>4, <1>9 DEF CallRelease, InUser
<1>10. ASSUME NEW b \in MemBlock, CallSend(b) PROVE QueueInv'
  BY <1>3, <1>4, <1>10 DEF CallSend, Client, InUser
<1>. QED BY <1>5, <1>6, <1>7, <1>8, <1>9, <1>10

LEMMA QueuesCall ==
  ASSUME StackInv, QueueInv, NEW calls, NEW point, At(calls, point), kernel' = kernel,
         NEW f \in FrameType, NEW next \in InBracket \cup Outside, CallFrom(next, f),
         point # "ready", next \notin {"queue", "ready", "remove"},
         ~Readying(f), ~Moving(f), Top.call # "switch",
         \/ f.call = "request" /\ Top.call = "uart"
         \/ f.call = "send" /\ f.at = "up" /\ Top.call = "uart"
         \/ /\ f.call = "switch" /\ next \in {"retry", "return"}
            /\ p0 = Kcd => ~InnerTop /\ next = "return"
            /\ \/ point = "yield" /\ Top.call \in {"release", "send"}
               \/ point = "queued" /\ Top.call \in {"request", "receive"} /\ ~InnerTop,
         point = "queued" => f.call = "switch"
  PROVE  QueueInv'
<1>. DEFINE s == stack[p0]
            g == [Top EXCEPT !.at = next]
            t == <<f>> \o [s EXCEPT ![1] = g]
<1>1. /\ s \in Seq(FrameType) /\ s # <<>> /\ Top = s[1] /\ Top.at = point
      /\ ~RunningIsReady /\ (InnerTop <=> 1 < Len(s)) /\ Top \in FrameType
      /\ stack \in [Proc -> Seq(FrameType)] /\ p0 \in Proc
      /\ GoodFrame(p0, Top, InnerTop)
  BY AtTop, StackOf DEF GoodStack, InnerTop, Depth
<1>2. g \in FrameType /\ g.call = Top.call /\ g.at = next
  BY <1>1 DEF FrameType
<1>3. stack' = [stack EXCEPT ![p0] = t]
  BY <1>1 DEF CallFrom
<1>4. t = <<f>> \o [s EXCEPT ![1] = g] /\ s = stack[p0]
  OBVIOUS
<1>5. t \in Seq(FrameType)
  <2>. DEFINE u == [s EXCEPT ![1] = g]
  <2>1. u \in Seq(FrameType)
    BY <1>1, <1>2, NextOnTop
  <2>2. t = <<f>> \o u
    OBVIOUS
  <2>. HIDE DEF u, t
  <2>. QED BY <2>1, <2>2, OnTop
<1>. HIDE DEF s, g, t
<1>6. StackBecomes(p0, t)
  BY <1>1, <1>3, <1>5 DEF StackBecomes
<1>k. Len(s) \in Nat \ {0}
  BY <1>1, EmptySeq
<1>l. t = <<f>> \o [s EXCEPT ![1] = g]
  BY <1>4
<1>m. Retopped(s, t, 1, 2)
  BY <1>1, <1>2, <1>l, RetopCall
<1>n. t[1] = f /\ t[2] = g
  BY <1>1, <1>2, <1>l, RetopCall
<1>o. Len(t) = Len(s) + 1
  BY <1>1, <1>2, <1>l, RetopCall
<1>p. Len(t) - 1 = Len(s)
  BY <1>k, <1>o
<1>7. /\ Retopped(s, t, 1, 2) /\ t[1] = f /\ t[2] = g /\ Len(t) = Len(s) + 1
      /\ Len(s) \in Nat \ {0}
  BY <1>k, <1>m, <1>n, <1>o
<1>8. ~Readying(Top) /\ ~Readying(g) /\ ~Moving(g)
  BY <1>1, <1>2 DEF Readying, Moving
<1>9. Quiet(Top) /\ Len(s) > 1 => Quiet(f) /\ Quiet(g)
  BY <1>1, <1>2, <1>7 DEF Quiet
<1>10. Len(t) = 2 => \/ kernel.state[p0] = "ready"
                     \/ /\ g.call \in {"request", "receive"} /\ g.at \in {"retry", "return"}
                        /\ f.call = "switch" /\ Top.call \in {"request", "receive"}
                        /\ Top.at = "queued"
  <2>1. CASE point = "queued"
    BY <1>1, <1>2, <2>1
  <2>2. CASE point # "queued"
    <3>1. point # "queue"
      BY <1>1, <2>2 DEF GoodFrame, PointsOf
    <3>2. Len(t) = 2 => ~(1 < Len(s))
      <4>1. Len(t) = 2 => Len(s) = 1
        BY <1>p
      <4>2. ~(1 < 1)
        OBVIOUS
      <4>. QED BY <4>1, <4>2, Zenon
    <3>3. Len(t) = 2 => ~InnerTop
      BY <1>1, <3>2
    <3>. QED BY <2>2, <3>1, <3>3, NotWaiting
  <2>. QED BY <2>1, <2>2
<1>11. p0 = Kcd /\ f.call = "switch" => Len(t) = 2 /\ g.at = "return"
  <2>1. p0 = Kcd /\ f.call = "switch" => ~InnerTop /\ next = "return"
    OBVIOUS
  <2>2. ~(1 < Len(s)) => Len(t) = 2
    BY <1>k, <1>o
  <2>. QED BY <1>1, <1>2, <2>1, <2>2
<1>12. g.call # "switch" /\ g.at # "queue"
  BY <1>2
<1>13. Harmless(s, t, 1, 2)
  <2>1. ASSUME NEW j \in 1..2
        PROVE  /\ ~Readying(t[j])
               /\ Moving(t[j]) => kernel.state[Kcd] # "ready"
               /\ p0 = Kcd /\ t[j].call = "switch" => j = Len(t) - 1 /\ t[Len(t)].at = "return"
               /\ Quiet(s[1]) /\ Len(t) > 2 => Quiet(t[j])
    <3>0. Len(t) > 2 => Len(s) > 1
      BY <1>k, <1>o
    <3>1. CASE j = 1
      BY <1>1, <1>n, <1>9, <1>11, <3>0, <3>1
    <3>2. CASE j = 2
      BY <1>1, <1>n, <1>8, <1>9, <1>12, <3>0, <3>2
    <3>. QED BY <3>1, <3>2
  <2>. QED BY <1>1, <1>7, <1>8, <1>10, <1>12, <2>1 DEF Harmless
<1>. QED BY <1>1, <1>4, <1>6, <1>7, <1>13, QueueInvNext

LEMMA QueuesInner ==
  ASSUME StackInv, QueueInv,
         UnblockYields \/ BlockReleasesProcessor \/ UartRequests \/ UartSends
  PROVE  QueueInv'
<1>1. Typed /\ "return" \in Outside /\ "retry" \in Outside /\ "deliver" \in InBracket
      /\ "finish" \in InBracket
  BY StackOf DEF Outside, InBracket
<1>2. ASSUME NEW call \in {"request", "send", "switch"}, NEW point \in {"up", "switch"},
             NEW b \in MemBlock \cup {NoBlock}
      PROVE  LET f == Frame(call, point, b)
             IN  f \in FrameType /\ f.at = point /\ f.call = call
  BY <1>1, <1>2 DEF Frame, FrameType, Outside, HandlerCall, Typed
<1>3. CASE UnblockYields
  <2>. DEFINE f == Frame("switch", "switch", NoBlock)
  <2>1. At(HandlerCall, "yield") /\ CallFrom("return", f) /\ kernel' = kernel
    BY <1>3 DEF UnblockYields
  <2>2. f \in FrameType /\ f.call = "switch" /\ ~Readying(f) /\ ~Moving(f)
    BY <1>2 DEF Readying, Moving
  <2>. HIDE DEF f
  <2>3. /\ GoodFrame(p0, Top, InnerTop) /\ Top.at = "yield" /\ Top.call \in HandlerCall
    BY <2>1, AtTop
  <2>4. Top.call \in {"release", "send"} /\ (p0 = Kcd => ~InnerTop)
    BY <2>3 DEF GoodFrame, PointsOf, HandlerCall
  <2>. QED BY <1>1, <2>1, <2>2, <2>4, QueuesCall
<1>4. CASE BlockReleasesProcessor
  <2>. DEFINE f == Frame("switch", "switch", NoBlock)
              next == IF Top.call = "request" THEN "retry" ELSE "return"
  <2>1. At(HandlerCall, "queued") /\ CallFrom(next, f) /\ kernel' = kernel
    BY <1>4 DEF BlockReleasesProcessor
  <2>2. f \in FrameType /\ f.call = "switch" /\ ~Readying(f) /\ ~Moving(f)
    BY <1>2 DEF Readying, Moving
  <2>3. /\ GoodFrame(p0, Top, InnerTop) /\ Top.at = "queued" /\ Top.call \in HandlerCall
    BY <2>1, AtTop
  <2>4. Top.call \in {"request", "receive"} /\ ~InnerTop /\ (p0 = Kcd => next = "return")
    BY <2>3 DEF GoodFrame, PointsOf, HandlerCall
  <2>5. next \in {"retry", "return"} /\ next \in InBracket \cup Outside
    BY <1>1
  <2>. HIDE DEF f, next
  <2>. QED BY <2>1, <2>2, <2>4, <2>5, QueuesCall
<1>5. CASE UartRequests
  <2>. DEFINE f == Frame("request", "up", NoBlock)
  <2>1. At({"uart"}, "body") /\ CallFrom("deliver", f) /\ kernel' = kernel
    BY <1>5 DEF UartRequests
  <2>2. f \in FrameType /\ f.call = "request" /\ ~Readying(f) /\ ~Moving(f)
    BY <1>2 DEF Readying, Moving
  <2>. HIDE DEF f
  <2>3. Top.call = "uart"
    BY <2>1, AtTop
  <2>. QED BY <1>1, <2>1, <2>2, <2>3, QueuesCall
<1>6. CASE UartSends
  <2>. DEFINE f == Frame("send", "up", Top.block)
  <2>1. At({"uart"}, "deliver") /\ CallFrom("finish", f) /\ kernel' = kernel
    BY <1>6 DEF UartSends
  <2>2. Top.call = "uart" /\ Top \in FrameType
    BY <2>1, AtTop
  <2>3. Top.block \in MemBlock \cup {NoBlock}
    BY <2>2 DEF FrameType
  <2>4. f \in FrameType /\ f.call = "send" /\ f.at = "up" /\ ~Readying(f) /\ ~Moving(f)
    BY <1>2, <2>3 DEF Readying, Moving
  <2>. HIDE DEF f
  <2>. QED BY <1>1, <2>1, <2>2, <2>4, QueuesCall
<1>. QED BY <1>3, <1>4, <1>5, <1>6

LEMMA QueuesTail ==
  ASSUME StackInv, QueueInv, NEW calls, At(calls, "return"), kernel' = kernel,
         NEW u, u = Tail(stack[p0]), NEW t, StackBecomes(p0, t), Len(t) = Len(u),
         \A i \in 1..Len(u) : t[i].call = u[i].call /\ t[i].at = u[i].at
  PROVE  QueueInv'
<1>. DEFINE s == stack[p0]
<1>1. /\ s \in Seq(FrameType) /\ s # <<>> /\ Top = s[1] /\ Top.at = "return"
      /\ ~RunningIsReady /\ (InnerTop <=> 1 < Len(s)) /\ GoodFrame(p0, Top, InnerTop)
  BY AtTop DEF GoodStack, InnerTop, Depth
<1>2. Len(s) \in Nat \ {0} /\ u = Tail(s) /\ s = stack[p0]
  BY <1>1, EmptySeq
<1>. HIDE DEF s
<1>3. Retopped(s, t, 1, 0)
  BY <1>1, <1>2, RetopTail
<1>4. Len(t) = 0 => kernel.state[p0] = "ready"
  <2>1. Len(t) = 0 => ~InnerTop
    BY <1>1, <1>2, <1>3 DEF Retopped
  <2>. QED BY <2>1, NotWaiting
<1>5. ~Readying(s[1]) /\ s[1].call # "switch"
  BY <1>1 DEF Readying, GoodFrame, PointsOf
<1>6. Harmless(s, t, 1, 0)
  BY <1>4, <1>5 DEF Harmless
<1>. QED BY <1>1, <1>2, <1>3, <1>6, QueueInvNext

LEMMA QueuesReturn ==
  ASSUME StackInv, QueueInv, Return \/ RequestReturns
  PROVE  QueueInv'
<1>1. \E calls : At(calls, "return")
  BY DEF Return, RequestReturns
<1>2. PICK calls : At(calls, "return")
  BY <1>1
<1>. DEFINE s == stack[p0]
            t == Tail(s)
            b == Top.block
            g == [t[1] EXCEPT !.block = b]
            u == [t EXCEPT ![1] = g]
<1>3. /\ s \in Seq(FrameType) /\ s # <<>> /\ stack \in [Proc -> Seq(FrameType)] /\ p0 \in Proc
      /\ Top \in FrameType
  BY <1>2, AtTop, StackOf DEF GoodStack
<1>4. b \in MemBlock \cup {NoBlock} /\ t = Tail(s)
  BY <1>3 DEF FrameType
<1>5. stack' = [stack EXCEPT ![p0] = t] \/ (Len(s) # 1 /\ stack' = [stack EXCEPT ![p0] = u])
  BY DEF Return, RequestReturns
<1>6. kernel' = kernel
  BY DEF Return, RequestReturns
<1>t. t = Tail(s) /\ g = [t[1] EXCEPT !.block = b] /\ u = [t EXCEPT ![1] = g] /\ t = Tail(stack[p0])
  OBVIOUS
<1>. HIDE DEF s, t, b, g, u
<1>7. t \in Seq(FrameType) /\ (t = <<>> <=> Len(s) = 1)
  BY <1>3, <1>4, OffTop
<1>8. CASE stack' = [stack EXCEPT ![p0] = t]
  <2>1. StackBecomes(p0, t)
    BY <1>3, <1>7, <1>8 DEF StackBecomes
  <2>. QED BY <1>2, <1>6, <1>t, <2>1, QueuesTail
<1>9. CASE Len(s) # 1 /\ stack' = [stack EXCEPT ![p0] = u]
  <2>1. t # <<>> /\ t[1] \in FrameType
    BY <1>7, <1>9, EmptySeq, ElementOfSeq
  <2>2. g \in FrameType /\ g.call = t[1].call /\ g.at = t[1].at
    BY <1>4, <1>t, <2>1 DEF FrameType
  <2>3. u = [t EXCEPT ![1] = g]
    BY <1>t
  <2>4. /\ u \in Seq(FrameType) /\ Len(u) = Len(t) /\ u[1] = g
        /\ \A i \in 1..Len(u) : i > 1 => u[i] = t[i]
    BY <1>7, <2>1, <2>2, <2>3, NextOnTop
  <2>5. \A i \in 1..Len(t) : u[i].call = t[i].call /\ u[i].at = t[i].at
    BY <2>2, <2>4
  <2>6. StackBecomes(p0, u)
    BY <1>3, <1>9, <2>4 DEF StackBecomes
  <2>. QED BY <1>2, <1>6, <1>t, <2>4, <2>5, <2>6, QueuesTail
<1>. QED BY <1>5, <1>8, <1>9

-----------------------------------------------------------------------------
(* The queues while processes are moved between them. *)

LEMMA TopMoved ==
  ASSUME StackInv, NEW calls, NEW point, At(calls, point),
         NEW next \in InBracket \cup Outside, GoTo(next), p0' = p0
  PROVE  /\ Depth(p0) \in Nat \ {0} /\ p0 \in Proc /\ stack[p0] # <<>> /\ stack'[p0] # <<>>
         /\ \A p \in Proc : Depth(p)' = Depth(p)
         /\ \A p \in Proc : p # p0 => stack'[p] = stack[p]
         /\ stack'[p0][1].call = Top.call /\ stack'[p0][1].at = next
         /\ Top = stack[p0][1] /\ Top.at = point /\ Top.call \in calls
         /\ \A i \in 1..Depth(p0) : i > 1 => stack'[p0][i] = stack[p0][i]
<1>. DEFINE s == stack[p0]
            g == [Top EXCEPT !.at = next]
            t == [s EXCEPT ![1] = g]
<1>1. /\ ~UserMode /\ Stacks /\ p0 \in Proc /\ s # <<>> /\ Top = s[1] /\ Top.at = point
      /\ Top.call \in calls /\ s \in Seq(FrameType)
  BY AtTop DEF GoodStack
<1>2. StackBecomes(p0, t) /\ Goes(Top, g, next, Top.first, Top.block)
  BY <1>1, GoesTo
<1>t. t = [s EXCEPT ![1] = g] /\ s = stack[p0]
  OBVIOUS
<1>. HIDE DEF s, t, g
<1>3. g \in FrameType /\ g.call = Top.call /\ g.at = next
  BY <1>2 DEF Goes
<1>4. t = [s EXCEPT ![1] = g]
  BY <1>t
<1>5. Len(t) = Len(s) /\ t # <<>> /\ t[1] = g /\ \A i \in 1..Len(t) : i > 1 => t[i] = s[i]
  BY <1>1, <1>3, <1>4, NextOnTop
<1>6. Len(s) \in Nat \ {0}
  BY <1>1, EmptySeq
<1>7. stack'[p0] = t /\ \A p \in Proc : p # p0 => stack'[p] = stack[p]
  BY <1>2 DEF StackBecomes
<1>8. \A p \in Proc : Depth(p)' = Depth(p)
  BY <1>5, <1>7, <1>t DEF Depth
<1>. QED BY <1>1, <1>3, <1>5, <1>6, <1>7, <1>8, <1>t DEF Depth

\* A handler called in user mode that is no sender does not bear on the decoder.
LEMMA DecoderAside ==
  ASSUME StackInv, QueueInv, NEW calls, NEW point, At(calls, point), ~InnerTop,
         NEW next \in InBracket \cup Outside, GoTo(next), p0' = p0,
         Top.call \in {"request", "receive", "release"}, Loose' \subseteq Loose
  PROVE  Decoder'
<1>1. /\ Depth(p0) \in Nat \ {0} /\ p0 \in Proc
      /\ \A p \in Proc : Depth(p)' = Depth(p)
      /\ \A p \in Proc : p # p0 => stack'[p] = stack[p]
      /\ stack'[p0][1].call = Top.call /\ Top = stack[p0][1]
  BY TopMoved
<1>2. Depth(p0) = 1 /\ Decoder /\ Kcd \in Proc
  BY <1>1, AtQueues DEF InnerTop
<1>3. ~Readying(Top) /\ ~Moving(stack'[p0][1]) /\ ~Readying(stack'[p0][1])
  BY <1>1 DEF Readying, Moving
<1>4. Kcd \in Loose' => p0 = Kcd
  BY <1>1, <1>2, <1>3 DEF Decoder
<1>5. ASSUME NEW i \in 1..Depth(Kcd)'
      PROVE  /\ stack'[Kcd][i].call = "switch" =>
                   i = Depth(Kcd)' - 1 /\ Bottom(Kcd)'.at = "return"
             /\ Moving(stack'[Kcd][i]) => p0' = Kcd /\ kernel'.state[Kcd] # "ready"
  <2>1. CASE p0 = Kcd
    BY <1>1, <1>2, <1>3, <2>1
  <2>2. CASE p0 # Kcd
    <3>1. stack'[Kcd] = stack[Kcd] /\ Depth(Kcd)' = Depth(Kcd) /\ Bottom(Kcd)' = Bottom(Kcd)
      BY <1>1, <1>2, <2>2 DEF Bottom
    <3>. QED BY <1>2, <2>2, <3>1 DEF Decoder
  <2>. QED BY <2>1, <2>2
<1>6. ASSUME NEW p \in Proc \ {Kcd}, NEW i \in 1..Depth(p)', Readying(stack'[p][i])
      PROVE  FALSE
  <2>1. CASE p = p0
    BY <1>1, <1>2, <1>3, <1>6, <2>1
  <2>2. CASE p # p0
    <3>1. stack'[p] = stack[p] /\ i \in 1..Depth(p)
      BY <1>1, <1>6, <2>2
    <3>. QED BY <1>2, <1>6, <2>2, <3>1 DEF Decoder
  <2>. QED BY <2>1, <2>2
<1>. QED BY <1>4, <1>5, <1>6 DEF Decoder, Readying, Moving

LEMMA QueuesState ==
  ASSUME StackInv, QueueInv, BlockSetsState
  PROVE  QueueInv'
<1>. DEFINE type == IF Top.call = "request" THEN "mem" ELSE "msg"
            blocked == BlockedState(type)
<1>1. /\ At(HandlerCall, "state") /\ GoTo("queue")
      /\ kernel' = [kernel EXCEPT !.state[p0] = blocked]
  BY DEF BlockSetsState
<1>2. /\ Top.at = "state" /\ Typed /\ GoodFrame(p0, Top, InnerTop) /\ Top.call \in HandlerCall
      /\ p0 \in Proc /\ ~RunningIsReady
  BY <1>1, AtTop
<1>3. Top.call \in {"request", "receive"} /\ ~InnerTop
  BY <1>2 DEF GoodFrame, PointsOf, HandlerCall
<1>4. /\ Queues /\ Blocking /\ Decoder /\ kernel \in KernelType /\ Filed(kernel, Loose)
      /\ p0 = kernel.running
  BY <1>1, AtQueues
<1>5. blocked \in ProcState /\ blocked \in {"blocked_mem", "blocked_msg"} /\ blocked = Waiting(Top.call)
  BY <1>3 DEF BlockedState, ProcState, Waiting
<1>6. kernel.state[p0] = "ready"
  BY <1>1, <1>3, NotWaiting
<1>7. p0 \in Loose
  BY <1>2, <1>4, <1>6, RunningLoose
<1>8. kernel' \in KernelType /\ Filed(kernel', Loose)
  <2>. DEFINE out == Loose
              c == [kernel EXCEPT !.state[p0] = blocked]
  <2>1. p0 \in out /\ Filed(kernel, out)
    BY <1>4, <1>7
  <2>. HIDE DEF out, blocked
  <2>2. c \in KernelType /\ Filed(c, out)
    BY <1>2, <1>4, <1>5, <2>1, ChangeFiled
  <2>. HIDE DEF c
  <2>3. kernel' = c
    BY <1>1 DEF c
  <2>. QED BY <2>2, <2>3 DEF out
<1>9. /\ kernel'.running = kernel.running /\ kernel'.state[p0] = blocked
      /\ \A x \in Proc : x # p0 => kernel'.state[x] = kernel.state[x]
  <2>. HIDE DEF blocked
  <2>. QED BY <1>1, <1>2, <1>4 DEF KernelType
<1>. HIDE DEF blocked
<1>10. Loose' = Loose /\ p0' = p0
  <2>1. Loose' = Loose
    BY <1>8, LooseIs DEF Loose
  <2>. QED BY <1>4, <1>9, <2>1 DEF p0
<1>11. Queues'
  BY <1>4, <1>8, <1>10 DEF Queues
<1>12. /\ Depth(p0) \in Nat \ {0} /\ p0 \in Proc /\ stack'[p0] # <<>>
       /\ \A p \in Proc : Depth(p)' = Depth(p)
       /\ \A p \in Proc : p # p0 => stack'[p] = stack[p]
       /\ stack'[p0][1].call = Top.call /\ stack'[p0][1].at = "queue"
  BY <1>1, <1>10, TopMoved DEF InBracket
<1>13. Depth(p0) = 1 /\ Bottom(p0)' = stack'[p0][1] /\ Bottom(p0)'.call = Top.call
       /\ Waits(p0, {"queue"})'
  <2>1. Depth(p0) = 1 /\ Bottom(p0)' = stack'[p0][1]
    BY <1>3, <1>10, <1>12 DEF InnerTop, Bottom
  <2>. QED BY <1>3, <1>10, <1>12, <2>1 DEF Waits
<1>14. Blocking'
  <2>1. ASSUME NEW p \in Proc, Waits(p, {"queue"})'
        PROVE  p \in Loose' /\ kernel'.state[p] = Waiting(Bottom(p).call)'
    <3>1. CASE p = p0
      BY <1>5, <1>7, <1>9, <1>10, <1>13, <3>1 DEF Waiting
    <3>2. CASE p # p0
      <4>1. stack'[p] = stack[p] /\ Depth(p)' = Depth(p)
        BY <1>12, <3>2
      <4>2. Waits(p, {"queue"}) /\ Bottom(p)' = Bottom(p)
        BY <2>1, <4>1 DEF Waits, Bottom
      <4>. QED BY <1>4, <1>9, <1>10, <3>2, <4>2 DEF Blocking, Waiting
    <3>. QED BY <3>1, <3>2
  <2>. QED BY <1>10, <1>13, <2>1 DEF Blocking
<1>15. Decoder'
  BY <1>1, <1>3, <1>10, DecoderAside DEF InBracket
<1>. QED BY <1>11, <1>14, <1>15 DEF QueueInv

LEMMA QueuesEnqueue ==
  ASSUME StackInv, QueueInv, BlockEnqueues
  PROVE  QueueInv'
<1>. DEFINE type == IF Top.call = "request" THEN "mem" ELSE "msg"
<1>1. /\ At(HandlerCall, "queue") /\ GoTo("queued")
      /\ kernel' = EnqueueProcess(kernel, type, p0)
  BY DEF BlockEnqueues
<1>2. /\ Top.at = "queue" /\ Typed /\ GoodFrame(p0, Top, InnerTop) /\ Top.call \in HandlerCall
      /\ p0 \in Proc /\ stack[p0] # <<>> /\ Top = stack[p0][1]
  BY <1>1, AtTop
<1>3. Top.call \in {"request", "receive"} /\ ~InnerTop
  BY <1>2 DEF GoodFrame, PointsOf, HandlerCall
<1>4. /\ Queues /\ Blocking /\ Decoder /\ kernel \in KernelType /\ Filed(kernel, Loose)
      /\ p0 = kernel.running
  BY <1>1, AtQueues
<1>5. Depth(p0) = 1 /\ Bottom(p0) = Top
  BY <1>1, <1>3, TopIsFirst, AtTop DEF InnerTop, Bottom
<1>6. p0 \in Loose /\ kernel.state[p0] = Waiting(Top.call)
  <2>1. Waits(p0, {"queue"})
    BY <1>2, <1>3, <1>5 DEF Waits
  <2>. QED BY <1>2, <1>4, <1>5, <2>1 DEF Blocking
<1>7. QueueOf(kernel.state[p0]) = type /\ type \in Kind
      /\ kernel.state[p0] \in {"blocked_mem", "blocked_msg"}
  BY <1>3, <1>6 DEF Waiting, BlockedState, QueueOf, Kind, BlockType
<1>8. /\ kernel' \in KernelType /\ Filed(kernel', Loose \ {p0})
      /\ kernel'.running = kernel.running /\ kernel'.state = kernel.state
  <2>. DEFINE out == Loose
              e == EnqueueProcess(kernel, type, p0)
  <2>1. p0 \in out /\ Filed(kernel, out) /\ kernel' = e
    BY <1>1, <1>4, <1>6
  <2>. HIDE DEF out
  <2>2. IsFiled(kernel, type, p0, out, e)
    BY <1>2, <1>4, <1>7, <2>1, EnqueueFiles
  <2>. QED BY <2>1, <2>2 DEF IsFiled, out
<1>. HIDE DEF type
<1>9. Loose' = Loose \ {p0} /\ p0' = p0
  <2>. DEFINE out == Loose \ {p0}
  <2>1. out \in SUBSET Proc
    BY DEF Loose
  <2>2. Filed(kernel', out)
    BY <1>8
  <2>. HIDE DEF out
  <2>3. Loose' = out
    BY <1>8, <2>1, <2>2, LooseIs
  <2>. QED BY <1>4, <1>8, <2>3 DEF p0, out
<1>10. Queues'
  BY <1>4, <1>8, <1>9 DEF Queues
<1>11. /\ stack'[p0] # <<>>
       /\ \A p \in Proc : Depth(p)' = Depth(p)
       /\ \A p \in Proc : p # p0 => stack'[p] = stack[p]
       /\ stack'[p0][1].call = Top.call /\ stack'[p0][1].at = "queued"
  BY <1>1, <1>9, TopMoved DEF InBracket
<1>12. /\ Bottom(p0)' = stack'[p0][1] /\ Waits(p0, {"queued"})' /\ ~Waits(p0, {"queue"})'
  <2>1. Bottom(p0)' = stack'[p0][1]
    BY <1>2, <1>5, <1>9, <1>11 DEF Bottom
  <2>. QED BY <1>3, <1>9, <1>11, <2>1 DEF Waits
<1>13. Blocking'
  <2>1. ASSUME NEW p \in Proc, Waits(p, {"queue"})'
        PROVE  p \in Loose' /\ kernel'.state[p] = Waiting(Bottom(p).call)'
    <3>1. CASE p = p0
      BY <1>9, <1>11, <1>12, <2>1, <3>1 DEF Waits, Bottom, Depth
    <3>2. CASE p # p0
      <4>1. stack'[p] = stack[p] /\ Depth(p)' = Depth(p)
        BY <1>11, <3>2
      <4>2. Waits(p, {"queue"}) /\ Bottom(p)' = Bottom(p)
        BY <2>1, <4>1 DEF Waits, Bottom
      <4>. QED BY <1>4, <1>8, <1>9, <3>2, <4>2 DEF Blocking, Waiting
    <3>. QED BY <3>1, <3>2
  <2>. QED BY <1>9, <1>12, <2>1 DEF Blocking
<1>14. Decoder'
  <2>1. Loose' \subseteq Loose
    BY <1>9
  <2>. QED BY <1>1, <1>3, <1>9, <2>1, DecoderAside DEF InBracket
<1>. QED BY <1>10, <1>13, <1>14 DEF QueueInv

LEMMA QueuesRelease ==
  ASSUME StackInv, QueueInv, ReleaseReadies
  PROVE  QueueInv'
<1>. DEFINE p == FirstBlocked(kernel, "mem")
            out == Loose
            e == UnblockProcessByType(kernel, "mem", FALSE)
<1>1. /\ At({"release"}, "find") /\ kernel' = e
      /\ GoTo(IF IsEmpty(kernel, "mem") THEN "stay" ELSE Outranked(p))
  BY DEF ReleaseReadies
<1>2. /\ Top.at = "find" /\ Top.call = "release" /\ Typed /\ GoodFrame(p0, Top, InnerTop)
      /\ p0 \in Proc /\ stack[p0] # <<>> /\ Top = stack[p0][1]
  BY <1>1, AtTop
<1>3. ~InnerTop
  BY <1>2 DEF GoodFrame
<1>4. /\ Queues /\ Blocking /\ kernel \in KernelType /\ Filed(kernel, out)
      /\ p0 = kernel.running /\ out \in SUBSET Proc
  BY <1>1, AtQueues DEF Loose
<1>5. CASE IsEmpty(kernel, "mem")
  <2>1. kernel' = kernel
    BY <1>1, <1>5 DEF UnblockProcessByType
  <2>2. GoTo("stay")
    BY <1>1, <1>5
  <2>3. At({"release"}, "find") /\ kernel' = kernel /\ GoTo("stay") /\ Top.call = "release"
    BY <1>1, <1>2, <2>1, <2>2
  <2>4. "stay" \in InBracket \cup Outside
    BY DEF InBracket
  <2>. HIDE DEF p, e, out
  <2>. QED BY <2>3, <2>4, QueuesGoTo
<1>6. CASE ~IsEmpty(kernel, "mem")
  <2>. DEFINE next == Outranked(p)
  <2>1. GoTo(next) /\ next \in InBracket \cup Outside
    BY <1>1, <1>6 DEF Outranked, InBracket
  <2>2. p = FirstBlocked(kernel, "mem") /\ e = UnblockProcessByType(kernel, "mem", FALSE)
    OBVIOUS
  <2>. HIDE DEF p, e, out, next
  <2>3. p \in Proc /\ p \notin out /\ kernel.state[p] = "blocked_mem" /\ Readied(kernel, p, out, e)
    <3>1. p \in Proc \ out
      BY <1>4, <1>6, <2>2, FirstBlockedReadied
    <3>2. kernel.state[p] = "blocked_mem" /\ Readied(kernel, p, out, e)
      BY <1>4, <1>6, <2>2, FirstBlockedReadied
    <3>. QED BY <3>1, <3>2
  <2>4. /\ kernel' \in KernelType /\ Filed(kernel', out) /\ kernel'.running = kernel.running
        /\ \A x \in Proc : x # p => kernel'.state[x] = kernel.state[x]
    BY <1>1, <1>4, <2>3, KernelFields DEF Readied
  <2>5. kernel.state[p0] = "ready"
    BY <1>1, <1>3, NotWaiting
  <2>6. Loose' = Loose /\ p0' = p0 /\ p # p0
    <3>1. Loose' = out
      BY <1>4, <2>4, LooseIs
    <3>. QED BY <1>4, <2>3, <2>4, <2>5, <3>1 DEF p0, out
  <2>7. Queues'
    BY <1>4, <2>4, <2>6 DEF Queues, out
  <2>8. /\ Depth(p0) \in Nat \ {0} /\ stack'[p0] # <<>>
        /\ \A x \in Proc : Depth(x)' = Depth(x)
        /\ \A x \in Proc : x # p0 => stack'[x] = stack[x]
        /\ stack'[p0][1].call = Top.call
    BY <1>1, <2>1, <2>6, TopMoved
  <2>9. ~Waits(p0, {"queue"})'
    <3>1. Bottom(p0)' = stack'[p0][1]
      BY <1>2, <1>3, <2>6, <2>8 DEF InnerTop, Bottom
    <3>. QED BY <1>2, <2>6, <2>8, <3>1 DEF Waits
  <2>10. Blocking'
    <3>1. ASSUME NEW x \in Proc, Waits(x, {"queue"})'
          PROVE  x \in Loose' /\ kernel'.state[x] = Waiting(Bottom(x).call)'
      <4>1. CASE x = p0
        BY <2>6, <2>8, <2>9, <3>1, <4>1 DEF Waits, Bottom, Depth
      <4>2. CASE x # p0
        <5>1. stack'[x] = stack[x] /\ Depth(x)' = Depth(x)
          BY <2>8, <4>2
        <5>2. Waits(x, {"queue"}) /\ Bottom(x)' = Bottom(x)
          BY <3>1, <5>1 DEF Waits, Bottom
        <5>3. x \in out /\ kernel.state[x] = Waiting(Bottom(x).call)
          BY <1>4, <5>2 DEF Blocking, out
        <5>4. kernel'.state[x] = kernel.state[x]
          BY <2>3, <2>4, <5>3
        <5>. QED BY <2>6, <5>2, <5>3, <5>4 DEF Waiting, out
      <4>. QED BY <4>1, <4>2
    <3>2. kernel'.state[p0] = "ready"
      BY <1>2, <2>4, <2>5, <2>6
    <3>. QED BY <2>6, <3>1, <3>2 DEF Blocking
  <2>11. Decoder'
    BY <1>1, <1>2, <1>3, <2>1, <2>6, DecoderAside
  <2>. QED BY <2>7, <2>10, <2>11 DEF QueueInv
<1>. QED BY <1>5, <1>6

\* What a sender does to the decoder is nothing to a process that blocks.
LEMMA BlockingAside ==
  ASSUME StackInv, QueueInv, NEW point, At({"send"}, point),
         NEW next \in InBracket \cup Outside, GoTo(next), p0' = p0,
         kernel'.state[p0] = kernel.state[p0], p0 \in Loose' <=> p0 \in Loose,
         \A p \in Proc : p # p0 /\ Waits(p, {"queue"}) =>
             p \in Loose' /\ kernel'.state[p] = kernel.state[p]
  PROVE  Blocking'
<1>1. /\ Depth(p0) \in Nat \ {0} /\ p0 \in Proc /\ stack[p0] # <<>> /\ stack'[p0] # <<>>
      /\ \A x \in Proc : Depth(x)' = Depth(x)
      /\ \A x \in Proc : x # p0 => stack'[x] = stack[x]
      /\ stack'[p0][1].call = "send" /\ Top.call = "send" /\ Top = stack[p0][1]
      /\ \A i \in 1..Depth(p0) : i > 1 => stack'[p0][i] = stack[p0][i]
  BY TopMoved
<1>2. Blocking
  BY AtQueues
<1>3. \A point2 : Waits(p0, point2)' <=> Waits(p0, point2)
  <2>1. CASE Depth(p0) = 1
    <3>1. Bottom(p0).call = "send" /\ (Bottom(p0).call)' = "send"
      BY <1>1, <2>1 DEF Bottom
    <3>. QED BY <1>1, <3>1 DEF Waits, Bottom, Depth
  <2>2. CASE Depth(p0) # 1
    <3>1. Depth(p0) \in 1..Depth(p0) /\ Depth(p0) > 1
      BY <1>1, <2>2
    <3>2. (Bottom(p0))' = Bottom(p0)
      BY <1>1, <3>1 DEF Bottom
    <3>. QED BY <1>1, <3>2 DEF Waits, Bottom, Depth
  <2>. QED BY <2>1, <2>2
<1>4. InnerTop => InnerTop' /\ stack'[p0][Depth(p0) - 1].call = stack[p0][Depth(p0) - 1].call
  <2>1. SUFFICES ASSUME InnerTop
                 PROVE  InnerTop' /\ stack'[p0][Depth(p0) - 1].call = stack[p0][Depth(p0) - 1].call
    OBVIOUS
  <2>2. InnerTop'
    BY <1>1, <2>1 DEF InnerTop
  <2>3. CASE Depth(p0) - 1 = 1
    BY <1>1, <2>2, <2>3
  <2>4. CASE Depth(p0) - 1 # 1
    <3>1. Depth(p0) - 1 \in 1..Depth(p0) /\ Depth(p0) - 1 > 1
      BY <1>1, <2>1, <2>4 DEF InnerTop
    <3>. QED BY <1>1, <2>2, <3>1
  <2>. QED BY <2>3, <2>4
<1>5. ASSUME NEW p \in Proc, Waits(p, {"queue"})'
      PROVE  p \in Loose' /\ kernel'.state[p] = Waiting(Bottom(p).call)'
  <2>1. CASE p = p0
    <3>1. Waits(p0, {"queue"})
      BY <1>3, <1>5, <2>1 DEF Waits, Bottom, Depth
    <3>2. p0 \in Loose /\ kernel.state[p0] = Waiting(Bottom(p0).call)
      BY <1>1, <1>2, <3>1 DEF Blocking
    <3>3. (Bottom(p0).call)' = Bottom(p0).call
      <4>1. Depth(p0) \in 1..Depth(p0)
        BY <1>1
      <4>2. CASE Depth(p0) = 1
        BY <1>1, <4>2 DEF Bottom
      <4>3. CASE Depth(p0) > 1
        BY <1>1, <4>1, <4>3 DEF Bottom
      <4>. QED BY <1>1, <4>2, <4>3
    <3>. QED BY <2>1, <3>2, <3>3 DEF Waiting, Bottom, Depth
  <2>2. CASE p # p0
    <3>1. stack'[p] = stack[p] /\ Depth(p)' = Depth(p)
      BY <1>1, <2>2
    <3>2. Waits(p, {"queue"}) /\ Bottom(p)' = Bottom(p)
      BY <1>5, <3>1 DEF Waits, Bottom
    <3>. QED BY <1>2, <2>2, <3>2 DEF Blocking, Waiting
  <2>. QED BY <2>1, <2>2
<1>6. ASSUME kernel.state[p0] # "ready"
      PROVE  \/ Waits(p0, {"queue"})'
             \/ /\ p0 \notin Loose'
                /\ \/ Waits(p0, {"queued"})'
                   \/ /\ Waits(p0, {"retry", "return"})'
                      /\ InnerTop' /\ stack'[p0][Depth(p0) - 1].call = "switch"
  <2>1. CASE Waits(p0, {"queue"})
    BY <1>3, <2>1
  <2>2. CASE Waits(p0, {"queued"})
    BY <1>2, <1>3, <1>6, <2>2 DEF Blocking
  <2>3. CASE /\ p0 \notin Loose /\ Waits(p0, {"retry", "return"})
             /\ InnerTop /\ stack[p0][Depth(p0) - 1].call = "switch"
    BY <1>3, <1>4, <2>3
  <2>. QED BY <1>2, <1>6, <2>1, <2>2, <2>3 DEF Blocking
<1>7. kernel'.state[p0] # "ready" =>
         \/ Waits(p0, {"queue"})'
         \/ /\ p0 \notin Loose'
            /\ \/ Waits(p0, {"queued"})'
               \/ /\ Waits(p0, {"retry", "return"})'
                  /\ InnerTop' /\ stack'[p0][Depth(p0)' - 1].call = "switch"
  BY <1>1, <1>6
<1>. QED BY <1>5, <1>7 DEF Blocking

\* What a sender that moves the decoder leaves to be said of the decoder.
LEMMA DecoderMoved ==
  ASSUME StackInv, QueueInv, NEW point \in {"remove", "ready"}, At({"send"}, point),
         NEW next \in InBracket \cup Outside, GoTo(next), p0' = p0,
         p0 = Kcd => kernel'.state[Kcd] # "ready",
         p0 # Kcd => (Kcd \in Loose' <=> next = "ready")
  PROVE  Decoder'
<1>1. /\ Depth(p0) \in Nat \ {0} /\ p0 \in Proc
      /\ \A p \in Proc : Depth(p)' = Depth(p)
      /\ \A p \in Proc : p # p0 => stack'[p] = stack[p]
      /\ stack'[p0][1].call = "send" /\ stack'[p0][1].at = next
      /\ Top = stack[p0][1] /\ Top.call = "send" /\ Top.at = point
      /\ \A i \in 1..Depth(p0) : i > 1 => stack'[p0][i] = stack[p0][i]
  BY TopMoved
<1>2. Decoder /\ Kcd \in Proc
  BY AtQueues
<1>3. 1 \in 1..Depth(p0) /\ (Readying(stack'[p0][1]) <=> next = "ready")
  BY <1>1 DEF Readying
<1>4. Kcd \in Loose' /\ p0 # Kcd => \E i \in 1..Depth(p0) : Readying(stack'[p0][i])
  BY <1>3
<1>5. ASSUME NEW i \in 1..Depth(Kcd)
      PROVE  /\ stack'[Kcd][i].call = "switch" =>
                   i = Depth(Kcd)' - 1 /\ (Bottom(Kcd)').at = "return"
             /\ Moving(stack'[Kcd][i]) => p0 = Kcd /\ kernel'.state[Kcd] # "ready"
  <2>1. CASE p0 = Kcd /\ i = 1
    BY <1>1, <2>1
  <2>2. CASE p0 = Kcd /\ i # 1
    <3>1. i > 1 /\ Depth(p0) \in 1..Depth(p0) /\ Depth(p0) > 1
      BY <1>1, <2>2
    <3>2. stack'[Kcd][i] = stack[Kcd][i] /\ Bottom(Kcd)' = Bottom(Kcd)
      BY <1>1, <1>2, <2>2, <3>1 DEF Bottom
    <3>. QED BY <1>1, <1>2, <2>2, <3>2 DEF Decoder
  <2>3. CASE p0 # Kcd
    <3>1. stack'[Kcd] = stack[Kcd] /\ Depth(Kcd)' = Depth(Kcd) /\ Bottom(Kcd)' = Bottom(Kcd)
      BY <1>1, <1>2, <2>3 DEF Bottom
    <3>. QED BY <1>2, <2>3, <3>1 DEF Decoder
  <2>. QED BY <2>1, <2>2, <2>3
<1>6. ASSUME NEW p \in Proc \ {Kcd}, NEW i \in 1..Depth(p), Readying(stack'[p][i])
      PROVE  p = p0 /\ i = 1 /\ Kcd \in Loose'
  <2>1. CASE p = p0 /\ i = 1
    BY <1>3, <1>6, <2>1
  <2>2. CASE p = p0 /\ i # 1
    <3>1. i > 1 /\ i \in 1..Depth(p0) /\ 1 \in 1..(i - 1)
      BY <1>1, <1>6, <2>2
    <3>2. Readying(stack[p][i])
      BY <1>1, <1>6, <2>2, <3>1
    <3>. QED BY <1>1, <1>2, <1>6, <2>2, <3>1, <3>2 DEF Decoder
  <2>3. CASE p # p0
    BY <1>1, <1>2, <1>6, <2>3 DEF Decoder
  <2>. QED BY <2>1, <2>2, <2>3
<1>7. /\ Kcd \in Loose' /\ p0' # Kcd =>
            \E i \in 1..Depth(p0') : Readying(stack'[p0'][i])
      /\ \A p \in Proc : Depth(p)' = Depth(p)
  BY <1>1, <1>4
<1>8. \A p \in Proc \ {Kcd} : \A i \in 1..Depth(p) : Readying(stack'[p][i]) =>
         /\ p = p0' /\ Kcd \in Loose'
         /\ \A j \in 1..(i - 1) : Quiet(stack'[p][j])
  BY <1>1, <1>6
<1>9. /\ (Kcd \in Loose /\ p0 # Kcd => \E i \in 1..Depth(p0) : Readying(stack[p0][i]))'
      /\ (\A i \in 1..Depth(Kcd) :
             /\ stack[Kcd][i].call = "switch" => i = Depth(Kcd) - 1 /\ Bottom(Kcd).at = "return"
             /\ Moving(stack[Kcd][i]) => p0 = Kcd /\ kernel.state[Kcd] # "ready")'
  <2>1. Depth(Kcd)' = Depth(Kcd) /\ Depth(p0)' = Depth(p0)
    BY <1>1, <1>2 DEF Depth
  <2>. QED BY <1>1, <1>2, <1>4, <1>5, <2>1 DEF Readying, Moving
<1>10. (\A p \in Proc \ {Kcd} : \A i \in 1..Depth(p) : Readying(stack[p][i]) =>
           /\ p = p0 /\ Kcd \in Loose
           /\ \A j \in 1..(i - 1) :
                 \/ stack[p][j].call \in {"uart", "request"}
                 \/ stack[p][j].call = "send" /\ stack[p][j].at \in {"up", "body", "return"})'
  BY <1>7, <1>8 DEF Quiet, Readying
<1>. QED BY <1>9, <1>10 DEF Decoder

LEMMA QueuesRemove ==
  ASSUME StackInv, QueueInv, SendRemoves
  PROVE  QueueInv'
<1>. DEFINE out == Loose \cup {Kcd}
<1>1. At({"send"}, "remove") /\ GoTo("ready") /\ "ready" \in InBracket \cup Outside
  BY DEF SendRemoves, InBracket
<1>2. /\ kernel' \in KernelType /\ kernel'.running = kernel.running
      /\ kernel'.state = kernel.state
      /\ IF p0 = Kcd THEN kernel' = kernel ELSE Filed(kernel', out)
  BY RemoveEffect
<1>3. /\ Queues /\ Blocking /\ Decoder /\ kernel \in KernelType /\ p0 \in Proc
      /\ Kcd \in Proc \ {NullProc} /\ p0 = kernel.running /\ Filed(kernel, Loose)
  BY <1>1, AtQueues
<1>4. p0' = p0
  BY <1>2, <1>3 DEF p0
<1>5. Loose' = (IF p0 = Kcd THEN Loose ELSE out) /\ Filed(kernel', Loose')
  <2>1. out \in SUBSET Proc
    BY <1>3 DEF Loose
  <2>2. CASE p0 = Kcd
    BY <1>2, <1>3, <2>2 DEF Loose
  <2>3. CASE p0 # Kcd
    <3>1. Filed(kernel', out)
      BY <1>2, <2>3
    <3>. HIDE DEF out
    <3>2. Loose' = out
      BY <1>2, <2>1, <3>1, LooseIs
    <3>. QED BY <2>3, <3>1, <3>2
  <2>. QED BY <2>2, <2>3
<1>6. Queues'
  <2>1. p0 # NullProc => NullProc \notin Loose'
    BY <1>3, <1>5 DEF Queues
  <2>. QED BY <1>4, <1>5, <2>1 DEF Queues
<1>7. Blocking'
  <2>1. kernel'.state[p0] = kernel.state[p0] /\ (p0 \in Loose' <=> p0 \in Loose)
    BY <1>2, <1>5
  <2>2. \A p \in Proc : p # p0 /\ Waits(p, {"queue"}) =>
            p \in Loose' /\ kernel'.state[p] = kernel.state[p]
    BY <1>2, <1>3, <1>5 DEF Blocking
  <2>. QED BY <1>1, <1>4, <2>1, <2>2, BlockingAside
<1>8. Decoder'
  <2>1. p0 = Kcd => kernel'.state[Kcd] # "ready"
    <3>1. Top = stack[p0][1] /\ Depth(p0) \in Nat \ {0} /\ Moving(Top)
      BY <1>1, <1>4, TopMoved DEF Moving
    <3>. QED BY <1>2, <1>3, <3>1 DEF Decoder
  <2>2. p0 # Kcd => Kcd \in Loose'
    BY <1>5
  <2>. QED BY <1>1, <1>4, <2>1, <2>2, DecoderMoved
<1>. QED BY <1>6, <1>7, <1>8 DEF QueueInv

LEMMA QueuesReadies ==
  ASSUME StackInv, QueueInv, SendReadies
  PROVE  QueueInv'
<1>. DEFINE next == Outranked(Kcd)
            out == Loose
            rest == Loose \ {Kcd}
            c == [kernel EXCEPT !.state[Kcd] = "ready"]
            e == EnqueueProcess(c, "ready", Kcd)
<1>1. At({"send"}, "ready") /\ GoTo(next) /\ kernel' = e
  BY DEF SendReadies
<1>2. next \in InBracket \cup Outside /\ next \notin {"remove", "ready"}
  BY DEF Outranked, InBracket
<1>3. /\ Queues /\ Blocking /\ Decoder /\ kernel \in KernelType /\ p0 \in Proc
      /\ Kcd \in Proc \ {NullProc} /\ p0 = kernel.running /\ Filed(kernel, Loose)
  BY <1>1, AtQueues
<1>. HIDE DEF next
<1>4. CASE p0 = Kcd
  <2>1. /\ c \in KernelType /\ c.running = kernel.running /\ c.queue = kernel.queue
        /\ c.priority = kernel.priority
    BY <1>3 DEF KernelType, ProcState
  <2>. DEFINE lev == kernel.priority[Kcd]
  <2>2. lev \in Level /\ c.queue["ready"][lev] \in Seq(Proc) /\ "ready" \in Kind
    BY <1>3, <2>1, KernelFields, QueueIsSeq DEF Kind
  <2>3. e = PutQueue(c, "ready", lev, Append(c.queue["ready"][lev], Kcd))
    BY <2>1 DEF EnqueueProcess, PutQueue
  <2>. HIDE DEF c, e, lev
  <2>4. /\ Append(c.queue["ready"][lev], Kcd) \in Seq(Proc)
        /\ Contains(Append(c.queue["ready"][lev], Kcd), Kcd)
    BY <1>3, <2>2, AppendContains
  <2>. DEFINE q == Append(c.queue["ready"][lev], Kcd)
  <2>5. q \in Seq(Proc) /\ Contains(q, Kcd) /\ e = PutQueue(c, "ready", lev, q)
    BY <2>3, <2>4
  <2>. HIDE DEF q
  <2>6. e.running = c.running /\ e.queue["ready"][lev] = q
    BY <2>1, <2>2, <2>5, PutQueueProperties
  <2>7. InQueue(e, "ready", lev, Kcd) /\ e.running = Kcd
    BY <1>3, <1>4, <2>1, <2>5, <2>6 DEF InQueue
  <2>8. RunningIsReady'
    BY <1>1, <2>2, <2>7 DEF RunningIsReady, p0
  <2>. QED BY <2>8 DEF QueueInv
<1>5. CASE p0 # Kcd
  <2>1. /\ Depth(p0) \in Nat \ {0} /\ Top = stack[p0][1] /\ Top.call = "send" /\ Top.at = "ready"
    BY <1>1, AtTop, TopIsFirst
  <2>2. Kcd \in out /\ Filed(kernel, out)
    <3>1. 1 \in 1..Depth(p0) /\ Readying(stack[p0][1])
      BY <2>1 DEF Readying
    <3>. QED BY <1>3, <1>5, <3>1 DEF Decoder
  <2>r. rest = out \ {Kcd} /\ out = Loose /\ rest \in SUBSET Proc
    BY DEF Loose
  <2>3. e = EnqueueProcess([kernel EXCEPT !.state[Kcd] = "ready"], "ready", Kcd)
    OBVIOUS
  <2>. HIDE DEF c, e, out, rest
  <2>4. Readied(kernel, Kcd, out \ {Kcd}, e)
    BY <1>3, <2>2, <2>3, ReadyFiles
  <2>5. /\ kernel' \in KernelType /\ Filed(kernel', rest) /\ kernel'.running = kernel.running
        /\ \A x \in Proc : x # Kcd => kernel'.state[x] = kernel.state[x]
    BY <1>1, <1>3, <2>4, <2>r, KernelFields DEF Readied
  <2>6. Loose' = rest /\ p0' = p0
    BY <1>3, <2>5, <2>r, LooseIs DEF p0
  <2>7. Queues'
    <3>1. Filed(kernel', Loose') /\ (p0' # NullProc => NullProc \notin Loose')
      BY <1>3, <2>5, <2>6, <2>r DEF Queues
    <3>. QED BY <3>1 DEF Queues
  <2>8. ~Waits(Kcd, {"queue"})
    <3>1. SUFFICES ASSUME Waits(Kcd, {"queue"}) PROVE FALSE
      OBVIOUS
    <3>2. stack[Kcd] # <<>> /\ Head(stack[Kcd]).call = "switch"
      BY <1>1, <1>3, <1>5, <3>1, AtTop DEF Waits, Left
    <3>3. stack[Kcd] \in Seq(FrameType) /\ Depth(Kcd) \in Nat \ {0} /\ Head(stack[Kcd]) = stack[Kcd][1]
      <4>1. stack[Kcd] \in Seq(FrameType)
        BY <1>1, <1>3, AtTop DEF Stacks
      <4>. QED BY <3>2, <4>1, OffTop DEF Depth
    <3>4. Bottom(Kcd).at = "return"
      BY <1>3, <3>2, <3>3 DEF Decoder
    <3>. QED BY <3>1, <3>4 DEF Waits
  <2>9. Blocking'
    <3>1. kernel'.state[p0] = kernel.state[p0] /\ (p0 \in Loose' <=> p0 \in Loose)
      BY <1>3, <1>5, <2>5, <2>6, <2>r
    <3>2. \A p \in Proc : p # p0 /\ Waits(p, {"queue"}) =>
              p \in Loose' /\ kernel'.state[p] = kernel.state[p]
      BY <1>3, <2>5, <2>6, <2>8, <2>r DEF Blocking
    <3>. QED BY <1>1, <1>2, <2>6, <3>1, <3>2, BlockingAside
  <2>10. Decoder'
    <3>1. Kcd \in Loose' <=> next = "ready"
      BY <1>2, <2>6, <2>r
    <3>. QED BY <1>1, <1>2, <1>5, <2>6, <3>1, DecoderMoved
  <2>. QED BY <2>7, <2>9, <2>10 DEF QueueInv
<1>. QED BY <1>4, <1>5

\* At a switch every handler that stays was there before, as far from the bottom.
LEMMA SwitchFrames ==
  ASSUME StackInv, QueueInv, Switch, NEW x \in Proc
  PROVE  /\ Depth(x) \in Nat /\ Depth(x)' \in Nat
         /\ \A i \in 1..Depth(x)' : \E k \in 1..Depth(x) :
               stack'[x][i] = stack[x][k] /\ Depth(x)' - i = Depth(x) - k
         /\ stack'[x] # <<>> => stack[x] # <<>> /\ Bottom(x)' = Bottom(x)
<1>. DEFINE t == Resumed(p0')
            s == stack[p0']
<1>1. /\ StackBecomes(p0', t) /\ t \in Seq(FrameType)
      /\ kernel.state[p0'] = "new" => s = <<>>
      /\ kernel.state[p0'] # "new" => s \in Seq(FrameType) /\ s # <<>>
  BY SwitchStack
<1>2. p0' \in Proc
  BY SwitchEffect
<1>3. stack[x] \in Seq(FrameType)
  BY AtTop DEF Switch, Stacks
<1>4. Depth(x) \in Nat /\ (stack[x] = <<>> <=> Depth(x) = 0)
  BY <1>3, EmptySeq DEF Depth
<1>5. CASE x # p0'
  <2>1. stack'[x] = stack[x] /\ Depth(x)' = Depth(x) /\ Bottom(x)' = Bottom(x)
    BY <1>1, <1>5 DEF StackBecomes, Depth, Bottom
  <2>. QED BY <1>4, <2>1
<1>6. CASE x = p0' /\ kernel.state[p0'] = "new"
  <2>1. stack'[x] = <<>> /\ Len(stack'[x]) = 0
    BY <1>1, <1>2, <1>6 DEF StackBecomes, Resumed
  <2>2. Depth(x)' = 0
    BY <2>1 DEF Depth
  <2>. QED BY <1>4, <2>1, <2>2
<1>7. CASE x = p0' /\ kernel.state[p0'] # "new"
  <2>1. t = Tail(s) /\ stack'[x] = t /\ s = stack[x]
    BY <1>1, <1>2, <1>7 DEF StackBecomes, Resumed
  <2>2. Depth(x)' = Len(t) /\ Depth(x) = Len(s)
    BY <2>1 DEF Depth
  <2>s. s \in Seq(FrameType) /\ s # <<>> /\ t = Tail(s)
    BY <1>1, <1>7, <2>1
  <2>. HIDE DEF t, s
  <2>3. /\ t \in Seq(FrameType) /\ Len(t) = Len(s) - 1 /\ Len(s) \in Nat \ {0}
        /\ t = <<>> <=> Len(s) = 1
        /\ \A i \in 1..Len(t) : i + 1 \in 1..Len(s) /\ t[i] = s[i + 1]
    BY <2>s, OffTop
  <2>4. ASSUME t # <<>> PROVE Bottom(x)' = Bottom(x)
    <3>1. Len(t) \in 1..Len(t) /\ Len(t) + 1 = Len(s)
      BY <2>3, <2>4
    <3>2. t[Len(t)] = s[Len(s)]
      BY <2>3, <3>1
    <3>. QED BY <2>1, <2>2, <3>2 DEF Bottom
  <2>5. ASSUME NEW i \in 1..Len(t)
        PROVE  \E k \in 1..Len(s) : t[i] = s[k] /\ Len(t) - i = Len(s) - k
    <3>1. i + 1 \in 1..Len(s) /\ t[i] = s[i + 1] /\ Len(t) - i = Len(s) - (i + 1)
      BY <2>3
    <3>. QED BY <3>1
  <2>6. /\ Depth(x) \in Nat /\ Depth(x)' \in Nat
        /\ stack'[x] # <<>> => stack[x] # <<>> /\ Bottom(x)' = Bottom(x)
    BY <1>4, <2>s, <2>1, <2>2, <2>3, <2>4
  <2>7. \A i \in 1..Depth(x)' : \E k \in 1..Depth(x) :
           stack'[x][i] = stack[x][k] /\ Depth(x)' - i = Depth(x) - k
    <3>1. SUFFICES ASSUME NEW i \in 1..Depth(x)'
                   PROVE  \E k \in 1..Depth(x) :
                              stack'[x][i] = stack[x][k] /\ Depth(x)' - i = Depth(x) - k
      OBVIOUS
    <3>2. i \in 1..Len(t)
      BY <2>2, <3>1
    <3>3. PICK k \in 1..Len(s) : t[i] = s[k] /\ Len(t) - i = Len(s) - k
      BY <2>5, <3>2
    <3>4. k \in 1..Depth(x) /\ stack'[x][i] = stack[x][k] /\ Depth(x)' - i = Depth(x) - k
      BY <2>1, <2>2, <3>3
    <3>. QED BY <3>4
  <2>. QED BY <2>6, <2>7
<1>. QED BY <1>5, <1>6, <1>7

LEMMA QueuesSwitch ==
  ASSUME StackInv, QueueInv, Switch
  PROVE  QueueInv'
<1>1. At({"switch"}, "switch")
  BY DEF Switch
<1>2. /\ Queues /\ Blocking /\ Decoder /\ kernel \in KernelType /\ p0 \in Proc
      /\ Kcd \in Proc \ {NullProc} /\ p0 = kernel.running /\ Filed(kernel, Loose)
  BY <1>1, AtQueues
<1>3. /\ Settled(kernel', Behind) /\ p0' \in Proc /\ p0' \notin Behind
      /\ kernel.state[p0'] \in {"new", "ready"} /\ kernel'.state[p0'] = "ready"
      /\ \A x \in Proc : x # p0' => kernel'.state[x] = kernel.state[x]
  BY SwitchEffect
<1>4. /\ Top = stack[p0][1] /\ Top.call = "switch" /\ Depth(p0) \in Nat \ {0}
      /\ stack[p0] # <<>>
  BY <1>1, AtTop, TopIsFirst
<1>5. Loose' = Behind \cup {p0'} /\ Filed(kernel', Loose') /\ NullProc \notin Behind
  <2>. DEFINE out == Behind \cup {p0'}
  <2>1. kernel' \in KernelType /\ Filed(kernel', out) /\ NullProc \notin Behind
    BY <1>3 DEF Settled, p0
  <2>2. out \in SUBSET Proc
    BY <1>3 DEF Behind, Loose
  <2>. HIDE DEF out
  <2>3. Loose' = out
    BY <2>1, <2>2, LooseIs
  <2>. QED BY <2>1, <2>3 DEF out
<1>6. Queues'
  <2>1. p0' # NullProc => NullProc \notin Loose'
    BY <1>5
  <2>. QED BY <1>5, <2>1 DEF Queues
<1>7. Blocking'
  <2>1. ASSUME NEW x \in Proc, Waits(x, {"queue"})'
        PROVE  x \in Loose' /\ kernel'.state[x] = Waiting(Bottom(x).call)'
    <3>1. Waits(x, {"queue"}) /\ Bottom(x)' = Bottom(x)
      BY <2>1, SwitchFrames DEF Waits
    <3>2. x \in Loose /\ kernel.state[x] = Waiting(Bottom(x).call)
      BY <1>2, <3>1 DEF Blocking
    <3>3. kernel.state[x] \notin {"new", "ready"}
      BY <3>2 DEF Waiting, BlockedState
    <3>4. x # p0' /\ x \in Behind
      BY <1>3, <3>2, <3>3 DEF Behind
    <3>. QED BY <1>3, <1>5, <3>1, <3>2, <3>4 DEF Waiting
  <2>. QED BY <1>3, <2>1 DEF Blocking
<1>8. \A p \in Proc \ {Kcd} : \A i \in 1..Depth(p) : ~Readying(stack[p][i])
  <2>1. SUFFICES ASSUME NEW p \in Proc \ {Kcd}, NEW i \in 1..Depth(p), Readying(stack[p][i])
                 PROVE  FALSE
    OBVIOUS
  <2>2. p = p0 /\ i # 1
    BY <1>2, <1>4, <2>1 DEF Decoder, Readying
  <2>3. 1 \in 1..(i - 1)
    BY <1>4, <2>1, <2>2
  <2>. QED BY <1>2, <1>4, <2>1, <2>2, <2>3 DEF Decoder
<1>9. p0 = Kcd => Depth(Kcd) = 2 /\ Bottom(Kcd).at = "return"
  <2>1. SUFFICES ASSUME p0 = Kcd PROVE Depth(Kcd) = 2 /\ Bottom(Kcd).at = "return"
    OBVIOUS
  <2>2. 1 \in 1..Depth(Kcd) /\ stack[Kcd][1].call = "switch"
    BY <1>4, <2>1
  <2>3. 1 = Depth(Kcd) - 1 /\ Bottom(Kcd).at = "return"
    BY <1>2, <2>2 DEF Decoder
  <2>. QED BY <1>4, <2>1, <2>3
<1>10. \A i \in 1..Depth(Kcd) : ~Moving(stack[Kcd][i])
  <2>1. SUFFICES ASSUME NEW i \in 1..Depth(Kcd), Moving(stack[Kcd][i]) PROVE FALSE
    OBVIOUS
  <2>2. p0 = Kcd
    BY <1>2, <2>1 DEF Decoder
  <2>3. i = 1 \/ i = 2
    BY <1>9, <2>1, <2>2
  <2>. QED BY <1>4, <1>9, <2>1, <2>2, <2>3 DEF Moving, Bottom
<1>11. Kcd \in Loose' => p0' = Kcd
  <2>1. SUFFICES ASSUME Kcd \in Behind PROVE FALSE
    BY <1>5
  <2>2. Kcd \in Loose
    BY <2>1 DEF Behind
  <2>3. CASE p0 # Kcd
    BY <1>2, <1>8, <2>2, <2>3 DEF Decoder
  <2>4. CASE p0 = Kcd
    <3>1. kernel.state[p0] # "ready"
      BY <2>1, <2>4 DEF Behind
    <3>2. Waits(p0, {"queue"})
      BY <1>2, <2>2, <2>4, <3>1 DEF Blocking
    <3>. QED BY <1>9, <2>4, <3>2 DEF Waits
  <2>. QED BY <2>3, <2>4
<1>12. ASSUME NEW i \in 1..Depth(Kcd)'
       PROVE  /\ stack'[Kcd][i].call = "switch" =>
                    i = Depth(Kcd)' - 1 /\ (Bottom(Kcd)').at = "return"
              /\ ~Moving(stack'[Kcd][i])
  <2>1. /\ Depth(Kcd) \in Nat /\ Depth(Kcd)' \in Nat
        /\ stack'[Kcd] # <<>> => stack[Kcd] # <<>> /\ Bottom(Kcd)' = Bottom(Kcd)
    BY <1>2, SwitchFrames
  <2>2. PICK k \in 1..Depth(Kcd) :
             stack'[Kcd][i] = stack[Kcd][k] /\ Depth(Kcd)' - i = Depth(Kcd) - k
    BY <1>2, <1>12, SwitchFrames
  <2>3. ~Moving(stack'[Kcd][i])
    BY <1>10, <2>2
  <2>4. ASSUME stack'[Kcd][i].call = "switch"
        PROVE  i = Depth(Kcd)' - 1 /\ (Bottom(Kcd)').at = "return"
    <3>1. k = Depth(Kcd) - 1 /\ Bottom(Kcd).at = "return"
      BY <1>2, <2>2, <2>4 DEF Decoder
    <3>2. i = Depth(Kcd)' - 1
      BY <2>1, <2>2, <3>1, <1>12
    <3>3. stack'[Kcd] # <<>>
      <4>1. Depth(Kcd)' # 0
        BY <1>12, <2>1
      <4>. QED BY <4>1 DEF Depth
    <3>. QED BY <2>1, <3>1, <3>2, <3>3
  <2>. QED BY <2>3, <2>4
<1>13. ASSUME NEW p \in Proc \ {Kcd}, NEW i \in 1..Depth(p)'
       PROVE  ~Readying(stack'[p][i])
  <2>1. PICK k \in 1..Depth(p) : stack'[p][i] = stack[p][k]
    BY <1>13, SwitchFrames
  <2>. QED BY <1>8, <2>1
<1>14. Decoder'
  BY <1>11, <1>12, <1>13 DEF Decoder, Readying, Moving
<1>. QED BY <1>6, <1>7, <1>14 DEF QueueInv


-----------------------------------------------------------------------------
(* The inductive invariant. *)

PreemptIInv == StackInv /\ QueueInv

LEMMA StepKeepsIInv ==
  ASSUME PreemptIInv, [Next]_vars
  PROVE  PreemptIInv'
<1>0. StackInv /\ QueueInv
  BY DEF PreemptIInv
<1>1. CASE \/ CallYield \/ CallRequest \/ CallReceive
           \/ \E b \in MemBlock : CallRelease(b) \/ CallSend(b)
  <2>1. UserMode
    BY <1>1 DEF CallYield, CallRequest, CallReceive, CallRelease, CallSend, Client, InUser
  <2>2. StackInv'
    BY <1>0, <1>1, <2>1, UserCalls
  <2>3. QueueInv'
    BY <1>0, <1>1, QueuesBegin
  <2>. QED BY <2>2, <2>3 DEF PreemptIInv
<1>2. CASE SerialInterrupt
  <2>1. QueueInv'
    BY <1>0, <1>2, QueuesBegin
  <2>. QED BY <1>0, <1>2, <2>1, SerialKeeps DEF PreemptIInv
<1>3. CASE Begin \/ Block \/ UnblockStays \/ Receive \/ UartDrops \/ UartReturns
  <2>1. QueueInv'
    BY <1>0, <1>3, QueuesWithin
  <2>. QED BY <1>0, <1>3, <2>1, BeginKeeps, OtherSteps, ReceiveKeeps DEF PreemptIInv
<1>4. CASE Request \/ RequestTakes \/ RequestCloses \/ RequestRetries
  <2>1. QueueInv'
    BY <1>0, <1>4, QueuesWithin
  <2>. QED BY <1>0, <1>4, <2>1, RequestSteps DEF PreemptIInv
<1>5. CASE Release \/ ReleaseUnblocks \/ Send \/ SendUnblocks \/ SendFinds
  <2>1. QueueInv'
    BY <1>0, <1>5, QueuesWithin
  <2>. QED BY <1>0, <1>5, <2>1, ReleaseSteps, SendSteps DEF PreemptIInv
<1>6. CASE UnblockYields \/ BlockReleasesProcessor \/ UartRequests \/ UartSends
  <2>1. QueueInv'
    BY <1>0, <1>6, QueuesInner
  <2>. QED BY <1>0, <1>6, <2>1, Yielding, UartCalls DEF PreemptIInv
<1>7. CASE Return \/ RequestReturns
  <2>1. QueueInv'
    BY <1>0, <1>7, QueuesReturn
  <2>. QED BY <1>0, <1>7, <2>1, ReturnKeeps, RequestReturnsKeeps DEF PreemptIInv
<1>8. CASE BlockSetsState
  BY <1>0, <1>8, StateKeeps, QueuesState DEF PreemptIInv
<1>9. CASE BlockEnqueues
  BY <1>0, <1>9, EnqueuesKeeps, QueuesEnqueue DEF PreemptIInv
<1>10. CASE ReleaseReadies
  BY <1>0, <1>10, ReleaseReadiesKeeps, QueuesRelease DEF PreemptIInv
<1>11. CASE SendRemoves
  BY <1>0, <1>11, SendRemovesKeeps, QueuesRemove DEF PreemptIInv
<1>12. CASE SendReadies
  BY <1>0, <1>12, SendReadiesKeeps, QueuesReadies DEF PreemptIInv
<1>13. CASE Switch
  BY <1>0, <1>13, SwitchKeeps, QueuesSwitch DEF PreemptIInv
<1>14. CASE UNCHANGED vars
  <2>1. /\ kernel' = kernel /\ status' = status /\ mask' = mask /\ stack' = stack
        /\ available' = available /\ held' = held /\ mail' = mail /\ keys' = keys
    BY <1>14 DEF vars, data
  <2>2. StackInv'
    <3>1. PreemptTypeOK' /\ Stacks' /\ Running' /\ Left'
      BY <1>0, <2>1 DEF StackInv, PreemptTypeOK, Stacks, Running, Left, p0, Top, UserMode,
           InnerTop, Depth, Frames
    <3>. QED BY <1>0, <2>1, <3>1 DEF StackInv, Depth
  <2>3. QueueInv'
    BY <1>0, <2>1 DEF QueueInv, Queues, Blocking, Decoder, Waits, Bottom, Depth, Loose,
         RunningIsReady, p0, InnerTop
  <2>. QED BY <2>2, <2>3 DEF PreemptIInv
<1>. QED BY <1>1, <1>2, <1>3, <1>4, <1>5, <1>6, <1>7, <1>8, <1>9, <1>10, <1>11, <1>12,
            <1>13, <1>14 DEF Next


-----------------------------------------------------------------------------
(* The start. *)

NoneYet == [running  |-> Main,
            state    |-> [p \in Proc |-> "new"],
            priority |-> InitPriority,
            queue    |-> [kind \in Kind |-> [l \in Level |-> <<>>]]]

\* f is the table after each of the first n process initialization blocks.
Creates(f, n) ==
    f = [i \in 0..n |-> IF i = 0 THEN NoneYet
                        ELSE EnqueueProcess(f[i - 1], "ready", Pibs[i])]

LEMMA CreatesOneMore ==
  ASSUME NEW n \in Nat, NEW f, Creates(f, n)
  PROVE  \E g : Creates(g, n + 1)
<1>. DEFINE next == EnqueueProcess(f[n], "ready", Pibs[n + 1])
            g == [i \in 0..(n + 1) |-> IF i = n + 1 THEN next ELSE f[i]]
<1>1. next = EnqueueProcess(f[n], "ready", Pibs[n + 1])
  OBVIOUS
<1>. HIDE DEF next
<1>2. /\ DOMAIN g = 0..(n + 1) /\ g[n + 1] = next
      /\ \A i \in 0..n : g[i] = f[i]
  OBVIOUS
<1>g. g = [i \in 0..(n + 1) |-> g[i]]
  OBVIOUS
<1>. HIDE DEF g
<1>3. ASSUME NEW i \in 0..(n + 1)
      PROVE  g[i] = IF i = 0 THEN NoneYet ELSE EnqueueProcess(g[i - 1], "ready", Pibs[i])
  <2>1. CASE i = n + 1
    <3>1. g[i - 1] = f[n] /\ i # 0
      BY <1>2, <2>1
    <3>. QED BY <1>1, <1>2, <2>1, <3>1
  <2>2. CASE i # n + 1
    <3>1. i \in 0..n /\ g[i] = f[i] /\ (i # 0 => g[i - 1] = f[i - 1])
      BY <1>2, <1>3, <2>2
    <3>2. f[i] = IF i = 0 THEN NoneYet ELSE EnqueueProcess(f[i - 1], "ready", Pibs[i])
      BY <3>1, Zenon DEF Creates
    <3>. QED BY <3>1, <3>2
  <2>. QED BY <2>1, <2>2
<1>4. Creates(g, n + 1)
  <2>. DEFINE h == [i \in 0..(n + 1) |->
                       IF i = 0 THEN NoneYet ELSE EnqueueProcess(g[i - 1], "ready", Pibs[i])]
  <2>1. [i \in 0..(n + 1) |-> g[i]] = h
    BY <1>3, Zenon
  <2>. QED BY <1>g, <2>1, Zenon DEF Creates
<1>. QED BY <1>4

\* The recursion of Created defines a function.
LEMMA CreatedEquation ==
  /\ Created[0] = NoneYet
  /\ \A n \in 1..Len(Pibs) : Created[n] = EnqueueProcess(Created[n - 1], "ready", Pibs[n])
<1>. DEFINE T == {n \in Nat : \E f : Creates(f, n)}
<1>1. 0 \in T
  <2>. DEFINE f == [i \in {0} |-> NoneYet]
  <2>1. ASSUME NEW i \in {0}
        PROVE  NoneYet = IF i = 0 THEN NoneYet ELSE EnqueueProcess(f[i - 1], "ready", Pibs[i])
    BY Zenon
  <2>2. f = [i \in {0} |-> IF i = 0 THEN NoneYet
                           ELSE EnqueueProcess(f[i - 1], "ready", Pibs[i])]
    BY <2>1, Zenon
  <2>3. 0..0 = {0}
    OBVIOUS
  <2>4. Creates(f, 0)
    BY <2>2, <2>3, Zenon DEF Creates
  <2>. QED BY <2>4
<1>2. \A n \in Nat : n \in T => n + 1 \in T
  BY CreatesOneMore
<1>. HIDE DEF T
<1>3. Nat \subseteq T
  BY <1>1, <1>2, InductionOnSet
<1>4. Len(Pibs) \in Nat
  BY PreemptAssumption, LenProperties
<1>5. PICK f : Creates(f, Len(Pibs))
  BY <1>3, <1>4 DEF T
<1>6. Creates(Created, Len(Pibs))
  BY <1>5, Zenon DEF Created, Creates, NoneYet
<1>7. \A n \in 0..Len(Pibs) :
         Created[n] = IF n = 0 THEN NoneYet
                      ELSE EnqueueProcess(Created[n - 1], "ready", Pibs[n])
  BY <1>6, Zenon DEF Creates
<1>. HIDE DEF NoneYet
<1>. QED BY <1>4, <1>7

\* Nobody has run yet, and the first n processes are in the ready queue.
NewTable(k, n) ==
    /\ k \in KernelType /\ k.running = Main
    /\ k.state = [p \in Proc |-> "new"] /\ k.priority = InitPriority
    /\ Filed(k, {p \in Proc : \A i \in 1..n : p # Pibs[i]})

LEMMA CreatedTable == NewTable(Created[Len(Pibs)], Len(Pibs))
<1>1. Len(Pibs) \in Nat /\ DOMAIN Pibs = 1..Len(Pibs) /\ \A i \in 1..Len(Pibs) : Pibs[i] \in Proc
  BY PreemptAssumption, LenProperties, ElementOfSeq
<1>. DEFINE T == {n \in Nat : n <= Len(Pibs) => NewTable(Created[n], n)}
<1>2. 0 \in T
  <2>1. /\ NoneYet \in KernelType /\ NoneYet.running = Main
        /\ NoneYet.state = [p \in Proc |-> "new"] /\ NoneYet.priority = InitPriority
        /\ \A kind \in Kind, l \in Level : NoneYet.queue[kind][l] = <<>>
    BY PriorityAssumption DEF NoneYet, KernelType, ProcState, Level
  <2>. DEFINE k == NoneYet
  <2>2. \A i \in 1..0 : FALSE
    OBVIOUS
  <2>3. Filed(k, Proc)
    <3>. HIDE DEF k
    <3>1. \A x : ~Contains(<<>>, x)
      BY DEF Contains
    <3>2. IsInjective(<<>>)
      BY DEF IsInjective
    <3>. QED BY <2>1, <3>1, <3>2 DEF Filed, InQueue, k
  <2>4. {p \in Proc : \A i \in 1..0 : p # Pibs[i]} = Proc
    BY <2>2
  <2>5. NewTable(k, 0)
    BY <2>1, <2>3, <2>4 DEF NewTable
  <2>. QED BY <2>5, CreatedEquation
<1>3. ASSUME NEW n \in Nat, n \in T PROVE n + 1 \in T
  <2>1. SUFFICES ASSUME n + 1 <= Len(Pibs) PROVE NewTable(Created[n + 1], n + 1)
    OBVIOUS
  <2>. DEFINE k == Created[n]
              p == Pibs[n + 1]
              out == {q \in Proc : \A i \in 1..n : q # Pibs[i]}
              e == EnqueueProcess(k, "ready", p)
  <2>2. NewTable(k, n)
    BY <1>1, <1>3, <2>1
  <2>3. Created[n + 1] = e
    <3>1. n + 1 \in 1..Len(Pibs) /\ (n + 1) - 1 = n
      BY <1>1, <2>1
    <3>. QED BY <3>1, CreatedEquation
  <2>4. p \in Proc /\ p \in out
    <3>1. n + 1 \in 1..Len(Pibs) /\ \A i \in 1..n : i \in 1..Len(Pibs) /\ i # n + 1
      BY <1>1, <2>1
    <3>. QED BY <1>1, <3>1, PreemptAssumption DEF IsInjective
  <2>5. out \ {p} = {q \in Proc : \A i \in 1..(n + 1) : q # Pibs[i]}
    <3>1. \A i : i \in 1..(n + 1) <=> i \in 1..n \/ i = n + 1
      OBVIOUS
    <3>. QED BY <3>1
  <2>6. /\ k \in KernelType /\ k.running = Main /\ k.state = [q \in Proc |-> "new"]
        /\ k.priority = InitPriority /\ Filed(k, out)
    BY <2>2 DEF NewTable
  <2>. HIDE DEF k, p, out
  <2>7. "ready" \in Kind /\ QueueOf(k.state[p]) = "ready"
    BY <2>4, <2>6 DEF QueueOf, Kind
  <2>8. IsFiled(k, "ready", p, out, e)
    BY <2>4, <2>6, <2>7, EnqueueFiles
  <2>9. NewTable(e, n + 1)
    BY <2>5, <2>6, <2>8 DEF IsFiled, NewTable
  <2>. QED BY <2>3, <2>9
<1>. HIDE DEF T
<1>4. Nat \subseteq T
  BY <1>2, <1>3, InductionOnSet
<1>. QED BY <1>1, <1>4 DEF T

LEMMA FirstDispatch ==
  ASSUME Init
  PROVE  /\ kernel \in KernelType /\ p0 \in Proc /\ Filed(kernel, {p0})
         /\ kernel.state[p0] = "ready"
         /\ \A p \in Proc : p # p0 => kernel.state[p] = "new"
<1>. DEFINE k == Created[Len(Pibs)]
<1>1. NewTable(k, Len(Pibs)) /\ kernel = ProcSwitch(k)
  BY CreatedTable DEF Init
<1>. HIDE DEF k
<1>2. {p \in Proc : \A i \in 1..Len(Pibs) : p # Pibs[i]} = {}
  BY PreemptAssumption, LenProperties DEF Contains
<1>3. /\ k \in KernelType /\ k.running = Main /\ Filed(k, {})
      /\ \A p \in Proc : k.state[p] = "new"
  BY <1>1, <1>2 DEF NewTable
<1>4. kernel = Dispatch(k) /\ QueueOf(k.state[NullProc]) = "ready" /\ NullProc \notin {}
  BY <1>1, <1>3, ProcAssumption DEF ProcSwitch, QueueOf
<1>5. /\ Settled(kernel, {}) /\ kernel.running \in Proc
      /\ \A x \in Proc : x # kernel.running => kernel.state[x] = k.state[x]
  BY <1>3, <1>4, DispatchOf
<1>6. {} \cup {kernel.running} = {kernel.running}
  OBVIOUS
<1>. QED BY <1>3, <1>5, <1>6 DEF Settled, p0

LEMMA InitIInv ==
  ASSUME Init
  PROVE  PreemptIInv
<1>1. /\ kernel \in KernelType /\ p0 \in Proc /\ Filed(kernel, {p0})
      /\ kernel.state[p0] = "ready"
      /\ \A p \in Proc : p # p0 => kernel.state[p] = "new"
  BY FirstDispatch
<1>2. /\ status = 0 /\ mask = Open /\ stack = [p \in Proc |-> <<>>]
      /\ available = BlockOrder /\ held = [p \in Proc |-> {}] /\ mail = {} /\ keys = Keys
  BY DEF Init
<1>3. /\ \A p \in Proc : stack[p] = <<>> /\ Depth(p) = 0
      /\ <<>> \in Seq(FrameType) /\ UserMode /\ NullProc \in Proc /\ Kcd \in Proc
  BY <1>1, <1>2, ProcAssumption, PreemptAssumption DEF Depth, UserMode
<1>4. PreemptTypeOK
  <2>1. \A p \in Proc : Frames(p) = {}
    <3>1. ToSet(<<>>) = {}
      BY DEF ToSet
    <3>. QED BY <1>3, <3>1 DEF Frames
  <2>2. available \in Seq(MemBlock) /\ Keys \in Nat
    BY <1>2, PreemptAssumption DEF MemBlock
  <2>. QED BY <1>1, <1>2, <2>1, <2>2 DEF PreemptTypeOK
<1>5. StackInv
  <2>1. Stacks
    BY <1>2, <1>3 DEF Stacks, GoodStack
  <2>2. Running /\ Left
    BY <1>1, <1>2, <1>3 DEF Running, Left
  <2>3. \A p \in Proc : \A i \in 1..Depth(p) : FALSE
    BY <1>3
  <2>. QED BY <1>1, <1>2, <1>3, <1>4, <2>1, <2>2, <2>3 DEF StackInv
<1>6. Loose = {p0}
  <2>1. ASSUME NEW p \in Proc
        PROVE  (\A kind \in Kind, l \in Level : ~InQueue(kernel, kind, l, p)) <=> p = p0
    <3>1. QueueOf(kernel.state[p]) \in Kind /\ kernel.priority[p] \in Level
      BY <1>1, QueueOfKind DEF KernelType
    <3>. QED BY <1>1, <3>1 DEF Filed
  <2>. QED BY <1>1, <2>1 DEF Loose
<1>7. Queues /\ Blocking /\ Decoder
  <2>1. Queues
    BY <1>1, <1>6 DEF Queues
  <2>2. Blocking
    BY <1>1, <1>3 DEF Blocking, Waits
  <2>3. \A p \in Proc : \A i \in 1..Depth(p) : FALSE
    BY <1>3
  <2>4. Decoder
    BY <1>3, <1>6, <2>3 DEF Decoder
  <2>. QED BY <2>1, <2>2, <2>4
<1>. QED BY <1>5, <1>7 DEF PreemptIInv, QueueInv

-----------------------------------------------------------------------------
(* The theorems. *)

\* Whatever interrupts come where, the handlers on every stack, the queues and
\* the process that is between them are as PreemptIInv says.
THEOREM PreemptInductiveInvariant == Spec => []PreemptIInv
<1>1. Init => PreemptIInv
  BY InitIInv
<1>2. PreemptIInv /\ [Next]_vars => PreemptIInv'
  BY StepKeepsIInv
<1>. QED BY <1>1, <1>2, PTL DEF Spec

\* The variables stay in their types; in particular atomic() writes no mask but
\* 0x2000 and 0x2700, and the processor is always some process's.
THEOREM PreemptTypeCorrect == Spec => []PreemptTypeOK
<1>1. PreemptIInv => PreemptTypeOK
  BY DEF PreemptIInv, StackInv
<1>. QED BY <1>1, PreemptInductiveInvariant, PTL

\* Interrupts are let through whenever the running process is in user mode.
THEOREM InterruptsComeBack == Spec => []UserModeOpen
<1>1. PreemptIInv => UserModeOpen
  BY DEF PreemptIInv, StackInv, Running, UserModeOpen
<1>. QED BY <1>1, PreemptInductiveInvariant, PTL

LEMMA FirstExcludes == PreemptIInv => FirstBracketExcludes
<1>1. SUFFICES ASSUME PreemptIInv, NEW p \in Proc, NEW f \in Frames(p),
                      f.first, f.at \in InBracket, f.call # "uart"
               PROVE  p = p0 /\ f = Top /\ mask = Closed
  BY DEF FirstBracketExcludes
<1>2. /\ Stacks /\ p0 \in Proc /\ GoodStack(p, stack[p]) /\ stack[p] \in Seq(FrameType)
      /\ Running
  BY <1>1, StackOf DEF PreemptIInv, StackInv, Stacks
<1>3. DOMAIN stack[p] = 1..Depth(p) /\ Depth(p) \in Nat
  BY <1>2, LenProperties DEF Depth
<1>4. PICK i \in 1..Depth(p) : f = stack[p][i]
  BY <1>1, <1>3 DEF Frames, ToSet
<1>5. GoodFrame(p, f, i < Depth(p)) /\ (Guarded(f, i < Depth(p)) => i = 1)
  BY <1>2, <1>4 DEF GoodStack, Depth
<1>6. f.at \in FirstPoint
  BY <1>1, <1>5 DEF GoodFrame
<1>7. Guarded(f, i < Depth(p)) /\ i = 1
  BY <1>1, <1>5, <1>6 DEF Guarded
<1>8. stack[p] # <<>> /\ Head(stack[p]) = f
  <2>1. stack[p] # <<>>
    BY <1>2, <1>3, <1>4, EmptySeq DEF Depth
  <2>2. Head(stack[p]) = stack[p][1]
    BY <1>2, <2>1, OffTop
  <2>. QED BY <1>4, <1>7, <2>1, <2>2
<1>9. p = p0
  BY <1>2, <1>7, <1>8 DEF Stacks
<1>10. f = Top /\ ~UserMode
  BY <1>8, <1>9 DEF Top, UserMode
<1>. QED BY <1>1, <1>2, <1>6, <1>9, <1>10 DEF Running

\* The processes that wait in block_process, or have not left it for good.
InBlocking ==
    \E f \in Frames(p0) : f.at \in {"queue", "queued", "retry", "return"}
                          /\ f.call \in {"request", "receive"}

LEMMA BlockedIsInBlocking ==
  ASSUME PreemptIInv, ~RunningIsReady, kernel.state[p0] # "ready"
  PROVE  InBlocking
<1>1. Blocking /\ p0 \in Proc /\ stack[p0] \in Seq(FrameType)
  BY StackOf DEF PreemptIInv, QueueInv, StackInv, Stacks
<1>2. /\ stack[p0] # <<>> /\ Bottom(p0).call \in {"request", "receive"}
      /\ Bottom(p0).at \in {"queue", "queued", "retry", "return"}
  BY <1>1 DEF Blocking, Waits
<1>3. Depth(p0) \in 1..Depth(p0) /\ DOMAIN stack[p0] = 1..Depth(p0)
  BY <1>1, <1>2, EmptySeq, LenProperties DEF Depth
<1>4. Bottom(p0) \in Frames(p0)
  BY <1>3 DEF Frames, ToSet, Bottom
<1>. QED BY <1>2, <1>4 DEF InBlocking

\* A step that files the processes without the running one, or as they were.
LEMMA NotReadiedBy ==
  ASSUME kernel \in KernelType, Queues, p0 \in Proc, ~RunningIsReady, p0' = p0,
         NEW out, Filed(kernel', out), kernel'.state[p0] = kernel.state[p0],
         p0 \in Loose => p0 \in out
  PROVE  ~RunningIsReady'
<1>1. SUFFICES ASSUME NEW l \in Level, InQueue(kernel', "ready", l, p0) PROVE FALSE
  BY DEF RunningIsReady
<1>2. "ready" \in Kind
  BY DEF Kind
<1>3. p0 \notin out /\ QueueOf(kernel'.state[p0]) = "ready"
  BY <1>1, <1>2 DEF Filed
<1>4. kernel.priority[p0] \in Level /\ p0 \notin Loose
  BY <1>3, KernelFields
<1>5. InQueue(kernel, "ready", kernel.priority[p0], p0)
  BY <1>2, <1>3, <1>4 DEF Queues, Filed
<1>. QED BY <1>4, <1>5 DEF RunningIsReady

LEMMA ReadiedStep ==
  ASSUME PreemptIInv, [Next]_vars, ~RunningIsReady, RunningIsReady'
  PROVE  InBlocking
<1>0. StackInv /\ QueueInv /\ Queues /\ kernel \in KernelType /\ p0 \in Proc /\ Kcd \in Proc
  BY StackOf, PreemptAssumption DEF PreemptIInv, QueueInv, Typed
<1>1. kernel' # kernel
  BY DEF RunningIsReady, p0
<1>2. BlockSetsState \/ BlockEnqueues \/ ReleaseReadies \/ SendRemoves \/ SendReadies \/ Switch
  BY <1>1 DEF Next, vars, CallYield, CallRequest, CallReceive, CallRelease, CallSend, Begin,
     Return, Block, BlockReleasesProcessor, UnblockStays, UnblockYields, Request,
     RequestTakes, RequestCloses, RequestRetries, RequestReturns, Release, ReleaseUnblocks,
     Send, SendUnblocks, SendFinds, Receive, SerialInterrupt, UartDrops, UartRequests,
     UartSends, UartReturns
<1>3. CASE BlockSetsState
  <2>1. kernel'.running = kernel.running /\ kernel'.queue = kernel.queue
    BY <1>0, <1>3 DEF BlockSetsState, KernelType
  <2>. QED BY <2>1 DEF RunningIsReady, p0, InQueue
<1>4. CASE BlockEnqueues
  <2>. DEFINE type == IF Top.call = "request" THEN "mem" ELSE "msg"
              lev == kernel.priority[p0]
              q == Append(kernel.queue[type][lev], p0)
  <2>1. type \in Kind /\ type # "ready" /\ "ready" \in Kind
    BY DEF Kind, BlockType
  <2>2. lev \in Level
    BY <1>0, KernelFields
  <2>3. kernel' = PutQueue(kernel, type, lev, q)
    BY <1>4 DEF BlockEnqueues, EnqueueProcess, PutQueue
  <2>. HIDE DEF type, lev
  <2>4. q \in Seq(Proc)
    BY <1>0, <2>1, <2>2, QueueIsSeq, AppendProperties
  <2>. HIDE DEF q
  <2>5. kernel'.running = kernel.running
        /\ \A l \in Level : kernel'.queue["ready"][l] = kernel.queue["ready"][l]
    BY <1>0, <2>1, <2>2, <2>3, <2>4, PutQueueProperties
  <2>. QED BY <2>5 DEF RunningIsReady, p0, InQueue
<1>5. CASE ReleaseReadies
  <2>. DEFINE p == FirstBlocked(kernel, "mem")
              out == Loose
              e == UnblockProcessByType(kernel, "mem", FALSE)
  <2>1. At({"release"}, "find") /\ kernel' = e
    BY <1>5 DEF ReleaseReadies
  <2>2. Top.call = "release" /\ GoodFrame(p0, Top, InnerTop)
    BY <1>0, <2>1, AtTop
  <2>3. kernel.state[p0] = "ready"
    <3>1. ~InnerTop
      BY <2>2 DEF GoodFrame
    <3>. QED BY <1>0, <2>1, <3>1, NotWaiting
  <2>4. ~IsEmpty(kernel, "mem") /\ Filed(kernel, out) /\ out \in SUBSET Proc
    BY <1>0, <1>1, <2>1 DEF UnblockProcessByType, Queues, Loose
  <2>5. p = FirstBlocked(kernel, "mem") /\ e = UnblockProcessByType(kernel, "mem", FALSE)
    OBVIOUS
  <2>6. out = Loose
    OBVIOUS
  <2>. HIDE DEF p, out, e
  <2>7. /\ p \in Proc \ out /\ kernel.state[p] = "blocked_mem"
        /\ Readied(kernel, p, out, e)
    BY <1>0, <2>4, <2>5, FirstBlockedReadied
  <2>8. Filed(kernel', out) /\ p0' = p0 /\ kernel'.state[p0] = kernel.state[p0]
    BY <1>0, <2>1, <2>3, <2>7, KernelFields DEF Readied, p0
  <2>. QED BY <1>0, <2>6, <2>8, NotReadiedBy
<1>6. CASE SendRemoves
  <2>. DEFINE out == Loose \cup {Kcd}
  <2>1. p0 # Kcd /\ Filed(kernel', out) /\ p0' = p0 /\ kernel'.state = kernel.state
    BY <1>0, <1>1, <1>6, RemoveEffect DEF p0
  <2>2. p0 \in Loose => p0 \in out
    OBVIOUS
  <2>. HIDE DEF out
  <2>. QED BY <1>0, <2>1, <2>2, NotReadiedBy
<1>7. CASE SendReadies
  <2>. DEFINE c == [kernel EXCEPT !.state[Kcd] = "ready"]
              e == EnqueueProcess(c, "ready", Kcd)
              out == Loose
              rest == Loose \ {Kcd}
  <2>1. At({"send"}, "ready") /\ kernel' = e
    BY <1>7 DEF SendReadies
  <2>2. /\ Decoder /\ Depth(p0) \in Nat \ {0} /\ Top = stack[p0][1]
        /\ Top.call = "send" /\ Top.at = "ready"
    BY <1>0, <2>1, AtQueues, AtTop, TopIsFirst
  <2>3. 1 \in 1..Depth(p0) /\ Readying(stack[p0][1]) /\ Moving(stack[p0][1])
    BY <2>2 DEF Readying, Moving
  <2>4. CASE p0 = Kcd
    <3>1. kernel.state[p0] # "ready"
      BY <2>2, <2>3, <2>4 DEF Decoder
    <3>. QED BY <3>1, BlockedIsInBlocking
  <2>5. CASE p0 # Kcd
    <3>1. Kcd \in out /\ Filed(kernel, out)
      BY <1>0, <2>2, <2>3, <2>5 DEF Decoder, Queues
    <3>2. e = EnqueueProcess([kernel EXCEPT !.state[Kcd] = "ready"], "ready", Kcd)
          /\ rest = out \ {Kcd} /\ (p0 \in Loose => p0 \in rest)
      BY <2>5
    <3>. HIDE DEF c, e, out, rest
    <3>3. Readied(kernel, Kcd, out \ {Kcd}, e)
      BY <1>0, <3>1, <3>2, ReadyFiles
    <3>4. Filed(kernel', rest) /\ p0' = p0 /\ kernel'.state[p0] = kernel.state[p0]
      BY <1>0, <2>1, <2>5, <3>2, <3>3, KernelFields DEF Readied, p0
    <3>. QED BY <1>0, <3>2, <3>4, NotReadiedBy
  <2>. QED BY <2>4, <2>5
<1>8. CASE Switch
  <2>1. Settled(kernel', Behind) /\ p0' \in Proc
    BY <1>0, <1>8, SwitchEffect
  <2>. DEFINE out == Behind \cup {p0'}
  <2>2. Filed(kernel', out) /\ p0' \in out /\ "ready" \in Kind
    BY <2>1 DEF Settled, p0, Kind
  <2>. HIDE DEF out
  <2>. QED BY <2>1, <2>2 DEF RunningIsReady, Filed
<1>. QED BY <1>2, <1>3, <1>4, <1>5, <1>6, <1>7, <1>8

\* A bracket that atomic_up opened at a count of 0 is never interrupted: as
\* long as it is open, its process runs it with interrupts closed.
THEOREM FirstBracketIsExclusive == Spec => []FirstBracketExcludes
<1>. QED BY FirstExcludes, PreemptInductiveInvariant, PTL

\* The running process is put into the ready queue, which corrupts the lists,
\* only by a sender that interrupts it in block_process: nowhere else.
THEOREM RunningReadiedOnlyInBlocking == Spec => ReadiedWhileBlockingOnly
<1>1. PreemptIInv /\ [Next]_vars =>
         [~RunningIsReady /\ RunningIsReady' =>
             \E f \in Frames(p0) : f.at \in {"queue", "queued", "retry", "return"}
                                   /\ f.call \in {"request", "receive"}]_vars
  BY ReadiedStep DEF InBlocking
<1>. QED BY <1>1, PreemptInductiveInvariant, PTL DEF Spec, ReadiedWhileBlockingOnly


-----------------------------------------------------------------------------
(* Who has a block.  It is in one place, or in none, if the places that      *)
(* Holders lists are told apart by the kind, the process and the position.   *)

FreeAt(b, i) == i \in DOMAIN available /\ available[i] = b
OnStack(b, p, i) == i \in DOMAIN stack[p] /\ Carries(stack[p][i], b)

NotFree(b) == \A i \in Nat : ~FreeAt(b, i)
NotHeld(b) == \A p \in Proc : b \notin held[p]
NotOnStack(b) == \A p \in Proc, i \in Nat : ~OnStack(b, p, i)

Once(b) ==
    /\ \A i, j \in Nat : FreeAt(b, i) /\ FreeAt(b, j) => i = j
    /\ \A p, q \in Proc : b \in held[p] /\ b \in held[q] => p = q
    /\ \A p, q \in Proc : \A i, j \in Nat :
          OnStack(b, p, i) /\ OnStack(b, q, j) => p = q /\ i = j
    /\ NotFree(b) \/ (NotHeld(b) /\ b \notin mail /\ NotOnStack(b))
    /\ NotHeld(b) \/ (b \notin mail /\ NotOnStack(b))
    /\ b \notin mail \/ NotOnStack(b)

Somewhere(b) == ~(NotFree(b) /\ NotHeld(b) /\ b \notin mail /\ NotOnStack(b))

\* The places are what Holders counts.
Located == available \in Seq(MemBlock) /\ stack \in [Proc -> Seq(FrameType)]

LEMMA ImageFinite ==
  ASSUME NEW S, IsFiniteSet(S), NEW f, NEW T, T = {f[x] : x \in S}
  PROVE  IsFiniteSet(T)
<1>. DEFINE g == [x \in S |-> f[x]]
<1>1. g \in [S -> T] /\ \A y \in T : \E x \in S : g[x] = y
  OBVIOUS
<1>. HIDE DEF g
<1>2. g \in Surjection(S, T)
  BY <1>1 DEF Surjection
<1>. QED BY <1>2, FS_Surjection

LEMMA HoldersAre ==
  ASSUME Located, NEW b, NEW h
  PROVE  h \in Holders(b) <=>
            \/ \E i \in Nat : FreeAt(b, i) /\ h = <<"free", i>>
            \/ \E p \in Proc : b \in held[p] /\ h = <<"held", p>>
            \/ b \in mail /\ h = <<"mail", b>>
            \/ \E p \in Proc : \E i \in Nat : OnStack(b, p, i) /\ h = <<"stack", p, i>>
<1>1. /\ DOMAIN available \subseteq Nat
      /\ \A p \in Proc : DOMAIN stack[p] \subseteq Nat
  BY DEF Located
<1>. DEFINE free == {<<"free", i>> : i \in {j \in DOMAIN available : available[j] = b}}
            hold == {<<"held", p>> : p \in {q \in Proc : b \in held[q]}}
            box == {<<"mail", c>> : c \in mail \cap {b}}
            on(p) == {<<"stack", p, i>> : i \in {j \in DOMAIN stack[p] : Carries(stack[p][j], b)}}
            all == UNION {on(p) : p \in Proc}
<1>2. Holders(b) = free \cup hold \cup box \cup all
  BY DEF Holders
<1>3. h \in free <=> \E i \in Nat : FreeAt(b, i) /\ h = <<"free", i>>
  BY <1>1 DEF FreeAt
<1>4. h \in hold <=> \E p \in Proc : b \in held[p] /\ h = <<"held", p>>
  OBVIOUS
<1>5. h \in box <=> b \in mail /\ h = <<"mail", b>>
  OBVIOUS
<1>6. h \in all <=> \E p \in Proc : \E i \in Nat : OnStack(b, p, i) /\ h = <<"stack", p, i>>
  <2>1. ASSUME NEW p \in Proc
        PROVE  h \in on(p) <=> \E i \in Nat : OnStack(b, p, i) /\ h = <<"stack", p, i>>
    BY <1>1 DEF OnStack
  <2>. HIDE DEF on
  <2>2. h \in all <=> \E p \in Proc : h \in on(p)
    OBVIOUS
  <2>. QED BY <2>1, <2>2
<1>. HIDE DEF free, hold, box, all
<1>. QED BY <1>2, <1>3, <1>4, <1>5, <1>6

\* There are no more places than processes, blocks and handlers.
LEMMA HoldersFinite ==
  ASSUME Located, NEW b
  PROVE  IsFiniteSet(Holders(b))
<1>1. IsFiniteSet(Proc)
  BY PreemptAssumption DEF IsFiniteSet, Contains
<1>. DEFINE free == {<<"free", i>> : i \in {j \in DOMAIN available : available[j] = b}}
            hold == {<<"held", p>> : p \in {q \in Proc : b \in held[q]}}
            box == {<<"mail", c>> : c \in mail \cap {b}}
            on(p) == {<<"stack", p, i>> : i \in {j \in DOMAIN stack[p] : Carries(stack[p][j], b)}}
            stacks == {on(p) : p \in Proc}
<1>2. Holders(b) = free \cup hold \cup box \cup UNION stacks
  BY DEF Holders
<1>3. IsFiniteSet(free)
  <2>. DEFINE S == {j \in DOMAIN available : available[j] = b}
              f == [i \in S |-> <<"free", i>>]
  <2>1. S \subseteq 1..Len(available) /\ Len(available) \in Nat
    BY LenProperties DEF Located
  <2>2. IsFiniteSet(S)
    BY <2>1, FS_Interval, FS_Subset
  <2>3. free = {f[x] : x \in S}
    OBVIOUS
  <2>. HIDE DEF f, S, free
  <2>. QED BY <2>2, <2>3, ImageFinite
<1>4. IsFiniteSet(hold)
  <2>. DEFINE S == {q \in Proc : b \in held[q]}
              f == [p \in S |-> <<"held", p>>]
  <2>1. IsFiniteSet(S)
    BY <1>1, FS_Subset
  <2>2. hold = {f[x] : x \in S}
    OBVIOUS
  <2>. HIDE DEF f, S, hold
  <2>. QED BY <2>1, <2>2, ImageFinite
<1>5. IsFiniteSet(box)
  <2>1. box \subseteq {<<"mail", b>>}
    OBVIOUS
  <2>. HIDE DEF box
  <2>. QED BY <2>1, FS_Singleton, FS_Subset
<1>6. \A p \in Proc : IsFiniteSet(on(p))
  <2>. SUFFICES ASSUME NEW p \in Proc PROVE IsFiniteSet(on(p))
    OBVIOUS
  <2>. DEFINE S == {j \in DOMAIN stack[p] : Carries(stack[p][j], b)}
              f == [i \in S |-> <<"stack", p, i>>]
              T == {<<"stack", p, i>> : i \in S}
  <2>1. S \subseteq 1..Len(stack[p]) /\ Len(stack[p]) \in Nat
    BY LenProperties DEF Located
  <2>2. IsFiniteSet(S)
    BY <2>1, FS_Interval, FS_Subset
  <2>3. T = {f[x] : x \in S}
    OBVIOUS
  <2>4. on(p) = T
    OBVIOUS
  <2>. HIDE DEF f, S, T, on
  <2>. QED BY <2>2, <2>3, <2>4, ImageFinite
<1>7. IsFiniteSet(UNION stacks)
  <2>. DEFINE f == [p \in Proc |-> on(p)]
  <2>. HIDE DEF on
  <2>1. stacks = {f[x] : x \in Proc}
    OBVIOUS
  <2>2. \A T \in stacks : IsFiniteSet(T)
    BY <1>6
  <2>. HIDE DEF f, stacks
  <2>3. IsFiniteSet(stacks)
    BY <1>1, <2>1, ImageFinite
  <2>. QED BY <2>2, <2>3, FS_UNION
<1>. DEFINE all == UNION stacks
<1>8. IsFiniteSet(all) /\ Holders(b) = free \cup hold \cup box \cup all
  BY <1>2, <1>7
<1>. HIDE DEF free, hold, box, all, stacks, on
<1>9. IsFiniteSet(free \cup hold)
  BY <1>3, <1>4, FS_Union
<1>10. IsFiniteSet(free \cup hold \cup box)
  BY <1>5, <1>9, FS_Union
<1>. QED BY <1>8, <1>10, FS_Union

LEMMA Places ==
  Located => \A b \in MemBlock : (Lost(b) <=> ~Somewhere(b)) /\ (Shared(b) <=> ~Once(b))
<1>. SUFFICES ASSUME Located, NEW b \in MemBlock
              PROVE  (Lost(b) <=> ~Somewhere(b)) /\ (Shared(b) <=> ~Once(b))
  OBVIOUS
<1>. DEFINE H == Holders(b)
<1>1. \A h : h \in H <=>
            \/ \E i \in Nat : FreeAt(b, i) /\ h = <<"free", i>>
            \/ \E p \in Proc : b \in held[p] /\ h = <<"held", p>>
            \/ b \in mail /\ h = <<"mail", b>>
            \/ \E p \in Proc : \E i \in Nat : OnStack(b, p, i) /\ h = <<"stack", p, i>>
  BY HoldersAre
<1>2. IsFiniteSet(H)
  BY HoldersFinite
<1>3. Lost(b) <=> H = {}
  BY DEF Lost
<1>4. Shared(b) <=> Cardinality(H) > 1
  BY DEF Shared
<1>. HIDE DEF H
<1>5. Lost(b) <=> ~Somewhere(b)
  BY <1>1, <1>3 DEF Somewhere, NotFree, NotHeld, NotOnStack
<1>6. Cardinality(H) \in Nat
  BY <1>2, FS_CardinalityType
<1>7. Cardinality(H) > 1 <=> \E x, y \in H : x # y
  <2>1. ASSUME NEW x \in H, NEW y \in H, x # y PROVE Cardinality(H) > 1
    <3>1. Cardinality(H) # 0
      BY <1>2, <2>1, FS_EmptySet
    <3>2. Cardinality(H) # 1
      <4>1. SUFFICES ASSUME Cardinality(H) = 1 PROVE FALSE
        OBVIOUS
      <4>2. PICK z : H = {z}
        BY <1>2, <4>1, FS_Singleton
      <4>. QED BY <2>1, <4>2
    <3>. QED BY <1>6, <3>1, <3>2
  <2>2. ASSUME \A x, y \in H : x = y PROVE ~(Cardinality(H) > 1)
    <3>1. CASE H = {}
      BY <3>1, FS_EmptySet
    <3>2. CASE H # {}
      <4>1. PICK z \in H : TRUE
        BY <3>2
      <4>2. H = {z}
        BY <2>2, <4>1
      <4>3. Cardinality(H) = 1
        BY <4>2, FS_Singleton
      <4>. QED BY <4>3
    <3>3. CASE Cardinality(H) = 0
      BY <3>3
    <3>. QED BY <3>1, <3>2, FS_EmptySet
  <2>. QED BY <2>1, <2>2
<1>8. Once(b) <=> \A x, y \in H : x = y
  <2>1. ASSUME Once(b), NEW x \in H, NEW y \in H PROVE x = y
    <3>1. /\ \/ \E i \in Nat : FreeAt(b, i) /\ x = <<"free", i>>
             \/ \E p \in Proc : b \in held[p] /\ x = <<"held", p>>
             \/ b \in mail /\ x = <<"mail", b>>
             \/ \E p \in Proc : \E i \in Nat : OnStack(b, p, i) /\ x = <<"stack", p, i>>
          /\ \/ \E i \in Nat : FreeAt(b, i) /\ y = <<"free", i>>
             \/ \E p \in Proc : b \in held[p] /\ y = <<"held", p>>
             \/ b \in mail /\ y = <<"mail", b>>
             \/ \E p \in Proc : \E i \in Nat : OnStack(b, p, i) /\ y = <<"stack", p, i>>
      BY <1>1
    <3>. QED BY <2>1, <3>1 DEF Once, NotFree, NotHeld, NotOnStack
  <2>2. ASSUME \A x, y \in H : x = y PROVE Once(b)
    <3>1. /\ \A i \in Nat : FreeAt(b, i) => <<"free", i>> \in H
          /\ \A p \in Proc : b \in held[p] => <<"held", p>> \in H
          /\ b \in mail => <<"mail", b>> \in H
          /\ \A p \in Proc : \A i \in Nat : OnStack(b, p, i) => <<"stack", p, i>> \in H
      BY <1>1
    <3>2. /\ \A i, j \in Nat : FreeAt(b, i) /\ FreeAt(b, j) => i = j
          /\ \A p, q \in Proc : b \in held[p] /\ b \in held[q] => p = q
      BY <2>2, <3>1
    <3>3. \A p, q \in Proc : \A i, j \in Nat :
             OnStack(b, p, i) /\ OnStack(b, q, j) => p = q /\ i = j
      <4>1. SUFFICES ASSUME NEW p \in Proc, NEW q \in Proc, NEW i \in Nat, NEW j \in Nat,
                            OnStack(b, p, i), OnStack(b, q, j)
                     PROVE  p = q /\ i = j
        OBVIOUS
      <4>. DEFINE x == <<"stack", p, i>>
                  y == <<"stack", q, j>>
      <4>2. x \in H /\ y \in H
        BY <3>1, <4>1
      <4>3. x[2] = p /\ x[3] = i /\ y[2] = q /\ y[3] = j
        OBVIOUS
      <4>. HIDE DEF x, y
      <4>. QED BY <2>2, <4>2, <4>3
    <3>4. ASSUME NEW i \in Nat, FreeAt(b, i)
          PROVE  NotHeld(b) /\ b \notin mail /\ NotOnStack(b)
      <4>. DEFINE x == <<"free", i>>
      <4>1. x \in H /\ x[1] = "free"
        BY <3>1, <3>4
      <4>. HIDE DEF x
      <4>2. \A y \in H : y[1] = "free"
        BY <2>2, <4>1
      <4>. QED BY <3>1, <4>2 DEF NotHeld, NotOnStack
    <3>5. ASSUME NEW p \in Proc, b \in held[p]
          PROVE  b \notin mail /\ NotOnStack(b)
      <4>. DEFINE x == <<"held", p>>
      <4>1. x \in H /\ x[1] = "held"
        BY <3>1, <3>5
      <4>. HIDE DEF x
      <4>2. \A y \in H : y[1] = "held"
        BY <2>2, <4>1
      <4>. QED BY <3>1, <4>2 DEF NotOnStack
    <3>6. ASSUME b \in mail PROVE NotOnStack(b)
      <4>. DEFINE x == <<"mail", b>>
      <4>1. x \in H /\ x[1] = "mail"
        BY <3>1, <3>6
      <4>. HIDE DEF x
      <4>2. \A y \in H : y[1] = "mail"
        BY <2>2, <4>1
      <4>. QED BY <3>1, <4>2 DEF NotOnStack
    <3>. QED BY <3>2, <3>3, <3>4, <3>5, <3>6 DEF Once, NotFree, NotHeld
  <2>. QED BY <2>1, <2>2
<1>. QED BY <1>4, <1>5, <1>7, <1>8


-----------------------------------------------------------------------------
(* What a step does to the blocks that handlers have in their hands. *)

\* A step puts block b in no second place, and does not lose it.
Moves(b) == (Once(b) => Once(b)') /\ (Somewhere(b) => Somewhere(b)')

BlocksStay == UNCHANGED <<available, held, mail>>

\* Position i of stack s has block b.
Carried(s, b, i) == i \in DOMAIN s /\ Carries(s[i], b)

LEMMA StackEffect ==
  ASSUME NEW q \in Proc, NEW s, s = stack[q], NEW t, StackBecomes(q, t), NEW b
  PROVE  /\ \A p \in Proc, i \in Nat : p # q => (OnStack(b, p, i)' <=> OnStack(b, p, i))
         /\ \A i \in Nat : /\ OnStack(b, q, i)' <=> Carried(t, b, i)
                           /\ OnStack(b, q, i) <=> Carried(s, b, i)
BY DEF StackBecomes, OnStack, Carried, Carries

\* Stack s of q has become t: what t has at j was at m[j].
LEMMA StackMoves ==
  ASSUME NEW b, BlocksStay, NEW q \in Proc, NEW s, s = stack[q], NEW t, StackBecomes(q, t),
         NEW m,
         \A j \in Nat : Carried(t, b, j) => m[j] \in Nat /\ Carried(s, b, m[j]),
         \A j, k \in Nat : Carried(t, b, j) /\ Carried(t, b, k) /\ m[j] = m[k] => j = k,
         \A i \in Nat : Carried(s, b, i) => \E j \in Nat : Carried(t, b, j)
  PROVE  Moves(b)
<1>0. /\ \A p \in Proc, i \in Nat : p # q => (OnStack(b, p, i)' <=> OnStack(b, p, i))
      /\ \A i \in Nat : /\ OnStack(b, q, i)' <=> Carried(t, b, i)
                        /\ OnStack(b, q, i) <=> Carried(s, b, i)
  BY StackEffect
<1>1. /\ \A i \in Nat : FreeAt(b, i)' <=> FreeAt(b, i)
      /\ held' = held /\ mail' = mail
  BY DEF BlocksStay, FreeAt
<1>2. /\ NotFree(b)' <=> NotFree(b)
      /\ NotHeld(b)' <=> NotHeld(b)
  BY <1>1 DEF NotFree, NotHeld
<1>3. NotOnStack(b)' <=> NotOnStack(b)
  <2>1. ASSUME NotOnStack(b), NEW p \in Proc, NEW i \in Nat, OnStack(b, p, i)' PROVE FALSE
    BY <1>0, <2>1 DEF NotOnStack
  <2>2. ASSUME NotOnStack(b)', NEW p \in Proc, NEW i \in Nat, OnStack(b, p, i) PROVE FALSE
    <3>0. \A x \in Proc, j \in Nat : ~OnStack(b, x, j)'
      BY <2>2 DEF NotOnStack
    <3>1. CASE p = q
      BY <1>0, <2>2, <3>0, <3>1
    <3>2. CASE p # q
      BY <1>0, <2>2, <3>0, <3>2
    <3>. QED BY <3>1, <3>2
  <2>. QED BY <2>1, <2>2 DEF NotOnStack
<1>4. ASSUME Once(b), NEW p \in Proc, NEW r \in Proc, NEW i \in Nat, NEW j \in Nat,
             OnStack(b, p, i)', OnStack(b, r, j)'
      PROVE  p = r /\ i = j
  <2>1. \A x, y \in Proc : \A k, l \in Nat :
           OnStack(b, x, k) /\ OnStack(b, y, l) => x = y /\ k = l
    BY <1>4 DEF Once
  <2>2. \E k \in Nat : OnStack(b, p, k) /\ (p # q => k = i) /\ (p = q => k = m[i] /\ Carried(t, b, i))
    BY <1>0, <1>4
  <2>3. \E l \in Nat : OnStack(b, r, l) /\ (r # q => l = j) /\ (r = q => l = m[j] /\ Carried(t, b, j))
    BY <1>0, <1>4
  <2>. QED BY <2>1, <2>2, <2>3
<1>5. Once(b) => Once(b)'
  <2>1. SUFFICES ASSUME Once(b) PROVE Once(b)'
    OBVIOUS
  <2>2. \A p, r \in Proc : \A i, j \in Nat :
           OnStack(b, p, i)' /\ OnStack(b, r, j)' => p = r /\ i = j
    BY <1>4, <2>1
  <2>. QED BY <1>1, <1>2, <1>3, <2>1, <2>2 DEF Once
<1>. QED BY <1>1, <1>2, <1>3, <1>5 DEF Moves, Somewhere

\* The handler on top goes on as g.
LEMMA CarriedNext ==
  ASSUME NEW s \in Seq(FrameType), s # <<>>, NEW g \in FrameType,
         NEW t, t = [s EXCEPT ![1] = g], NEW b
  PROVE  /\ Carried(t, b, 1) <=> Carries(g, b)
         /\ Carried(s, b, 1) <=> Carries(s[1], b)
         /\ \A i \in Nat : i # 1 => (Carried(t, b, i) <=> Carried(s, b, i))
<1>1. /\ t \in Seq(FrameType) /\ Len(t) = Len(s) /\ t[1] = g /\ 1 \in 1..Len(s)
      /\ \A i \in 1..Len(t) : i > 1 => t[i] = s[i]
  BY NextOnTop
<1>2. DOMAIN t = 1..Len(s) /\ DOMAIN s = 1..Len(s) /\ Len(s) \in Nat
  BY <1>1, LenProperties
<1>3. ASSUME NEW i \in Nat, i # 1 PROVE Carried(t, b, i) <=> Carried(s, b, i)
  <2>1. i \in 1..Len(s) => t[i] = s[i]
    BY <1>1, <1>2, <1>3
  <2>. QED BY <1>2, <2>1 DEF Carried
<1>. QED BY <1>1, <1>2, <1>3 DEF Carried

\* Handler f is put on top.
LEMMA CarriedPush ==
  ASSUME NEW s \in Seq(FrameType), NEW f \in FrameType, NEW t, t = <<f>> \o s, NEW b
  PROVE  /\ Carried(t, b, 1) <=> Carries(f, b)
         /\ \A i \in Nat : i # 0 => (Carried(t, b, i + 1) <=> Carried(s, b, i))
         /\ ~Carried(t, b, 0) /\ ~Carried(s, b, 0)
<1>1. /\ t \in Seq(FrameType) /\ Len(t) = Len(s) + 1 /\ t[1] = f
      /\ \A i \in 1..Len(t) : i > 1 => i - 1 \in 1..Len(s) /\ t[i] = s[i - 1]
  BY OnTop
<1>2. DOMAIN t = 1..(Len(s) + 1) /\ DOMAIN s = 1..Len(s) /\ Len(s) \in Nat
  BY <1>1, LenProperties
<1>3. Carried(t, b, 1) <=> Carries(f, b)
  BY <1>1, <1>2 DEF Carried
<1>4. ASSUME NEW i \in Nat, i # 0 PROVE Carried(t, b, i + 1) <=> Carried(s, b, i)
  <2>1. /\ (i + 1 \in 1..(Len(s) + 1)) <=> (i \in 1..Len(s))
        /\ i \in 1..Len(s) => t[i + 1] = s[i]
    BY <1>1, <1>2, <1>4
  <2>. QED BY <1>2, <2>1 DEF Carried
<1>. QED BY <1>2, <1>3, <1>4 DEF Carried

\* The handler on top, which is last, leaves.
LEMMA CarriedTail ==
  ASSUME NEW s \in Seq(FrameType), s # <<>>, NEW t, t = Tail(s), NEW b
  PROVE  /\ Carried(s, b, 1) <=> Carries(s[1], b)
         /\ \A i \in Nat : i # 0 => (Carried(t, b, i) <=> Carried(s, b, i + 1))
         /\ ~Carried(t, b, 0) /\ ~Carried(s, b, 0)
<1>1. /\ t \in Seq(FrameType) /\ Len(t) = Len(s) - 1 /\ Len(s) \in Nat \ {0}
      /\ \A i \in 1..Len(t) : i + 1 \in 1..Len(s) /\ t[i] = s[i + 1]
  BY OffTop
<1>2. DOMAIN t = 1..(Len(s) - 1) /\ DOMAIN s = 1..Len(s)
  BY <1>1, LenProperties
<1>3. ASSUME NEW i \in Nat, i # 0 PROVE Carried(t, b, i) <=> Carried(s, b, i + 1)
  <2>1. /\ (i \in 1..(Len(s) - 1)) <=> (i + 1 \in 1..Len(s))
        /\ i \in 1..(Len(s) - 1) => t[i] = s[i + 1]
    BY <1>1, <1>3
  <2>. QED BY <1>2, <2>1 DEF Carried
<1>. QED BY <1>1, <1>2, <1>3 DEF Carried

LEMMA SameMoves ==
  ASSUME NEW b, BlocksStay, NEW q \in Proc, NEW s, s = stack[q], NEW t, StackBecomes(q, t),
         \A i \in Nat : Carried(t, b, i) <=> Carried(s, b, i)
  PROVE  Moves(b)
<1>. DEFINE m == [j \in Nat |-> j]
<1>1. \A j \in Nat : m[j] = j
  OBVIOUS
<1>. HIDE DEF m
<1>2. \A j \in Nat : Carried(t, b, j) => m[j] \in Nat /\ Carried(s, b, m[j])
  BY <1>1
<1>3. \A j, k \in Nat : Carried(t, b, j) /\ Carried(t, b, k) /\ m[j] = m[k] => j = k
  BY <1>1
<1>4. \A i \in Nat : Carried(s, b, i) => \E j \in Nat : Carried(t, b, j)
  OBVIOUS
<1>. QED BY <1>2, <1>3, <1>4, StackMoves

LEMMA NextMoves ==
  ASSUME NEW b, BlocksStay, NEW q \in Proc, NEW s \in Seq(FrameType), s = stack[q], s # <<>>,
         NEW g \in FrameType, Carries(g, b) <=> Carries(s[1], b),
         NEW t, t = [s EXCEPT ![1] = g], StackBecomes(q, t)
  PROVE  Moves(b)
<1>1. \A i \in Nat : Carried(t, b, i) <=> Carried(s, b, i)
  <2>1. /\ Carried(t, b, 1) <=> Carries(g, b)
        /\ Carried(s, b, 1) <=> Carries(s[1], b)
        /\ \A i \in Nat : i # 1 => (Carried(t, b, i) <=> Carried(s, b, i))
    BY CarriedNext
  <2>. QED BY <2>1
<1>. QED BY <1>1, SameMoves

\* What the stack had has gone one place down.
LEMMA DownMoves ==
  ASSUME NEW b, BlocksStay, NEW q \in Proc, NEW s, s = stack[q], NEW t, StackBecomes(q, t),
         ~Carried(t, b, 1), ~Carried(t, b, 0), ~Carried(s, b, 0),
         \A i \in Nat : i # 0 => (Carried(t, b, i + 1) <=> Carried(s, b, i))
  PROVE  Moves(b)
<1>. DEFINE m == [j \in Nat |-> j - 1]
<1>1. \A j \in Nat : m[j] = j - 1
  OBVIOUS
<1>. HIDE DEF m
<1>2. ASSUME NEW j \in Nat, Carried(t, b, j)
      PROVE  m[j] \in Nat /\ Carried(s, b, m[j])
  <2>1. j - 1 \in Nat \ {0} /\ (j - 1) + 1 = j
    BY <1>2
  <2>. QED BY <1>1, <1>2, <2>1
<1>3. \A j, k \in Nat : Carried(t, b, j) /\ Carried(t, b, k) /\ m[j] = m[k] => j = k
  BY <1>1
<1>4. \A i \in Nat : Carried(s, b, i) => \E j \in Nat : Carried(t, b, j)
  <2>1. SUFFICES ASSUME NEW i \in Nat, Carried(s, b, i) PROVE \E j \in Nat : Carried(t, b, j)
    OBVIOUS
  <2>2. i # 0 /\ i + 1 \in Nat
    BY <2>1
  <2>. QED BY <2>1, <2>2
<1>5. \A j \in Nat : Carried(t, b, j) => m[j] \in Nat /\ Carried(s, b, m[j])
  BY <1>2
<1>. QED BY <1>3, <1>4, <1>5, StackMoves

LEMMA PushMoves ==
  ASSUME NEW b, BlocksStay, NEW q \in Proc, NEW s \in Seq(FrameType), s = stack[q],
         NEW f \in FrameType, ~Carries(f, b),
         NEW t, t = <<f>> \o s, StackBecomes(q, t)
  PROVE  Moves(b)
<1>1. /\ Carried(t, b, 1) <=> Carries(f, b)
      /\ \A i \in Nat : i # 0 => (Carried(t, b, i + 1) <=> Carried(s, b, i))
      /\ ~Carried(t, b, 0) /\ ~Carried(s, b, 0)
  BY CarriedPush
<1>2. \A i \in Nat : i # 0 => (Carried(t, b, i + 1) <=> Carried(s, b, i))
  BY <1>1
<1>3. ~Carried(t, b, 1) /\ ~Carried(t, b, 0) /\ ~Carried(s, b, 0)
  BY <1>1
<1>. QED BY <1>2, <1>3, DownMoves

\* A call: the block stays with the caller, or is handed to what it calls.
LEMMA OverMoves ==
  ASSUME NEW b, BlocksStay, NEW q \in Proc, NEW s, s = stack[q], NEW t, StackBecomes(q, t),
         ~(Carried(t, b, 1) /\ Carried(t, b, 2)),
         Carried(s, b, 1) <=> Carried(t, b, 1) \/ Carried(t, b, 2),
         ~Carried(t, b, 0), ~Carried(s, b, 0),
         \A i \in Nat : i # 0 /\ i # 1 => (Carried(t, b, i + 1) <=> Carried(s, b, i))
  PROVE  Moves(b)
<1>. DEFINE m == [j \in Nat |-> IF j = 1 THEN 1 ELSE j - 1]
<1>1. \A j \in Nat : m[j] = IF j = 1 THEN 1 ELSE j - 1
  OBVIOUS
<1>. HIDE DEF m
<1>2. \A j \in Nat : Carried(t, b, j) => m[j] \in Nat /\ Carried(s, b, m[j])
  <2>1. SUFFICES ASSUME NEW j \in Nat, Carried(t, b, j)
                 PROVE  m[j] \in Nat /\ Carried(s, b, m[j])
    OBVIOUS
  <2>2. CASE j = 1
    BY <1>1, <2>1, <2>2
  <2>3. CASE j = 2
    BY <1>1, <2>1, <2>3
  <2>4. CASE j # 1 /\ j # 2
    <3>1. /\ j - 1 \in Nat /\ j - 1 # 0 /\ j - 1 # 1 /\ (j - 1) + 1 = j
          /\ m[j] = j - 1
      BY <1>1, <2>1, <2>4
    <3>. QED BY <2>1, <3>1
  <2>. QED BY <2>2, <2>3, <2>4
<1>3. \A j, k \in Nat : Carried(t, b, j) /\ Carried(t, b, k) /\ m[j] = m[k] => j = k
  <2>1. SUFFICES ASSUME NEW j \in Nat, NEW k \in Nat, Carried(t, b, j), Carried(t, b, k),
                        m[j] = m[k]
                 PROVE  j = k
    OBVIOUS
  <2>2. j # 0 /\ k # 0 /\ ~(j = 1 /\ k = 2) /\ ~(j = 2 /\ k = 1)
    BY <2>1
  <2>. QED BY <1>1, <2>1, <2>2
<1>4. \A i \in Nat : Carried(s, b, i) => \E j \in Nat : Carried(t, b, j)
  <2>1. SUFFICES ASSUME NEW i \in Nat, Carried(s, b, i) PROVE \E j \in Nat : Carried(t, b, j)
    OBVIOUS
  <2>2. i + 1 \in Nat /\ 1 \in Nat /\ 2 \in Nat /\ i # 0
    BY <2>1
  <2>. QED BY <2>1, <2>2
<1>. QED BY <1>2, <1>3, <1>4, StackMoves

LEMMA CallMoves ==
  ASSUME NEW b, BlocksStay, NEW q \in Proc, NEW s \in Seq(FrameType), s = stack[q], s # <<>>,
         NEW f \in FrameType, NEW g \in FrameType,
         Carries(f, b) => ~Carries(g, b),
         Carries(s[1], b) <=> Carries(f, b) \/ Carries(g, b),
         NEW u, u = [s EXCEPT ![1] = g], NEW t, t = <<f>> \o u, StackBecomes(q, t)
  PROVE  Moves(b)
<1>1. /\ Carried(u, b, 1) <=> Carries(g, b)
      /\ Carried(s, b, 1) <=> Carries(s[1], b)
      /\ \A i \in Nat : i # 1 => (Carried(u, b, i) <=> Carried(s, b, i))
  BY CarriedNext
<1>2. /\ Carried(t, b, 1) <=> Carries(f, b)
      /\ \A i \in Nat : i # 0 => (Carried(t, b, i + 1) <=> Carried(u, b, i))
      /\ ~Carried(t, b, 0) /\ ~Carried(u, b, 0)
  <2>1. u \in Seq(FrameType)
    BY NextOnTop
  <2>. QED BY <2>1, CarriedPush
<1>3. 0 \in Nat /\ 1 \in Nat /\ 1 + 1 = 2 /\ 0 # 1
  OBVIOUS
<1>4. Carried(t, b, 2) <=> Carries(g, b)
  BY <1>1, <1>2, <1>3
<1>5. /\ ~(Carried(t, b, 1) /\ Carried(t, b, 2))
      /\ Carried(s, b, 1) <=> Carried(t, b, 1) \/ Carried(t, b, 2)
  BY <1>1, <1>2, <1>4
<1>6. ~Carried(t, b, 0) /\ ~Carried(s, b, 0)
  BY <1>1, <1>2, <1>3
<1>7. \A i \in Nat : i # 0 /\ i # 1 => (Carried(t, b, i + 1) <=> Carried(s, b, i))
  BY <1>1, <1>2
<1>. QED BY <1>5, <1>6, <1>7, OverMoves

LEMMA TailMoves ==
  ASSUME NEW b, BlocksStay, NEW q \in Proc, NEW s \in Seq(FrameType), s = stack[q], s # <<>>,
         ~Carries(s[1], b), NEW t, t = Tail(s), StackBecomes(q, t)
  PROVE  Moves(b)
<1>1. /\ Carried(s, b, 1) <=> Carries(s[1], b)
      /\ \A i \in Nat : i # 0 => (Carried(t, b, i) <=> Carried(s, b, i + 1))
      /\ ~Carried(t, b, 0) /\ ~Carried(s, b, 0)
  BY CarriedTail
<1>. DEFINE m == [j \in Nat |-> j + 1]
<1>2. \A j \in Nat : m[j] = j + 1 /\ m[j] \in Nat
  OBVIOUS
<1>3. \A j \in Nat : Carried(t, b, j) => m[j] \in Nat /\ Carried(s, b, m[j])
  BY <1>1, <1>2
<1>4. \A j, k \in Nat : Carried(t, b, j) /\ Carried(t, b, k) /\ m[j] = m[k] => j = k
  BY <1>2
<1>5. ASSUME NEW i \in Nat, Carried(s, b, i) PROVE \E j \in Nat : Carried(t, b, j)
  <2>1. i \in Nat \ {0, 1}
    BY <1>1, <1>5
  <2>2. i - 1 \in Nat \ {0} /\ (i - 1) + 1 = i
    BY <2>1
  <2>. QED BY <1>1, <1>5, <2>2
<1>. HIDE DEF m
<1>. QED BY <1>3, <1>4, <1>5, StackMoves

\* The handler on top leaves, and the one below it, which becomes g, has what
\* it had.
LEMMA BackMoves ==
  ASSUME NEW b, BlocksStay, NEW q \in Proc, NEW s, s = stack[q], NEW t, StackBecomes(q, t),
         Carried(t, b, 1) <=> Carried(s, b, 1), ~Carried(s, b, 2),
         ~Carried(t, b, 0), ~Carried(s, b, 0),
         \A i \in Nat : i # 0 /\ i # 1 => (Carried(t, b, i) <=> Carried(s, b, i + 1))
  PROVE  Moves(b)
<1>. DEFINE m == [j \in Nat |-> IF j = 1 THEN 1 ELSE j + 1]
<1>1. \A j \in Nat : m[j] = (IF j = 1 THEN 1 ELSE j + 1) /\ m[j] \in Nat
  OBVIOUS
<1>. HIDE DEF m
<1>2. \A j \in Nat : Carried(t, b, j) => m[j] \in Nat /\ Carried(s, b, m[j])
  BY <1>1
<1>3. \A j, k \in Nat : Carried(t, b, j) /\ Carried(t, b, k) /\ m[j] = m[k] => j = k
  <2>1. SUFFICES ASSUME NEW j \in Nat, NEW k \in Nat, Carried(t, b, j), Carried(t, b, k),
                        m[j] = m[k]
                 PROVE  j = k
    OBVIOUS
  <2>2. j # 0 /\ k # 0
    BY <2>1
  <2>. QED BY <1>1, <2>1, <2>2
<1>4. \A i \in Nat : Carried(s, b, i) => \E j \in Nat : Carried(t, b, j)
  <2>1. SUFFICES ASSUME NEW i \in Nat, Carried(s, b, i) PROVE \E j \in Nat : Carried(t, b, j)
    OBVIOUS
  <2>2. i # 0 /\ i # 2 /\ 1 \in Nat
    BY <2>1
  <2>3. CASE i = 1
    BY <2>1, <2>2, <2>3
  <2>4. CASE i # 1
    <3>1. i - 1 \in Nat /\ i - 1 # 0 /\ i - 1 # 1 /\ (i - 1) + 1 = i
      BY <2>2, <2>4
    <3>. QED BY <2>1, <3>1
  <2>. QED BY <2>3, <2>4
<1>. QED BY <1>2, <1>3, <1>4, StackMoves

LEMMA HandMoves ==
  ASSUME NEW b, BlocksStay, NEW q \in Proc, NEW s \in Seq(FrameType), s = stack[q], s # <<>>,
         NEW t, t = Tail(s), t # <<>>, ~Carries(t[1], b),
         NEW g \in FrameType, Carries(g, b) <=> Carries(s[1], b),
         NEW u, u = [t EXCEPT ![1] = g], StackBecomes(q, u)
  PROVE  Moves(b)
<1>1. /\ Carried(s, b, 1) <=> Carries(s[1], b)
      /\ \A i \in Nat : i # 0 => (Carried(t, b, i) <=> Carried(s, b, i + 1))
      /\ ~Carried(t, b, 0) /\ ~Carried(s, b, 0)
  BY CarriedTail
<1>2. /\ Carried(u, b, 1) <=> Carries(g, b)
      /\ Carried(t, b, 1) <=> Carries(t[1], b)
      /\ \A i \in Nat : i # 1 => (Carried(u, b, i) <=> Carried(t, b, i))
  <2>1. t \in Seq(FrameType) /\ t # <<>> /\ g \in FrameType /\ u = [t EXCEPT ![1] = g]
    BY OffTop
  <2>. QED BY <2>1, CarriedNext
<1>3. 0 \in Nat /\ 1 \in Nat /\ 1 + 1 = 2 /\ 0 # 1
  OBVIOUS
<1>4. ~Carried(s, b, 2)
  BY <1>1, <1>2, <1>3
<1>5. Carried(u, b, 1) <=> Carried(s, b, 1)
  BY <1>1, <1>2
<1>6. ~Carried(u, b, 0) /\ ~Carried(s, b, 0)
  BY <1>1, <1>2, <1>3
<1>7. \A i \in Nat : i # 0 /\ i # 1 => (Carried(u, b, i) <=> Carried(s, b, i + 1))
  BY <1>1, <1>2
<1>. QED BY <1>4, <1>5, <1>6, <1>7, BackMoves

\* The points at which a handler has its block in its hands.
CarriesAt(call, point) ==
    \/ call = "request" /\ point \in {"taken", "return"}
    \/ call \in {"release", "send"} /\ point \in {"up", "body"}
    \/ call = "uart" /\ point = "deliver"

LEMMA CarriesIs ==
  ASSUME NEW f, NEW b
  PROVE  Carries(f, b) <=> f.block = b /\ CarriesAt(f.call, f.at)
BY DEF Carries, CarriesAt

LEMMA GoesOnMoves ==
  ASSUME StackInv, NEW calls, NEW point, At(calls, point), BlocksStay,
         NEW next \in InBracket \cup Outside, GoTo(next) \/ Trap1(next) \/ AtomicUp(next),
         CarriesAt(Top.call, point) <=> CarriesAt(Top.call, next), NEW b
  PROVE  Moves(b)
<1>1. ~UserMode /\ Stacks /\ p0 \in Proc /\ Top.at = point
  BY AtTop
<1>2. ASSUME NEW g \in FrameType, g.call = Top.call, g.at = next, g.block = Top.block,
             StackBecomes(p0, [stack[p0] EXCEPT ![1] = g])
      PROVE  Moves(b)
  <2>. DEFINE s == stack[p0]
              t == [s EXCEPT ![1] = g]
  <2>1. s \in Seq(FrameType) /\ s # <<>> /\ Top = s[1]
    BY <1>1, TopIsFirst
  <2>2. Carries(g, b) <=> Carries(s[1], b)
    BY <1>1, <1>2, <2>1, CarriesIs
  <2>3. s = stack[p0] /\ t = [s EXCEPT ![1] = g] /\ StackBecomes(p0, t)
    BY <1>2
  <2>. HIDE DEF s, t
  <2>. QED BY <1>1, <1>2, <2>1, <2>2, <2>3, NextMoves
<1>3. CASE GoTo(next)
  <2>. DEFINE g == [Top EXCEPT !.at = next]
  <2>1. StackBecomes(p0, [stack[p0] EXCEPT ![1] = g]) /\ Goes(Top, g, next, Top.first, Top.block)
    BY <1>1, <1>3, GoesTo
  <2>. HIDE DEF g
  <2>. QED BY <1>2, <2>1 DEF Goes
<1>4. ASSUME NEW x \in BOOLEAN, stack' = [stack EXCEPT ![p0][1].at = next, ![p0][1].first = x]
      PROVE  Moves(b)
  <2>. DEFINE g == [Top EXCEPT !.at = next, !.first = x]
  <2>1. StackBecomes(p0, [stack[p0] EXCEPT ![1] = g]) /\ Goes(Top, g, next, x, Top.block)
    BY <1>1, <1>4, GoesWithFirst
  <2>. HIDE DEF g
  <2>. QED BY <1>2, <2>1 DEF Goes
<1>5. CASE Trap1(next)
  BY <1>4, <1>5 DEF Trap1
<1>6. CASE AtomicUp(next)
  <2>1. (status = 0) \in BOOLEAN
    OBVIOUS
  <2>2. stack' = [stack EXCEPT ![p0][1].at = next, ![p0][1].first = (status = 0)]
    BY <1>6 DEF AtomicUp
  <2>. QED BY <1>4, <2>1, <2>2
<1>. QED BY <1>3, <1>5, <1>6

LEMMA WithinMoves ==
  ASSUME StackInv, NEW b,
         \/ Begin \/ Block \/ BlockSetsState \/ BlockEnqueues \/ UnblockStays
         \/ RequestCloses \/ RequestRetries \/ ReleaseUnblocks \/ ReleaseReadies
         \/ SendUnblocks \/ SendFinds \/ SendRemoves \/ SendReadies
         \/ UartDrops \/ UartReturns
  PROVE  Moves(b)
<1>. DEFINE idle == (InBracket \cup Outside) \ {"taken", "return", "up", "body", "deliver"}
<1>1. ASSUME NEW calls, NEW point \in idle, At(calls, point), BlocksStay,
             NEW next \in idle, GoTo(next) \/ Trap1(next)
      PROVE  Moves(b)
  <2>1. CarriesAt(Top.call, point) <=> CarriesAt(Top.call, next)
    BY DEF CarriesAt
  <2>. QED BY <1>1, <2>1, GoesOnMoves
<1>2. {"block", "state", "queue", "queued", "unblock", "find", "remove", "ready", "stay",
       "yield", "finish"} \subseteq idle
  BY DEF InBracket, Outside
<1>3. CASE Begin
  <2>1. At(HandlerCall, "up") /\ AtomicUp("body") /\ BlocksStay
    BY <1>3 DEF Begin, BlocksStay, data
  <2>2. "body" \in InBracket \cup Outside /\ (CarriesAt(Top.call, "up") <=> CarriesAt(Top.call, "body"))
    BY DEF InBracket, CarriesAt
  <2>. QED BY <2>1, <2>2, GoesOnMoves
<1>4. CASE Block
  BY <1>1, <1>2, <1>4 DEF Block, BlocksStay, data
<1>5. CASE BlockSetsState
  BY <1>1, <1>2, <1>5 DEF BlockSetsState, BlocksStay, data
<1>6. CASE BlockEnqueues
  BY <1>1, <1>2, <1>6 DEF BlockEnqueues, BlocksStay, data
<1>7. CASE UnblockStays
  <2>1. At(HandlerCall, "stay") /\ GoTo("return") /\ BlocksStay
    BY <1>7 DEF UnblockStays, BlocksStay, data
  <2>2. Top.call # "request"
    BY <2>1, AtTop DEF GoodFrame, PointsOf
  <2>3. "return" \in InBracket \cup Outside /\ (CarriesAt(Top.call, "stay") <=> CarriesAt(Top.call, "return"))
    BY <2>2 DEF Outside, CarriesAt
  <2>. QED BY <2>1, <2>3, GoesOnMoves
<1>8. CASE RequestCloses
  <2>1. At({"request"}, "taken") /\ GoTo("return") /\ BlocksStay
    BY <1>8 DEF RequestCloses, BlocksStay, data
  <2>2. Top.call = "request"
    BY <2>1, AtTop
  <2>3. "return" \in InBracket \cup Outside /\ (CarriesAt(Top.call, "taken") <=> CarriesAt(Top.call, "return"))
    BY <2>2 DEF Outside, CarriesAt
  <2>. QED BY <2>1, <2>3, GoesOnMoves
<1>9. CASE RequestRetries
  <2>1. At({"request"}, "retry") /\ Trap1("body") /\ BlocksStay
    BY <1>9 DEF RequestRetries, BlocksStay, data
  <2>2. Top.call = "request"
    BY <2>1, AtTop
  <2>3. "body" \in InBracket \cup Outside /\ (CarriesAt(Top.call, "retry") <=> CarriesAt(Top.call, "body"))
    BY <2>2 DEF InBracket, CarriesAt
  <2>. QED BY <2>1, <2>3, GoesOnMoves
<1>10. CASE ReleaseUnblocks
  BY <1>1, <1>2, <1>10 DEF ReleaseUnblocks, BlocksStay, data
<1>11. CASE ReleaseReadies
  <2>1. At({"release"}, "find") /\ BlocksStay /\ \E x \in {"stay", "yield"} : GoTo(x)
    BY <1>11 DEF ReleaseReadies, BlocksStay, data, Outranked
  <2>. QED BY <1>1, <1>2, <2>1
<1>12. CASE SendUnblocks
  BY <1>1, <1>2, <1>12 DEF SendUnblocks, BlocksStay, data
<1>13. CASE SendFinds
  <2>1. At({"send"}, "find") /\ BlocksStay /\ \E x \in {"stay", "remove"} : GoTo(x)
    BY <1>13 DEF SendFinds, BlocksStay, data
  <2>. QED BY <1>1, <1>2, <2>1
<1>14. CASE SendRemoves
  BY <1>1, <1>2, <1>14 DEF SendRemoves, BlocksStay, data
<1>15. CASE SendReadies
  <2>1. At({"send"}, "ready") /\ BlocksStay /\ \E x \in {"stay", "yield"} : GoTo(x)
    BY <1>15 DEF SendReadies, BlocksStay, data, Outranked
  <2>. QED BY <1>1, <1>2, <2>1
<1>16. CASE UartDrops
  <2>1. At({"uart"}, "body") /\ GoTo("return") /\ BlocksStay
    BY <1>16 DEF UartDrops, BlocksStay, data
  <2>2. Top.call = "uart"
    BY <2>1, AtTop
  <2>3. "return" \in InBracket \cup Outside /\ (CarriesAt(Top.call, "body") <=> CarriesAt(Top.call, "return"))
    BY <2>2 DEF Outside, CarriesAt
  <2>. QED BY <2>1, <2>3, GoesOnMoves
<1>17. CASE UartReturns
  <2>1. At({"uart"}, "finish") /\ GoTo("return") /\ BlocksStay
    BY <1>17 DEF UartReturns, BlocksStay, data
  <2>2. Top.call = "uart"
    BY <2>1, AtTop
  <2>3. "return" \in InBracket \cup Outside /\ (CarriesAt(Top.call, "finish") <=> CarriesAt(Top.call, "return"))
    BY <2>2 DEF Outside, CarriesAt
  <2>. QED BY <2>1, <2>3, GoesOnMoves
<1>. QED BY <1>3, <1>4, <1>5, <1>6, <1>7, <1>8, <1>9, <1>10, <1>11, <1>12, <1>13, <1>14,
            <1>15, <1>16, <1>17

LEMMA RequestMoves ==
  ASSUME StackInv, Request, NEW b
  PROVE  Moves(b)
<1>1. At({"request"}, "body") /\ BlocksStay
  BY DEF Request, BlocksStay, data
<1>2. /\ Top.call = "request" /\ Top.at = "body" /\ Typed /\ ~UserMode /\ Stacks /\ p0 \in Proc
  BY <1>1, AtTop
<1>3. CASE available = <<>>
  <2>1. GoTo("block") /\ "block" \in InBracket \cup Outside
    BY <1>3 DEF Request, Outside
  <2>2. CarriesAt(Top.call, "body") <=> CarriesAt(Top.call, "block")
    BY <1>2 DEF CarriesAt
  <2>. QED BY <1>1, <2>1, <2>2, GoesOnMoves
<1>4. CASE available # <<>>
  <2>. DEFINE c == Head(available)
              g == [Top EXCEPT !.at = "take", !.block = c]
              s == stack[p0]
              t == [s EXCEPT ![1] = g]
  <2>1. c \in MemBlock
    BY <1>2, <1>4, HeadTailProperties DEF Typed
  <2>2. /\ stack' = [stack EXCEPT ![p0][1].at = "take", ![p0][1].block = c]
        /\ "take" \in InBracket \cup Outside
    BY <1>4 DEF Request, InBracket
  <2>. HIDE DEF c
  <2>3. StackBecomes(p0, t) /\ Goes(Top, g, "take", Top.first, c)
    BY <1>2, <2>1, <2>2, GoesWithBlock
  <2>. HIDE DEF g
  <2>4. s \in Seq(FrameType) /\ s # <<>> /\ Top = s[1]
    BY <1>2, TopIsFirst
  <2>5. g \in FrameType /\ g.call = "request" /\ g.at = "take"
    BY <1>2, <2>3 DEF Goes
  <2>6. Carries(g, b) <=> Carries(s[1], b)
    BY <1>2, <2>4, <2>5 DEF Carries
  <2>7. s = stack[p0] /\ t = [s EXCEPT ![1] = g] /\ StackBecomes(p0, t)
    BY <2>3
  <2>. HIDE DEF s, t
  <2>. QED BY <1>1, <1>2, <2>4, <2>5, <2>6, <2>7, NextMoves
<1>. QED BY <1>3, <1>4

\* A handler that begins, in user mode or on top of another.
LEMMA BeginsMoves ==
  ASSUME StackInv, BlocksStay, NEW b, NEW call \in HandlerCall, NEW point \in {"up", "switch"},
         ~CarriesAt(call, point), Push(Frame(call, point, NoBlock))
  PROVE  Moves(b)
<1>. DEFINE f == Frame(call, point, NoBlock)
            s == stack[p0]
            t == <<f>> \o s
<1>1. s \in Seq(FrameType) /\ p0 \in Proc /\ stack \in [Proc -> Seq(FrameType)] /\ mask \in {Open, SerialLevel, Closed}
  BY StackOf DEF GoodStack, Typed
<1>2. f \in FrameType /\ f.call = call /\ f.at = point
  BY <1>1 DEF Frame, FrameType, Outside
<1>3. stack' = [stack EXCEPT ![p0] = t]
  BY DEF Push
<1>4. ~Carries(f, b)
  BY <1>2, CarriesIs
<1>5. s = stack[p0] /\ t = <<f>> \o s
  OBVIOUS
<1>. HIDE DEF f, s, t
<1>6. t \in Seq(FrameType)
  BY <1>1, <1>2, <1>5, OnTop
<1>7. StackBecomes(p0, t)
  BY <1>1, <1>3, <1>6 DEF StackBecomes
<1>. QED BY <1>1, <1>2, <1>4, <1>5, <1>7, PushMoves

LEMMA CallsMove ==
  ASSUME StackInv, NEW b, CallYield \/ CallRequest \/ CallReceive \/ SerialInterrupt
  PROVE  Moves(b)
<1>1. BlocksStay
  BY DEF CallYield, CallRequest, CallReceive, SerialInterrupt, BlocksStay, data
<1>2. /\ ~CarriesAt("switch", "switch") /\ ~CarriesAt("request", "up")
      /\ ~CarriesAt("receive", "up") /\ ~CarriesAt("uart", "up")
      /\ {"switch", "request", "receive", "uart"} \subseteq HandlerCall
  BY DEF CarriesAt, HandlerCall
<1>. QED BY <1>1, <1>2, BeginsMoves DEF CallYield, CallRequest, CallReceive, SerialInterrupt

\* The handler on top calls another one.
LEMMA HandlersCall ==
  ASSUME StackInv, BlocksStay, NEW b, NEW calls, NEW from, At(calls, from),
         NEW call \in HandlerCall, NEW point \in {"up", "switch"}, NEW c \in MemBlock \cup {NoBlock},
         NEW next \in InBracket \cup Outside,
         CallFrom(next, Frame(call, point, c)),
         LET gives == c = b /\ CarriesAt(call, point)
             keeps == Top.block = b /\ CarriesAt(Top.call, next)
         IN  /\ gives => ~keeps
             /\ Top.block = b /\ CarriesAt(Top.call, from) <=> gives \/ keeps
  PROVE  Moves(b)
<1>. DEFINE f == Frame(call, point, c)
            s == stack[p0]
            g == [Top EXCEPT !.at = next]
            u == [s EXCEPT ![1] = g]
            t == <<f>> \o u
<1>1. /\ s \in Seq(FrameType) /\ s # <<>> /\ p0 \in Proc /\ stack \in [Proc -> Seq(FrameType)]
      /\ mask \in {Open, SerialLevel, Closed} /\ Top = s[1] /\ Top \in FrameType /\ Top.at = from
  BY AtTop DEF GoodStack, Typed, Stacks
<1>2. f \in FrameType /\ f.call = call /\ f.at = point /\ f.block = c
  BY <1>1 DEF Frame, FrameType, Outside
<1>3. g \in FrameType /\ g.call = Top.call /\ g.at = next /\ g.block = Top.block
  BY <1>1 DEF FrameType
<1>4. stack' = [stack EXCEPT ![p0] = t]
  BY <1>1 DEF CallFrom
<1>5. /\ Carries(f, b) => ~Carries(g, b)
      /\ Carries(s[1], b) <=> Carries(f, b) \/ Carries(g, b)
  BY <1>1, <1>2, <1>3, CarriesIs
<1>6. s = stack[p0] /\ t = <<f>> \o u /\ u = [s EXCEPT ![1] = g]
  OBVIOUS
<1>. HIDE DEF f, s, g, u, t
<1>7. u \in Seq(FrameType)
  BY <1>1, <1>3, <1>6, NextOnTop
<1>8. t \in Seq(FrameType)
  BY <1>2, <1>6, <1>7, OnTop
<1>9. StackBecomes(p0, t)
  BY <1>1, <1>4, <1>8 DEF StackBecomes
<1>. QED BY <1>1, <1>2, <1>3, <1>5, <1>6, <1>9, CallMoves

LEMMA InnerCallsMove ==
  ASSUME StackInv, NEW b \in MemBlock,
         UnblockYields \/ BlockReleasesProcessor \/ UartRequests \/ UartSends
  PROVE  Moves(b)
<1>0. /\ b # NoBlock
      /\ {"switch", "request", "send"} \subseteq HandlerCall
      /\ {"return", "retry", "deliver", "finish"} \subseteq InBracket \cup Outside
  BY PreemptAssumption DEF HandlerCall, InBracket, Outside, MemBlock, Contains, ToSet
<1>1. CASE UnblockYields
  <2>1. At(HandlerCall, "yield") /\ CallFrom("return", Frame("switch", "switch", NoBlock)) /\ BlocksStay
    BY <1>1 DEF UnblockYields, BlocksStay, data
  <2>2. Top.call # "request"
    BY <2>1, AtTop DEF GoodFrame, PointsOf
  <2>3. ~CarriesAt(Top.call, "yield") /\ ~CarriesAt(Top.call, "return") /\ ~CarriesAt("switch", "switch")
    BY <2>2 DEF CarriesAt
  <2>. QED BY <1>0, <2>1, <2>3, HandlersCall
<1>2. CASE BlockReleasesProcessor
  <2>. DEFINE next == IF Top.call = "request" THEN "retry" ELSE "return"
  <2>1. At(HandlerCall, "queued") /\ CallFrom(next, Frame("switch", "switch", NoBlock)) /\ BlocksStay
    BY <1>2 DEF BlockReleasesProcessor, BlocksStay, data
  <2>2. next \in InBracket \cup Outside
    BY <1>0
  <2>3. ~CarriesAt(Top.call, "queued") /\ ~CarriesAt(Top.call, next) /\ ~CarriesAt("switch", "switch")
    BY DEF CarriesAt
  <2>. HIDE DEF next
  <2>. QED BY <1>0, <2>1, <2>2, <2>3, HandlersCall
<1>3. CASE UartRequests
  <2>1. At({"uart"}, "body") /\ CallFrom("deliver", Frame("request", "up", NoBlock)) /\ BlocksStay
    BY <1>3 DEF UartRequests, BlocksStay, data
  <2>2. Top.call = "uart" /\ Top.block # b
    BY <1>0, <2>1, AtTop DEF GoodFrame
  <2>3. ~CarriesAt("request", "up")
    BY DEF CarriesAt
  <2>. QED BY <1>0, <2>1, <2>2, <2>3, HandlersCall
<1>4. CASE UartSends
  <2>1. At({"uart"}, "deliver") /\ CallFrom("finish", Frame("send", "up", Top.block)) /\ BlocksStay
    BY <1>4 DEF UartSends, BlocksStay, data
  <2>2. Top.call = "uart" /\ Top.block \in MemBlock \cup {NoBlock}
    BY <2>1, AtTop DEF FrameType
  <2>3. CarriesAt(Top.call, "deliver") /\ ~CarriesAt(Top.call, "finish") /\ CarriesAt("send", "up")
    BY <2>2 DEF CarriesAt
  <2>. DEFINE c == Top.block
  <2>4. CallFrom("finish", Frame("send", "up", c)) /\ c = Top.block /\ c \in MemBlock \cup {NoBlock}
    BY <2>1, <2>2
  <2>. HIDE DEF c
  <2>. QED BY <1>0, <2>1, <2>3, <2>4, HandlersCall
<1>. QED BY <1>1, <1>2, <1>3, <1>4

LEMMA ReturnMoves ==
  ASSUME StackInv, Return, NEW b
  PROVE  Moves(b)
<1>. DEFINE s == stack[p0]
            t == Tail(s)
<1>1. /\ At(HandlerCall \ {"request"}, "return") /\ BlocksStay
      /\ stack' = [stack EXCEPT ![p0] = t]
  BY DEF Return, BlocksStay, data
<1>2. /\ s \in Seq(FrameType) /\ s # <<>> /\ Top = s[1] /\ Top.at = "return" /\ Top.call # "request"
      /\ stack \in [Proc -> Seq(FrameType)] /\ p0 \in Proc
  BY <1>1, AtTop DEF GoodStack, Stacks
<1>3. ~Carries(s[1], b)
  BY <1>2 DEF Carries
<1>4. s = stack[p0] /\ t = Tail(s)
  OBVIOUS
<1>. HIDE DEF s, t
<1>5. t \in Seq(FrameType)
  BY <1>2, <1>4, OffTop
<1>6. StackBecomes(p0, t)
  BY <1>1, <1>2, <1>5 DEF StackBecomes
<1>. QED BY <1>1, <1>2, <1>3, <1>4, <1>6, TailMoves

LEMMA SwitchMoves ==
  ASSUME StackInv, QueueInv, Switch, NEW b
  PROVE  Moves(b)
<1>. DEFINE q == p0'
            s == stack[q]
            t == Resumed(q)
<1>1. BlocksStay /\ q \in Proc
  BY SwitchEffect DEF Switch, BlocksStay, data
<1>2. /\ StackBecomes(q, t)
      /\ kernel.state[q] = "new" => s = <<>>
      /\ kernel.state[q] # "new" => s \in Seq(FrameType) /\ s # <<>> /\ s[1].call = "switch"
  BY SwitchStack
<1>3. s = stack[q] /\ t = IF kernel.state[q] = "new" THEN <<>> ELSE Tail(s)
  BY DEF Resumed
<1>. HIDE DEF q, s, t
<1>4. CASE kernel.state[q] = "new"
  <2>1. \A i \in Nat : Carried(t, b, i) <=> Carried(s, b, i)
    BY <1>2, <1>3, <1>4
  <2>. QED BY <1>1, <1>2, <1>3, <2>1, SameMoves
<1>5. CASE kernel.state[q] # "new"
  <2>1. ~Carries(s[1], b)
    BY <1>2, <1>5 DEF Carries
  <2>2. s \in Seq(FrameType) /\ s # <<>> /\ t = Tail(s)
    BY <1>2, <1>3, <1>5
  <2>. QED BY <1>1, <1>2, <1>3, <2>1, <2>2, TailMoves
<1>. QED BY <1>4, <1>5


-----------------------------------------------------------------------------
(* The steps that move a block. *)

SameFree(b) == \A i \in Nat : FreeAt(b, i)' <=> FreeAt(b, i)
SameHeld(b) == \A p \in Proc : b \in held'[p] <=> b \in held[p]
SameMail(b) == b \in mail' <=> b \in mail
SameStacks(b) == \A p \in Proc, i \in Nat : OnStack(b, p, i)' <=> OnStack(b, p, i)

LEMMA Unmoved ==
  ASSUME NEW b, SameFree(b), SameHeld(b), SameMail(b), SameStacks(b)
  PROVE  Moves(b)
<1>1. /\ NotFree(b)' <=> NotFree(b)
      /\ NotHeld(b)' <=> NotHeld(b)
      /\ NotOnStack(b)' <=> NotOnStack(b)
  BY DEF NotFree, NotHeld, NotOnStack, SameFree, SameHeld, SameStacks
<1>. QED BY <1>1 DEF Moves, Once, Somewhere, SameFree, SameHeld, SameMail, SameStacks

\* What the handler on top of q had is nowhere on a stack now, and is in the
\* free list, with a process or in the mailbox.
LEMMA OffStackMoves ==
  ASSUME NEW b, NEW q \in Proc, OnStack(b, q, 1),
         \A p \in Proc, i \in Nat : OnStack(b, p, i)' <=> OnStack(b, p, i) /\ ~(p = q /\ i = 1),
         \/ /\ \E n \in Nat : \A i \in Nat : FreeAt(b, i)' <=> FreeAt(b, i) \/ i = n
            /\ SameHeld(b) /\ SameMail(b)
         \/ /\ \A p \in Proc : b \in held'[p] <=> b \in held[p] \/ p = q
            /\ SameFree(b) /\ SameMail(b)
         \/ b \in mail' /\ SameFree(b) /\ SameHeld(b)
  PROVE  Moves(b)
<1>1. Somewhere(b)'
  BY DEF Somewhere, NotFree, NotHeld, SameFree, SameHeld, SameMail
<1>2. ASSUME Once(b) PROVE Once(b)'
  <2>1. /\ NotFree(b) /\ NotHeld(b) /\ b \notin mail
        /\ \A p \in Proc, i \in Nat : OnStack(b, p, i) => p = q /\ i = 1
    BY <1>2 DEF Once, NotOnStack
  <2>2. NotOnStack(b)'
    BY <2>1 DEF NotOnStack
  <2>3. \A p, r \in Proc : \A i, j \in Nat :
           OnStack(b, p, i)' /\ OnStack(b, r, j)' => p = r /\ i = j
    BY <2>2 DEF NotOnStack
  <2>4. CASE /\ \E n \in Nat : \A i \in Nat : FreeAt(b, i)' <=> FreeAt(b, i) \/ i = n
             /\ SameHeld(b) /\ SameMail(b)
    BY <2>1, <2>2, <2>3, <2>4 DEF Once, NotFree, NotHeld, SameHeld, SameMail
  <2>5. CASE /\ \A p \in Proc : b \in held'[p] <=> b \in held[p] \/ p = q
             /\ SameFree(b) /\ SameMail(b)
    BY <2>1, <2>2, <2>3, <2>5 DEF Once, NotFree, NotHeld, SameFree, SameMail
  <2>6. CASE b \in mail' /\ SameFree(b) /\ SameHeld(b)
    BY <2>1, <2>2, <2>3, <2>6 DEF Once, NotFree, NotHeld, SameFree, SameHeld
  <2>. QED BY <2>4, <2>5, <2>6
<1>. QED BY <1>1, <1>2 DEF Moves

\* What was in the free list, with a process or in the mailbox is in the hands
\* of the handler on top of q.
LEMMA OnStackMoves ==
  ASSUME NEW b, NEW q \in Proc,
         \A p \in Proc, i \in Nat : OnStack(b, p, i)' <=> OnStack(b, p, i) \/ (p = q /\ i = 1),
         SameMail(b),
         \/ /\ SameHeld(b)
            /\ \E n \in Nat : /\ FreeAt(b, n)
                              /\ (\A i \in Nat : FreeAt(b, i) => i = n) => NotFree(b)'
         \/ /\ SameFree(b)
            /\ b \in held[q] /\ \A p \in Proc : b \in held'[p] <=> b \in held[p] /\ p # q
  PROVE  Moves(b)
<1>1. Somewhere(b)'
  BY DEF Somewhere, NotOnStack
<1>2. ASSUME Once(b) PROVE Once(b)'
  <2>1. CASE /\ SameHeld(b)
             /\ \E n \in Nat : /\ FreeAt(b, n)
                               /\ (\A i \in Nat : FreeAt(b, i) => i = n) => NotFree(b)'
    <3>1. PICK n \in Nat : /\ FreeAt(b, n)
                           /\ (\A i \in Nat : FreeAt(b, i) => i = n) => NotFree(b)'
      BY <2>1
    <3>2. /\ \A i, j \in Nat : FreeAt(b, i) /\ FreeAt(b, j) => i = j
          /\ NotFree(b) \/ (NotHeld(b) /\ b \notin mail /\ NotOnStack(b))
      BY <1>2 DEF Once
    <3>3. ~NotFree(b) /\ \A i \in Nat : FreeAt(b, i) => i = n
      BY <3>1, <3>2 DEF NotFree
    <3>4. NotFree(b)' /\ NotHeld(b) /\ b \notin mail /\ NotOnStack(b)
      BY <3>1, <3>2, <3>3
    <3>5. NotHeld(b)' /\ b \notin mail'
      BY <2>1, <3>4 DEF NotHeld, SameHeld, SameMail
    <3>6. \A p \in Proc, i \in Nat : OnStack(b, p, i)' => p = q /\ i = 1
      BY <3>4 DEF NotOnStack
    <3>7. \A i \in Nat : ~FreeAt(b, i)'
      BY <3>4 DEF NotFree
    <3>8. \A p \in Proc : b \notin held'[p]
      BY <3>5 DEF NotHeld
    <3>. QED BY <3>4, <3>5, <3>6, <3>7, <3>8 DEF Once
  <2>2. CASE /\ SameFree(b)
             /\ b \in held[q] /\ \A p \in Proc : b \in held'[p] <=> b \in held[p] /\ p # q
    <3>1. ~NotHeld(b)
      BY <2>2 DEF NotHeld
    <3>2. NotFree(b) /\ b \notin mail /\ NotOnStack(b)
      BY <1>2, <3>1 DEF Once
    <3>3. \A p \in Proc : b \in held[p] => p = q
      BY <1>2, <2>2 DEF Once
    <3>4. \A p \in Proc : b \notin held'[p]
      BY <2>2, <3>3
    <3>5. \A i \in Nat : ~FreeAt(b, i)'
      BY <2>2, <3>2 DEF NotFree, SameFree
    <3>6. b \notin mail' /\ NotFree(b)' /\ NotHeld(b)'
      BY <3>2, <3>4, <3>5 DEF SameMail, NotFree, NotHeld
    <3>7. \A p \in Proc, i \in Nat : OnStack(b, p, i)' => p = q /\ i = 1
      BY <3>2 DEF NotOnStack
    <3>. QED BY <3>4, <3>5, <3>6, <3>7 DEF Once
  <2>. QED BY <2>1, <2>2
<1>. QED BY <1>1, <1>2 DEF Moves

\* What was in the mailbox is with process q.
LEMMA OutOfMailMoves ==
  ASSUME NEW b, NEW q \in Proc, SameFree(b), SameStacks(b), b \in mail, b \notin mail',
         \A p \in Proc : b \in held'[p] <=> b \in held[p] \/ p = q
  PROVE  Moves(b)
<1>1. Somewhere(b)'
  BY DEF Somewhere, NotHeld
<1>2. ASSUME Once(b) PROVE Once(b)'
  <2>1. NotFree(b) /\ NotHeld(b) /\ NotOnStack(b)
    BY <1>2 DEF Once
  <2>2. \A i \in Nat : ~FreeAt(b, i)'
    BY <2>1 DEF SameFree, NotFree
  <2>3. \A p \in Proc, i \in Nat : ~OnStack(b, p, i)'
    BY <2>1 DEF SameStacks, NotOnStack
  <2>4. \A p \in Proc : b \in held'[p] => p = q
    BY <2>1 DEF NotHeld
  <2>5. NotFree(b)' /\ NotOnStack(b)'
    BY <2>2, <2>3 DEF NotFree, NotOnStack
  <2>. QED BY <2>2, <2>3, <2>4, <2>5 DEF Once
<1>. QED BY <1>1, <1>2 DEF Moves

\* The handler on top of q, which is running, goes on as g.
LEMMA TopEffect ==
  ASSUME Stacks, ~UserMode, NEW q \in Proc, q = p0, NEW g \in FrameType, NEW b,
         StackBecomes(q, [stack[q] EXCEPT ![1] = g])
  PROVE  /\ \A p \in Proc, i \in Nat :
               OnStack(b, p, i)' <=> IF p = q /\ i = 1 THEN Carries(g, b) ELSE OnStack(b, p, i)
         /\ OnStack(b, q, 1) <=> Carries(Top, b)
<1>. DEFINE s == stack[q]
            t == [s EXCEPT ![1] = g]
<1>1. s \in Seq(FrameType) /\ s # <<>> /\ Top = s[1]
  BY TopIsFirst
<1>2. s = stack[q] /\ t = [s EXCEPT ![1] = g] /\ StackBecomes(q, t)
  OBVIOUS
<1>. HIDE DEF s, t
<1>3. /\ Carried(t, b, 1) <=> Carries(g, b)
      /\ Carried(s, b, 1) <=> Carries(s[1], b)
      /\ \A i \in Nat : i # 1 => (Carried(t, b, i) <=> Carried(s, b, i))
  BY <1>1, <1>2, CarriedNext
<1>4. /\ \A p \in Proc, i \in Nat : p # q => (OnStack(b, p, i)' <=> OnStack(b, p, i))
      /\ \A i \in Nat : /\ OnStack(b, q, i)' <=> Carried(t, b, i)
                        /\ OnStack(b, q, i) <=> Carried(s, b, i)
  BY <1>2, StackEffect
<1>. QED BY <1>1, <1>3, <1>4

LEMMA ReleaseMoves ==
  ASSUME StackInv, Release, NEW b
  PROVE  Moves(b)
<1>. DEFINE c == Top.block
            g == [Top EXCEPT !.at = "unblock"]
            n == Len(available) + 1
<1>1. /\ At({"release"}, "body") /\ available' = Append(available, c) /\ GoTo("unblock")
      /\ held' = held /\ mail' = mail
  BY DEF Release
<1>2. /\ Top.call = "release" /\ Top.at = "body" /\ ~UserMode /\ Stacks /\ p0 \in Proc
      /\ available \in Seq(MemBlock) /\ c \in MemBlock
  BY <1>1, AtTop DEF Typed, GoodFrame
<1>3. PICK q \in Proc : q = p0
  BY <1>2
<1>4. StackBecomes(q, [stack[q] EXCEPT ![1] = g]) /\ Goes(Top, g, "unblock", Top.first, c)
  BY <1>1, <1>2, <1>3, GoesTo DEF Outside
<1>. HIDE DEF g
<1>5. ~Carries(g, b) /\ g \in FrameType /\ (Carries(Top, b) <=> c = b)
  BY <1>2, <1>4 DEF Goes, Carries
<1>6. /\ \A p \in Proc, i \in Nat :
            OnStack(b, p, i)' <=> IF p = q /\ i = 1 THEN Carries(g, b) ELSE OnStack(b, p, i)
      /\ OnStack(b, q, 1) <=> Carries(Top, b)
  BY <1>2, <1>3, <1>4, <1>5, TopEffect
<1>. HIDE DEF c
<1>7. \A i \in Nat : FreeAt(b, i)' <=> FreeAt(b, i) \/ (i = n /\ c = b)
  <2>1. /\ Len(available) \in Nat /\ Len(available') = n
        /\ \A i \in 1..Len(available) : available'[i] = available[i]
        /\ available'[n] = c
        /\ available' \in Seq(MemBlock)
    BY <1>1, <1>2, AppendProperties, LenProperties
  <2>2. DOMAIN available' = 1..n /\ DOMAIN available = 1..Len(available)
    BY <1>2, <2>1, LenProperties
  <2>3. (1..n) = (1..Len(available)) \cup {n} /\ n \notin 1..Len(available)
    BY <2>1
  <2>. HIDE DEF n
  <2>. QED BY <2>1, <2>2, <2>3 DEF FreeAt
<1>8. SameHeld(b) /\ SameMail(b)
  BY <1>1 DEF SameHeld, SameMail
<1>9. n \in Nat
  BY <1>2, LenProperties
<1>. HIDE DEF n
<1>10. CASE c = b
  <2>1. OnStack(b, q, 1)
        /\ \A p \in Proc, i \in Nat : OnStack(b, p, i)' <=> OnStack(b, p, i) /\ ~(p = q /\ i = 1)
    BY <1>5, <1>6, <1>10
  <2>2. \E x \in Nat : \A i \in Nat : FreeAt(b, i)' <=> FreeAt(b, i) \/ i = x
    BY <1>7, <1>9, <1>10
  <2>. QED BY <1>8, <2>1, <2>2, OffStackMoves
<1>11. CASE c # b
  <2>1. SameStacks(b)
    BY <1>5, <1>6, <1>11 DEF SameStacks
  <2>2. SameFree(b)
    BY <1>7, <1>11 DEF SameFree
  <2>. QED BY <1>8, <2>1, <2>2, Unmoved
<1>. QED BY <1>10, <1>11

\* What a handler other than request_memory_block's has given away.
LEMMA SendMoves ==
  ASSUME StackInv, QueueInv, Send, NEW b
  PROVE  /\ Once(b) => Once(b)'
         /\ Somewhere(b) => Somewhere(b)' \/ \E p \in Proc : \E f \in Frames(p) : Readying(f)
<1>. DEFINE c == Top.block
<1>1. /\ At({"send"}, "body") /\ available' = available
      /\ IF IsPidValid(kernel, Kcd)
         THEN mail' = mail \cup {c} /\ GoTo("unblock") /\ held' = held
         ELSE /\ held' = IF Len(stack[p0]) = 1 THEN [held EXCEPT ![p0] = @ \cup {c}] ELSE held
              /\ GoTo("return") /\ mail' = mail
  BY DEF Send
<1>2. /\ Top.call = "send" /\ Top.at = "body" /\ ~UserMode /\ Stacks /\ p0 \in Proc
      /\ held \in [Proc -> SUBSET MemBlock] /\ Top \in FrameType
  BY <1>1, AtTop DEF Typed
<1>3. PICK q \in Proc : q = p0
  BY <1>2
<1>4. PICK next \in {"unblock", "return"} : GoTo(next)
  BY <1>1
<1>. DEFINE g == [Top EXCEPT !.at = next]
<1>5. StackBecomes(q, [stack[q] EXCEPT ![1] = g]) /\ Goes(Top, g, next, Top.first, c)
  BY <1>2, <1>3, <1>4, GoesTo DEF Outside
<1>. HIDE DEF g
<1>6. ~Carries(g, b) /\ g \in FrameType /\ (Carries(Top, b) <=> c = b)
  BY <1>2, <1>5 DEF Goes, Carries
<1>7. /\ \A p \in Proc, i \in Nat :
            OnStack(b, p, i)' <=> IF p = q /\ i = 1 THEN Carries(g, b) ELSE OnStack(b, p, i)
      /\ OnStack(b, q, 1) <=> Carries(Top, b)
  BY <1>2, <1>3, <1>5, <1>6, TopEffect
<1>. HIDE DEF c
<1>8. SameFree(b)
  BY <1>1 DEF SameFree, FreeAt
<1>9. CASE c # b
  <2>1. SameStacks(b)
    BY <1>6, <1>7, <1>9 DEF SameStacks
  <2>2. SameMail(b)
    BY <1>1, <1>9 DEF SameMail
  <2>3. SameHeld(b)
    BY <1>1, <1>2, <1>9 DEF SameHeld
  <2>. QED BY <1>8, <2>1, <2>2, <2>3, Unmoved DEF Moves
<1>10. CASE c = b
  <2>1. OnStack(b, q, 1)
        /\ \A p \in Proc, i \in Nat : OnStack(b, p, i)' <=> OnStack(b, p, i) /\ ~(p = q /\ i = 1)
    BY <1>6, <1>7, <1>10
  <2>2. CASE IsPidValid(kernel, Kcd)
    <3>1. b \in mail' /\ SameHeld(b)
      BY <1>1, <1>10, <2>2 DEF SameHeld
    <3>. QED BY <1>8, <2>1, <3>1, OffStackMoves DEF Moves
  <2>3. CASE ~IsPidValid(kernel, Kcd) /\ Len(stack[p0]) = 1
    <3>1. SameMail(b) /\ \A p \in Proc : b \in held'[p] <=> b \in held[p] \/ p = q
      BY <1>1, <1>2, <1>3, <1>10, <2>3 DEF SameMail
    <3>. QED BY <1>8, <2>1, <3>1, OffStackMoves DEF Moves
  <2>4. CASE ~IsPidValid(kernel, Kcd) /\ Len(stack[p0]) # 1
    <3>1. SameMail(b) /\ SameHeld(b)
      BY <1>1, <2>4 DEF SameMail, SameHeld
    <3>2. Once(b) => Once(b)'
      <4>1. SUFFICES ASSUME Once(b) PROVE Once(b)'
        OBVIOUS
      <4>2. NotOnStack(b)'
        BY <2>1, <4>1 DEF Once, NotOnStack
      <4>3. NotFree(b)' /\ NotHeld(b)' /\ b \notin mail'
        BY <1>8, <2>1, <3>1, <4>1 DEF Once, NotFree, NotHeld, NotOnStack, SameFree, SameHeld, SameMail
      <4>. QED BY <4>2, <4>3 DEF Once, NotFree, NotHeld, NotOnStack
    <3>3. \E p \in Proc : \E f \in Frames(p) : Readying(f)
      <4>1. Decoder /\ Kcd \in Proc /\ p0 = kernel.running
        BY <1>1, AtQueues
      <4>2. Kcd \in Loose /\ p0 # Kcd
        BY <2>4, <4>1 DEF IsPidValid, Loose
      <4>3. PICK i \in 1..Depth(p0) : Readying(stack[p0][i])
        BY <4>1, <4>2 DEF Decoder
      <4>4. stack[p0] \in Seq(FrameType)
        BY <1>2, TopIsFirst
      <4>5. stack[p0][i] \in Frames(p0)
        BY <4>3, <4>4, LenProperties DEF Frames, ToSet, Depth
      <4>. QED BY <1>2, <4>3, <4>5
    <3>. QED BY <3>2, <3>3
  <2>. QED BY <2>2, <2>3, <2>4
<1>. QED BY <1>9, <1>10

LEMMA ReceiveMoves ==
  ASSUME StackInv, Receive, NEW b
  PROVE  Moves(b)
<1>1. /\ At({"receive"}, "body") /\ available' = available
      /\ \E next \in {"block", "return"} : GoTo(next)
      /\ \/ held' = held /\ mail' = mail
         \/ \E c \in mail : held' = [held EXCEPT ![p0] = @ \cup {c}] /\ mail' = mail \ {c}
  BY DEF Receive
<1>2. /\ Top.call = "receive" /\ ~UserMode /\ Stacks /\ p0 \in Proc
      /\ held \in [Proc -> SUBSET MemBlock] /\ Top \in FrameType
  BY <1>1, AtTop DEF Typed
<1>3. PICK q \in Proc : q = p0
  BY <1>2
<1>4. PICK next \in {"block", "return"} : GoTo(next)
  BY <1>1
<1>. DEFINE g == [Top EXCEPT !.at = next]
<1>5. StackBecomes(q, [stack[q] EXCEPT ![1] = g]) /\ Goes(Top, g, next, Top.first, Top.block)
  BY <1>2, <1>3, <1>4, GoesTo DEF Outside
<1>. HIDE DEF g
<1>6. ~Carries(g, b) /\ g \in FrameType /\ ~Carries(Top, b)
  BY <1>2, <1>5 DEF Goes, Carries
<1>7. /\ \A p \in Proc, i \in Nat :
            OnStack(b, p, i)' <=> IF p = q /\ i = 1 THEN Carries(g, b) ELSE OnStack(b, p, i)
      /\ OnStack(b, q, 1) <=> Carries(Top, b)
  BY <1>2, <1>3, <1>5, <1>6, TopEffect
<1>8. SameFree(b) /\ SameStacks(b)
  BY <1>1, <1>6, <1>7 DEF SameFree, SameStacks, FreeAt
<1>9. CASE held' = held /\ mail' = mail
  BY <1>8, <1>9, Unmoved DEF SameHeld, SameMail
<1>10. ASSUME NEW c \in mail, held' = [held EXCEPT ![p0] = @ \cup {c}], mail' = mail \ {c}
       PROVE  Moves(b)
  <2>1. CASE c = b
    <3>1. b \in mail /\ b \notin mail' /\ \A p \in Proc : b \in held'[p] <=> b \in held[p] \/ p = q
      BY <1>2, <1>3, <1>10, <2>1
    <3>. QED BY <1>8, <3>1, OutOfMailMoves
  <2>2. CASE c # b
    <3>1. SameMail(b) /\ SameHeld(b)
      BY <1>2, <1>10, <2>2 DEF SameMail, SameHeld
    <3>. QED BY <1>8, <3>1, Unmoved
  <2>. QED BY <2>1, <2>2
<1>. QED BY <1>1, <1>9, <1>10

LEMMA GivesMove ==
  ASSUME StackInv, NEW c \in MemBlock, CallRelease(c) \/ CallSend(c), NEW b
  PROVE  Moves(b)
<1>1. /\ UserMode /\ c \in held[p0] /\ held' = [held EXCEPT ![p0] = @ \ {c}]
      /\ available' = available /\ mail' = mail
      /\ \E call \in {"release", "send"} : Push(Frame(call, "up", c))
  BY DEF CallRelease, CallSend, Client, InUser, Take
<1>2. /\ p0 \in Proc /\ stack \in [Proc -> Seq(FrameType)] /\ mask \in {Open, SerialLevel, Closed}
      /\ held \in [Proc -> SUBSET MemBlock]
  BY StackOf DEF Typed
<1>3. PICK q \in Proc : q = p0
  BY <1>2
<1>4. PICK call \in {"release", "send"} : Push(Frame(call, "up", c))
  BY <1>1
<1>. DEFINE f == Frame(call, "up", c)
            s == stack[q]
            t == <<f>> \o s
<1>5. f \in FrameType /\ f.call = call /\ f.at = "up" /\ f.block = c
  BY <1>2 DEF Frame, FrameType, HandlerCall, Outside
<1>6. stack' = [stack EXCEPT ![q] = t]
  BY <1>3, <1>4 DEF Push
<1>7. s = <<>> /\ s \in Seq(FrameType)
  BY <1>1, <1>2, <1>3 DEF UserMode
<1>8. s = stack[q] /\ t = <<f>> \o s
  OBVIOUS
<1>. HIDE DEF f, s, t
<1>9. t \in Seq(FrameType)
  BY <1>5, <1>7, <1>8, OnTop
<1>10. StackBecomes(q, t)
  BY <1>2, <1>6, <1>9 DEF StackBecomes
<1>11. /\ Carried(t, b, 1) <=> Carries(f, b)
       /\ \A i \in Nat : i # 0 => (Carried(t, b, i + 1) <=> Carried(s, b, i))
       /\ ~Carried(t, b, 0) /\ ~Carried(s, b, 0)
  BY <1>5, <1>7, <1>8, CarriedPush
<1>12. Carries(f, b) <=> c = b
  BY <1>5 DEF Carries
<1>13. \A i \in Nat : ~Carried(s, b, i)
  BY <1>7 DEF Carried
<1>14. \A i \in Nat : Carried(t, b, i) <=> i = 1 /\ c = b
  <2>1. SUFFICES ASSUME NEW i \in Nat PROVE Carried(t, b, i) <=> i = 1 /\ c = b
    OBVIOUS
  <2>2. CASE i = 0
    BY <1>11, <2>2
  <2>3. CASE i = 1
    BY <1>11, <1>12, <2>3
  <2>4. CASE i # 0 /\ i # 1
    <3>1. i - 1 \in Nat /\ i - 1 # 0 /\ (i - 1) + 1 = i
      BY <2>4
    <3>. QED BY <1>11, <1>13, <2>4, <3>1
  <2>. QED BY <2>2, <2>3, <2>4
<1>15. /\ \A p \in Proc, i \in Nat : p # q => (OnStack(b, p, i)' <=> OnStack(b, p, i))
       /\ \A i \in Nat : /\ OnStack(b, q, i)' <=> Carried(t, b, i)
                         /\ OnStack(b, q, i) <=> Carried(s, b, i)
  BY <1>8, <1>10, StackEffect
<1>16. \A p \in Proc, i \in Nat :
          OnStack(b, p, i)' <=> OnStack(b, p, i) \/ (p = q /\ i = 1 /\ c = b)
  BY <1>13, <1>14, <1>15
<1>17. SameFree(b) /\ SameMail(b)
  BY <1>1 DEF SameFree, SameMail, FreeAt
<1>18. CASE c = b
  <2>1. b \in held[q] /\ \A p \in Proc : b \in held'[p] <=> b \in held[p] /\ p # q
    BY <1>1, <1>2, <1>3, <1>18
  <2>2. \A p \in Proc, i \in Nat : OnStack(b, p, i)' <=> OnStack(b, p, i) \/ (p = q /\ i = 1)
    BY <1>16, <1>18
  <2>. QED BY <1>17, <2>1, <2>2, OnStackMoves
<1>19. CASE c # b
  <2>1. SameHeld(b)
    BY <1>1, <1>2, <1>3, <1>19 DEF SameHeld
  <2>2. SameStacks(b)
    BY <1>16, <1>19 DEF SameStacks
  <2>. QED BY <1>17, <2>1, <2>2, Unmoved
<1>. QED BY <1>18, <1>19

LEMMA RequestReturnsMoves ==
  ASSUME StackInv, RequestReturns, NEW b \in MemBlock
  PROVE  Moves(b)
<1>. DEFINE c == Top.block
<1>1. /\ At({"request"}, "return") /\ available' = available /\ mail' = mail
      /\ IF Len(stack[p0]) = 1
         THEN /\ stack' = [stack EXCEPT ![p0] = Tail(@)]
              /\ held' = [held EXCEPT ![p0] = @ \cup {c}]
         ELSE /\ stack' = [stack EXCEPT ![p0] = [Tail(@) EXCEPT ![1].block = c]]
              /\ held' = held
  BY DEF RequestReturns
<1>2. /\ p0 \in Proc /\ stack \in [Proc -> Seq(FrameType)] /\ held \in [Proc -> SUBSET MemBlock]
      /\ Top.call = "request" /\ Top.at = "return" /\ c \in MemBlock
  BY <1>1, AtTop DEF Typed, Stacks, GoodFrame
<1>3. PICK q \in Proc : q = p0
  BY <1>2
<1>. DEFINE s == stack[q]
            t == Tail(s)
<1>4. s \in Seq(FrameType) /\ s # <<>> /\ Top = s[1] /\ GoodStack(q, s)
  BY <1>1, <1>3, AtTop DEF GoodStack
<1>5. Carries(s[1], b) <=> c = b
  BY <1>2, <1>4 DEF Carries
<1>t. s = stack[q] /\ t = Tail(s)
  OBVIOUS
<1>6. /\ Len(s) = 1 => stack' = [stack EXCEPT ![q] = t]
      /\ Len(s) # 1 => stack' = [stack EXCEPT ![q] = [t EXCEPT ![1].block = c]]
  BY <1>1, <1>3
<1>. HIDE DEF c, s, t
<1>7. /\ t \in Seq(FrameType) /\ (t = <<>> <=> Len(s) = 1)
      /\ GoodBelow(q, t, s[1].call)
  <2>1. GoodBelow(q, t, s[1].call) /\ (t = <<>> <=> Len(s) = 1)
    BY <1>4, <1>t, GoodTail
  <2>. QED BY <2>1 DEF GoodBelow
<1>8. CASE Len(s) = 1
  <2>1. StackBecomes(q, t) /\ t = <<>>
    BY <1>2, <1>6, <1>7, <1>8 DEF StackBecomes
  <2>2. /\ \A p \in Proc, i \in Nat : p # q => (OnStack(b, p, i)' <=> OnStack(b, p, i))
        /\ \A i \in Nat : /\ OnStack(b, q, i)' <=> Carried(t, b, i)
                          /\ OnStack(b, q, i) <=> Carried(s, b, i)
    BY <1>t, <2>1, StackEffect
  <2>3. \A i \in Nat : ~Carried(t, b, i)
    BY <2>1 DEF Carried
  <2>4. \A i \in Nat : Carried(s, b, i) <=> i = 1 /\ c = b
    <3>1. DOMAIN s = {1}
      BY <1>4, <1>8, LenProperties
    <3>. QED BY <1>5, <3>1 DEF Carried
  <2>5. \A p \in Proc, i \in Nat : OnStack(b, p, i)' <=> OnStack(b, p, i) /\ ~(p = q /\ i = 1)
    BY <2>2, <2>3, <2>4
  <2>6. SameFree(b) /\ SameMail(b) /\ held' = [held EXCEPT ![q] = @ \cup {c}]
    BY <1>1, <1>3, <1>8, <1>t DEF SameFree, SameMail, FreeAt
  <2>7. CASE c = b
    <3>1. OnStack(b, q, 1)
      BY <2>2, <2>4, <2>7
    <3>2. \A p \in Proc : b \in held'[p] <=> b \in held[p] \/ p = q
      BY <1>2, <2>6, <2>7
    <3>. QED BY <2>5, <2>6, <3>1, <3>2, OffStackMoves
  <2>8. CASE c # b
    <3>1. SameStacks(b)
      BY <2>2, <2>3, <2>4, <2>8 DEF SameStacks
    <3>2. SameHeld(b)
      BY <1>2, <2>6, <2>8 DEF SameHeld
    <3>. QED BY <2>6, <3>1, <3>2, Unmoved
  <2>. QED BY <2>7, <2>8
<1>9. CASE Len(s) # 1
  <2>. DEFINE h == t[1]
              g == [h EXCEPT !.block = c]
              u == [t EXCEPT ![1] = g]
  <2>1. t # <<>> /\ 1 \in 1..Len(t) /\ Linked("request", h) /\ h \in FrameType
    <3>1. t # <<>> /\ 1 \in 1..Len(t)
      BY <1>7, <1>9, EmptySeq
    <3>2. Linked(s[1].call, t[1]) /\ t[1] \in FrameType
      BY <1>7, <3>1 DEF GoodBelow, GoodFrame
    <3>3. s[1].call = "request"
      BY <1>2, <1>4
    <3>. QED BY <3>1, <3>2, <3>3
  <2>2. h.call = "uart" /\ h.at = "deliver" /\ h.block = NoBlock /\ b # NoBlock
    <3>1. b # NoBlock
      BY PreemptAssumption DEF MemBlock, Contains, ToSet
    <3>. QED BY <2>1, <3>1 DEF Linked
  <2>3. g \in FrameType /\ g.call = "uart" /\ g.at = "deliver" /\ g.block = c
    BY <1>2, <2>1, <2>2 DEF FrameType
  <2>4. ~Carries(t[1], b) /\ (Carries(g, b) <=> Carries(s[1], b))
    BY <1>5, <2>2, <2>3 DEF Carries
  <2>5. stack' = [stack EXCEPT ![q] = u]
    BY <1>6, <1>7, <1>9, <2>1
  <2>6. u = [t EXCEPT ![1] = g]
    OBVIOUS
  <2>. HIDE DEF h, g, u
  <2>7. u \in Seq(FrameType)
    BY <1>7, <2>1, <2>3, <2>6, NextOnTop
  <2>8. StackBecomes(q, u)
    BY <1>2, <2>5, <2>7 DEF StackBecomes
  <2>9. BlocksStay
    BY <1>1, <1>3, <1>9, <1>t DEF BlocksStay
  <2>. QED BY <1>4, <1>t, <2>1, <2>3, <2>4, <2>6, <2>8, <2>9, HandMoves
<1>. QED BY <1>8, <1>9

\* The one step that may put a block in a second place or lose it, if what is
\* first in the list is not what the handler has read there.
LEMMA RequestTakesMoves ==
  ASSUME StackInv, RequestTakes, NEW b
  PROVE  /\ Once(b) => Once(b)' \/ (Top.block = b /\ ~Top.first)
         /\ Somewhere(b) => Somewhere(b)' \/ Top.block # b
<1>. DEFINE c == Top.block
            g == [Top EXCEPT !.at = "taken"]
<1>1. /\ At({"request"}, "take") /\ GoTo("taken") /\ held' = held /\ mail' = mail
      /\ available' = IF available = <<>> THEN <<>> ELSE Tail(available)
  BY DEF RequestTakes
<1>2. /\ Top.call = "request" /\ Top.at = "take" /\ ~UserMode /\ Stacks /\ p0 \in Proc
      /\ available \in Seq(MemBlock) /\ RunsAs(Top, InnerTop, mask, available)
  BY <1>1, AtTop DEF Typed
<1>3. PICK q \in Proc : q = p0
  BY <1>2
<1>4. StackBecomes(q, [stack[q] EXCEPT ![1] = g]) /\ Goes(Top, g, "taken", Top.first, c)
  BY <1>1, <1>2, <1>3, GoesTo DEF InBracket
<1>. HIDE DEF g
<1>5. (Carries(g, b) <=> c = b) /\ g \in FrameType /\ ~Carries(Top, b)
  BY <1>2, <1>4 DEF Goes, Carries
<1>6. /\ \A p \in Proc, i \in Nat :
            OnStack(b, p, i)' <=> IF p = q /\ i = 1 THEN Carries(g, b) ELSE OnStack(b, p, i)
      /\ OnStack(b, q, 1) <=> Carries(Top, b)
  BY <1>2, <1>3, <1>4, <1>5, TopEffect
<1>7. \A i \in Nat : FreeAt(b, i)' <=> i # 0 /\ FreeAt(b, i + 1)
  <2>1. CASE available = <<>>
    BY <1>1, <2>1 DEF FreeAt
  <2>2. CASE available # <<>>
    <3>1. /\ available' = Tail(available) /\ Len(available) \in Nat \ {0}
          /\ available' \in Seq(MemBlock) /\ Len(available') = Len(available) - 1
          /\ \A i \in 1..Len(available') : available'[i] = available[i + 1]
      BY <1>1, <1>2, <2>2, OffTop
    <3>2. DOMAIN available' = 1..(Len(available) - 1) /\ DOMAIN available = 1..Len(available)
      BY <1>2, <3>1, LenProperties
    <3>3. SUFFICES ASSUME NEW i \in Nat PROVE FreeAt(b, i)' <=> i # 0 /\ FreeAt(b, i + 1)
      OBVIOUS
    <3>4. (i \in 1..(Len(available) - 1)) <=> (i # 0 /\ i + 1 \in 1..Len(available))
      BY <3>1
    <3>. QED BY <3>1, <3>2, <3>4 DEF FreeAt
  <2>. QED BY <2>1, <2>2
<1>8. ~FreeAt(b, 0)
  BY <1>2, LenProperties DEF FreeAt
<1>9. SameHeld(b) /\ SameMail(b)
  BY <1>1 DEF SameHeld, SameMail
<1>10. Top.first /\ c = b => FreeAt(b, 1)
  <2>1. SUFFICES ASSUME Top.first, c = b PROVE FreeAt(b, 1)
    OBVIOUS
  <2>2. available # <<>> /\ c = Head(available)
    BY <1>2, <2>1 DEF RunsAs
  <2>3. Head(available) = available[1] /\ 1 \in 1..Len(available)
    BY <1>2, <2>2, OffTop
  <2>. QED BY <1>2, <2>1, <2>2, <2>3, LenProperties DEF FreeAt
<1>. HIDE DEF c
<1>11. CASE c = b
  <2>1. \A p \in Proc, i \in Nat : OnStack(b, p, i)' <=> OnStack(b, p, i) \/ (p = q /\ i = 1)
    BY <1>5, <1>6, <1>11
  <2>2. Somewhere(b)'
    BY <2>1 DEF Somewhere, NotOnStack
  <2>3. ASSUME Top.first PROVE Moves(b)
    <3>1. FreeAt(b, 1)
      BY <1>10, <1>11, <2>3
    <3>2. (\A i \in Nat : FreeAt(b, i) => i = 1) => NotFree(b)'
      <4>1. SUFFICES ASSUME \A i \in Nat : FreeAt(b, i) => i = 1, NEW i \in Nat, FreeAt(b, i)'
                     PROVE  FALSE
        BY DEF NotFree
      <4>2. i # 0 /\ FreeAt(b, i + 1) /\ i + 1 \in Nat
        BY <1>7, <4>1
      <4>. QED BY <4>1, <4>2
    <3>. QED BY <1>9, <2>1, <3>1, <3>2, OnStackMoves
  <2>. QED BY <1>11, <2>2, <2>3 DEF Moves, c
<1>12. CASE c # b
  <2>1. SameStacks(b)
    BY <1>5, <1>6, <1>12 DEF SameStacks
  <2>2. ASSUME Once(b) PROVE Once(b)'
    <3>1. /\ \A i, j \in Nat : FreeAt(b, i) /\ FreeAt(b, j) => i = j
          /\ \A p, r \in Proc : b \in held[p] /\ b \in held[r] => p = r
          /\ \A p, r \in Proc : \A i, j \in Nat :
                OnStack(b, p, i) /\ OnStack(b, r, j) => p = r /\ i = j
          /\ NotFree(b) \/ (NotHeld(b) /\ b \notin mail /\ NotOnStack(b))
          /\ NotHeld(b) \/ (b \notin mail /\ NotOnStack(b))
          /\ b \notin mail \/ NotOnStack(b)
      BY <2>2 DEF Once
    <3>2. \A i, j \in Nat : FreeAt(b, i)' /\ FreeAt(b, j)' => i = j
      <4>1. SUFFICES ASSUME NEW i \in Nat, NEW j \in Nat, FreeAt(b, i)', FreeAt(b, j)' PROVE i = j
        OBVIOUS
      <4>2. FreeAt(b, i + 1) /\ FreeAt(b, j + 1) /\ i + 1 \in Nat /\ j + 1 \in Nat
        BY <1>7, <4>1
      <4>3. i + 1 = j + 1
        BY <3>1, <4>2
      <4>. QED BY <4>3
    <3>3. NotFree(b) => NotFree(b)'
      <4>1. SUFFICES ASSUME \A i \in Nat : ~FreeAt(b, i), NEW i \in Nat, FreeAt(b, i)' PROVE FALSE
        BY DEF NotFree
      <4>2. FreeAt(b, i + 1) /\ i + 1 \in Nat
        BY <1>7, <4>1
      <4>. QED BY <4>1, <4>2
    <3>4. /\ NotHeld(b)' <=> NotHeld(b)
          /\ NotOnStack(b)' <=> NotOnStack(b)
          /\ held' = held /\ mail' = mail
      BY <1>1, <2>1 DEF NotHeld, NotOnStack, SameStacks
    <3>. QED BY <2>1, <3>1, <3>2, <3>3, <3>4 DEF Once, SameStacks
  <2>. QED BY <1>12, <2>2 DEF c
<1>. QED BY <1>11, <1>12

LEMMA StepMoves ==
  ASSUME PreemptIInv, [Next]_vars, NEW b \in MemBlock
  PROVE  /\ Once(b) => Once(b)' \/ (At({"request"}, "take") /\ Top.block = b /\ ~Top.first)
         /\ Somewhere(b) =>
               \/ Somewhere(b)'
               \/ \E p \in Proc : \E f \in Frames(p) : Readying(f)
               \/ At({"request"}, "take") /\ Top.block # b
<1>0. StackInv /\ QueueInv
  BY DEF PreemptIInv
<1>1. CASE UNCHANGED vars
  <2>1. SameFree(b) /\ SameHeld(b) /\ SameMail(b) /\ SameStacks(b)
    BY <1>1 DEF vars, data, SameFree, SameHeld, SameMail, SameStacks, FreeAt, OnStack
  <2>. QED BY <2>1, Unmoved DEF Moves
<1>2. CASE RequestTakes
  <2>1. At({"request"}, "take")
    BY <1>2 DEF RequestTakes
  <2>. QED BY <1>0, <1>2, <2>1, RequestTakesMoves
<1>3. CASE Send
  BY <1>0, <1>3, SendMoves
<1>4. CASE \/ Begin \/ Block \/ BlockSetsState \/ BlockEnqueues \/ UnblockStays
           \/ RequestCloses \/ RequestRetries \/ ReleaseUnblocks \/ ReleaseReadies
           \/ SendUnblocks \/ SendFinds \/ SendRemoves \/ SendReadies
           \/ UartDrops \/ UartReturns
  BY <1>0, <1>4, WithinMoves DEF Moves
<1>5. CASE CallYield \/ CallRequest \/ CallReceive \/ SerialInterrupt
  BY <1>0, <1>5, CallsMove DEF Moves
<1>6. CASE UnblockYields \/ BlockReleasesProcessor \/ UartRequests \/ UartSends
  BY <1>0, <1>6, InnerCallsMove DEF Moves
<1>7. CASE Request
  BY <1>0, <1>7, RequestMoves DEF Moves
<1>8. CASE Return
  BY <1>0, <1>8, ReturnMoves DEF Moves
<1>9. CASE Switch
  BY <1>0, <1>9, SwitchMoves DEF Moves
<1>10. CASE RequestReturns
  BY <1>0, <1>10, RequestReturnsMoves DEF Moves
<1>11. CASE Release
  BY <1>0, <1>11, ReleaseMoves DEF Moves
<1>12. CASE Receive
  BY <1>0, <1>12, ReceiveMoves DEF Moves
<1>13. ASSUME NEW c \in MemBlock, CallRelease(c) \/ CallSend(c)
       PROVE  Moves(b)
  BY <1>0, <1>13, GivesMove
<1>14. CASE \E c \in MemBlock : CallRelease(c) \/ CallSend(c)
  BY <1>13, <1>14 DEF Moves
<1>. QED BY <1>1, <1>2, <1>3, <1>4, <1>5, <1>6, <1>7, <1>8, <1>9, <1>10, <1>11, <1>12, <1>14
         DEF Next

LEMMA InvLocated == PreemptIInv => Located
BY StackOf DEF PreemptIInv, Located, Typed

\* A block is handed out a second time only by an allocation whose bracket was
\* not opened by atomic_up at a count of 0.
THEOREM SharingNeedsAnOpenBracket == Spec => SharedAfterOpenBracketOnly
<1>1. ASSUME PreemptIInv, PreemptIInv', [Next]_vars
      PROVE  \A b \in MemBlock : ~Shared(b) /\ Shared(b)' =>
                At({"request"}, "take") /\ Top.block = b /\ ~Top.first
  <2>1. Located /\ Located'
    BY <1>1, InvLocated, PTL
  <2>2. \A b \in MemBlock : Shared(b) <=> ~Once(b)
    BY <2>1, Places
  <2>3. (\A b \in MemBlock : (Lost(b) <=> ~Somewhere(b)) /\ (Shared(b) <=> ~Once(b)))'
    BY <2>1, Places, PTL
  <2>. QED BY <1>1, <2>2, <2>3, StepMoves
<1>2. PreemptIInv /\ PreemptIInv' /\ [Next]_vars =>
         [\A b \in MemBlock : ~Shared(b) /\ Shared(b)' =>
             At({"request"}, "take") /\ Top.block = b /\ ~Top.first]_vars
  BY <1>1
<1>. QED BY <1>2, PreemptInductiveInvariant, PTL DEF Spec, SharedAfterOpenBracketOnly

\* A block is lost only while a sender makes the decoder ready, or by an
\* allocation that takes one block from the list and hands out another.
THEOREM LosingNeedsAGap == Spec => LostWhileReadyingOnly
<1>1. ASSUME PreemptIInv, PreemptIInv', [Next]_vars
      PROVE  \A b \in MemBlock : ~Lost(b) /\ Lost(b)' =>
                \/ \E p \in Proc : \E f \in Frames(p) : f.call = "send" /\ f.at = "ready"
                \/ At({"request"}, "take") /\ Top.block # b
  <2>1. Located /\ Located'
    BY <1>1, InvLocated, PTL
  <2>2. \A b \in MemBlock : Lost(b) <=> ~Somewhere(b)
    BY <2>1, Places
  <2>3. (\A b \in MemBlock : (Lost(b) <=> ~Somewhere(b)) /\ (Shared(b) <=> ~Once(b)))'
    BY <2>1, Places, PTL
  <2>. QED BY <1>1, <2>2, <2>3, StepMoves DEF Readying
<1>2. PreemptIInv /\ PreemptIInv' /\ [Next]_vars =>
         [\A b \in MemBlock : ~Lost(b) /\ Lost(b)' =>
             \/ \E p \in Proc : \E f \in Frames(p) : f.call = "send" /\ f.at = "ready"
             \/ At({"request"}, "take") /\ Top.block # b]_vars
  BY <1>1
<1>. QED BY <1>2, PreemptInductiveInvariant, PTL DEF Spec, LostWhileReadyingOnly


-----------------------------------------------------------------------------
(* The count of open brackets.  A handler is counted from the bottom of its  *)
(* stack, so that one put on top of it does not move it.                     *)

\* In stack s the handler above n others is in its bracket.
Opened(s, n) == n \in 0..(Len(s) - 1) /\ s[Len(s) - n].at \in InBracket

LEMMA OpenBracketsAre ==
  ASSUME Stacks
  PROVE  /\ IsFiniteSet(OpenBrackets)
         /\ \A x : x \in OpenBrackets <=>
               \E p \in Proc : \E n \in Nat : Opened(stack[p], n) /\ x = <<p, n>>
<1>1. IsFiniteSet(Proc)
  BY PreemptAssumption DEF IsFiniteSet, Contains
<1>2. \A p \in Proc : stack[p] \in Seq(FrameType) /\ Len(stack[p]) \in Nat
  BY LenProperties DEF Stacks
<1>. DEFINE on(p) == {<<p, n>> : n \in {m \in 0..(Len(stack[p]) - 1) :
                                         stack[p][Len(stack[p]) - m].at \in InBracket}}
            all == {on(p) : p \in Proc}
<1>3. OpenBrackets = UNION all
  BY DEF OpenBrackets
<1>4. ASSUME NEW p \in Proc PROVE IsFiniteSet(on(p))
  <2>. DEFINE S == {m \in 0..(Len(stack[p]) - 1) : stack[p][Len(stack[p]) - m].at \in InBracket}
              f == [n \in S |-> <<p, n>>]
              T == {<<p, n>> : n \in S}
  <2>1. S \subseteq 0..(Len(stack[p]) - 1) /\ 0 \in Int /\ Len(stack[p]) - 1 \in Int
    BY <1>2
  <2>2. IsFiniteSet(S)
    BY <2>1, FS_Interval, FS_Subset
  <2>3. T = {f[x] : x \in S} /\ on(p) = T
    OBVIOUS
  <2>. HIDE DEF f, S, T, on
  <2>. QED BY <2>2, <2>3, ImageFinite
<1>5. ASSUME NEW p \in Proc, NEW x
      PROVE  x \in on(p) <=> \E n \in Nat : Opened(stack[p], n) /\ x = <<p, n>>
  BY <1>2 DEF Opened
<1>. HIDE DEF on
<1>6. IsFiniteSet(all)
  <2>. DEFINE f == [p \in Proc |-> on(p)]
  <2>1. all = {f[x] : x \in Proc}
    OBVIOUS
  <2>. HIDE DEF f, all
  <2>. QED BY <1>1, <2>1, ImageFinite
<1>7. IsFiniteSet(UNION all)
  <2>1. \A T \in all : IsFiniteSet(T)
    BY <1>4
  <2>. HIDE DEF all
  <2>. QED BY <1>6, <2>1, FS_UNION
<1>8. \A x : x \in UNION all <=> \E p \in Proc : x \in on(p)
  OBVIOUS
<1>. HIDE DEF all
<1>. QED BY <1>3, <1>5, <1>7, <1>8

\* Stack s of q has become t.
LEMMA StackCounts ==
  ASSUME Stacks, Stacks', CountMatches,
         NEW q \in Proc, NEW s, s = stack[q], NEW t, StackBecomes(q, t),
         \/ /\ status' = status
            /\ \A n \in Nat : Opened(t, n) <=> Opened(s, n)
         \/ /\ status' = status + 1
            /\ \E k \in Nat : ~Opened(s, k) /\ \A n \in Nat : Opened(t, n) <=> Opened(s, n) \/ n = k
         \/ /\ status' = IF status > 0 THEN status - 1 ELSE 0
            /\ \E k \in Nat : Opened(s, k) /\ \A n \in Nat : Opened(t, n) <=> Opened(s, n) /\ n # k
  PROVE  CountMatches'
<1>. DEFINE A == OpenBrackets
            B == OpenBrackets'
<1>1. /\ IsFiniteSet(A)
      /\ \A x : x \in A <=> \E p \in Proc : \E n \in Nat : Opened(stack[p], n) /\ x = <<p, n>>
  BY OpenBracketsAre
<1>2. \A x : x \in B <=> \E p \in Proc : \E n \in Nat : Opened(stack'[p], n) /\ x = <<p, n>>
  <2>1. (Stacks => \A x : x \in OpenBrackets <=>
               \E p \in Proc : \E n \in Nat : Opened(stack[p], n) /\ x = <<p, n>>)'
    BY OpenBracketsAre, PTL
  <2>. QED BY <2>1 DEF Opened
<1>3. \A p \in Proc : stack'[p] = IF p = q THEN t ELSE stack[p]
  BY DEF StackBecomes
<1>4. status = Cardinality(A) /\ Cardinality(A) \in Nat
  BY <1>1, FS_CardinalityType DEF CountMatches
<1>5. CountMatches' <=> status' = Cardinality(B)
  BY DEF CountMatches
<1>. HIDE DEF A, B
<1>6. CASE /\ status' = status
           /\ \A n \in Nat : Opened(t, n) <=> Opened(s, n)
  <2>1. B = A
    BY <1>1, <1>2, <1>3, <1>6
  <2>. QED BY <1>4, <1>5, <1>6, <2>1
<1>7. CASE /\ status' = status + 1
           /\ \E k \in Nat : ~Opened(s, k) /\ \A n \in Nat : Opened(t, n) <=> Opened(s, n) \/ n = k
  <2>1. PICK k \in Nat : ~Opened(s, k) /\ \A n \in Nat : Opened(t, n) <=> Opened(s, n) \/ n = k
    BY <1>7
  <2>. DEFINE x == <<q, k>>
  <2>2. \A p \in Proc, n \in Nat : <<p, n>> = x <=> p = q /\ n = k
    OBVIOUS
  <2>3. \A p \in Proc, n \in Nat :
           Opened(stack'[p], n) <=> Opened(stack[p], n) \/ (p = q /\ n = k)
    BY <1>3, <2>1
  <2>4. x \notin A
    <3>1. ASSUME x \in A PROVE FALSE
      <4>1. PICK p \in Proc : \E n \in Nat : Opened(stack[p], n) /\ x = <<p, n>>
        BY <1>1, <3>1
      <4>2. PICK n \in Nat : Opened(stack[p], n) /\ x = <<p, n>>
        BY <4>1
      <4>3. p = q /\ n = k
        BY <2>2, <4>2
      <4>. QED BY <2>1, <4>2, <4>3
    <3>. QED BY <3>1
  <2>5. \A y : y \in B <=> y \in A \/ y = x
    <3>1. ASSUME NEW y, y \in B PROVE y \in A \/ y = x
      <4>1. PICK p \in Proc : \E n \in Nat : Opened(stack'[p], n) /\ y = <<p, n>>
        BY <1>2, <3>1
      <4>2. PICK n \in Nat : Opened(stack'[p], n) /\ y = <<p, n>>
        BY <4>1
      <4>3. CASE Opened(stack[p], n)
        BY <1>1, <4>2, <4>3
      <4>4. CASE p = q /\ n = k
        BY <2>2, <4>2, <4>4
      <4>. QED BY <2>3, <4>2, <4>3, <4>4
    <3>2. ASSUME NEW y, y \in A PROVE y \in B
      BY <1>1, <1>2, <2>3, <3>2
    <3>3. x \in B
      <4>1. Opened(stack'[q], k)
        BY <2>3
      <4>. QED BY <1>2, <4>1
    <3>. QED BY <3>1, <3>2, <3>3
  <2>. HIDE DEF x
  <2>6. B = A \cup {x}
    BY <2>5
  <2>7. Cardinality(B) = Cardinality(A) + 1
    BY <1>1, <2>4, <2>6, FS_AddElement
  <2>. QED BY <1>4, <1>5, <1>7, <2>7
<1>8. CASE /\ status' = IF status > 0 THEN status - 1 ELSE 0
           /\ \E k \in Nat : Opened(s, k) /\ \A n \in Nat : Opened(t, n) <=> Opened(s, n) /\ n # k
  <2>1. PICK k \in Nat : Opened(s, k) /\ \A n \in Nat : Opened(t, n) <=> Opened(s, n) /\ n # k
    BY <1>8
  <2>. DEFINE x == <<q, k>>
  <2>2. \A p \in Proc, n \in Nat : <<p, n>> = x <=> p = q /\ n = k
    OBVIOUS
  <2>3. \A p \in Proc, n \in Nat :
           Opened(stack'[p], n) <=> Opened(stack[p], n) /\ ~(p = q /\ n = k)
    BY <1>3, <2>1
  <2>4. x \in A
    BY <1>1, <2>1
  <2>5. \A y : y \in B <=> y \in A /\ y # x
    <3>1. ASSUME NEW y, y \in B PROVE y \in A /\ y # x
      <4>1. PICK p \in Proc : \E n \in Nat : Opened(stack'[p], n) /\ y = <<p, n>>
        BY <1>2, <3>1
      <4>2. PICK n \in Nat : Opened(stack'[p], n) /\ y = <<p, n>>
        BY <4>1
      <4>3. Opened(stack[p], n) /\ ~(p = q /\ n = k)
        BY <2>3, <4>2
      <4>. QED BY <1>1, <2>2, <4>2, <4>3
    <3>2. ASSUME NEW y, y \in A, y # x PROVE y \in B
      <4>1. PICK p \in Proc : \E n \in Nat : Opened(stack[p], n) /\ y = <<p, n>>
        BY <1>1, <3>2
      <4>2. PICK n \in Nat : Opened(stack[p], n) /\ y = <<p, n>>
        BY <4>1
      <4>3. ~(p = q /\ n = k)
        BY <2>2, <3>2, <4>2
      <4>. QED BY <1>2, <2>3, <4>2, <4>3
    <3>. QED BY <3>1, <3>2
  <2>. HIDE DEF x
  <2>6. B = A \ {x}
    BY <2>5
  <2>7. Cardinality(B) = Cardinality(A) - 1 /\ Cardinality(B) \in Nat
    BY <1>1, <2>4, <2>6, FS_RemoveElement, FS_CardinalityType
  <2>. QED BY <1>4, <1>5, <1>8, <2>7
<1>. QED BY <1>6, <1>7, <1>8

LEMMA OpenedNext ==
  ASSUME NEW s \in Seq(FrameType), s # <<>>, NEW g \in FrameType, NEW t, t = [s EXCEPT ![1] = g]
  PROVE  /\ Len(s) - 1 \in Nat
         /\ Opened(t, Len(s) - 1) <=> g.at \in InBracket
         /\ Opened(s, Len(s) - 1) <=> s[1].at \in InBracket
         /\ \A n \in Nat : n # Len(s) - 1 => (Opened(t, n) <=> Opened(s, n))
<1>1. /\ t \in Seq(FrameType) /\ Len(t) = Len(s) /\ t[1] = g /\ 1 \in 1..Len(s)
      /\ \A i \in 1..Len(t) : i > 1 => t[i] = s[i]
  BY NextOnTop
<1>2. Len(s) \in Nat \ {0} /\ Len(s) - (Len(s) - 1) = 1
  BY <1>1, LenProperties
<1>3. ASSUME NEW n \in Nat, n # Len(s) - 1 PROVE Opened(t, n) <=> Opened(s, n)
  <2>1. n \in 0..(Len(s) - 1) => t[Len(s) - n] = s[Len(s) - n]
    <3>1. SUFFICES ASSUME n \in 0..(Len(s) - 1) PROVE t[Len(s) - n] = s[Len(s) - n]
      OBVIOUS
    <3>. DEFINE k == Len(s)
                l == Len(t)
    <3>2. l = k /\ k \in Nat \ {0} /\ n # k - 1 /\ n \in 0..(k - 1)
      BY <1>1, <1>2, <1>3, <3>1
    <3>. HIDE DEF k, l
    <3>3. k - n \in 1..l /\ k - n > 1
      BY <3>2
    <3>. QED BY <1>1, <3>3 DEF k, l
  <2>. QED BY <1>1, <2>1 DEF Opened
<1>4. Len(s) - 1 \in 0..(Len(s) - 1) /\ Len(s) - 1 \in Nat
  BY <1>2
<1>5. Opened(t, Len(s) - 1) <=> g.at \in InBracket
  BY <1>1, <1>2, <1>4 DEF Opened
<1>6. Opened(s, Len(s) - 1) <=> s[1].at \in InBracket
  BY <1>2, <1>4 DEF Opened
<1>. QED BY <1>3, <1>4, <1>5, <1>6

LEMMA OpenedPush ==
  ASSUME NEW s \in Seq(FrameType), NEW f \in FrameType, f.at \notin InBracket,
         NEW t, t = <<f>> \o s
  PROVE  \A n \in Nat : Opened(t, n) <=> Opened(s, n)
<1>1. /\ t \in Seq(FrameType) /\ Len(t) = Len(s) + 1 /\ t[1] = f
      /\ \A i \in 1..Len(t) : i > 1 => i - 1 \in 1..Len(s) /\ t[i] = s[i - 1]
  BY OnTop
<1>2. Len(s) \in Nat
  BY LenProperties
<1>3. SUFFICES ASSUME NEW n \in Nat PROVE Opened(t, n) <=> Opened(s, n)
  OBVIOUS
<1>4. CASE n = Len(s)
  <2>1. Len(t) - n = 1 /\ n \notin 0..(Len(s) - 1)
    BY <1>1, <1>2, <1>4
  <2>. QED BY <1>1, <2>1 DEF Opened
<1>5. CASE n # Len(s)
  <2>1. (n \in 0..(Len(t) - 1)) <=> (n \in 0..(Len(s) - 1))
    BY <1>1, <1>2, <1>5
  <2>2. n \in 0..(Len(s) - 1) => t[Len(t) - n] = s[Len(s) - n]
    <3>1. SUFFICES ASSUME n \in 0..(Len(s) - 1) PROVE t[Len(t) - n] = s[Len(s) - n]
      OBVIOUS
    <3>2. Len(t) - n \in 1..Len(t) /\ Len(t) - n > 1 /\ (Len(t) - n) - 1 = Len(s) - n
      BY <1>1, <1>2, <3>1
    <3>. QED BY <1>1, <3>2
  <2>. QED BY <2>1, <2>2 DEF Opened
<1>. QED BY <1>4, <1>5

LEMMA OpenedTail ==
  ASSUME NEW s \in Seq(FrameType), s # <<>>, s[1].at \notin InBracket, NEW t, t = Tail(s)
  PROVE  \A n \in Nat : Opened(t, n) <=> Opened(s, n)
<1>1. /\ t \in Seq(FrameType) /\ Len(t) = Len(s) - 1 /\ Len(s) \in Nat \ {0}
      /\ \A i \in 1..Len(t) : i + 1 \in 1..Len(s) /\ t[i] = s[i + 1]
  BY OffTop
<1>2. SUFFICES ASSUME NEW n \in Nat PROVE Opened(t, n) <=> Opened(s, n)
  OBVIOUS
<1>3. CASE n = Len(s) - 1
  <2>1. Len(s) - n = 1 /\ n \notin 0..(Len(t) - 1)
    BY <1>1, <1>3
  <2>. QED BY <2>1 DEF Opened
<1>4. CASE n # Len(s) - 1
  <2>1. (n \in 0..(Len(t) - 1)) <=> (n \in 0..(Len(s) - 1))
    <3>. DEFINE k == Len(s)
                l == Len(t)
    <3>1. l = k - 1 /\ k \in Nat \ {0} /\ n # k - 1
      BY <1>1, <1>4
    <3>. HIDE DEF k, l
    <3>2. (n \in 0..(l - 1)) <=> (n \in 0..(k - 1))
      BY <3>1
    <3>. QED BY <3>2 DEF k, l
  <2>2. n \in 0..(Len(t) - 1) => t[Len(t) - n] = s[Len(s) - n]
    <3>1. SUFFICES ASSUME n \in 0..(Len(t) - 1) PROVE t[Len(t) - n] = s[Len(s) - n]
      OBVIOUS
    <3>2. Len(t) - n \in 1..Len(t) /\ (Len(t) - n) + 1 = Len(s) - n
      BY <1>1, <3>1
    <3>. QED BY <1>1, <3>2
  <2>. QED BY <2>1, <2>2 DEF Opened
<1>. QED BY <1>3, <1>4

\* What the step does to the count, for a handler that was at "from" and is at
\* "next".
Counted(from, next) ==
    \/ status' = status /\ (from \in InBracket <=> next \in InBracket)
    \/ status' = status + 1 /\ from \notin InBracket /\ next \in InBracket
    \/ /\ status' = IF status > 0 THEN status - 1 ELSE 0
       /\ from \in InBracket /\ next \notin InBracket

LEMMA NextCounts ==
  ASSUME Stacks, Stacks', CountMatches,
         NEW q \in Proc, NEW s \in Seq(FrameType), s = stack[q], s # <<>>,
         NEW g \in FrameType, NEW from, s[1].at = from, NEW next, g.at = next, Counted(from, next),
         NEW u, u = [s EXCEPT ![1] = g],
         NEW t, \A n \in Nat : Opened(t, n) <=> Opened(u, n), StackBecomes(q, t)
  PROVE  CountMatches'
<1>. DEFINE k == Len(s) - 1
<1>1. /\ k \in Nat
      /\ Opened(u, k) <=> g.at \in InBracket
      /\ Opened(s, k) <=> s[1].at \in InBracket
      /\ \A n \in Nat : n # k => (Opened(u, n) <=> Opened(s, n))
  BY OpenedNext
<1>. HIDE DEF k
<1>2. \/ /\ status' = status
         /\ \A n \in Nat : Opened(t, n) <=> Opened(s, n)
      \/ /\ status' = status + 1
         /\ \E i \in Nat : ~Opened(s, i) /\ \A n \in Nat : Opened(t, n) <=> Opened(s, n) \/ n = i
      \/ /\ status' = IF status > 0 THEN status - 1 ELSE 0
         /\ \E i \in Nat : Opened(s, i) /\ \A n \in Nat : Opened(t, n) <=> Opened(s, n) /\ n # i
  <2>1. CASE status' = status /\ (from \in InBracket <=> next \in InBracket)
    BY <1>1, <2>1
  <2>2. CASE status' = status + 1 /\ from \notin InBracket /\ next \in InBracket
    <3>1. ~Opened(s, k) /\ \A n \in Nat : Opened(t, n) <=> Opened(s, n) \/ n = k
      BY <1>1, <2>2
    <3>. QED BY <1>1, <2>2, <3>1
  <2>3. CASE /\ status' = IF status > 0 THEN status - 1 ELSE 0
             /\ from \in InBracket /\ next \notin InBracket
    <3>1. Opened(s, k) /\ \A n \in Nat : Opened(t, n) <=> Opened(s, n) /\ n # k
      BY <1>1, <2>3
    <3>. QED BY <1>1, <2>3, <3>1
  <2>. QED BY <2>1, <2>2, <2>3 DEF Counted
<1>. QED BY <1>2, StackCounts

LEMMA GoesOnCounts ==
  ASSUME StackInv, StackInv', CountMatches, NEW calls, NEW from, At(calls, from),
         NEW next \in InBracket \cup Outside, Counted(from, next),
         \/ GoTo(next)
         \/ \E x \in BOOLEAN : stack' = [stack EXCEPT ![p0][1].at = next, ![p0][1].first = x]
         \/ \E c \in MemBlock : stack' = [stack EXCEPT ![p0][1].at = next, ![p0][1].block = c]
  PROVE  CountMatches'
<1>1. ~UserMode /\ Stacks /\ p0 \in Proc /\ Top.at = from /\ Stacks'
  BY AtTop DEF StackInv
<1>2. ASSUME NEW g \in FrameType, g.at = next, StackBecomes(p0, [stack[p0] EXCEPT ![1] = g])
      PROVE  CountMatches'
  <2>. DEFINE s == stack[p0]
              t == [s EXCEPT ![1] = g]
  <2>1. s \in Seq(FrameType) /\ s # <<>> /\ Top = s[1] /\ s[1].at = from
    BY <1>1, TopIsFirst
  <2>2. s = stack[p0] /\ t = [s EXCEPT ![1] = g] /\ StackBecomes(p0, t)
    BY <1>2
  <2>3. \A n \in Nat : Opened(t, n) <=> Opened(t, n)
    OBVIOUS
  <2>. HIDE DEF s, t
  <2>. QED BY <1>1, <1>2, <2>1, <2>2, <2>3, NextCounts
<1>3. CASE GoTo(next)
  <2>. DEFINE g == [Top EXCEPT !.at = next]
  <2>1. StackBecomes(p0, [stack[p0] EXCEPT ![1] = g]) /\ Goes(Top, g, next, Top.first, Top.block)
    BY <1>1, <1>3, GoesTo
  <2>. HIDE DEF g
  <2>. QED BY <1>2, <2>1 DEF Goes
<1>4. ASSUME NEW x \in BOOLEAN, stack' = [stack EXCEPT ![p0][1].at = next, ![p0][1].first = x]
      PROVE  CountMatches'
  <2>. DEFINE g == [Top EXCEPT !.at = next, !.first = x]
  <2>1. StackBecomes(p0, [stack[p0] EXCEPT ![1] = g]) /\ Goes(Top, g, next, x, Top.block)
    BY <1>1, <1>4, GoesWithFirst
  <2>. HIDE DEF g
  <2>. QED BY <1>2, <2>1 DEF Goes
<1>5. ASSUME NEW c \in MemBlock,
             stack' = [stack EXCEPT ![p0][1].at = next, ![p0][1].block = c]
      PROVE  CountMatches'
  <2>. DEFINE g == [Top EXCEPT !.at = next, !.block = c]
  <2>1. StackBecomes(p0, [stack[p0] EXCEPT ![1] = g]) /\ Goes(Top, g, next, Top.first, c)
    BY <1>1, <1>5, GoesWithBlock
  <2>. HIDE DEF g
  <2>. QED BY <1>2, <2>1 DEF Goes
<1>. QED BY <1>3, <1>4, <1>5

\* A handler begins, in user mode or on top of another.
LEMMA BeginsCounts ==
  ASSUME StackInv, StackInv', CountMatches, status' = status,
         NEW call \in HandlerCall, NEW point \in {"up", "switch"},
         NEW c \in MemBlock \cup {NoBlock}, Push(Frame(call, point, c))
  PROVE  CountMatches'
<1>. DEFINE f == Frame(call, point, c)
            s == stack[p0]
            t == <<f>> \o s
<1>1. /\ s \in Seq(FrameType) /\ p0 \in Proc /\ stack \in [Proc -> Seq(FrameType)]
      /\ mask \in {Open, SerialLevel, Closed} /\ Stacks /\ Stacks'
  BY StackOf DEF GoodStack, Typed, StackInv
<1>2. f \in FrameType /\ f.at \notin InBracket
  BY <1>1 DEF Frame, FrameType, Outside, InBracket
<1>3. stack' = [stack EXCEPT ![p0] = t]
  BY DEF Push
<1>4. s = stack[p0] /\ t = <<f>> \o s
  OBVIOUS
<1>. HIDE DEF f, s, t
<1>5. t \in Seq(FrameType)
  BY <1>1, <1>2, <1>4, OnTop
<1>6. StackBecomes(p0, t)
  BY <1>1, <1>3, <1>5 DEF StackBecomes
<1>7. \A n \in Nat : Opened(t, n) <=> Opened(s, n)
  BY <1>1, <1>2, <1>4, OpenedPush
<1>. QED BY <1>1, <1>4, <1>6, <1>7, StackCounts

LEMMA CallsCount ==
  ASSUME StackInv, StackInv', CountMatches, NEW calls, NEW from, At(calls, from),
         NEW call \in HandlerCall, NEW point \in {"up", "switch"},
         NEW c \in MemBlock \cup {NoBlock},
         NEW next \in InBracket \cup Outside, Counted(from, next),
         CallFrom(next, Frame(call, point, c))
  PROVE  CountMatches'
<1>. DEFINE f == Frame(call, point, c)
            s == stack[p0]
            g == [Top EXCEPT !.at = next]
            u == [s EXCEPT ![1] = g]
            t == <<f>> \o u
<1>1. /\ s \in Seq(FrameType) /\ s # <<>> /\ p0 \in Proc /\ stack \in [Proc -> Seq(FrameType)]
      /\ mask \in {Open, SerialLevel, Closed} /\ Top = s[1] /\ Top \in FrameType /\ Top.at = from
      /\ Stacks /\ Stacks'
  BY AtTop DEF GoodStack, Typed, Stacks, StackInv
<1>2. f \in FrameType /\ f.at \notin InBracket
  BY <1>1 DEF Frame, FrameType, Outside, InBracket
<1>3. g \in FrameType /\ g.at = next
  BY <1>1 DEF FrameType
<1>4. stack' = [stack EXCEPT ![p0] = t]
  BY <1>1 DEF CallFrom
<1>5. s = stack[p0] /\ t = <<f>> \o u /\ u = [s EXCEPT ![1] = g] /\ s[1].at = from
  BY <1>1
<1>. HIDE DEF f, s, g, u, t
<1>6. u \in Seq(FrameType)
  BY <1>1, <1>3, <1>5, NextOnTop
<1>7. t \in Seq(FrameType)
  BY <1>2, <1>5, <1>6, OnTop
<1>8. StackBecomes(p0, t)
  BY <1>1, <1>4, <1>7 DEF StackBecomes
<1>9. \A n \in Nat : Opened(t, n) <=> Opened(u, n)
  BY <1>2, <1>5, <1>6, OpenedPush
<1>. QED BY <1>1, <1>3, <1>5, <1>8, <1>9, NextCounts

LEMMA TailCounts ==
  ASSUME Stacks, Stacks', CountMatches, status' = status,
         NEW q \in Proc, NEW s \in Seq(FrameType), s = stack[q], s # <<>>,
         s[1].at \notin InBracket,
         NEW t, t = Tail(s), StackBecomes(q, t)
  PROVE  CountMatches'
<1>1. \A n \in Nat : Opened(t, n) <=> Opened(s, n)
  BY OpenedTail
<1>. QED BY <1>1, StackCounts

LEMMA ReturnCounts ==
  ASSUME StackInv, StackInv', CountMatches, Return
  PROVE  CountMatches'
<1>. DEFINE s == stack[p0]
            t == Tail(s)
<1>1. /\ At(HandlerCall \ {"request"}, "return") /\ status' = status
      /\ stack' = [stack EXCEPT ![p0] = t]
  BY DEF Return
<1>2. /\ s \in Seq(FrameType) /\ s # <<>> /\ Top = s[1] /\ Top.at = "return"
      /\ stack \in [Proc -> Seq(FrameType)] /\ p0 \in Proc /\ Stacks /\ Stacks'
  BY <1>1, AtTop DEF GoodStack, Stacks, StackInv
<1>3. s[1].at \notin InBracket
  BY <1>2 DEF InBracket
<1>4. s = stack[p0] /\ t = Tail(s)
  OBVIOUS
<1>. HIDE DEF s, t
<1>5. t \in Seq(FrameType)
  BY <1>2, <1>4, OffTop
<1>6. StackBecomes(p0, t)
  BY <1>1, <1>2, <1>5 DEF StackBecomes
<1>. QED BY <1>1, <1>2, <1>3, <1>4, <1>6, TailCounts

LEMMA RequestReturnsCounts ==
  ASSUME StackInv, StackInv', CountMatches, RequestReturns
  PROVE  CountMatches'
<1>. DEFINE c == Top.block
            s == stack[p0]
            t == Tail(s)
<1>1. /\ At({"request"}, "return") /\ status' = status
      /\ IF Len(s) = 1 THEN stack' = [stack EXCEPT ![p0] = t]
         ELSE stack' = [stack EXCEPT ![p0] = [t EXCEPT ![1].block = c]]
  BY DEF RequestReturns
<1>2. /\ s \in Seq(FrameType) /\ s # <<>> /\ Top = s[1] /\ Top.at = "return" /\ c \in MemBlock
      /\ stack \in [Proc -> Seq(FrameType)] /\ p0 \in Proc /\ Stacks /\ Stacks'
      /\ GoodStack(p0, s)
  <2>1. /\ Top.at = "return" /\ Top.call \in {"request"} /\ p0 \in Proc /\ Stacks
        /\ GoodStack(p0, s) /\ s # <<>> /\ Top = s[1] /\ GoodFrame(p0, Top, InnerTop)
    BY <1>1, AtTop
  <2>2. c \in MemBlock
    BY <2>1 DEF GoodFrame
  <2>3. s \in Seq(FrameType)
    BY <2>1 DEF GoodStack
  <2>4. stack \in [Proc -> Seq(FrameType)] /\ Stacks'
    BY <2>1 DEF Stacks, StackInv
  <2>. QED BY <2>1, <2>2, <2>3, <2>4
<1>3. s[1].at \notin InBracket
  BY <1>2 DEF InBracket
<1>4. s = stack[p0] /\ t = Tail(s)
  OBVIOUS
<1>. HIDE DEF c, s, t
<1>5. t \in Seq(FrameType) /\ (t = <<>> <=> Len(s) = 1)
  BY <1>2, <1>4, OffTop
<1>6. CASE Len(s) = 1
  <2>1. StackBecomes(p0, t)
    BY <1>1, <1>2, <1>5, <1>6 DEF StackBecomes
  <2>. QED BY <1>1, <1>2, <1>3, <1>4, <2>1, TailCounts
<1>7. CASE Len(s) # 1
  <2>. DEFINE h == t[1]
              g == [h EXCEPT !.block = c]
              u == [t EXCEPT ![1] = g]
  <2>1. t # <<>> /\ h \in FrameType
    <3>1. t # <<>> /\ 1 \in 1..Len(t)
      BY <1>5, <1>7, EmptySeq
    <3>. QED BY <1>5, <3>1, ElementOfSeq
  <2>2. g \in FrameType /\ g.at = h.at
    BY <1>2, <2>1 DEF FrameType
  <2>3. stack' = [stack EXCEPT ![p0] = u]
    BY <1>1, <1>5, <1>7, <2>1
  <2>4. u = [t EXCEPT ![1] = g] /\ h = t[1]
    OBVIOUS
  <2>. HIDE DEF h, g, u
  <2>5. u \in Seq(FrameType)
    BY <1>5, <2>1, <2>2, <2>4, NextOnTop
  <2>6. StackBecomes(p0, u)
    BY <1>2, <2>3, <2>5 DEF StackBecomes
  <2>7. \A n \in Nat : Opened(u, n) <=> Opened(t, n)
    <3>1. /\ Opened(u, Len(t) - 1) <=> g.at \in InBracket
          /\ Opened(t, Len(t) - 1) <=> t[1].at \in InBracket
          /\ \A n \in Nat : n # Len(t) - 1 => (Opened(u, n) <=> Opened(t, n))
      BY <1>5, <2>1, <2>2, <2>4, OpenedNext
    <3>. QED BY <2>2, <2>4, <3>1
  <2>8. \A n \in Nat : Opened(t, n) <=> Opened(s, n)
    BY <1>2, <1>3, <1>4, OpenedTail
  <2>9. \A n \in Nat : Opened(u, n) <=> Opened(s, n)
    BY <2>7, <2>8
  <2>. QED BY <1>1, <1>2, <1>4, <2>6, <2>9, StackCounts
<1>. QED BY <1>6, <1>7

LEMMA SwitchCounts ==
  ASSUME StackInv, StackInv', QueueInv, CountMatches, Switch
  PROVE  CountMatches'
<1>. DEFINE q == p0'
            s == stack[q]
            t == Resumed(q)
<1>1. status' = status /\ q \in Proc /\ Stacks /\ Stacks'
  BY SwitchEffect DEF Switch, StackInv
<1>2. /\ StackBecomes(q, t)
      /\ kernel.state[q] = "new" => s = <<>>
      /\ kernel.state[q] # "new" =>
            s \in Seq(FrameType) /\ s # <<>> /\ s[1].call = "switch" /\ s[1].at = "switch"
  <2>1. /\ StackBecomes(q, t)
        /\ kernel.state[q] = "new" => s = <<>>
        /\ kernel.state[q] # "new" => s \in Seq(FrameType) /\ s # <<>> /\ s[1].call = "switch"
    BY SwitchStack
  <2>2. ASSUME kernel.state[q] # "new" PROVE s[1].at = "switch"
    <3>1. GoodStack(q, s) /\ 1 \in 1..Len(s)
      BY <1>1, <2>1, <2>2, EmptySeq DEF Stacks
    <3>2. GoodFrame(q, s[1], 1 < Len(s))
      BY <3>1 DEF GoodStack
    <3>. QED BY <2>1, <2>2, <3>2 DEF GoodFrame, PointsOf
  <2>. QED BY <2>1, <2>2
<1>3. s = stack[q] /\ t = IF kernel.state[q] = "new" THEN <<>> ELSE Tail(s)
  BY DEF Resumed
<1>. HIDE DEF q, s, t
<1>4. CASE kernel.state[q] = "new"
  <2>1. \A n \in Nat : Opened(t, n) <=> Opened(s, n)
    BY <1>2, <1>3, <1>4
  <2>. QED BY <1>1, <1>2, <1>3, <2>1, StackCounts
<1>5. CASE kernel.state[q] # "new"
  <2>1. s[1].at \notin InBracket
    BY <1>2, <1>5 DEF InBracket
  <2>2. s \in Seq(FrameType) /\ s # <<>> /\ t = Tail(s)
    BY <1>2, <1>3, <1>5
  <2>. QED BY <1>1, <1>2, <1>3, <2>1, <2>2, TailCounts
<1>. QED BY <1>4, <1>5

LEMMA WithinCounts ==
  ASSUME StackInv, StackInv', CountMatches,
         \/ Begin \/ Block \/ BlockSetsState \/ BlockEnqueues \/ UnblockStays
         \/ Request \/ RequestTakes \/ RequestCloses \/ RequestRetries
         \/ Release \/ ReleaseUnblocks \/ ReleaseReadies
         \/ Send \/ SendUnblocks \/ SendFinds \/ SendRemoves \/ SendReadies \/ Receive
         \/ UartDrops \/ UartReturns
  PROVE  CountMatches'
<1>0. /\ \A next : Trap1(next) => /\ status' = status + 1
                                  /\ \E x \in BOOLEAN :
                                        stack' = [stack EXCEPT ![p0][1].at = next, ![p0][1].first = x]
      /\ \A next : AtomicUp(next) => /\ status' = status + 1
                                     /\ \E x \in BOOLEAN :
                                           stack' = [stack EXCEPT ![p0][1].at = next,
                                                                  ![p0][1].first = x]
      /\ AtomicDown \/ Trap2 => status' = IF status > 0 THEN status - 1 ELSE 0
  <2>1. (status = 0) \in BOOLEAN
    OBVIOUS
  <2>2. ASSUME NEW next, Trap1(next)
        PROVE  /\ status' = status + 1
               /\ \E x \in BOOLEAN : stack' = [stack EXCEPT ![p0][1].at = next, ![p0][1].first = x]
    BY <2>2 DEF Trap1
  <2>3. ASSUME NEW next, AtomicUp(next)
        PROVE  /\ status' = status + 1
               /\ \E x \in BOOLEAN : stack' = [stack EXCEPT ![p0][1].at = next, ![p0][1].first = x]
    <3>1. stack' = [stack EXCEPT ![p0][1].at = next, ![p0][1].first = (status = 0)]
      BY <2>3 DEF AtomicUp
    <3>. QED BY <2>1, <2>3, <3>1 DEF AtomicUp
  <2>. QED BY <2>2, <2>3 DEF AtomicDown, Trap2
<1>1. ASSUME NEW calls, NEW from \in Outside, At(calls, from), NEW next \in InBracket,
             Trap1(next) \/ AtomicUp(next)
      PROVE  CountMatches'
  <2>1. Counted(from, next)
    BY <1>0, <1>1 DEF Counted, InBracket, Outside
  <2>. QED BY <1>0, <1>1, <2>1, GoesOnCounts
<1>2. ASSUME NEW calls, NEW from \in InBracket, At(calls, from), NEW next \in InBracket,
             GoTo(next), status' = status
      PROVE  CountMatches'
  <2>1. Counted(from, next)
    BY <1>2 DEF Counted
  <2>. QED BY <1>2, <2>1, GoesOnCounts
<1>3. ASSUME NEW calls, NEW from \in InBracket, At(calls, from), NEW next \in Outside,
             GoTo(next), AtomicDown \/ Trap2
      PROVE  CountMatches'
  <2>1. Counted(from, next)
    BY <1>0, <1>3 DEF Counted, InBracket, Outside
  <2>. QED BY <1>3, <2>1, GoesOnCounts
<1>4. /\ {"body", "take", "taken", "state", "queue", "queued", "find", "remove", "ready", "stay",
          "yield", "deliver", "finish"} \subseteq InBracket
      /\ {"up", "block", "retry", "unblock", "return"} \subseteq Outside
  BY DEF InBracket, Outside
<1>5. CASE Begin
  BY <1>1, <1>4, <1>5 DEF Begin
<1>6. CASE Block
  BY <1>1, <1>4, <1>6 DEF Block
<1>7. CASE BlockSetsState
  BY <1>2, <1>4, <1>7 DEF BlockSetsState
<1>8. CASE BlockEnqueues
  BY <1>2, <1>4, <1>8 DEF BlockEnqueues
<1>9. CASE UnblockStays
  BY <1>3, <1>4, <1>9 DEF UnblockStays
<1>10. CASE Request
  <2>1. CASE available = <<>>
    BY <1>3, <1>4, <1>10, <2>1 DEF Request
  <2>2. CASE available # <<>>
    <3>. DEFINE c == Head(available)
    <3>1. /\ At({"request"}, "body") /\ status' = status
          /\ stack' = [stack EXCEPT ![p0][1].at = "take", ![p0][1].block = c]
      BY <1>10, <2>2 DEF Request
    <3>2. c \in MemBlock
      BY <2>2, HeadTailProperties, StackOf DEF Typed
    <3>3. Counted("body", "take")
      BY <1>4, <3>1 DEF Counted
    <3>. HIDE DEF c
    <3>. QED BY <1>4, <3>1, <3>2, <3>3, GoesOnCounts
  <2>. QED BY <2>1, <2>2
<1>11. CASE RequestTakes
  BY <1>2, <1>4, <1>11 DEF RequestTakes
<1>12. CASE RequestCloses
  BY <1>3, <1>4, <1>12 DEF RequestCloses
<1>13. CASE RequestRetries
  BY <1>1, <1>4, <1>13 DEF RequestRetries
<1>14. CASE Release
  BY <1>3, <1>4, <1>14 DEF Release
<1>15. CASE ReleaseUnblocks
  BY <1>1, <1>4, <1>15 DEF ReleaseUnblocks
<1>16. CASE ReleaseReadies
  <2>1. \E x \in {"stay", "yield"} : GoTo(x)
    BY <1>16 DEF ReleaseReadies, Outranked
  <2>. QED BY <1>2, <1>4, <1>16, <2>1 DEF ReleaseReadies
<1>17. CASE Send
  <2>1. \E x \in {"unblock", "return"} : GoTo(x)
    BY <1>17 DEF Send
  <2>. QED BY <1>3, <1>4, <1>17, <2>1 DEF Send
<1>18. CASE SendUnblocks
  BY <1>1, <1>4, <1>18 DEF SendUnblocks
<1>19. CASE SendFinds
  <2>1. \E x \in {"stay", "remove"} : GoTo(x)
    BY <1>19 DEF SendFinds
  <2>. QED BY <1>2, <1>4, <1>19, <2>1 DEF SendFinds
<1>20. CASE SendRemoves
  BY <1>2, <1>4, <1>20 DEF SendRemoves
<1>21. CASE SendReadies
  <2>1. \E x \in {"stay", "yield"} : GoTo(x)
    BY <1>21 DEF SendReadies, Outranked
  <2>. QED BY <1>2, <1>4, <1>21, <2>1 DEF SendReadies
<1>22. CASE Receive
  <2>1. \E x \in {"block", "return"} : GoTo(x)
    BY <1>22 DEF Receive
  <2>. QED BY <1>3, <1>4, <1>22, <2>1 DEF Receive
<1>23. CASE UartDrops
  BY <1>3, <1>4, <1>23 DEF UartDrops
<1>24. CASE UartReturns
  BY <1>3, <1>4, <1>24 DEF UartReturns
<1>. QED BY <1>5, <1>6, <1>7, <1>8, <1>9, <1>10, <1>11, <1>12, <1>13, <1>14, <1>15, <1>16,
            <1>17, <1>18, <1>19, <1>20, <1>21, <1>22, <1>23, <1>24

LEMMA StepCounts ==
  ASSUME PreemptIInv, PreemptIInv', CountMatches, [Next]_vars
  PROVE  CountMatches'
<1>0. StackInv /\ StackInv' /\ QueueInv
  BY DEF PreemptIInv
<1>d. /\ {"switch", "request", "receive", "uart", "release", "send"} \subseteq HandlerCall
      /\ {"return", "retry", "deliver", "finish"} \subseteq InBracket \cup Outside
      /\ {"yield", "queued", "body", "deliver", "finish"} \subseteq InBracket
      /\ "return" \notin InBracket /\ "retry" \notin InBracket
  BY DEF HandlerCall, InBracket, Outside
<1>1. CASE UNCHANGED vars
  BY <1>1 DEF vars, CountMatches, OpenBrackets
<1>2. CASE CallYield \/ CallRequest \/ CallReceive \/ SerialInterrupt
  BY <1>0, <1>2, <1>d, BeginsCounts DEF CallYield, CallRequest, CallReceive, SerialInterrupt
<1>3. ASSUME NEW c \in MemBlock, CallRelease(c) \/ CallSend(c) PROVE CountMatches'
  BY <1>0, <1>3, <1>d, BeginsCounts DEF CallRelease, CallSend
<1>4. CASE UnblockYields
  <2>1. At(HandlerCall, "yield") /\ CallFrom("return", Frame("switch", "switch", NoBlock))
    BY <1>4 DEF UnblockYields
  <2>2. Counted("yield", "return")
    BY <1>4, <1>d DEF UnblockYields, Trap2, Counted
  <2>. QED BY <1>0, <1>d, <2>1, <2>2, CallsCount
<1>5. CASE BlockReleasesProcessor
  <2>. DEFINE next == IF Top.call = "request" THEN "retry" ELSE "return"
  <2>1. At(HandlerCall, "queued") /\ CallFrom(next, Frame("switch", "switch", NoBlock))
    BY <1>5 DEF BlockReleasesProcessor
  <2>2. Counted("queued", next) /\ next \in InBracket \cup Outside
    BY <1>5, <1>d DEF BlockReleasesProcessor, Trap2, Counted
  <2>. HIDE DEF next
  <2>. QED BY <1>0, <1>d, <2>1, <2>2, CallsCount
<1>6. CASE UartRequests
  <2>1. At({"uart"}, "body") /\ CallFrom("deliver", Frame("request", "up", NoBlock))
    BY <1>6 DEF UartRequests
  <2>2. Counted("body", "deliver")
    BY <1>6, <1>d DEF UartRequests, Counted
  <2>. QED BY <1>0, <1>d, <2>1, <2>2, CallsCount
<1>7. CASE UartSends
  <2>. DEFINE c == Top.block
  <2>1. At({"uart"}, "deliver") /\ CallFrom("finish", Frame("send", "up", c))
    BY <1>7 DEF UartSends
  <2>2. Counted("deliver", "finish")
    BY <1>7, <1>d DEF UartSends, Counted
  <2>3. c \in MemBlock \cup {NoBlock}
    BY <1>0, <2>1, AtTop DEF FrameType
  <2>. HIDE DEF c
  <2>. QED BY <1>0, <1>d, <2>1, <2>2, <2>3, CallsCount
<1>8. CASE Return \/ RequestReturns \/ Switch
  BY <1>0, <1>8, ReturnCounts, RequestReturnsCounts, SwitchCounts
<1>9. CASE \/ Begin \/ Block \/ BlockSetsState \/ BlockEnqueues \/ UnblockStays
           \/ Request \/ RequestTakes \/ RequestCloses \/ RequestRetries
           \/ Release \/ ReleaseUnblocks \/ ReleaseReadies
           \/ Send \/ SendUnblocks \/ SendFinds \/ SendRemoves \/ SendReadies \/ Receive
           \/ UartDrops \/ UartReturns
  BY <1>0, <1>9, WithinCounts
<1>. QED BY <1>1, <1>2, <1>3, <1>4, <1>5, <1>6, <1>7, <1>8, <1>9 DEF Next

LEMMA InitCounts == Init => CountMatches
<1>1. SUFFICES ASSUME Init PROVE CountMatches
  OBVIOUS
<1>2. Stacks /\ status = 0 /\ \A p \in Proc : stack[p] = <<>>
  BY <1>1, InitIInv DEF Init, PreemptIInv, StackInv
<1>3. \A p \in Proc, n \in Nat : ~Opened(stack[p], n)
  BY <1>2 DEF Opened
<1>4. OpenBrackets = {}
  BY <1>2, <1>3, OpenBracketsAre
<1>. QED BY <1>2, <1>4, FS_EmptySet DEF CountMatches

\* atomic_status is the number of brackets that are open, those of the
\* processes that were left by a switch included.
THEOREM CountIsOpenBrackets == Spec => []CountMatches
<1>1. PreemptIInv /\ PreemptIInv' /\ CountMatches /\ [Next]_vars => CountMatches'
  BY StepCounts
<1>. QED BY <1>1, InitCounts, PreemptInductiveInvariant, PTL DEF Spec
=============================================================================
