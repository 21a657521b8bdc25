---------------------------- MODULE KernelProofs ----------------------------
(***************************************************************************)
(* What the operators of module Kernel return and preserve, for any set of *)
(* processes and any priorities.                                           *)
(***************************************************************************)
EXTENDS Kernel, SequenceTheorems, WellFoundedInduction, TLAPS

-----------------------------------------------------------------------------
(* Numbers. *)

\* Every non-empty set of natural numbers has a least element.
LEMMA LeastNat ==
  ASSUME NEW T \in SUBSET Nat, T # {}
  PROVE  \E x \in T : \A y \in T : x <= y
<1>. DEFINE R == OpToRel(<, Nat)
<1>1. IsWellFoundedOn(R, Nat)
  BY NatLessThanWellFounded, Zenon
<1>. HIDE DEF R
<1>2. PICK x \in T : \A y \in T : <<y, x>> \notin R
  BY <1>1, WFMin, Zenon
<1>3. ASSUME NEW y \in T, y < x PROVE <<y, x>> \in R
  <2>. DEFINE e == <<y, x>>
  <2>1. e \in Nat \X Nat /\ e[1] < e[2]
    BY <1>3
  <2>. HIDE DEF e
  <2>2. e \in R
    BY <2>1, Zenon DEF R, OpToRel
  <2>. QED BY <2>2 DEF e
<1>4. \A y \in T : ~(y < x)
  BY <1>2, <1>3, Zenon
<1>. QED BY <1>4

\* Induction, on the set of the numbers that have a property.
LEMMA InductionOnSet ==
  ASSUME NEW T, 0 \in T, \A n \in Nat : n \in T => n + 1 \in T
  PROVE  Nat \subseteq T
<1>. DEFINE U == Nat \ T
<1>1. SUFFICES ASSUME U # {} PROVE FALSE
  OBVIOUS
<1>2. PICK x \in U : \A y \in U : x <= y
  BY <1>1, LeastNat
<1>3. x # 0 /\ x - 1 \in Nat /\ x - 1 \notin U
  BY <1>2
<1>4. x - 1 \in T /\ (x - 1) + 1 = x
  BY <1>3
<1>. QED BY <1>2, <1>3, <1>4

-----------------------------------------------------------------------------
(* Sequences. *)

\* Taking position i out of a sequence shifts what follows it by one.
LEMMA RemoveAtProperties ==
  ASSUME NEW S, NEW q \in Seq(S), NEW i \in DOMAIN q
  PROVE  /\ RemoveAt(q, i) \in Seq(S)
         /\ Len(RemoveAt(q, i)) = Len(q) - 1
         /\ \A j \in 1..(Len(q) - 1) :
               RemoveAt(q, i)[j] = IF j < i THEN q[j] ELSE q[j + 1]
<1>. DEFINE s == SubSeq(q, 1, i - 1)
            t == SubSeq(q, i + 1, Len(q))
<1>1. /\ Len(q) \in Nat /\ i \in 1..Len(q)
      /\ \A j \in 1..Len(q) : q[j] \in S
  BY LenProperties, ElementOfSeq
<1>2. /\ s \in Seq(S) /\ Len(s) = i - 1
      /\ \A j \in 1..(i - 1) : s[j] = q[j]
  <2>1. /\ i - 1 \in Int
        /\ \A j \in 1..(i - 1) : q[j] \in S
    BY <1>1
  <2>2. /\ s \in Seq(S)
        /\ Len(s) = IF 1 <= i - 1 THEN (i - 1) - 1 + 1 ELSE 0
        /\ \A j \in 1..((i - 1) - 1 + 1) : s[j] = q[1 + j - 1]
    BY <2>1, SubSeqProperties
  <2>. QED BY <2>2, <1>1
<1>3. /\ t \in Seq(S) /\ Len(t) = Len(q) - i
      /\ \A j \in 1..(Len(q) - i) : t[j] = q[i + j]
  <2>1. /\ i + 1 \in Int /\ Len(q) \in Int
        /\ \A j \in (i + 1)..Len(q) : q[j] \in S
    BY <1>1
  <2>2. /\ t \in Seq(S)
        /\ Len(t) = IF i + 1 <= Len(q) THEN Len(q) - (i + 1) + 1 ELSE 0
        /\ \A j \in 1..(Len(q) - (i + 1) + 1) : t[j] = q[(i + 1) + j - 1]
    BY <2>1, SubSeqProperties
  <2>. QED BY <2>2, <1>1
<1>. HIDE DEF s, t
<1>4. /\ s \o t \in Seq(S)
      /\ Len(s \o t) = Len(s) + Len(t)
      /\ \A j \in 1..(Len(s) + Len(t)) :
            (s \o t)[j] = IF j <= Len(s) THEN s[j] ELSE t[j - Len(s)]
  BY <1>2, <1>3, ConcatProperties
<1>5. RemoveAt(q, i) = s \o t
  BY DEF RemoveAt, s, t
<1>. DEFINE r == s \o t
<1>6. Len(r) = Len(q) - 1
  BY <1>1, <1>2, <1>3, <1>4
<1>. HIDE DEF r
<1>7. ASSUME NEW j \in 1..(Len(q) - 1)
      PROVE  r[j] = IF j < i THEN q[j] ELSE q[j + 1]
  <2>1. r[j] = IF j <= i - 1 THEN s[j] ELSE t[j - (i - 1)]
    <3>1. Len(s) = i - 1 /\ j \in 1..(Len(s) + Len(t))
      BY <1>1, <1>2, <1>3
    <3>2. r[j] = IF j <= Len(s) THEN s[j] ELSE t[j - Len(s)]
      BY <1>4, <3>1 DEF r
    <3>. QED BY <3>1, <3>2
  <2>2. CASE j < i
    BY <1>1, <1>2, <2>1, <2>2
  <2>3. CASE ~(j < i)
    <3>1. j - (i - 1) \in 1..(Len(q) - i) /\ i + (j - (i - 1)) = j + 1
      BY <1>1, <2>3
    <3>2. t[j - (i - 1)] = q[i + (j - (i - 1))]
      BY <1>3, <3>1
    <3>3. r[j] = t[j - (i - 1)]
      BY <1>1, <2>1, <2>3
    <3>. QED BY <2>3, <3>1, <3>2, <3>3
  <2>. QED BY <2>2, <2>3
<1>. QED
  BY <1>4, <1>5, <1>6, <1>7 DEF r

\* Without takes one process out of a list and disturbs no other.
LEMMA WithoutProperties ==
  ASSUME NEW S, NEW q \in Seq(S), IsInjective(q), NEW p
  PROVE  /\ Without(q, p) \in Seq(S)
         /\ IsInjective(Without(q, p))
         /\ \A x : Contains(Without(q, p), x) <=> Contains(q, x) /\ x # p
<1>0. Len(q) \in Nat /\ DOMAIN q = 1..Len(q)
  BY LenProperties
<1>1. CASE ~Contains(q, p)
  BY <1>1 DEF Without
<1>2. CASE Contains(q, p)
  <2>. DEFINE i == CHOOSE i \in DOMAIN q : q[i] = p
              r == RemoveAt(q, i)
  <2>1. i \in DOMAIN q /\ q[i] = p
    BY <1>0, <1>2 DEF Contains
  <2>2. Without(q, p) = r
    BY <1>2 DEF Without
  <2>. HIDE DEF i
  <2>3. /\ r \in Seq(S) /\ Len(r) = Len(q) - 1
        /\ \A j \in 1..(Len(q) - 1) : r[j] = IF j < i THEN q[j] ELSE q[j + 1]
    BY <2>1, RemoveAtProperties
  <2>. HIDE DEF r
  <2>4. Len(r) \in Nat /\ DOMAIN r = 1..Len(r)
    BY <2>3, LenProperties
  <2>5. IsInjective(r)
    <3>1. SUFFICES ASSUME NEW m \in 1..Len(r), NEW n \in 1..Len(r), r[m] = r[n]
                   PROVE  m = n
      BY <2>4 DEF IsInjective
    <3>. DEFINE shift(j) == IF j < i THEN j ELSE j + 1
    <3>2. /\ shift(m) \in 1..Len(q) /\ r[m] = q[shift(m)]
          /\ shift(n) \in 1..Len(q) /\ r[n] = q[shift(n)]
      BY <1>0, <2>1, <2>3
    <3>3. shift(m) = shift(n)
      BY <1>0, <3>1, <3>2 DEF IsInjective
    <3>. QED BY <1>0, <2>1, <2>4, <3>3
  <2>6. ASSUME NEW x
        PROVE  Contains(r, x) <=> Contains(q, x) /\ x # p
    <3>1. ASSUME Contains(r, x) PROVE Contains(q, x) /\ x # p
      <4>1. PICK j \in 1..Len(r) : r[j] = x
        BY <3>1 DEF Contains
      <4>2. CASE j < i
        BY <1>0, <2>1, <2>3, <2>4, <4>1, <4>2 DEF Contains, IsInjective
      <4>3. CASE ~(j < i)
        BY <1>0, <2>1, <2>3, <2>4, <4>1, <4>3 DEF Contains, IsInjective
      <4>. QED BY <4>2, <4>3
    <3>2. ASSUME Contains(q, x), x # p PROVE Contains(r, x)
      <4>1. PICK j \in 1..Len(q) : q[j] = x
        BY <3>2 DEF Contains
      <4>2. CASE j < i
        <5>1. j \in 1..Len(r) /\ r[j] = x
          BY <1>0, <2>1, <2>3, <2>4, <4>1, <4>2
        <5>. QED BY <5>1 DEF Contains
      <4>3. CASE j > i
        <5>1. j - 1 \in 1..Len(r) /\ r[j - 1] = x
          BY <1>0, <2>1, <2>3, <2>4, <4>1, <4>3
        <5>. QED BY <5>1 DEF Contains
      <4>. QED BY <1>0, <2>1, <3>2, <4>1, <4>2, <4>3
    <3>. QED BY <3>1, <3>2
  <2>. QED BY <2>2, <2>3, <2>5, <2>6
<1>. QED BY <1>1, <1>2

LEMMA AppendContains ==
  ASSUME NEW S, NEW q \in Seq(S), NEW p \in S
  PROVE  /\ Append(q, p) \in Seq(S)
         /\ \A x : Contains(Append(q, p), x) <=> Contains(q, x) \/ x = p
         /\ IsInjective(q) /\ ~Contains(q, p) => IsInjective(Append(q, p))
<1>. DEFINE r == Append(q, p)
<1>1. /\ Len(q) \in Nat /\ DOMAIN q = 1..Len(q)
      /\ r \in Seq(S) /\ Len(r) = Len(q) + 1 /\ DOMAIN r = 1..(Len(q) + 1)
      /\ \A j \in 1..Len(q) : r[j] = q[j]
      /\ r[Len(q) + 1] = p
  BY LenProperties, AppendProperties
<1>. HIDE DEF r
<1>2. ASSUME NEW x PROVE Contains(r, x) <=> Contains(q, x) \/ x = p
  <2>1. ASSUME Contains(r, x) PROVE Contains(q, x) \/ x = p
    BY <1>1, <2>1 DEF Contains
  <2>2. ASSUME Contains(q, x) PROVE Contains(r, x)
    <3>1. PICK j \in 1..Len(q) : q[j] = x
      BY <2>2 DEF Contains
    <3>2. j \in 1..Len(r) /\ r[j] = x
      BY <1>1, <3>1
    <3>. QED BY <3>2 DEF Contains
  <2>3. Contains(r, p)
    <3>1. Len(r) \in 1..Len(r) /\ r[Len(r)] = p
      BY <1>1
    <3>. QED BY <3>1 DEF Contains
  <2>. QED BY <2>1, <2>2, <2>3
<1>3. ASSUME IsInjective(q), ~Contains(q, p) PROVE IsInjective(r)
  <2>1. SUFFICES ASSUME NEW m \in 1..(Len(q) + 1), NEW n \in 1..(Len(q) + 1),
                        r[m] = r[n]
                 PROVE  m = n
    BY <1>1 DEF IsInjective
  <2>2. \A j \in 1..Len(q) : r[j] # p
    BY <1>1, <1>3 DEF Contains
  <2>. QED BY <1>1, <1>3, <2>1, <2>2 DEF IsInjective
<1>. QED BY <1>1, <1>2, <1>3 DEF r

\* A queue q of distinct members of S is h followed by t.
HeadAndTail(S, q, h, t) ==
    /\ h \in S /\ Contains(q, h)
    /\ t \in Seq(S) /\ IsInjective(t)
    /\ \A x : Contains(t, x) <=> Contains(q, x) /\ x # h

LEMMA TailContains ==
  ASSUME NEW S, NEW q \in Seq(S), q # <<>>, IsInjective(q)
  PROVE  HeadAndTail(S, q, Head(q), Tail(q))
<1>. DEFINE r == Tail(q)
<1>1. /\ Len(q) \in Nat \ {0} /\ DOMAIN q = 1..Len(q)
      /\ Head(q) = q[1] /\ Head(q) \in S
      /\ r \in Seq(S) /\ Len(r) = Len(q) - 1 /\ DOMAIN r = 1..(Len(q) - 1)
      /\ \A j \in 1..(Len(q) - 1) : r[j] = q[j + 1]
  BY LenProperties, EmptySeq, HeadTailProperties
<1>. HIDE DEF r
<1>2. IsInjective(r)
  <2>1. SUFFICES ASSUME NEW m \in 1..(Len(q) - 1), NEW n \in 1..(Len(q) - 1),
                        r[m] = r[n]
                 PROVE  m = n
    BY <1>1 DEF IsInjective
  <2>2. /\ m + 1 \in 1..Len(q) /\ r[m] = q[m + 1]
        /\ n + 1 \in 1..Len(q) /\ r[n] = q[n + 1]
    BY <1>1
  <2>3. m + 1 = n + 1
    BY <1>1, <2>1, <2>2 DEF IsInjective
  <2>. QED BY <1>1, <2>3
<1>3. ASSUME NEW x PROVE Contains(r, x) <=> Contains(q, x) /\ x # Head(q)
  <2>1. ASSUME Contains(r, x) PROVE Contains(q, x) /\ x # Head(q)
    <3>1. PICK j \in 1..(Len(q) - 1) : q[j + 1] = x
      BY <1>1, <2>1 DEF Contains
    <3>2. j + 1 \in 1..Len(q) /\ 1 \in 1..Len(q) /\ j + 1 # 1
      BY <1>1
    <3>. QED BY <1>1, <3>1, <3>2 DEF Contains, IsInjective
  <2>2. ASSUME Contains(q, x), x # Head(q) PROVE Contains(r, x)
    <3>1. PICK j \in 1..Len(q) : q[j] = x
      BY <2>2 DEF Contains
    <3>2. j - 1 \in 1..Len(r) /\ r[j - 1] = x
      BY <1>1, <2>2, <3>1
    <3>. QED BY <3>2 DEF Contains
  <2>. QED BY <2>1, <2>2
<1>4. Contains(q, Head(q))
  BY <1>1 DEF Contains
<1>. QED BY <1>1, <1>2, <1>3, <1>4 DEF r, HeadAndTail

LEMMA NotEmptyContains ==
  ASSUME NEW S, NEW q \in Seq(S), NEW p, Contains(q, p)
  PROVE  q # <<>>
BY EmptySeq DEF Contains
-----------------------------------------------------------------------------
(* The queues of the kernel. *)

LEMMA QueueOfKind ==
  ASSUME NEW s \in ProcState
  PROVE  QueueOf(s) \in Kind
BY DEF ProcState, QueueOf, Kind, BlockType

LEMMA QueueIsSeq ==
  ASSUME NEW k \in KernelType, NEW kind \in Kind, NEW l \in Level
  PROVE  k.queue[kind][l] \in Seq(Proc)
BY DEF KernelType

\* The fields of a kernel record, and what replacing one of them gives.
LEMMA KernelFields ==
  ASSUME NEW k \in KernelType
  PROVE  /\ k.running \in Proc \cup {Main, NoProc}
         /\ k.state \in [Proc -> ProcState]
         /\ k.priority \in [Proc -> Level]
         /\ k.queue \in [Kind -> [Level -> Seq(Proc)]]
BY DEF KernelType

LEMMA KernelUpdate ==
  ASSUME NEW k \in KernelType
  PROVE  /\ \A x \in Proc \cup {Main, NoProc} : LET c == [k EXCEPT !.running = x] IN
             c \in KernelType /\ c.running = x /\ c.state = k.state /\ c.priority = k.priority /\ c.queue = k.queue
         /\ \A Q \in [Kind -> [Level -> Seq(Proc)]] : LET c == [k EXCEPT !.queue = Q] IN
             c \in KernelType /\ c.running = k.running /\ c.state = k.state /\ c.priority = k.priority /\ c.queue = Q
         /\ \A f \in [Proc -> ProcState] : LET c == [k EXCEPT !.state = f] IN
             c \in KernelType /\ c.running = k.running /\ c.state = f /\ c.priority = k.priority /\ c.queue = k.queue
         /\ \A f \in [Proc -> Level] : LET c == [k EXCEPT !.priority = f] IN
             c \in KernelType /\ c.running = k.running /\ c.state = k.state /\ c.priority = f /\ c.queue = k.queue
BY DEF KernelType

\* The kernel with one list replaced.
PutQueue(k, kind, lev, s) == [k EXCEPT !.queue[kind][lev] = s]

LEMMA PutQueueProperties ==
  ASSUME NEW k \in KernelType, NEW kind \in Kind, NEW lev \in Level, NEW s \in Seq(Proc)
  PROVE  LET c == PutQueue(k, kind, lev, s)
         IN  /\ c \in KernelType
             /\ c.running = k.running /\ c.state = k.state /\ c.priority = k.priority
             /\ \A kd \in Kind, l \in Level : c.queue[kd][l] =
                   IF kd = kind /\ l = lev THEN s ELSE k.queue[kd][l]
<1>. DEFINE c == PutQueue(k, kind, lev, s)
            f == [k.queue[kind] EXCEPT ![lev] = s]
            Q == [k.queue EXCEPT ![kind] = f]
<1>1. k.queue \in [Kind -> [Level -> Seq(Proc)]] /\ k.queue[kind] \in [Level -> Seq(Proc)]
  BY KernelFields
<1>2. /\ f \in [Level -> Seq(Proc)]
      /\ \A l \in Level : f[l] = IF l = lev THEN s ELSE k.queue[kind][l]
  BY <1>1
<1>3. c = [k EXCEPT !.queue = Q]
  BY DEF PutQueue
<1>. HIDE DEF f
<1>4. /\ Q \in [Kind -> [Level -> Seq(Proc)]]
      /\ \A kd \in Kind, l \in Level :
            Q[kd][l] = IF kd = kind /\ l = lev THEN s ELSE k.queue[kd][l]
  BY <1>1, <1>2
<1>. HIDE DEF Q
<1>. QED BY <1>3, <1>4, KernelUpdate

LEMMA FiledContains ==
  ASSUME NEW k, NEW out, Filed(k, out), NEW kind \in Kind, NEW l \in Level,
         NEW p \in Proc, Contains(k.queue[kind][l], p)
  PROVE  p \notin out /\ QueueOf(k.state[p]) = kind /\ k.priority[p] = l
BY DEF Filed, InQueue

\* What Filed says of one list.
FiledAt(k, out, kind, l) ==
    /\ IsInjective(k.queue[kind][l])
    /\ \A p \in Proc : Contains(k.queue[kind][l], p) <=>
          p \notin out /\ QueueOf(k.state[p]) = kind /\ k.priority[p] = l

LEMMA FiledEverywhere ==
  ASSUME NEW k, NEW out
  PROVE  Filed(k, out) <=> \A kind \in Kind, l \in Level : FiledAt(k, out, kind, l)
BY DEF Filed, FiledAt, InQueue

\* e is k after p, of none of its queues so far, has been put in queue "kind".
IsFiled(k, kind, p, out, e) ==
    /\ e \in KernelType /\ Filed(e, out \ {p})
    /\ e.running = k.running /\ e.state = k.state /\ e.priority = k.priority
    /\ \A kd \in Kind, l \in Level :
          kd # kind \/ l # k.priority[p] => e.queue[kd][l] = k.queue[kd][l]

\* A process outside every queue is enqueued where its state says: it leaves
\* the set of processes that are filed nowhere.
LEMMA EnqueueFiles ==
  ASSUME NEW k \in KernelType, NEW out, NEW p \in Proc, p \in out, Filed(k, out),
         NEW kind \in Kind, QueueOf(k.state[p]) = kind
  PROVE  IsFiled(k, kind, p, out, EnqueueProcess(k, kind, p))
<1>. DEFINE e == EnqueueProcess(k, kind, p)
            lev == k.priority[p]
            q == k.queue[kind][lev]
<1>1. k.state[p] \in ProcState /\ lev \in Level /\ kind \in Kind
  BY QueueOfKind DEF KernelType
<1>2. q \in Seq(Proc)
  BY <1>1, QueueIsSeq
<1>3. IsInjective(q) /\ ~Contains(q, p)
  BY <1>1 DEF Filed, InQueue
<1>4. /\ Append(q, p) \in Seq(Proc) /\ IsInjective(Append(q, p))
      /\ \A x : Contains(Append(q, p), x) <=> Contains(q, x) \/ x = p
  BY <1>2, <1>3, AppendContains
<1>5. e = PutQueue(k, kind, lev, Append(q, p))
  BY DEF EnqueueProcess, PutQueue
<1>. HIDE DEF e
<1>. DEFINE s == Append(q, p)
<1>10. s \in Seq(Proc) /\ e = PutQueue(k, kind, lev, s)
  BY <1>4, <1>5
<1>. HIDE DEF s, lev, q
<1>6. /\ e \in KernelType
      /\ e.running = k.running /\ e.state = k.state /\ e.priority = k.priority
      /\ \A kd \in Kind, l \in Level : e.queue[kd][l] =
            IF kd = kind /\ l = lev THEN s ELSE k.queue[kd][l]
  BY <1>1, <1>10, PutQueueProperties
<1>7. Filed(e, out \ {p})
  <2>1. SUFFICES ASSUME NEW kd \in Kind, NEW l \in Level
                 PROVE  /\ IsInjective(e.queue[kd][l])
                        /\ \A x \in Proc : Contains(e.queue[kd][l], x) <=>
                              /\ x \notin out \ {p}
                              /\ QueueOf(k.state[x]) = kd /\ k.priority[x] = l
    BY <1>6 DEF Filed, InQueue
  <2>2. /\ IsInjective(k.queue[kd][l])
        /\ \A x \in Proc : Contains(k.queue[kd][l], x) <=>
              x \notin out /\ QueueOf(k.state[x]) = kd /\ k.priority[x] = l
    BY DEF Filed, InQueue
  <2>3. CASE kd = kind /\ l = lev
    BY <1>4, <1>6, <2>2, <2>3 DEF q, s, lev
  <2>4. CASE ~(kd = kind /\ l = lev)
    BY <1>6, <2>2, <2>4 DEF lev
  <2>. QED BY <2>3, <2>4
<1>. QED BY <1>1, <1>6, <1>7 DEF e, lev, IsFiled

\* remove_process takes a filed process out, and empties no queue but its own.
LEMMA RemoveUnfiles ==
  ASSUME NEW k \in KernelType, NEW out, NEW p \in Proc, p \notin out,
         p # k.running, Filed(k, out)
  PROVE  LET r == RemoveProcess(k, p)
         IN  /\ r \in KernelType /\ Filed(r, out \cup {p})
             /\ r.running = k.running /\ r.state = k.state /\ r.priority = k.priority
             /\ \A kd \in Kind, l \in Level :
                   k.queue[kd][l] = <<>> => r.queue[kd][l] = <<>>
<1>. DEFINE r == RemoveProcess(k, p)
            kind == QueueOf(k.state[p])
            lev == k.priority[p]
            q == k.queue[kind][lev]
<1>1. k.state[p] \in ProcState /\ lev \in Level /\ kind \in Kind
  BY QueueOfKind DEF KernelType
<1>2. q \in Seq(Proc)
  BY <1>1, QueueIsSeq
<1>3. IsInjective(q) /\ Contains(q, p)
  BY <1>1 DEF Filed, InQueue
<1>4. /\ Without(q, p) \in Seq(Proc) /\ IsInjective(Without(q, p))
      /\ \A x : Contains(Without(q, p), x) <=> Contains(q, x) /\ x # p
  <2>. HIDE DEF q, r, kind, lev
  <2>. QED BY <1>2, <1>3, WithoutProperties
<1>5. r = PutQueue(k, kind, lev, Without(q, p))
  BY DEF RemoveProcess, PutQueue
<1>. HIDE DEF r
<1>. DEFINE s == Without(q, p)
<1>10. s \in Seq(Proc) /\ r = PutQueue(k, kind, lev, s)
  BY <1>4, <1>5
<1>. HIDE DEF s, kind, lev, q
<1>6. /\ r \in KernelType
      /\ r.running = k.running /\ r.state = k.state /\ r.priority = k.priority
      /\ \A kd \in Kind, l \in Level : r.queue[kd][l] =
            IF kd = kind /\ l = lev THEN s ELSE k.queue[kd][l]
  BY <1>1, <1>10, PutQueueProperties
<1>7. q # <<>>
  BY <1>2, <1>3, NotEmptyContains
<1>8. Filed(r, out \cup {p})
  <2>1. SUFFICES ASSUME NEW kd \in Kind, NEW l \in Level
                 PROVE  /\ IsInjective(r.queue[kd][l])
                        /\ \A x \in Proc : Contains(r.queue[kd][l], x) <=>
                              /\ x \notin out \cup {p}
                              /\ QueueOf(k.state[x]) = kd /\ k.priority[x] = l
    BY <1>6 DEF Filed, InQueue
  <2>2. /\ IsInjective(k.queue[kd][l])
        /\ \A x \in Proc : Contains(k.queue[kd][l], x) <=>
              x \notin out /\ QueueOf(k.state[x]) = kd /\ k.priority[x] = l
    BY DEF Filed, InQueue
  <2>3. CASE kd = kind /\ l = lev
    BY <1>4, <1>6, <2>2, <2>3 DEF q, s, lev, kind
  <2>4. CASE ~(kd = kind /\ l = lev)
    BY <1>6, <2>2, <2>4 DEF lev, kind
  <2>. QED BY <2>3, <2>4
<1>. QED BY <1>6, <1>7, <1>8 DEF q, r

\* Changing the state or the priority of a process that is in no queue leaves
\* the queues right.
LEMMA ChangeFiled ==
  ASSUME NEW k \in KernelType, NEW out, NEW p \in Proc, p \in out, Filed(k, out)
  PROVE  /\ \A s \in ProcState :
               LET c == [k EXCEPT !.state[p] = s]
               IN  c \in KernelType /\ Filed(c, out)
         /\ \A n \in Level :
               LET c == [k EXCEPT !.priority[p] = n]
               IN  c \in KernelType /\ Filed(c, out)
<1>1. ASSUME NEW s \in ProcState, NEW c, c = [k EXCEPT !.state[p] = s]
      PROVE  c \in KernelType /\ Filed(c, out)
  <2>. DEFINE f == [k.state EXCEPT ![p] = s]
  <2>1. f \in [Proc -> ProcState] /\ \A x \in Proc : x # p => f[x] = k.state[x]
    BY KernelFields
  <2>2. c = [k EXCEPT !.state = f]
    BY <1>1
  <2>. HIDE DEF f
  <2>3. /\ c \in KernelType
        /\ c.state = f /\ c.priority = k.priority /\ c.queue = k.queue
    BY <2>1, <2>2, KernelUpdate
  <2>. QED BY <2>1, <2>3 DEF Filed, InQueue
<1>2. ASSUME NEW n \in Level, NEW c, c = [k EXCEPT !.priority[p] = n]
      PROVE  c \in KernelType /\ Filed(c, out)
  <2>. DEFINE f == [k.priority EXCEPT ![p] = n]
  <2>1. f \in [Proc -> Level] /\ \A x \in Proc : x # p => f[x] = k.priority[x]
    BY KernelFields
  <2>2. c = [k EXCEPT !.priority = f]
    BY <1>2
  <2>. HIDE DEF f
  <2>3. /\ c \in KernelType
        /\ c.state = k.state /\ c.priority = f /\ c.queue = k.queue
    BY <2>1, <2>2, KernelUpdate
  <2>. QED BY <2>1, <2>3 DEF Filed, InQueue
<1>. QED BY <1>1, <1>2

LEMMA FirstLevelProperties ==
  ASSUME NEW k, NEW kind \in Kind, ~IsEmpty(k, kind),
         NEW f, f = FirstLevel(k, kind)
  PROVE  /\ f \in Level /\ k.queue[kind][f] # <<>>
         /\ \A m \in Level : m < f => k.queue[kind][m] = <<>>
<1>1. \E l \in Level : /\ k.queue[kind][l] # <<>>
                       /\ \A m \in Level : m < l => k.queue[kind][m] = <<>>
  <2>. DEFINE Full(l) == k.queue[kind][l] # <<>>
  <2>1. Full(0) \/ Full(1) \/ Full(2) \/ Full(3) \/ Full(4)
    BY DEF IsEmpty, Level
  <2>. HIDE DEF Full
  <2>2. \E l \in 0..4 : Full(l) /\ \A m \in 0..4 : m < l => ~Full(m)
    BY <2>1
  <2>. QED BY <2>2 DEF Full, Level
<1>. QED BY <1>1 DEF FirstLevel
-----------------------------------------------------------------------------
(* The processor. *)

\* Between two kernel calls: the live processes other than the running one
\* are filed, the running one is ready, and the null process has not been
\* lost or blocked.
Settled(k, dead) ==
    /\ k \in KernelType
    /\ Filed(k, dead \cup {k.running})
    /\ k.running \in Proc => k.running \notin dead /\ k.state[k.running] = "ready"
    /\ NullProc \notin dead /\ QueueOf(k.state[NullProc]) = "ready"

\* The running process outranks every ready one, or is their equal.
TopRuns(k) ==
    k.running \in Proc /\ NoneReadyAbove(k, k.priority[k.running])

LEMMA FiledIgnoresOthers ==
  ASSUME NEW k, NEW out, NEW x, x \notin Proc
  PROVE  Filed(k, out \cup {x}) <=> Filed(k, out)
BY DEF Filed

\* With every live process filed, Dispatch settles on a process of the first
\* non-empty level; there is one because of the null process.
LEMMA DispatchSettles ==
  ASSUME NEW k \in KernelType, NEW dead, Filed(k, dead),
         NullProc \notin dead, QueueOf(k.state[NullProc]) = "ready"
  PROVE  LET d == Dispatch(k)
         IN  Settled(d, dead) /\ TopRuns(d) /\ d.priority = k.priority
<1>. DEFINE d == Dispatch(k)
            l == FirstLevel(k, "ready")
            q == k.queue["ready"][l]
            p == Head(q)
<1>1. "ready" \in Kind
  BY DEF Kind, BlockType
<1>2. ~IsEmpty(k, "ready")
  <2>1. k.priority[NullProc] \in Level
    BY ProcAssumption DEF KernelType
  <2>2. Contains(k.queue["ready"][k.priority[NullProc]], NullProc)
    BY <1>1, <2>1, ProcAssumption DEF Filed, InQueue
  <2>. QED BY <1>1, <2>1, <2>2, QueueIsSeq, NotEmptyContains DEF IsEmpty
<1>3. l \in Level /\ q # <<>> /\ \A m \in Level : m < l => k.queue["ready"][m] = <<>>
  BY <1>1, <1>2, FirstLevelProperties
<1>4. q \in Seq(Proc) /\ IsInjective(q)
  BY <1>1, <1>3, QueueIsSeq DEF Filed
<1>5. /\ p \in Proc /\ Contains(q, p)
      /\ Tail(q) \in Seq(Proc) /\ IsInjective(Tail(q))
      /\ \A x : Contains(Tail(q), x) <=> Contains(q, x) /\ x # p
  <2>. HIDE DEF q, d, l
  <2>1. HeadAndTail(Proc, q, p, Tail(q))
    BY <1>3, <1>4, TailContains
  <2>. QED BY <2>1 DEF HeadAndTail
<1>6. p \notin dead /\ QueueOf(k.state[p]) = "ready" /\ k.priority[p] = l
  <2>. HIDE DEF p, q, d
  <2>. QED BY <1>1, <1>3, <1>5, FiledContains DEF q
<1>7. k.state[p] \in {"new", "ready"}
  BY <1>5, <1>6 DEF KernelType, ProcState, QueueOf
<1>. DEFINE f == [k.state EXCEPT ![p] = "ready"]
            k1 == PutQueue(k, "ready", l, Tail(q))
            k2 == [k1 EXCEPT !.running = p]
<1>8. d = [k2 EXCEPT !.state = f]
  <2>1. d = [k EXCEPT !.queue["ready"][l] = Tail(q), !.running = p,
                      !.state = [k.state EXCEPT
                          ![p] = IF k.state[p] = "new" THEN "ready" ELSE k.state[p]]]
    BY <1>2 DEF Dispatch
  <2>2. (IF k.state[p] = "new" THEN "ready" ELSE k.state[p]) = "ready"
    BY <1>7
  <2>. QED BY <2>1, <2>2 DEF PutQueue
<1>15. f \in [Proc -> ProcState]
  BY <1>5, KernelFields DEF ProcState
<1>. HIDE DEF d, l, q, p, f
<1>16. /\ k1 \in KernelType /\ k1.state = k.state /\ k1.priority = k.priority
       /\ \A kd \in Kind, m \in Level : k1.queue[kd][m] =
             IF kd = "ready" /\ m = l THEN Tail(q) ELSE k.queue[kd][m]
  <2>. DEFINE s == Tail(q)
  <2>1. s \in Seq(Proc) /\ k1 = PutQueue(k, "ready", l, s)
    BY <1>5
  <2>. HIDE DEF s, k1
  <2>2. /\ k1 \in KernelType /\ k1.state = k.state /\ k1.priority = k.priority
        /\ \A kd \in Kind, m \in Level : k1.queue[kd][m] =
              IF kd = "ready" /\ m = l THEN s ELSE k.queue[kd][m]
    BY <1>1, <1>3, <2>1, PutQueueProperties
  <2>. QED BY <2>2 DEF s
<1>. HIDE DEF k1
<1>17. /\ k2 \in KernelType /\ k2.running = p /\ k2.state = k.state
       /\ k2.priority = k.priority /\ k2.queue = k1.queue
  BY <1>5, <1>16, KernelUpdate
<1>. HIDE DEF k2
<1>9. /\ d \in KernelType /\ d.running = p /\ d.priority = k.priority
      /\ d.state = [k.state EXCEPT ![p] = "ready"]
      /\ \A kd \in Kind, m \in Level : d.queue[kd][m] =
            IF kd = "ready" /\ m = l THEN Tail(q) ELSE k.queue[kd][m]
  <2>1. /\ d \in KernelType /\ d.running = k2.running /\ d.state = f
        /\ d.priority = k2.priority /\ d.queue = k2.queue
    BY <1>8, <1>15, <1>17, KernelUpdate
  <2>. QED BY <2>1, <1>16, <1>17 DEF f
<1>10. \A x \in Proc : QueueOf(d.state[x]) = QueueOf(k.state[x])
  BY <1>6, <1>9 DEF KernelType, QueueOf
<1>11. Filed(d, dead \cup {p})
  <2>1. SUFFICES ASSUME NEW kd \in Kind, NEW m \in Level
                 PROVE  /\ IsInjective(d.queue[kd][m])
                        /\ \A x \in Proc : Contains(d.queue[kd][m], x) <=>
                              /\ x \notin dead \cup {p}
                              /\ QueueOf(k.state[x]) = kd /\ k.priority[x] = m
    BY <1>9, <1>10 DEF Filed, InQueue
  <2>2. /\ IsInjective(k.queue[kd][m])
        /\ \A x \in Proc : Contains(k.queue[kd][m], x) <=>
              x \notin dead /\ QueueOf(k.state[x]) = kd /\ k.priority[x] = m
    BY DEF Filed, InQueue
  <2>3. CASE kd = "ready" /\ m = l
    BY <1>5, <1>9, <2>2, <2>3 DEF q
  <2>4. CASE ~(kd = "ready" /\ m = l)
    BY <1>6, <1>9, <2>2, <2>4
  <2>. QED BY <2>3, <2>4
<1>12. TopRuns(d)
  BY <1>1, <1>3, <1>5, <1>6, <1>9 DEF TopRuns, NoneReadyAbove, Level
<1>13. Settled(d, dead)
  BY <1>5, <1>6, <1>9, <1>10, <1>11, ProcAssumption DEF Settled, KernelType
<1>. QED BY <1>9, <1>12, <1>13 DEF d

\* The same of a switch, whether the process that gives up the processor is
\* ready, has just been filed as blocked, or is none.
LEMMA SwitchSettles ==
  ASSUME NEW k \in KernelType, NEW dead,
         NullProc \notin dead, QueueOf(k.state[NullProc]) = "ready",
         k.running \in Proc => k.running \notin dead,
         Filed(k, IF k.running \in Proc /\ k.state[k.running] = "ready"
                  THEN dead \cup {k.running} ELSE dead)
  PROVE  LET d == ProcSwitch(k)
         IN  Settled(d, dead) /\ TopRuns(d) /\ d.priority = k.priority
<1>1. CASE k.running \in Proc /\ k.state[k.running] = "ready"
  <2>. DEFINE e == EnqueueProcess(k, "ready", k.running)
  <2>1. QueueOf(k.state[k.running]) = "ready"
    BY <1>1 DEF QueueOf
  <2>2. /\ e \in KernelType /\ Filed(e, (dead \cup {k.running}) \ {k.running})
        /\ e.state = k.state /\ e.priority = k.priority
    <3>. DEFINE out == dead \cup {k.running}
                x == k.running
    <3>1. x \in Proc /\ x \in out /\ Filed(k, out) /\ "ready" \in Kind /\ QueueOf(k.state[x]) = "ready"
      BY <1>1, <2>1 DEF Kind
    <3>. HIDE DEF out, x
    <3>2. IsFiled(k, "ready", x, out, EnqueueProcess(k, "ready", x))
      BY <3>1, EnqueueFiles
    <3>. QED BY <3>2 DEF out, x, IsFiled
  <2>3. (dead \cup {k.running}) \ {k.running} = dead
    BY <1>1
  <2>4. ProcSwitch(k) = Dispatch(e)
    BY <1>1 DEF ProcSwitch
  <2>. HIDE DEF e
  <2>. QED BY <2>2, <2>3, <2>4, DispatchSettles
<1>2. CASE ~(k.running \in Proc /\ k.state[k.running] = "ready")
  BY <1>2, DispatchSettles DEF ProcSwitch
<1>. QED BY <1>1, <1>2

LEMMA SettledSwitch ==
  ASSUME NEW k, NEW dead, Settled(k, dead)
  PROVE  LET d == ProcSwitch(k)
         IN  Settled(d, dead) /\ TopRuns(d) /\ d.priority = k.priority
<1>1. CASE k.running \in Proc
  BY <1>1, SwitchSettles DEF Settled
<1>2. CASE k.running \notin Proc
  <2>1. Filed(k, dead)
    BY <1>2, FiledIgnoresOthers DEF Settled
  <2>. QED BY <1>2, <2>1, SwitchSettles DEF Settled
<1>. QED BY <1>1, <1>2

\* Blocking the running process files it and dispatches another.
LEMMA BlockSettles ==
  ASSUME NEW k, NEW dead, Settled(k, dead),
         k.running \in Proc \ {NullProc}, NEW type \in BlockType
  PROVE  LET d == BlockProcess(k, k.running, type)
         IN  Settled(d, dead) /\ TopRuns(d) /\ d.priority = k.priority
<1>. DEFINE p == k.running
            out == dead \cup {p}
            c == [k EXCEPT !.state[p] = BlockedState(type)]
            e == EnqueueProcess(c, type, p)
<1>1. /\ k \in KernelType /\ p \in Proc /\ p \in out /\ Filed(k, out)
      /\ p \notin dead /\ k.state[p] = "ready"
  BY DEF Settled
<1>2. BlockProcess(k, k.running, type) = ProcSwitch(e)
  <2>1. IsPidValid(k, p) /\ ~IsProcessBlocked(k, p)
    BY <1>1 DEF IsPidValid, IsProcessBlocked
  <2>2. RemoveProcess(k, p) = k
    BY DEF RemoveProcess
  <2>. QED BY <2>1, <2>2 DEF BlockProcess
<1>3. /\ BlockedState(type) \in ProcState \ {"ready"}
      /\ QueueOf(BlockedState(type)) = type
  BY DEF BlockType, BlockedState, QueueOf, ProcState
<1>4. c \in KernelType /\ Filed(c, out)
  BY <1>1, <1>3, ChangeFiled
<1>5. /\ c.running = p /\ c.priority = k.priority
      /\ c.state = [k.state EXCEPT ![p] = BlockedState(type)]
  BY <1>1 DEF KernelType
<1>6. c.state[p] = BlockedState(type) /\ c.state[NullProc] = k.state[NullProc]
  BY <1>1, <1>5, KernelFields, ProcAssumption
<1>. HIDE DEF c, out
<1>7. /\ e \in KernelType /\ Filed(e, out \ {p})
      /\ e.running = p /\ e.state = c.state /\ e.priority = k.priority
  <2>1. /\ c \in KernelType /\ p \in Proc /\ p \in out /\ Filed(c, out)
        /\ type \in Kind /\ QueueOf(c.state[p]) = type
    BY <1>1, <1>3, <1>4, <1>6 DEF Kind
  <2>. HIDE DEF p
  <2>2. IsFiled(c, type, p, out, e)
    BY <2>1, EnqueueFiles
  <2>. QED BY <1>5, <2>2 DEF IsFiled
<1>. HIDE DEF e
<1>8. out \ {p} = dead
  BY <1>1 DEF out
<1>9. /\ NullProc \notin dead /\ QueueOf(e.state[NullProc]) = "ready"
      /\ ~(e.running \in Proc /\ e.state[e.running] = "ready")
  BY <1>3, <1>6, <1>7 DEF Settled
<1>10. Settled(ProcSwitch(e), dead) /\ TopRuns(ProcSwitch(e))
       /\ ProcSwitch(e).priority = e.priority
  BY <1>1, <1>7, <1>8, <1>9, SwitchSettles
<1>. QED BY <1>2, <1>7, <1>10

\* A live process that has been taken out of its queue is made ready, with
\* or without a switch.
LEMMA ReadySettles ==
  ASSUME NEW r \in KernelType, NEW dead, NEW p \in Proc,
         p \notin dead, p # r.running,
         Filed(r, (dead \cup {r.running}) \cup {p}),
         r.running \in Proc => r.running \notin dead /\ r.state[r.running] = "ready",
         NullProc \notin dead, QueueOf(r.state[NullProc]) = "ready"
  PROVE  LET e == EnqueueProcess([r EXCEPT !.state[p] = "ready"], "ready", p)
             d == ProcSwitch(e)
         IN  /\ Settled(e, dead) /\ e.running = r.running /\ e.priority = r.priority
             /\ \A n \in Int : NoneReadyAbove(r, n) /\ n <= r.priority[p]
                                  => NoneReadyAbove(e, n)
             /\ Settled(d, dead) /\ TopRuns(d) /\ d.priority = r.priority
<1>. DEFINE out == (dead \cup {r.running}) \cup {p}
            c == [r EXCEPT !.state[p] = "ready"]
            e == EnqueueProcess(c, "ready", p)
<1>1. c \in KernelType /\ Filed(c, out)
  BY ChangeFiled DEF ProcState
<1>2. /\ c.running = r.running /\ c.priority = r.priority /\ c.queue = r.queue
      /\ c.state = [r.state EXCEPT ![p] = "ready"]
  BY DEF KernelType
<1>3. c.state[p] = "ready" /\ \A x \in Proc : x # p => c.state[x] = r.state[x]
  BY <1>2, KernelFields
<1>. HIDE DEF c
<1>4. QueueOf(c.state[p]) = "ready"
  BY <1>3 DEF QueueOf
<1>5. /\ e \in KernelType /\ Filed(e, out \ {p})
      /\ e.running = c.running /\ e.state = c.state /\ e.priority = c.priority
      /\ \A kd \in Kind, l \in Level :
            kd # "ready" \/ l # c.priority[p] => e.queue[kd][l] = c.queue[kd][l]
  <2>1. p \in out /\ "ready" \in Kind
    BY DEF Kind
  <2>. HIDE DEF out
  <2>2. IsFiled(c, "ready", p, out, e)
    BY <1>1, <1>4, <2>1, EnqueueFiles
  <2>. QED BY <2>2 DEF IsFiled
<1>6. out \ {p} = dead \cup {r.running}
  OBVIOUS
<1>. HIDE DEF e, out
<1>7. Settled(e, dead)
  <2>1. QueueOf(e.state[NullProc]) = "ready"
    BY <1>3, <1>4, <1>5, ProcAssumption
  <2>2. e.running \in Proc => e.running \notin dead /\ e.state[e.running] = "ready"
    BY <1>2, <1>3, <1>5
  <2>. QED BY <1>2, <1>5, <1>6, <2>1, <2>2 DEF Settled
<1>8. ASSUME NEW n \in Int, NoneReadyAbove(r, n), n <= r.priority[p]
      PROVE  NoneReadyAbove(e, n)
  <2>1. r.priority[p] \in Level
    BY KernelFields
  <2>. QED BY <1>2, <1>5, <1>8, <2>1 DEF NoneReadyAbove, Kind, Level
<1>9. /\ Settled(ProcSwitch(e), dead) /\ TopRuns(ProcSwitch(e))
      /\ ProcSwitch(e).priority = e.priority
  BY <1>7, SettledSwitch
<1>. QED BY <1>2, <1>5, <1>7, <1>8, <1>9 DEF e, c

-----------------------------------------------------------------------------
(* The kernel functions that other processes and interrupts call. *)

\* A valid process that is not running is live and can be taken out.
LEMMA ValidIsLive ==
  ASSUME NEW k, NEW dead, Settled(k, dead), NEW p \in Proc,
         IsPidValid(k, p), p # k.running
  PROVE  p \notin dead \cup {k.running}
BY DEF Settled, Filed, IsPidValid

LEMMA UnblockByPidSettles ==
  ASSUME NEW k, NEW dead, Settled(k, dead), NEW p \in Proc, NEW release \in BOOLEAN
  PROVE  LET d == UnblockProcessByPid(k, p, release)
         IN  /\ Settled(d, dead) /\ d.priority = k.priority
             /\ d = k \/ (release /\ TopRuns(d))
                 \/ /\ ~release /\ d.running = k.running
                    /\ \A n \in Int : NoneReadyAbove(k, n) /\ n <= k.priority[p]
                                         => NoneReadyAbove(d, n)
<1>1. CASE ~IsProcessBlocked(k, p)
  BY <1>1 DEF UnblockProcessByPid, Settled
<1>2. CASE IsProcessBlocked(k, p)
  <2>. DEFINE r == RemoveProcess(k, p)
              e == EnqueueProcess([r EXCEPT !.state[p] = "ready"], "ready", p)
              out == dead \cup {k.running}
  <2>1. p # k.running /\ p \notin out /\ k \in KernelType /\ Filed(k, out)
    BY <1>2, ValidIsLive DEF IsProcessBlocked, Settled
  <2>2. /\ r \in KernelType /\ Filed(r, out \cup {p})
        /\ r.running = k.running /\ r.state = k.state /\ r.priority = k.priority
        /\ \A kd \in Kind, l \in Level :
              k.queue[kd][l] = <<>> => r.queue[kd][l] = <<>>
    <3>. HIDE DEF out
    <3>. QED BY <2>1, RemoveUnfiles
  <2>. HIDE DEF r
  <2>3. /\ Settled(e, dead) /\ e.running = r.running /\ e.priority = r.priority
        /\ \A n \in Int : NoneReadyAbove(r, n) /\ n <= r.priority[p]
                             => NoneReadyAbove(e, n)
        /\ Settled(ProcSwitch(e), dead) /\ TopRuns(ProcSwitch(e))
        /\ ProcSwitch(e).priority = r.priority
    <3>1. /\ p \notin dead /\ p # r.running
          /\ Filed(r, (dead \cup {r.running}) \cup {p})
          /\ r.running \in Proc =>
                r.running \notin dead /\ r.state[r.running] = "ready"
          /\ NullProc \notin dead /\ QueueOf(r.state[NullProc]) = "ready"
      BY <2>1, <2>2 DEF Settled
    <3>. QED BY <2>2, <3>1, ReadySettles
  <2>4. UnblockProcessByPid(k, p, release) = IF release THEN ProcSwitch(e) ELSE e
    BY <1>2 DEF UnblockProcessByPid, r
  <2>5. \A n \in Int : NoneReadyAbove(k, n) => NoneReadyAbove(r, n)
    BY <2>2 DEF NoneReadyAbove, Kind
  <2>. HIDE DEF e
  <2>6. CASE release
    BY <2>2, <2>3, <2>4, <2>6
  <2>7. CASE ~release
    BY <2>2, <2>3, <2>4, <2>5, <2>7
  <2>. QED BY <2>6, <2>7
<1>. QED BY <1>1, <1>2

\* r is k after p, a process of queue "kind", has been taken out of it.
Unfiled(k, kind, p, out, r) ==
    /\ p \in Proc /\ r \in KernelType
    /\ p \notin out /\ QueueOf(k.state[p]) = kind
    /\ Filed(r, out \cup {p})
    /\ r.running = k.running /\ r.state = k.state /\ r.priority = k.priority
    /\ \A kd \in Kind, m \in Level :
          k.queue[kd][m] = <<>> => r.queue[kd][m] = <<>>

\* Taking the head of a list off leaves everybody else filed.
LEMMA TailUnfiles ==
  ASSUME NEW k \in KernelType, NEW out, Filed(k, out),
         NEW kind \in Kind, NEW l \in Level, k.queue[kind][l] # <<>>,
         NEW p, p = Head(k.queue[kind][l]),
         NEW r, r = PutQueue(k, kind, l, Tail(k.queue[kind][l]))
  PROVE  Unfiled(k, kind, p, out, r)
<1>. DEFINE q == k.queue[kind][l]
            s == Tail(q)
<1>1. q \in Seq(Proc) /\ IsInjective(q)
  BY QueueIsSeq DEF Filed
<1>2. /\ p \in Proc /\ Contains(q, p)
      /\ s \in Seq(Proc) /\ IsInjective(s)
      /\ \A x : Contains(s, x) <=> Contains(q, x) /\ x # p
  <2>1. q # <<>> /\ p = Head(q)
    OBVIOUS
  <2>. HIDE DEF q
  <2>2. HeadAndTail(Proc, q, p, s)
    BY <1>1, <2>1, TailContains
  <2>. HIDE DEF s
  <2>. QED BY <2>2 DEF HeadAndTail
<1>3. p \notin out /\ QueueOf(k.state[p]) = kind /\ k.priority[p] = l
  BY <1>2, FiledContains
<1>r. r = PutQueue(k, kind, l, s)
  OBVIOUS
<1>. HIDE DEF s
<1>4. /\ r \in KernelType
      /\ r.running = k.running /\ r.state = k.state /\ r.priority = k.priority
      /\ \A kd \in Kind, m \in Level :
            r.queue[kd][m] = IF kd = kind /\ m = l THEN s ELSE k.queue[kd][m]
  <2>. HIDE DEF q
  <2>. QED BY <1>2, <1>r, PutQueueProperties
<1>. HIDE DEF q
<1>5. Filed(r, out \cup {p})
  <2>0. r.state = k.state /\ r.priority = k.priority
    BY <1>4
  <2>1. SUFFICES ASSUME NEW kd \in Kind, NEW m \in Level
                 PROVE  FiledAt(r, out \cup {p}, kd, m)
    BY FiledEverywhere
  <2>2. FiledAt(k, out, kd, m)
    BY FiledEverywhere
  <2>3. CASE kd = kind /\ m = l
    <3>1. r.queue[kd][m] = s
      BY <1>4, <2>3
    <3>. QED BY <1>2, <2>0, <2>2, <2>3, <3>1 DEF FiledAt, q
  <2>4. CASE ~(kd = kind /\ m = l)
    <3>1. r.queue[kd][m] = k.queue[kd][m]
      BY <1>4, <2>4
    <3>. QED BY <1>3, <2>0, <2>2, <2>4, <3>1 DEF FiledAt
  <2>. QED BY <2>3, <2>4
<1>6. \A kd \in Kind, m \in Level : k.queue[kd][m] = <<>> => r.queue[kd][m] = <<>>
  BY <1>4
<1>. QED BY <1>2, <1>3, <1>4, <1>5, <1>6 DEF Unfiled

LEMMA UnblockByTypeSettles ==
  ASSUME NEW k, NEW dead, Settled(k, dead),
         NEW type \in BlockType, ~IsEmpty(k, type), NEW release \in BOOLEAN
  PROVE  LET p == FirstBlocked(k, type)
             d == UnblockProcessByType(k, type, release)
         IN  /\ p \in Proc /\ Settled(d, dead) /\ d.priority = k.priority
             /\ (release /\ TopRuns(d))
                 \/ /\ ~release /\ d.running = k.running
                    /\ \A n \in Int : NoneReadyAbove(k, n) /\ n <= k.priority[p]
                                         => NoneReadyAbove(d, n)
<1>. DEFINE l == FirstLevel(k, type)
            p == FirstBlocked(k, type)
            r == PutQueue(k, type, l, Tail(k.queue[type][l]))
            e == EnqueueProcess([r EXCEPT !.state[p] = "ready"], "ready", p)
            out == dead \cup {k.running}
<1>1. type \in Kind /\ k \in KernelType /\ Filed(k, out)
  BY DEF Kind, Settled
<1>2. l \in Level /\ k.queue[type][l] # <<>>
  BY <1>1, FirstLevelProperties
<1>3. p = Head(k.queue[type][l])
  BY DEF FirstBlocked
<1>4. UnblockProcessByType(k, type, release) = IF release THEN ProcSwitch(e) ELSE e
  BY DEF UnblockProcessByType, PutQueue
<1>. HIDE DEF l, p, out
<1>5. /\ p \in Proc \ out
      /\ r \in KernelType /\ Filed(r, out \cup {p})
      /\ r.running = k.running /\ r.state = k.state /\ r.priority = k.priority
      /\ \A kd \in Kind, m \in Level :
            k.queue[kd][m] = <<>> => r.queue[kd][m] = <<>>
  <2>1. r = PutQueue(k, type, l, Tail(k.queue[type][l]))
    OBVIOUS
  <2>. HIDE DEF r
  <2>2. Unfiled(k, type, p, out, r)
    <3>. HIDE DEF e
    <3>. QED BY <1>1, <1>2, <1>3, <2>1, TailUnfiles
  <2>. QED BY <2>2 DEF Unfiled
<1>. HIDE DEF r
<1>6. /\ Settled(e, dead) /\ e.running = r.running /\ e.priority = r.priority
      /\ \A n \in Int : NoneReadyAbove(r, n) /\ n <= r.priority[p]
                           => NoneReadyAbove(e, n)
      /\ Settled(ProcSwitch(e), dead) /\ TopRuns(ProcSwitch(e))
      /\ ProcSwitch(e).priority = r.priority
  <2>1. /\ p \in Proc /\ p \notin dead /\ p # r.running
        /\ Filed(r, (dead \cup {r.running}) \cup {p})
        /\ r.running \in Proc => r.running \notin dead /\ r.state[r.running] = "ready"
        /\ NullProc \notin dead /\ QueueOf(r.state[NullProc]) = "ready"
    BY <1>5 DEF Settled, out
  <2>. QED BY <1>5, <2>1, ReadySettles
<1>7. \A n \in Int : NoneReadyAbove(k, n) => NoneReadyAbove(r, n)
  BY <1>5 DEF NoneReadyAbove, Kind
<1>. HIDE DEF e
<1>8. CASE release
  BY <1>4, <1>5, <1>6, <1>8 DEF p
<1>9. CASE ~release
  BY <1>4, <1>5, <1>6, <1>7, <1>9 DEF p
<1>. QED BY <1>8, <1>9

\* A process that returns leaves the kernel with nobody running.
LEMMA TerminateSettles ==
  ASSUME NEW k, NEW dead, Settled(k, dead), k.running \in Proc \ {NullProc}
  PROVE  LET d == Terminate(k)
         IN  /\ Settled(d, dead \cup {k.running})
             /\ d.running = NoProc /\ d.priority = k.priority
<1>. DEFINE d == Terminate(k)
            out == dead \cup {k.running}
<1>1. k \in KernelType /\ Filed(k, out)
  BY DEF Settled
<1>2. d = [k EXCEPT !.running = NoProc]
  BY DEF Terminate, RemoveProcess
<1>3. /\ d \in KernelType /\ d.running = NoProc
      /\ d.state = k.state /\ d.priority = k.priority /\ d.queue = k.queue
  BY <1>1, <1>2, KernelUpdate
<1>. HIDE DEF d
<1>4. Filed(d, out)
  BY <1>1, <1>3 DEF Filed, InQueue
<1>5. Filed(d, out \cup {d.running})
  BY <1>3, <1>4, FiledIgnoresOthers, ProcAssumption
<1>6. NullProc \notin out /\ QueueOf(d.state[NullProc]) = "ready"
  BY <1>3 DEF Settled
<1>. QED BY <1>3, <1>5, <1>6, ProcAssumption DEF Settled, d

\* Moving a process that is not running to another level.
LEMMA RequeueSettles ==
  ASSUME NEW k, NEW dead, Settled(k, dead), NEW p \in Proc,
         IsPidValid(k, p), p # k.running, NEW n \in Level
  PROVE  LET e == Requeue(k, p, n)
         IN  /\ Settled(e, dead) /\ e.running = k.running
             /\ k.running \in Proc => e.priority[k.running] = k.priority[k.running]
             /\ \A m \in Int :
                   /\ NoneReadyAbove(k, m)
                   /\ m <= n \/ QueueOf(k.state[p]) # "ready"
                   => NoneReadyAbove(e, m)
<1>. DEFINE r == RemoveProcess(k, p)
            c == [r EXCEPT !.priority[p] = n]
            kind == QueueOf(k.state[p])
            e == EnqueueProcess(c, kind, p)
            out == dead \cup {k.running}
<1>1. /\ p \notin out /\ k \in KernelType /\ Filed(k, out) /\ kind \in Kind
  BY ValidIsLive, QueueOfKind DEF Settled, KernelType
<1>. HIDE DEF out, kind
<1>2. /\ r \in KernelType /\ Filed(r, out \cup {p})
      /\ r.running = k.running /\ r.state = k.state /\ r.priority = k.priority
      /\ \A kd \in Kind, l \in Level :
            k.queue[kd][l] = <<>> => r.queue[kd][l] = <<>>
  BY <1>1, RemoveUnfiles
<1>. HIDE DEF r
<1>3. c \in KernelType /\ Filed(c, out \cup {p})
  BY <1>2, ChangeFiled
<1>4. /\ c.running = r.running /\ c.state = r.state /\ c.queue = r.queue
      /\ c.priority = [k.priority EXCEPT ![p] = n]
  BY <1>2 DEF KernelType
<1>5. c.priority[p] = n /\ \A x \in Proc : x # p => c.priority[x] = k.priority[x]
  BY <1>1, <1>4, KernelFields
<1>. HIDE DEF c
<1>6. /\ e \in KernelType /\ Filed(e, (out \cup {p}) \ {p})
      /\ e.running = c.running /\ e.state = c.state /\ e.priority = c.priority
      /\ \A kd \in Kind, l \in Level :
            kd # kind \/ l # c.priority[p] => e.queue[kd][l] = c.queue[kd][l]
  <2>1. p \in out \cup {p} /\ QueueOf(c.state[p]) = kind
    BY <1>2, <1>4 DEF kind
  <2>. DEFINE o == out \cup {p}
  <2>2. /\ c \in KernelType /\ p \in Proc /\ p \in o /\ Filed(c, o)
        /\ kind \in Kind /\ QueueOf(c.state[p]) = kind
    BY <1>1, <1>3, <2>1
  <2>. HIDE DEF o
  <2>3. IsFiled(c, kind, p, o, e)
    BY <2>2, EnqueueFiles
  <2>. QED BY <2>3 DEF o, IsFiled
<1>7. (out \cup {p}) \ {p} = out
  BY <1>1
<1>8. Requeue(k, p, n) = e
  BY DEF Requeue, c, r, kind
<1>. HIDE DEF e
<1>9. Settled(e, dead)
  <2>1. /\ e \in KernelType /\ e.running = k.running /\ e.state = k.state
        /\ Filed(e, dead \cup {k.running})
    BY <1>2, <1>4, <1>6, <1>7 DEF out
  <2>. QED BY <2>1 DEF Settled
<1>10. ASSUME NEW m \in Int, NoneReadyAbove(k, m), m <= n \/ kind # "ready"
       PROVE  NoneReadyAbove(e, m)
  BY <1>2, <1>4, <1>5, <1>6, <1>10 DEF NoneReadyAbove, Kind, Level
<1>11. k.running \in Proc => e.priority[k.running] = k.priority[k.running]
  BY <1>5, <1>6
<1>. QED BY <1>2, <1>4, <1>6, <1>8, <1>9, <1>10, <1>11 DEF kind

\* set_process_priority keeps the queues right and the best process running,
\* whatever pid and priority it is called with.
LEMMA SetPrioritySettles ==
  ASSUME NEW k, NEW dead, Settled(k, dead), TopRuns(k),
         NEW p \in Proc, NEW n \in Int
  PROVE  LET d == SetProcessPriority(k, p, n)
         IN  Settled(d, dead) /\ TopRuns(d)
<1>1. CASE ~MaySetPriority(k, p, n)
  BY <1>1 DEF SetProcessPriority
<1>2. CASE MaySetPriority(k, p, n) /\ p = k.running
  <2>. DEFINE c == [k EXCEPT !.priority[p] = n]
              out == dead \cup {k.running}
  <2>1. /\ n \in Level /\ p \in out /\ k \in KernelType /\ Filed(k, out)
    BY <1>2 DEF MaySetPriority, Level, Settled
  <2>. HIDE DEF out
  <2>2. c \in KernelType /\ Filed(c, out)
    BY <2>1, ChangeFiled
  <2>3. /\ c.running = k.running /\ c.state = k.state /\ c.queue = k.queue
        /\ c.priority = [k.priority EXCEPT ![p] = n]
    BY <2>1 DEF KernelType
  <2>4. c.priority[p] = n /\ k.priority[p] \in Level
    BY <2>1, <2>3, KernelFields
  <2>5. SetProcessPriority(k, p, n) = IF n > k.priority[p] THEN ProcSwitch(c) ELSE c
    BY <1>2 DEF SetProcessPriority
  <2>. HIDE DEF c
  <2>6. Settled(c, dead)
    BY <2>2, <2>3 DEF Settled, out
  <2>7. CASE n > k.priority[p]
    BY <2>5, <2>6, <2>7, SettledSwitch
  <2>8. CASE ~(n > k.priority[p])
    <3>1. NoneReadyAbove(c, n)
      BY <1>2, <2>1, <2>3, <2>4, <2>8 DEF TopRuns, NoneReadyAbove, Level
    <3>. QED BY <1>2, <2>3, <2>4, <2>5, <2>6, <2>8, <3>1 DEF TopRuns
  <2>. QED BY <2>7, <2>8
<1>3. CASE MaySetPriority(k, p, n) /\ p # k.running
  <2>. DEFINE e == Requeue(k, p, n)
  <2>1. n \in Level /\ IsPidValid(k, p)
    BY <1>3 DEF MaySetPriority, Level
  <2>2. /\ Settled(e, dead) /\ e.running = k.running
        /\ k.running \in Proc => e.priority[k.running] = k.priority[k.running]
        /\ \A m \in Int : /\ NoneReadyAbove(k, m)
                          /\ m <= n \/ QueueOf(k.state[p]) # "ready"
                          => NoneReadyAbove(e, m)
    BY <1>3, <2>1, RequeueSettles
  <2>3. SetProcessPriority(k, p, n) =
           IF QueueOf(k.state[p]) = "ready" /\ n < CurrentPriority(k)
           THEN ProcSwitch(e) ELSE e
    BY <1>3 DEF SetProcessPriority
  <2>. HIDE DEF e
  <2>4. CASE QueueOf(k.state[p]) = "ready" /\ n < CurrentPriority(k)
    BY <2>2, <2>3, <2>4, SettledSwitch
  <2>5. CASE ~(QueueOf(k.state[p]) = "ready" /\ n < CurrentPriority(k))
    <3>1. /\ k.running \in Proc /\ k.priority[k.running] \in Int
          /\ CurrentPriority(k) = k.priority[k.running]
          /\ NoneReadyAbove(k, k.priority[k.running])
      BY KernelFields DEF TopRuns, CurrentPriority, Settled, Level
    <3>2. NoneReadyAbove(e, k.priority[k.running])
      BY <2>2, <2>5, <3>1
    <3>. QED BY <2>2, <2>3, <2>5, <3>1, <3>2 DEF TopRuns
  <2>. QED BY <2>4, <2>5
<1>. QED BY <1>1, <1>2, <1>3

\* When the comparison does not call for a switch, the running process is at
\* least as good.
LEMMA OutranksProperties ==
  ASSUME NEW k \in KernelType, NEW n \in Level, NEW release \in Outranks(k, n)
  PROVE  /\ release \in BOOLEAN
         /\ ~release /\ k.running # NoProc =>
               k.running \in Proc /\ k.priority[k.running] <= n
<1>1. CASE k.running = NoProc
  BY <1>1 DEF Outranks
<1>2. CASE k.running # NoProc
  <2>. DEFINE less == n < CurrentPriority(k)
  <2>1. release = less
    BY <1>2, Zenon DEF Outranks
  <2>2. less \in BOOLEAN
    OBVIOUS
  <2>3. ~less => k.running \in Proc /\ k.priority[k.running] <= n
    <3>1. CurrentPriority(k) \in Int /\ n \in Int
      BY KernelFields DEF CurrentPriority, Unsigned_1, Level
    <3>2. CASE k.running \in Proc
      BY <3>1, <3>2 DEF CurrentPriority
    <3>3. CASE k.running \notin Proc
      BY <3>3 DEF CurrentPriority, Unsigned_1, Level
    <3>. QED BY <3>2, <3>3
  <2>. HIDE DEF less
  <2>. QED BY <1>2, <2>1, <2>2, <2>3, Zenon
<1>. QED BY <1>1, <1>2
=============================================================================
