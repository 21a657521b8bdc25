----------------------------- MODULE RtxProofs -----------------------------
(***************************************************************************)
(* Module Rtx: it implements Scheduler, so the theorems about the queues    *)
(* hold of the whole kernel; the invariants of its memory blocks and        *)
(* mailboxes, for any number of blocks and processes; it implements Post;   *)
(* and the only steps that leave a process asleep although what it waits    *)
(* for is there are the ones that block in the gap of receive_message or    *)
(* of request_memory_block.                                                 *)
(***************************************************************************)
EXTENDS Rtx, SchedulerProofs, FiniteSetTheorems

-----------------------------------------------------------------------------
(* The entries of a sequence that are in a set. *)

\* Induction over the sequences of a set, as far as a set of them can say it.
LEMMA SeqInduction ==
  ASSUME NEW S, NEW T, <<>> \in T, \A s \in Seq(S), e \in S : s \in T => Append(s, e) \in T
  PROVE  \A s \in Seq(S) : s \in T
<1>. DEFINE U == {n \in Nat : \A s \in Seq(S) : Len(s) = n => s \in T}
<1>1. 0 \in U
  <2>1. \A s \in Seq(S) : Len(s) = 0 => s = <<>>
    BY EmptySeq
  <2>. QED BY <2>1
<1>2. ASSUME NEW n \in Nat, n \in U PROVE n + 1 \in U
  <2>1. SUFFICES ASSUME NEW s \in Seq(S), Len(s) = n + 1 PROVE s \in T
    OBVIOUS
  <2>2. s # <<>>
    BY <2>1, EmptySeq
  <2>3. PICK r \in Seq(S), e \in S : s = Append(r, e)
    BY <2>2, SequenceEmptyOrAppend
  <2>4. Len(r) = n
    BY <2>1, <2>3, AppendProperties, LenProperties
  <2>. QED BY <1>2, <2>3, <2>4
<1>3. Nat \subseteq U
  <2>. HIDE DEF U
  <2>. QED BY <1>1, <1>2, InductionOnSet
<1>. QED BY <1>3, LenProperties

\* The function in Among, and what it is required to be.
Picks(s, S, f) ==
    f = [i \in 0..Len(s) |-> IF i = 0 THEN <<>>
                             ELSE IF s[i] \in S THEN Append(f[i - 1], s[i])
                             ELSE f[i - 1]]

LEMMA PicksExtend ==
  ASSUME NEW T, NEW s \in Seq(T), NEW e \in T, NEW S, NEW f, Picks(s, S, f)
  PROVE  \E g : Picks(Append(s, e), S, g)
<1>. DEFINE n == Len(s)
            t == Append(s, e)
            last == IF e \in S THEN Append(f[n], e) ELSE f[n]
            g == [i \in 0..(n + 1) |-> IF i = n + 1 THEN last ELSE f[i]]
<1>1. n \in Nat /\ Len(t) = n + 1 /\ t[n + 1] = e /\ \A i \in 1..n : t[i] = s[i]
  BY AppendProperties, LenProperties
<1>2. \A i \in 0..n : f[i] = IF i = 0 THEN <<>> ELSE IF s[i] \in S THEN Append(f[i - 1], s[i])
                             ELSE f[i - 1]
  BY DEF Picks
<1>. HIDE DEF n, t
<1>3. ASSUME NEW i \in 0..(n + 1)
      PROVE  g[i] = IF i = 0 THEN <<>> ELSE IF t[i] \in S THEN Append(g[i - 1], t[i])
                    ELSE g[i - 1]
  <2>1. CASE i = n + 1
    <3>1. g[i] = last /\ i # 0 /\ i - 1 = n /\ g[n] = f[n] /\ t[i] = e
      BY <1>1, <2>1
    <3>. QED BY <3>1
  <2>2. CASE i # n + 1
    <3>1. i \in 0..n /\ g[i] = f[i]
      BY <1>1, <2>2
    <3>2. i # 0 => i - 1 \in 0..n /\ g[i - 1] = f[i - 1] /\ t[i] = s[i]
      BY <1>1, <3>1
    <3>. HIDE DEF g
    <3>. QED BY <1>2, <3>1, <3>2
  <2>. QED BY <2>1, <2>2
<1>4. DOMAIN g = 0..(n + 1) /\ g = [i \in 0..(n + 1) |-> g[i]]
  OBVIOUS
<1>. HIDE DEF g
<1>5. Picks(t, S, g)
  BY <1>1, <1>3, <1>4 DEF Picks
<1>. QED BY <1>5 DEF t

LEMMA PicksExists ==
  ASSUME NEW T, NEW s \in Seq(T), NEW S
  PROVE  \E f : Picks(s, S, f)
<1>. DEFINE U == {r \in Seq(T) : \E f : Picks(r, S, f)}
<1>1. <<>> \in U
  <2>. DEFINE f == [i \in 0..0 |-> <<>>]
  <2>1. Len(<<>>) = 0
    OBVIOUS
  <2>2. Picks(<<>>, S, f)
    BY <2>1 DEF Picks
  <2>. HIDE DEF f
  <2>. QED BY <2>2, EmptySeq
<1>2. ASSUME NEW r \in Seq(T), NEW e \in T, r \in U PROVE Append(r, e) \in U
  <2>1. Append(r, e) \in Seq(T)
    BY AppendProperties
  <2>. QED BY <1>2, <2>1, PicksExtend
<1>. HIDE DEF U
<1>3. \A r \in Seq(T) : r \in U
  BY <1>1, <1>2, SeqInduction
<1>. QED BY <1>3 DEF U

LEMMA AmongIs ==
  ASSUME NEW T, NEW s \in Seq(T), NEW S
  PROVE  \E f : Picks(s, S, f) /\ Among(s, S) = f[Len(s)]
<1>. DEFINE f == CHOOSE f : Picks(s, S, f)
<1>1. Picks(s, S, f)
  BY PicksExists
<1>2. Among(s, S) = f[Len(s)]
  BY DEF Among, Picks
<1>. HIDE DEF f
<1>. QED BY <1>1, <1>2

LEMMA AmongEmpty == \A S : Among(<<>>, S) = <<>>
<1>. SUFFICES ASSUME NEW S PROVE Among(<<>>, S) = <<>>
  OBVIOUS
<1>1. PICK f : Picks(<<>>, S, f) /\ Among(<<>>, S) = f[Len(<<>>)]
  BY AmongIs, EmptySeq
<1>2. Len(<<>>) = 0
  OBVIOUS
<1>. QED BY <1>1, <1>2 DEF Picks

LEMMA AmongAppend ==
  ASSUME NEW T, NEW s \in Seq(T), NEW e \in T, NEW S
  PROVE  Among(Append(s, e), S) =
            IF e \in S THEN Append(Among(s, S), e) ELSE Among(s, S)
<1>. DEFINE n == Len(s)
            t == Append(s, e)
<1>1. /\ n \in Nat /\ Len(t) = n + 1 /\ t[n + 1] = e /\ \A i \in 1..n : t[i] = s[i]
      /\ t \in Seq(T)
  BY AppendProperties, LenProperties
<1>2. PICK f : Picks(s, S, f) /\ Among(s, S) = f[n]
  BY AmongIs
<1>. HIDE DEF t
<1>3. PICK g : Picks(t, S, g) /\ Among(t, S) = g[Len(t)]
  BY <1>1, AmongIs
<1>. HIDE DEF n
<1>4. \A i \in 0..n : f[i] = IF i = 0 THEN <<>> ELSE IF s[i] \in S THEN Append(f[i - 1], s[i])
                             ELSE f[i - 1]
  BY <1>2 DEF Picks, n
<1>5. \A i \in 0..(n + 1) : g[i] = IF i = 0 THEN <<>> ELSE IF t[i] \in S
                             THEN Append(g[i - 1], t[i]) ELSE g[i - 1]
  BY <1>1, <1>3 DEF Picks
<1>. DEFINE U == {i \in Nat : i <= n => f[i] = g[i]}
<1>6. 0 \in U
  BY <1>1, <1>4, <1>5
<1>7. ASSUME NEW i \in Nat, i \in U PROVE i + 1 \in U
  <2>1. SUFFICES ASSUME i + 1 <= n PROVE f[i + 1] = g[i + 1]
    OBVIOUS
  <2>2. /\ i + 1 \in 0..n /\ i + 1 \in 0..(n + 1) /\ i + 1 # 0 /\ (i + 1) - 1 = i /\ f[i] = g[i]
        /\ t[i + 1] = s[i + 1]
    BY <1>1, <1>7, <2>1
  <2>. QED BY <1>4, <1>5, <2>2
<1>8. n \in U
  <2>. HIDE DEF U
  <2>. QED BY <1>1, <1>6, <1>7, InductionOnSet
<1>9. g[n] = f[n] /\ n + 1 \in 0..(n + 1) /\ n + 1 # 0 /\ (n + 1) - 1 = n
  BY <1>1, <1>8
<1>10. g[n + 1] = IF e \in S THEN Append(f[n], e) ELSE f[n]
  BY <1>1, <1>5, <1>9
<1>. QED BY <1>1, <1>2, <1>3, <1>10 DEF t

\* It takes its entries from s, and all of those in S.
LEMMA AmongType ==
  ASSUME NEW T, NEW s \in Seq(T), NEW S
  PROVE  /\ Among(s, S) \in Seq(T)
         /\ \A x : (\E i \in 1..Len(Among(s, S)) : Among(s, S)[i] = x)
                     <=> x \in S /\ \E i \in 1..Len(s) : s[i] = x
<1>. DEFINE Has(r, x) == \E i \in 1..Len(r) : r[i] = x
            U == {r \in Seq(T) : /\ Among(r, S) \in Seq(T)
                                 /\ \A x : Has(Among(r, S), x) <=> x \in S /\ Has(r, x)}
<1>1. \A r \in Seq(T), e \in T : \A x : Has(Append(r, e), x) <=> x = e \/ Has(r, x)
  <2>. SUFFICES ASSUME NEW r \in Seq(T), NEW e \in T, NEW x
                PROVE  Has(Append(r, e), x) <=> x = e \/ Has(r, x)
    OBVIOUS
  <2>. DEFINE t == Append(r, e)
              n == Len(r)
  <2>1. n \in Nat /\ Len(t) = n + 1 /\ t[n + 1] = e /\ \A i \in 1..n : t[i] = r[i]
    BY AppendProperties, LenProperties
  <2>2. Has(t, x) <=> \E i \in 1..(n + 1) : t[i] = x
    BY <2>1
  <2>. HIDE DEF t, n
  <2>3. (\E i \in 1..(n + 1) : t[i] = x) <=> x = e \/ \E i \in 1..n : r[i] = x
    BY <2>1
  <2>. QED BY <2>2, <2>3 DEF t, n
<1>2. \A x : ~Has(<<>>, x)
  BY EmptySeq
<1>. HIDE DEF Has
<1>3. <<>> \in U
  BY <1>2, AmongEmpty, EmptySeq
<1>4. ASSUME NEW r \in Seq(T), NEW e \in T, r \in U PROVE Append(r, e) \in U
  <2>. DEFINE a == Among(r, S)
  <2>1. a \in Seq(T) /\ \A x : Has(a, x) <=> x \in S /\ Has(r, x)
    BY <1>4
  <2>2. Among(Append(r, e), S) = IF e \in S THEN Append(a, e) ELSE a
    BY AmongAppend
  <2>. HIDE DEF a
  <2>3. Append(r, e) \in Seq(T) /\ Append(a, e) \in Seq(T)
    BY <2>1, AppendProperties
  <2>4. \A x : Has(Among(Append(r, e), S), x) <=> x \in S /\ Has(Append(r, e), x)
    BY <1>1, <2>1, <2>2
  <2>. QED BY <2>1, <2>2, <2>3, <2>4
<1>5. s \in U
  <2>. HIDE DEF U
  <2>. QED BY <1>3, <1>4, SeqInduction
<1>. QED BY <1>5 DEF Has

LEMMA AmongConcat ==
  ASSUME NEW T, NEW s \in Seq(T), NEW t \in Seq(T), NEW S
  PROVE  Among(s \o t, S) = Among(s, S) \o Among(t, S)
<1>. DEFINE U == {r \in Seq(T) : Among(s \o r, S) = Among(s, S) \o Among(r, S)}
<1>0. Among(s, S) \in Seq(T)
  BY AmongType
<1>1. <<>> \in U
  BY <1>0, AmongEmpty, ConcatEmptySeq, EmptySeq
<1>2. ASSUME NEW r \in Seq(T), NEW e \in T, r \in U PROVE Append(r, e) \in U
  <2>. DEFINE a == Among(s, S)
              b == Among(r, S)
  <2>1. /\ a \in Seq(T) /\ b \in Seq(T) /\ <<e>> \in Seq(T) /\ s \o r \in Seq(T)
        /\ Among(s \o r, S) = a \o b /\ Append(r, e) \in Seq(T)
    BY <1>2, AmongType, ConcatProperties, AppendProperties
  <2>2. Append(r, e) = r \o <<e>> /\ Append(s \o r, e) = (s \o r) \o <<e>>
    BY <2>1, AppendIsConcat
  <2>3. s \o Append(r, e) = Append(s \o r, e)
    <3>1. s \in Seq(T) /\ r \in Seq(T) /\ <<e>> \in Seq(T)
      BY <2>1
    <3>2. (s \o r) \o <<e>> = s \o (r \o <<e>>)
      BY ONLY <3>1, ConcatAssociative
    <3>. QED BY ONLY <2>2, <3>2
  <2>4. Among(s \o Append(r, e), S) = IF e \in S THEN Append(a \o b, e) ELSE a \o b
    <3>. DEFINE c == s \o r
    <3>0. c \in Seq(T)
      BY <2>1
    <3>. HIDE DEF c
    <3>1. Among(Append(c, e), S) = IF e \in S THEN Append(Among(c, S), e) ELSE Among(c, S)
      BY <3>0, AmongAppend
    <3>. USE DEF c
    <3>. HIDE DEF a, b
    <3>. QED BY <2>1, <2>3, <3>1
  <2>5. Among(Append(r, e), S) = IF e \in S THEN Append(b, e) ELSE b
    BY <2>1, AmongAppend
  <2>. HIDE DEF a, b
  <2>6. Append(a \o b, e) = (a \o b) \o <<e>> /\ Append(b, e) = b \o <<e>>
    BY <2>1, AppendIsConcat, ConcatProperties
  <2>7. Append(a \o b, e) = a \o Append(b, e)
    <3>0. a \in Seq(T) /\ b \in Seq(T) /\ <<e>> \in Seq(T)
      BY <2>1
    <3>1. (a \o b) \o <<e>> = a \o (b \o <<e>>)
      BY ONLY <3>0, ConcatAssociative
    <3>. QED BY <2>6, <3>1
  <2>8. Among(s \o Append(r, e), S) = a \o Among(Append(r, e), S)
    BY <2>4, <2>5, <2>7
  <2>. QED BY <2>1, <2>8 DEF a
<1>3. t \in U
  <2>. HIDE DEF U
  <2>. QED BY <1>1, <1>2, SeqInduction
<1>. QED BY <1>3

\* Only which of its own entries are in S matters.
LEMMA AmongSame ==
  ASSUME NEW T, NEW s \in Seq(T), NEW S, NEW R,
         \A i \in 1..Len(s) : s[i] \in S <=> s[i] \in R
  PROVE  Among(s, S) = Among(s, R)
<1>. DEFINE U == {r \in Seq(T) : (\A i \in 1..Len(r) : r[i] \in S <=> r[i] \in R)
                                    => Among(r, S) = Among(r, R)}
<1>1. <<>> \in U
  BY AmongEmpty, EmptySeq
<1>2. ASSUME NEW r \in Seq(T), NEW e \in T, r \in U PROVE Append(r, e) \in U
  <2>. DEFINE t == Append(r, e)
              n == Len(r)
  <2>1. /\ n \in Nat /\ Len(t) = n + 1 /\ t[n + 1] = e /\ \A i \in 1..n : t[i] = r[i]
        /\ t \in Seq(T)
    BY AppendProperties, LenProperties
  <2>2. Among(t, S) = IF e \in S THEN Append(Among(r, S), e) ELSE Among(r, S)
    BY AmongAppend
  <2>3. Among(t, R) = IF e \in R THEN Append(Among(r, R), e) ELSE Among(r, R)
    BY AmongAppend
  <2>. HIDE DEF t
  <2>4. ASSUME \A i \in 1..Len(t) : t[i] \in S <=> t[i] \in R
        PROVE  Among(t, S) = Among(t, R)
    <3>1. e \in S <=> e \in R
      BY <2>1, <2>4
    <3>2. \A i \in 1..n : i \in 1..Len(t) /\ t[i] = r[i]
      BY <2>1
    <3>3. \A i \in 1..Len(r) : r[i] \in S <=> r[i] \in R
      BY <2>4, <3>2
    <3>4. Among(r, S) = Among(r, R)
      BY <1>2, <3>3
    <3>. QED BY <2>2, <2>3, <3>1, <3>4
  <2>. QED BY <2>1, <2>4 DEF t
<1>3. s \in U
  <2>. HIDE DEF U
  <2>. QED BY <1>1, <1>2, SeqInduction
<1>. QED BY <1>3

LEMMA AmongNone ==
  ASSUME NEW T, NEW s \in Seq(T), NEW S, \A i \in 1..Len(s) : s[i] \notin S
  PROVE  Among(s, S) = <<>>
<1>1. Among(s, S) \in Seq(T)
  BY AmongType
<1>2. ~ \E i \in 1..Len(Among(s, S)) : TRUE
  <2>1. \A i \in 1..Len(Among(s, S)) :
           Among(s, S)[i] \in S /\ \E j \in 1..Len(s) : Among(s, S)[i] = s[j]
    BY AmongType
  <2>. QED BY <2>1
<1>3. Len(Among(s, S)) \in Nat
  BY <1>1, LenProperties
<1>4. Len(Among(s, S)) = 0
  <2>1. Len(Among(s, S)) # 0 => 1 \in 1..Len(Among(s, S))
    BY <1>3
  <2>. QED BY <1>2, <2>1
<1>. QED BY <1>1, <1>4, EmptySeq

LEMMA AmongOne ==
  ASSUME NEW e, NEW S
  PROVE  Among(<<e>>, S) = IF e \in S THEN <<e>> ELSE <<>>
<1>. DEFINE z == <<>>
            T == {e}
<1>1. z \in Seq(T) /\ e \in T /\ Append(z, e) = <<e>> /\ Among(z, S) = z
  BY EmptySeq, AmongEmpty
<1>. HIDE DEF z, T
<1>2. Among(Append(z, e), S) = IF e \in S THEN Append(Among(z, S), e) ELSE Among(z, S)
  BY <1>1, AmongAppend
<1>3. Among(<<e>>, S) = IF e \in S THEN <<e>> ELSE z
  BY <1>1, <1>2
<1>. QED BY <1>3 DEF z

-----------------------------------------------------------------------------
(* Every step is one of the scheduler. *)

\* The processes recorded as receivers are processes.
Addressed == rx \in [MemBlock -> Proc] /\ to \in [Proc -> Proc]

\* What the running process may do, ...
Primitives(p) ==
    \/ Yield(p)
    \/ Request(p) \/ RequestFindsNone(p) \/ RequestBlocks(p)
    \/ \E b \in MemBlock : Release(p, b)
    \/ ReleaseUnblocks(p)
    \/ \E b \in MemBlock, q \in Proc : Send(p, b, q)
    \/ SendUnblocks(p)
    \/ \E b \in MemBlock, q \in Proc, d \in Nat : DelayedSend(p, b, q, d)
    \/ Receive(p) \/ ReceiveFindsNone(p) \/ ReceiveBlocks(p)

ProcessActs(p) == Primitives(p) \/ \E q \in Proc : \E n : ChangePriority(p, q, n)

\* ... and whatever is not the step of a process.
SystemActs ==
    \/ Boot \/ (\E p \in Ending : Ends(p)) \/ EndReleases
    \/ Tick \/ TickSkips \/ TickEnds
    \/ \E b \in MemBlock : TickDelivers(b)
    \/ SerialInterrupt
    \/ UNCHANGED rtxVars

\* The next-state relation when the processes call the primitives with any arguments,
\* not only those that Rtx lets them choose from: what is proved of these steps holds
\* of every program, and is used for those of modules Console and Stress too.
CallsNext == SystemActs \/ \E p \in Proc : ProcessActs(p)

LEMMA NextCalls == [RtxNext]_rtxVars => CallsNext
BY ReceiverAssumption DEF RtxNext, CallsNext, SystemActs, ProcessActs, Primitives

LEMMA InitAddressed == RtxInit => Addressed
BY ProcAssumption DEF RtxInit, Addressed

LEMMA ProcessStep ==
  ASSUME Addressed, NEW p \in Proc, Primitives(p)
  PROVE  Addressed' /\ [Next]_vars
<1>1. CASE Yield(p)
  BY <1>1 DEF Yield, dataVars, mailVars, callVars, Addressed, Next
<1>3. CASE Request(p) \/ RequestFindsNone(p)
  BY <1>3 DEF Request, RequestFindsNone, GoTo, mailVars, Addressed
<1>4. CASE RequestBlocks(p)
  BY <1>4 DEF RequestBlocks, GoTo, mailVars, Addressed, Next, BlockType
<1>5. CASE \E b \in MemBlock : Release(p, b)
  BY <1>5, ProcAssumption DEF Release, GoTo, Addressed
<1>6. CASE ReleaseUnblocks(p)
  BY <1>6 DEF ReleaseUnblocks, GoTo, mailVars, Addressed, Next, BlockType
<1>7. CASE \E b \in MemBlock, q \in Proc : Send(p, b, q)
  BY <1>7, ReceiverAssumption DEF Send, Address, Addressed
<1>8. CASE SendUnblocks(p)
  BY <1>8, ProcAssumption DEF SendUnblocks, mailVars, Addressed, Next
<1>9. CASE \E b \in MemBlock, q \in Proc, d \in Nat : DelayedSend(p, b, q, d)
  BY <1>9, ReceiverAssumption DEF DelayedSend, Address, callVars, Addressed
<1>10. CASE Receive(p) \/ ReceiveFindsNone(p)
  BY <1>10 DEF Receive, ReceiveFindsNone, GoTo, mailVars, Addressed
<1>11. CASE ReceiveBlocks(p)
  BY <1>11 DEF ReceiveBlocks, GoTo, mailVars, Addressed, Next, BlockType
<1>. QED
  BY <1>1, <1>3, <1>4, <1>5, <1>6, <1>7, <1>8, <1>9, <1>10, <1>11
     DEF Primitives

LEMMA PriorityStep ==
  ASSUME Addressed, NEW p, NEW q, NEW n, ChangePriority(p, q, n)
  PROVE  Addressed'
BY DEF ChangePriority, dataVars, mailVars, callVars, Addressed

LEMMA SystemStep ==
  ASSUME Addressed, SystemActs
  PROVE  Addressed' /\ [Next]_vars
<1>1. CASE Boot
  BY <1>1 DEF Boot, dataVars, mailVars, callVars, Addressed, Next
<1>3. CASE Tick
  BY <1>3 DEF Tick, callVars, Addressed, Next
<1>4. CASE TickSkips
  BY <1>4 DEF TickSkips, mailVars, callVars, Addressed
<1>5. CASE TickEnds
  BY <1>5 DEF TickEnds, mailVars, callVars, Addressed, Next
<1>6. CASE \E b \in MemBlock : TickDelivers(b)
  BY <1>6 DEF TickDelivers, callVars, Addressed, Next
<1>7. CASE SerialInterrupt
  BY <1>7, ReceiverAssumption DEF SerialInterrupt, callVars, Addressed, Next
<1>8. CASE \E p \in Ending : Ends(p)
  BY <1>8 DEF Ends, dataVars, mailVars, callVars, Addressed, Next
<1>9. CASE EndReleases
  BY <1>9 DEF EndReleases, dataVars, mailVars, callVars, Addressed, Next
<1>10. CASE UNCHANGED rtxVars
  BY <1>10 DEF rtxVars, dataVars, mailVars, callVars, Addressed
<1>. QED
  BY <1>1, <1>3, <1>4, <1>5, <1>6, <1>7, <1>8, <1>9, <1>10 DEF SystemActs

\* Every step of the system keeps the receivers right and is a step of the
\* scheduler, or leaves the scheduler's variables alone.
LEMMA CallsStep == Addressed /\ CallsNext => Addressed' /\ [AnyNext]_vars
BY ProcessStep, PriorityStep, SystemStep DEF CallsNext, ProcessActs, ChangePriority, AnyNext

LEMMA RtxStep == Addressed /\ [RtxNext]_rtxVars => Addressed' /\ [Next]_vars
<1>. SUFFICES ASSUME Addressed, [RtxNext]_rtxVars PROVE Addressed' /\ [Next]_vars
  OBVIOUS
<1>1. \/ SystemActs \/ \E p \in Proc : Primitives(p)
      \/ \E p, q \in Proc, n \in PriorityArg : ChangePriority(p, q, n)
  BY ReceiverAssumption DEF RtxNext, SystemActs, Primitives
<1>2. ASSUME NEW p \in Proc, NEW q \in Proc, NEW n \in PriorityArg, ChangePriority(p, q, n)
      PROVE  Addressed' /\ [Next]_vars
  BY <1>2, PriorityStep DEF ChangePriority, Next
<1>. QED BY <1>1, <1>2, ProcessStep, SystemStep

\* The whole kernel implements the scheduler.
THEOREM RtxImplementsScheduler == RtxSpec => ImplementsScheduler
<1>1. RtxInit => Init
  BY DEF RtxInit
<1>. QED
  BY <1>1, InitAddressed, RtxStep, PTL DEF RtxSpec, ImplementsScheduler, Spec

\* So the queues are right, and the best process runs, in the whole kernel too.
THEOREM RtxPlacementHolds == RtxSpec => []Placement
BY RtxImplementsScheduler, PlacementHolds, PTL DEF ImplementsScheduler

THEOREM RtxPriorityIsRespected == RtxSpec => []PriorityRespected
BY RtxImplementsScheduler, PriorityIsRespected, PTL DEF ImplementsScheduler

-----------------------------------------------------------------------------
(* The mailbox arrays. *)

BlockCount == Cardinality(MemBlock)
Box == [Slot -> MemBlock \cup {NoBlock}]

\* No free entry before a message.
Compact(box) == \A i, j \in Slot : i < j /\ box[j] # NoBlock => box[i] # NoBlock

\* No block in two entries.
Single(box) == \A i, j \in Slot : box[i] = box[j] /\ box[i] # NoBlock => i = j

LEMMA BlockCountIsNat == BlockCount \in Nat /\ Slot = 1..BlockCount
BY BlockAssumption, FS_CardinalityType DEF BlockCount, Slot

\* An array that does not hold every block has a free entry: no more than
\* BlockCount - 1 blocks are in it, each once.
LEMMA Room ==
  ASSUME NEW box \in Box, Single(box), NEW b \in MemBlock, ~InBox(box, b)
  PROVE  \E f \in Slot : box[f] = NoBlock /\ \A j \in 1..(f - 1) : box[j] # NoBlock
<1>1. BlockCount \in Nat /\ Slot = 1..BlockCount /\ IsFiniteSet(MemBlock)
  BY BlockCountIsNat, BlockAssumption
<1>2. \E f \in Slot : box[f] = NoBlock
  <2>1. SUFFICES ASSUME \A f \in Slot : box[f] # NoBlock PROVE FALSE
    OBVIOUS
  <2>. DEFINE others == MemBlock \ {b}
  <2>2. box \in [Slot -> others]
    BY <2>1 DEF Box, InBox
  <2>3. IsFiniteSet(others) /\ Cardinality(others) = BlockCount - 1
    BY <1>1, FS_RemoveElement DEF BlockCount
  <2>4. IsFiniteSet(Slot) /\ Cardinality(Slot) = BlockCount
    BY <1>1, FS_Interval
  <2>5. Cardinality(others) < Cardinality(Slot)
    BY <1>1, <2>3, <2>4
  <2>. HIDE DEF others
  <2>6. \E x, y \in Slot : x # y /\ box[x] = box[y]
    BY <2>2, <2>3, <2>4, <2>5, FS_PigeonHole
  <2>. QED BY <2>1, <2>6 DEF Single
<1>. DEFINE T == {f \in Slot : box[f] = NoBlock}
<1>3. T \in SUBSET Nat /\ T # {}
  BY <1>1, <1>2
<1>4. PICK f \in T : \A y \in T : f <= y
  <2>. HIDE DEF T
  <2>. QED BY <1>3, LeastNat
<1>5. ASSUME NEW j \in 1..(f - 1) PROVE box[j] # NoBlock
  BY <1>1, <1>4
<1>. QED BY <1>4, <1>5

\* A message is put into the first free entry.
LEMMA PutProperties ==
  ASSUME NEW box \in Box, Single(box), Compact(box),
         NEW b \in MemBlock, ~InBox(box, b)
  PROVE  /\ Put(box, b) \in Box /\ Single(Put(box, b)) /\ Compact(Put(box, b))
         /\ \A c \in MemBlock : InBox(Put(box, b), c) <=> InBox(box, c) \/ c = b
         /\ \E f \in Slot : /\ box[f] = NoBlock /\ Put(box, b) = [box EXCEPT ![f] = b]
                            /\ \A j \in Slot : j < f <=> box[j] # NoBlock
<1>1. BlockCount \in Nat /\ Slot = 1..BlockCount
  BY BlockCountIsNat
<1>2. PICK f \in Slot : box[f] = NoBlock /\ \A j \in 1..(f - 1) : box[j] # NoBlock
  BY Room
<1>3. FirstFree(box) = {f}
  BY <1>1, <1>2 DEF FirstFree
<1>. DEFINE new == Put(box, b)
<1>4. /\ new = [box EXCEPT ![f] = b]
      /\ \A j \in Slot : new[j] = IF j = f THEN b ELSE box[j]
  BY <1>3 DEF Put, Box
<1>5. \A j \in Slot : j < f <=> box[j] # NoBlock
  BY <1>1, <1>2 DEF Compact
<1>. HIDE DEF new
<1>6. new \in Box
  BY <1>4 DEF Box
<1>7. b # NoBlock
  BY BlockAssumption
<1>8. Single(new)
  BY <1>4, <1>7 DEF Single, InBox
<1>9. Compact(new)
  BY <1>1, <1>2, <1>4, <1>5, <1>7 DEF Compact
<1>10. \A c \in MemBlock : InBox(new, c) <=> InBox(box, c) \/ c = b
  BY <1>2, <1>4, BlockAssumption DEF InBox
<1>. QED BY <1>2, <1>4, <1>5, <1>6, <1>8, <1>9, <1>10 DEF new

\* The run of messages from entry i ends at e.
EndsAt(box, i, e) ==
    /\ e \in (i + 1)..(BlockCount + 1)
    /\ e \in Slot => box[e] = NoBlock
    /\ \A j \in (i + 1)..(e - 1) : box[j] # NoBlock

LEMMA RunEndProperties ==
  ASSUME NEW box \in Box, NEW i \in Slot
  PROVE  EndsAt(box, i, RunEnd(box, i))
<1>1. BlockCount \in Nat /\ Slot = 1..BlockCount
  BY BlockCountIsNat
<1>. DEFINE T == {e \in (i + 1)..(BlockCount + 1) : e \in Slot => box[e] = NoBlock}
<1>2. BlockCount + 1 \in T /\ T \in SUBSET Nat
  BY <1>1
<1>3. PICK e \in T : \A y \in T : e <= y
  <2>. HIDE DEF T
  <2>. QED BY <1>2, LeastNat
<1>4. \E k \in (i + 1)..(Cardinality(MemBlock) + 1) :
         /\ k \in Slot => box[k] = NoBlock
         /\ \A j \in (i + 1)..(k - 1) : box[j] # NoBlock
  <2>1. ASSUME NEW j \in (i + 1)..(e - 1) PROVE box[j] # NoBlock
    BY <1>1, <1>3
  <2>. QED BY <1>3, <2>1 DEF BlockCount
<1>. QED BY <1>4 DEF RunEnd, EndsAt, BlockCount

\* Taking out entry i moves the run of messages after it up by one.
LEMMA TakeProperties ==
  ASSUME NEW box \in Box, Single(box), Compact(box),
         NEW i \in Slot, box[i] # NoBlock
  PROVE  /\ Take(box, i) \in Box /\ Single(Take(box, i)) /\ Compact(Take(box, i))
         /\ \A c \in MemBlock : InBox(Take(box, i), c) <=> InBox(box, c) /\ c # box[i]
         /\ \A j \in Slot : Take(box, i)[j] =
               IF j < i THEN box[j]
               ELSE IF j + 1 \in Slot THEN box[j + 1] ELSE NoBlock
<1>1. BlockCount \in Nat /\ Slot = 1..BlockCount
  BY BlockCountIsNat
<1>. DEFINE e == RunEnd(box, i)
            new == Take(box, i)
<1>2. EndsAt(box, i, e)
  BY RunEndProperties
<1>3. \A j \in Slot : new[j] = IF j \notin i..(e - 1) THEN box[j]
                               ELSE IF j + 1 < e THEN box[j + 1] ELSE NoBlock
  BY DEF Take
<1>4. new \in [Slot -> MemBlock \cup {NoBlock}]
  <2>1. \A j \in Slot : j \in i..(e - 1) /\ j + 1 < e => j + 1 \in Slot
    BY <1>1, <1>2 DEF EndsAt
  <2>. HIDE DEF e
  <2>2. \A j \in Slot : new[j] \in MemBlock \cup {NoBlock}
    BY <1>3, <2>1 DEF Box
  <2>. QED BY <2>2 DEF Take
<1>. HIDE DEF e, new
<1>5. \A j \in Slot : j >= e => box[j] = NoBlock
  BY <1>1, <1>2 DEF EndsAt, Compact
<1>6. \A j \in Slot : new[j] = IF j < i THEN box[j]
                               ELSE IF j + 1 \in Slot THEN box[j + 1] ELSE NoBlock
  BY <1>1, <1>2, <1>3, <1>5 DEF EndsAt
<1>7. Compact(new)
  BY <1>1, <1>6 DEF Compact
<1>8. Single(new)
  BY <1>1, <1>6 DEF Single
<1>9. ASSUME NEW c \in MemBlock
      PROVE  InBox(new, c) <=> InBox(box, c) /\ c # box[i]
  <2>1. c # NoBlock
    BY BlockAssumption
  <2>2. ASSUME InBox(new, c) PROVE InBox(box, c) /\ c # box[i]
    BY <1>1, <1>6, <2>1, <2>2 DEF InBox, Single
  <2>3. ASSUME InBox(box, c), c # box[i] PROVE InBox(new, c)
    <3>1. PICK j \in Slot : box[j] = c
      BY <2>3 DEF InBox
    <3>2. CASE j < i
      BY <1>6, <3>1, <3>2 DEF InBox
    <3>3. CASE j > i
      <4>1. j - 1 \in Slot /\ new[j - 1] = c
        BY <1>1, <1>6, <3>1, <3>3
      <4>. QED BY <4>1 DEF InBox
    <3>. QED BY <1>1, <2>3, <3>1, <3>2, <3>3
  <2>. QED BY <2>2, <2>3
<1>. QED BY <1>4, <1>6, <1>7, <1>8, <1>9 DEF new, Box
-----------------------------------------------------------------------------
(* Where the blocks are. *)

IsFree(b) == Contains(available, b)

\* A block is free, or in one of the mailboxes, or held by its owner, and in
\* only one of these places.
AccountedFor(b) ==
    /\ b \in used <=> ~IsFree(b)
    /\ IsFree(b) => owner[b] = NoOwner
    /\ InBox(mailbox, b) \/ InBox(delayed, b) => owner[b] = rx[b]
    /\ ~(InBox(mailbox, b) /\ InBox(delayed, b))
    /\ \A p \in Proc : b \in held[p] =>
          owner[b] = p /\ ~InBox(mailbox, b) /\ ~InBox(delayed, b)
    /\ \/ IsFree(b) \/ InBox(mailbox, b) \/ InBox(delayed, b)
       \/ owner[b] \in Proc /\ b \in held[owner[b]]

Accounted == \A b \in MemBlock : AccountedFor(b)

\* No list and no array has a block twice, and the arrays have no gaps.
Listed ==
    /\ IsInjective(available)
    /\ Single(mailbox) /\ Single(delayed)
    /\ Compact(mailbox) /\ Compact(delayed)

DataTypeOK ==
    /\ available \in Seq(MemBlock) /\ used \subseteq MemBlock
    /\ owner \in [MemBlock -> Proc \cup {NoOwner}]
    /\ rx \in [MemBlock -> Proc] /\ left \in [MemBlock -> Int]
    /\ mailbox \in Box /\ delayed \in Box
    /\ at \in [Proc -> Point] /\ to \in [Proc -> Proc]
    /\ held \in [Proc -> SUBSET MemBlock]

Accounts == DataTypeOK /\ Listed /\ Accounted

\* Each block is in the initial list, once: it is as long as there are blocks.
LEMMA InitialList ==
  /\ IsInjective(BlockOrder)
  /\ \A b \in MemBlock : Contains(BlockOrder, b)
<1>1. /\ BlockCount \in Nat /\ IsFiniteSet(MemBlock)
      /\ BlockOrder \in Seq(MemBlock) /\ Len(BlockOrder) = BlockCount
      /\ \A b \in MemBlock : Contains(BlockOrder, b)
  BY BlockAssumption, BlockCountIsNat DEF BlockCount
<1>2. /\ DOMAIN BlockOrder = 1..BlockCount
      /\ BlockOrder \in [1..BlockCount -> MemBlock]
  BY <1>1, LenProperties, ElementOfSeq
<1>3. \A b \in MemBlock : \E i \in 1..BlockCount : BlockOrder[i] = b
  BY <1>1 DEF Contains
<1>4. BlockOrder \in Surjection(1..BlockCount, MemBlock)
  BY <1>2, <1>3 DEF Surjection
<1>5. IsFiniteSet(1..BlockCount) /\ Cardinality(1..BlockCount) = Cardinality(MemBlock)
  BY <1>1, FS_Interval DEF BlockCount
<1>6. BlockOrder \in Injection(1..BlockCount, MemBlock)
  BY <1>4, <1>5, FS_SurjSameCardinalityImpliesInj
<1>7. IsInjective(BlockOrder)
  BY <1>2, <1>6 DEF Injection, IsInjective
<1>. QED BY <1>1, <1>7

LEMMA InitAccounts == RtxInit => Accounts
<1>. SUFFICES ASSUME RtxInit PROVE Accounts
  OBVIOUS
<1>1. DataTypeOK
  <2>1. Past \in Int
    BY BlockCountIsNat DEF Past, BlockCount
  <2>. QED BY <2>1, BlockAssumption, ProcAssumption DEF RtxInit, DataTypeOK, Box, Point
<1>2. Listed
  BY InitialList DEF RtxInit, Listed, Single, Compact
<1>3. Accounted
  BY InitialList, BlockAssumption DEF RtxInit, Accounted, AccountedFor, IsFree, InBox
<1>. QED BY <1>1, <1>2, <1>3 DEF Accounts

\* What taking the oldest block out of the free list does to the list.
LEMMA HeadIsFree ==
  ASSUME Accounts, available # <<>>
  PROVE  /\ Head(available) \in MemBlock /\ IsFree(Head(available))
         /\ Tail(available) \in Seq(MemBlock) /\ IsInjective(Tail(available))
         /\ \A b : Contains(Tail(available), b) <=> IsFree(b) /\ b # Head(available)
<1>1. available \in Seq(MemBlock) /\ IsInjective(available)
  BY DEF Accounts, DataTypeOK, Listed
<1>2. HeadAndTail(MemBlock, available, Head(available), Tail(available))
  BY <1>1, TailContains
<1>. QED BY <1>2 DEF HeadAndTail, IsFree

\* A block that is held is nowhere else.
LEMMA HeldProperties ==
  ASSUME Accounts, NEW p \in Proc, NEW b \in held[p]
  PROVE  /\ b \in MemBlock /\ owner[b] = p /\ b \in used /\ ~IsFree(b)
         /\ ~InBox(mailbox, b) /\ ~InBox(delayed, b)
         /\ \A q \in Proc : b \in held[q] => q = p
<1>1. b \in MemBlock
  BY DEF Accounts, DataTypeOK
<1>. QED BY <1>1, ReceiverAssumption DEF Accounts, Accounted, AccountedFor

LEMMA RequestAccounts ==
  ASSUME Accounts, NEW p \in Proc, Request(p)
  PROVE  Accounts'
<1>. DEFINE h == Head(available)
            t == Tail(available)
<1>1. /\ h \in MemBlock /\ IsFree(h) /\ t \in Seq(MemBlock) /\ IsInjective(t)
      /\ \A b : Contains(t, b) <=> IsFree(b) /\ b # h
  BY HeadIsFree DEF Request
<1>2. /\ available' = t /\ used' = used \cup {h}
      /\ owner' = [owner EXCEPT ![h] = p]
      /\ held' = [held EXCEPT ![p] = @ \cup {h}]
      /\ at' = [at EXCEPT ![p] = "run"]
      /\ UNCHANGED <<rx, left, mailbox, delayed, to>>
  BY DEF Request, GoTo, mailVars
<1>. HIDE DEF h, t
<1>3. DataTypeOK'
  BY <1>1, <1>2 DEF Accounts, DataTypeOK, Point
<1>4. Listed'
  BY <1>1, <1>2 DEF Accounts, Listed
<1>5. \A b : IsFree(b)' <=> IsFree(b) /\ b # h
  BY <1>1, <1>2 DEF IsFree
<1>6. owner[h] = NoOwner /\ ~InBox(mailbox, h) /\ ~InBox(delayed, h)
      /\ \A q \in Proc : h \notin held[q]
  BY <1>1, ReceiverAssumption DEF Accounts, DataTypeOK, Accounted, AccountedFor
<1>7. Accounted'
  <2>1. SUFFICES ASSUME NEW b \in MemBlock PROVE AccountedFor(b)'
    BY DEF Accounted
  <2>2. /\ owner'[b] = IF b = h THEN p ELSE owner[b]
        /\ \A q \in Proc : held'[q] = IF q = p THEN held[q] \cup {h} ELSE held[q]
    BY <1>2 DEF Accounts, DataTypeOK
  <2>. QED BY <1>2, <1>5, <1>6, <2>2 DEF Accounts, Accounted, AccountedFor, InBox
<1>. QED BY <1>3, <1>4, <1>7 DEF Accounts

LEMMA ReleaseAccounts ==
  ASSUME Accounts, NEW p \in Proc, NEW b \in MemBlock, Release(p, b)
  PROVE  Accounts'
<1>. DEFINE t == Append(available, b)
<1>1. b \in held[p]
  BY DEF Release, MayRelease
<1>2. /\ owner[b] = p /\ ~IsFree(b) /\ ~InBox(mailbox, b) /\ ~InBox(delayed, b)
      /\ \A q \in Proc : b \in held[q] => q = p
  BY <1>1, HeldProperties
<1>3. /\ t \in Seq(MemBlock) /\ IsInjective(t)
      /\ \A c : Contains(t, c) <=> IsFree(c) \/ c = b
  BY <1>2, AppendContains DEF Accounts, DataTypeOK, Listed, IsFree
<1>4. /\ available' = t /\ used' = used \ {b}
      /\ owner' = [owner EXCEPT ![b] = NoOwner]
      /\ rx' = [rx EXCEPT ![b] = NullProc]
      /\ left' = [left EXCEPT ![b] = Past]
      /\ held' = [held EXCEPT ![p] = @ \ {b}]
      /\ at' = [at EXCEPT ![p] = "rel_gap"]
      /\ UNCHANGED <<mailbox, delayed, to>>
  BY DEF Release, GoTo
<1>. HIDE DEF t
<1>5. DataTypeOK'
  <2>1. Past \in Int
    BY BlockCountIsNat DEF Past, BlockCount
  <2>. QED BY <1>3, <1>4, <2>1, ProcAssumption DEF Accounts, DataTypeOK, Point
<1>6. Listed'
  BY <1>3, <1>4 DEF Accounts, Listed
<1>7. \A c : IsFree(c)' <=> IsFree(c) \/ c = b
  BY <1>3, <1>4 DEF IsFree
<1>8. Accounted'
  <2>1. SUFFICES ASSUME NEW c \in MemBlock PROVE AccountedFor(c)'
    BY DEF Accounted
  <2>2. /\ owner'[c] = IF c = b THEN NoOwner ELSE owner[c]
        /\ rx'[c] = IF c = b THEN NullProc ELSE rx[c]
        /\ \A q \in Proc : held'[q] = IF q = p THEN held[q] \ {b} ELSE held[q]
    BY <1>4 DEF Accounts, DataTypeOK
  <2>3. (InBox(mailbox, c)' <=> InBox(mailbox, c)) /\ (InBox(delayed, c)' <=> InBox(delayed, c))
    BY <1>4 DEF InBox
  <2>4. CASE c = b
    <3>1. ~InBox(mailbox, c)' /\ ~InBox(delayed, c)'
      BY <1>2, <2>3, <2>4
    <3>2. IsFree(c)' /\ c \notin used' /\ owner'[c] = NoOwner
      BY <1>4, <1>7, <2>2, <2>4
    <3>3. \A q \in Proc : c \notin held'[q]
      BY <1>2, <2>2, <2>4
    <3>. QED BY <3>1, <3>2, <3>3 DEF AccountedFor
  <2>5. CASE c # b
    <3>1. AccountedFor(c)
      BY DEF Accounts, Accounted
    <3>2. /\ owner'[c] = owner[c] /\ rx'[c] = rx[c]
          /\ IsFree(c)' <=> IsFree(c)
          /\ c \in used' <=> c \in used
          /\ \A q \in Proc : c \in held'[q] <=> c \in held[q]
      BY <1>4, <1>7, <2>2, <2>5
    <3>. QED BY <2>3, <3>1, <3>2 DEF AccountedFor
  <2>. QED BY <2>4, <2>5
<1>. QED BY <1>5, <1>6, <1>8 DEF Accounts

\* A held block gets a receiver and goes into one of the mailboxes.
LEMMA AddressProperties ==
  ASSUME Accounts, NEW p \in Proc, NEW b \in MemBlock, NEW q \in Proc, Address(p, b, q)
  PROVE  /\ owner[b] = p /\ ~IsFree(b) /\ b \in used
         /\ ~InBox(mailbox, b) /\ ~InBox(delayed, b)
         /\ \A x \in Proc : b \in held[x] <=> x = p
         /\ rx' \in [MemBlock -> Proc] /\ owner' \in [MemBlock -> Proc \cup {NoOwner}]
         /\ held' \in [Proc -> SUBSET MemBlock]
         /\ \A c \in MemBlock : /\ rx'[c] = IF c = b THEN q ELSE rx[c]
                                /\ owner'[c] = IF c = b THEN q ELSE owner[c]
         /\ \A x \in Proc : held'[x] = held[x] \ {b}
<1>1. b \in held[p]
  BY DEF Address
<1>2. /\ owner[b] = p /\ ~IsFree(b) /\ b \in used
      /\ ~InBox(mailbox, b) /\ ~InBox(delayed, b)
      /\ \A x \in Proc : b \in held[x] => x = p
  BY <1>1, HeldProperties
<1>. QED BY <1>1, <1>2 DEF Address, Accounts, DataTypeOK

LEMMA SendAccounts ==
  ASSUME Accounts, NEW p \in Proc, NEW b \in MemBlock, NEW q \in Proc, Send(p, b, q)
  PROVE  Accounts'
<1>. DEFINE box == Put(mailbox, b)
<1>1. /\ q \in Proc /\ Address(p, b, q) /\ mailbox' = box
      /\ at' = [at EXCEPT ![p] = "send_gap"] /\ to' = [to EXCEPT ![p] = q]
      /\ UNCHANGED <<available, used, left, delayed>>
  BY ReceiverAssumption DEF Send
<1>2. /\ owner[b] = p /\ ~IsFree(b) /\ b \in used
      /\ ~InBox(mailbox, b) /\ ~InBox(delayed, b)
      /\ \A x \in Proc : b \in held[x] <=> x = p
      /\ rx' \in [MemBlock -> Proc] /\ owner' \in [MemBlock -> Proc \cup {NoOwner}]
      /\ held' \in [Proc -> SUBSET MemBlock]
      /\ \A c \in MemBlock : /\ rx'[c] = IF c = b THEN q ELSE rx[c]
                             /\ owner'[c] = IF c = b THEN q ELSE owner[c]
      /\ \A x \in Proc : held'[x] = held[x] \ {b}
  BY <1>1, AddressProperties
<1>3. /\ box \in Box /\ Single(box) /\ Compact(box)
      /\ \A c \in MemBlock : InBox(box, c) <=> InBox(mailbox, c) \/ c = b
  BY <1>2, PutProperties DEF Accounts, DataTypeOK, Listed
<1>. HIDE DEF box
<1>4. DataTypeOK'
  BY <1>1, <1>2, <1>3 DEF Accounts, DataTypeOK, Point
<1>5. Listed'
  BY <1>1, <1>3 DEF Accounts, Listed
<1>6. \A c \in MemBlock : AccountedFor(c)'
  BY <1>1, <1>2, <1>3 DEF Accounts, Accounted, AccountedFor, IsFree, InBox
<1>. QED BY <1>4, <1>5, <1>6 DEF Accounts, Accounted

LEMMA DelayedSendAccounts ==
  ASSUME Accounts, NEW p \in Proc, NEW b \in MemBlock, NEW q \in Proc,
         NEW d \in Nat, DelayedSend(p, b, q, d)
  PROVE  Accounts'
<1>. DEFINE box == Put(delayed, b)
<1>1. /\ q \in Proc /\ d \in Int /\ Address(p, b, q) /\ delayed' = box
      /\ left' = [left EXCEPT ![b] = d]
      /\ UNCHANGED <<available, used, mailbox, at, to>>
  BY ReceiverAssumption DEF DelayedSend, callVars
<1>2. /\ owner[b] = p /\ ~IsFree(b) /\ b \in used
      /\ ~InBox(mailbox, b) /\ ~InBox(delayed, b)
      /\ \A x \in Proc : b \in held[x] <=> x = p
      /\ rx' \in [MemBlock -> Proc] /\ owner' \in [MemBlock -> Proc \cup {NoOwner}]
      /\ held' \in [Proc -> SUBSET MemBlock]
      /\ \A c \in MemBlock : /\ rx'[c] = IF c = b THEN q ELSE rx[c]
                             /\ owner'[c] = IF c = b THEN q ELSE owner[c]
      /\ \A x \in Proc : held'[x] = held[x] \ {b}
  BY <1>1, AddressProperties
<1>3. /\ box \in Box /\ Single(box) /\ Compact(box)
      /\ \A c \in MemBlock : InBox(box, c) <=> InBox(delayed, c) \/ c = b
  BY <1>2, PutProperties DEF Accounts, DataTypeOK, Listed
<1>. HIDE DEF box
<1>4. DataTypeOK'
  BY <1>1, <1>2, <1>3 DEF Accounts, DataTypeOK
<1>5. Listed'
  BY <1>1, <1>3 DEF Accounts, Listed
<1>6. \A c \in MemBlock : AccountedFor(c)'
  BY <1>1, <1>2, <1>3 DEF Accounts, Accounted, AccountedFor, IsFree, InBox
<1>. QED BY <1>4, <1>5, <1>6 DEF Accounts, Accounted

LEMMA ReceiveAccounts ==
  ASSUME Accounts, NEW p \in Proc, Receive(p)
  PROVE  Accounts'
<1>1. PICK i \in FirstMail(p) :
         /\ held' = [held EXCEPT ![p] = @ \cup {mailbox[i]}]
         /\ mailbox' = Take(mailbox, i)
  BY DEF Receive
<1>. DEFINE b == mailbox[i]
            box == Take(mailbox, i)
<1>2. /\ at' = [at EXCEPT ![p] = "run"]
      /\ UNCHANGED <<available, used, owner, rx, left, delayed, to>>
  BY DEF Receive, GoTo, memVars
<1>3. i \in Slot /\ b \in MemBlock /\ b # NoBlock /\ rx[b] = p /\ InBox(mailbox, b)
  BY DEF FirstMail, Accounts, DataTypeOK, Box, InBox
<1>4. /\ box \in Box /\ Single(box) /\ Compact(box)
      /\ \A c \in MemBlock : InBox(box, c) <=> InBox(mailbox, c) /\ c # b
  BY <1>3, TakeProperties DEF Accounts, DataTypeOK, Listed
<1>5. /\ held' = [held EXCEPT ![p] = @ \cup {b}] /\ mailbox' = box
  BY <1>1
<1>6. /\ owner[b] = p /\ ~IsFree(b) /\ ~InBox(delayed, b)
      /\ \A x \in Proc : b \notin held[x]
  BY <1>3, ReceiverAssumption DEF Accounts, DataTypeOK, Accounted, AccountedFor
<1>. HIDE DEF box, b
<1>7. DataTypeOK'
  BY <1>2, <1>3, <1>4, <1>5 DEF Accounts, DataTypeOK, Point
<1>8. Listed'
  BY <1>2, <1>4, <1>5 DEF Accounts, Listed
<1>9. ASSUME NEW c \in MemBlock PROVE AccountedFor(c)'
  <2>1. \A x \in Proc : held'[x] = IF x = p THEN held[x] \cup {b} ELSE held[x]
    BY <1>5 DEF Accounts, DataTypeOK
  <2>2. AccountedFor(c)
    BY DEF Accounts, Accounted
  <2>3. /\ InBox(mailbox, c)' <=> InBox(mailbox, c) /\ c # b
        /\ InBox(delayed, c)' <=> InBox(delayed, c)
        /\ IsFree(c)' <=> IsFree(c)
    BY <1>2, <1>4, <1>5 DEF InBox, IsFree
  <2>4. CASE c = b
    BY <1>2, <1>3, <1>6, <2>1, <2>2, <2>3, <2>4 DEF AccountedFor
  <2>5. CASE c # b
    BY <1>2, <2>1, <2>2, <2>3, <2>5 DEF AccountedFor
  <2>. QED BY <2>4, <2>5
<1>. QED BY <1>7, <1>8, <1>9 DEF Accounts, Accounted

LEMMA TickDeliversAccounts ==
  ASSUME Accounts, NEW b \in MemBlock, TickDelivers(b)
  PROVE  Accounts'
<1>. DEFINE box == Put(mailbox, b)
            rest == Take(delayed, scan)
<1>1. /\ scan \in Slot /\ delayed[scan] = b /\ mailbox' = box /\ delayed' = rest
      /\ UNCHANGED <<available, used, owner, rx, left, at, to, held>>
  BY DEF TickDelivers, memVars, callVars
<1>2. b # NoBlock /\ InBox(delayed, b)
  BY <1>1, BlockAssumption DEF InBox
<1>3. /\ owner[b] = rx[b] /\ ~IsFree(b) /\ ~InBox(mailbox, b)
      /\ \A x \in Proc : b \notin held[x]
  BY <1>2, ReceiverAssumption DEF Accounts, DataTypeOK, Accounted, AccountedFor
<1>4. /\ box \in Box /\ Single(box) /\ Compact(box)
      /\ \A c \in MemBlock : InBox(box, c) <=> InBox(mailbox, c) \/ c = b
  BY <1>3, PutProperties DEF Accounts, DataTypeOK, Listed
<1>5. /\ rest \in Box /\ Single(rest) /\ Compact(rest)
      /\ \A c \in MemBlock : InBox(rest, c) <=> InBox(delayed, c) /\ c # b
  BY <1>1, <1>2, TakeProperties DEF Accounts, DataTypeOK, Listed
<1>. HIDE DEF box, rest
<1>6. DataTypeOK'
  BY <1>1, <1>4, <1>5 DEF Accounts, DataTypeOK
<1>7. Listed'
  BY <1>1, <1>4, <1>5 DEF Accounts, Listed
<1>8. ASSUME NEW c \in MemBlock PROVE AccountedFor(c)'
  <2>1. AccountedFor(c)
    BY DEF Accounts, Accounted
  <2>2. /\ InBox(mailbox, c)' <=> InBox(mailbox, c) \/ c = b
        /\ InBox(delayed, c)' <=> InBox(delayed, c) /\ c # b
        /\ IsFree(c)' <=> IsFree(c)
    BY <1>1, <1>4, <1>5 DEF InBox, IsFree
  <2>. QED BY <1>1, <1>2, <1>3, <2>1, <2>2 DEF AccountedFor
<1>. QED BY <1>6, <1>7, <1>8 DEF Accounts, Accounted

LEMMA SerialInterruptAccounts ==
  ASSUME Accounts, SerialInterrupt
  PROVE  Accounts'
<1>. DEFINE h == Head(available)
            t == Tail(available)
            box == Put(mailbox, h)
<1>1. /\ available # <<>> /\ available' = t /\ used' = used \cup {h}
      /\ owner' = [owner EXCEPT ![h] = Kcd] /\ rx' = [rx EXCEPT ![h] = Kcd]
      /\ mailbox' = box
      /\ UNCHANGED <<left, delayed, at, to, held>>
  BY DEF SerialInterrupt, callVars
<1>2. /\ h \in MemBlock /\ IsFree(h) /\ t \in Seq(MemBlock) /\ IsInjective(t)
      /\ \A b : Contains(t, b) <=> IsFree(b) /\ b # h
  BY <1>1, HeadIsFree
<1>3. /\ ~InBox(mailbox, h) /\ ~InBox(delayed, h)
      /\ \A x \in Proc : h \notin held[x]
  BY <1>2, ReceiverAssumption DEF Accounts, DataTypeOK, Accounted, AccountedFor
<1>4. /\ box \in Box /\ Single(box) /\ Compact(box)
      /\ \A c \in MemBlock : InBox(box, c) <=> InBox(mailbox, c) \/ c = h
  BY <1>2, <1>3, PutProperties DEF Accounts, DataTypeOK, Listed
<1>. HIDE DEF h, t, box
<1>5. DataTypeOK'
  BY <1>1, <1>2, <1>4, ReceiverAssumption DEF Accounts, DataTypeOK
<1>6. Listed'
  BY <1>1, <1>2, <1>4 DEF Accounts, Listed
<1>7. ASSUME NEW c \in MemBlock PROVE AccountedFor(c)'
  <2>1. AccountedFor(c)
    BY DEF Accounts, Accounted
  <2>2. /\ InBox(mailbox, c)' <=> InBox(mailbox, c) \/ c = h
        /\ InBox(delayed, c)' <=> InBox(delayed, c)
        /\ IsFree(c)' <=> IsFree(c) /\ c # h
    BY <1>1, <1>2, <1>4 DEF InBox, IsFree
  <2>3. /\ owner'[c] = IF c = h THEN Kcd ELSE owner[c]
        /\ rx'[c] = IF c = h THEN Kcd ELSE rx[c]
    BY <1>1 DEF Accounts, DataTypeOK
  <2>. QED BY <1>1, <1>3, <2>1, <2>2, <2>3 DEF AccountedFor
<1>. QED BY <1>5, <1>6, <1>7 DEF Accounts, Accounted

\* The steps that leave blocks and mailboxes alone.
LEMMA QuietAccounts ==
  ASSUME Accounts, UNCHANGED <<memVars, mailVars, held>>,
         at' \in [Proc -> Point], to' \in [Proc -> Proc]
  PROVE  Accounts'
<1>1. DataTypeOK' /\ Listed'
  BY DEF memVars, mailVars, Accounts, DataTypeOK, Listed
<1>2. Accounted'
  BY DEF memVars, mailVars, Accounts, Accounted, AccountedFor, IsFree, InBox
<1>. QED BY <1>1, <1>2 DEF Accounts

LEMMA TickAccounts ==
  ASSUME Accounts, Tick
  PROVE  Accounts'
<1>1. /\ left' = [b \in MemBlock |-> IF left[b] = Past THEN Past ELSE left[b] - 1]
      /\ UNCHANGED <<available, used, owner, rx, mailbox, delayed, at, to, held>>
  BY DEF Tick, memVars, callVars
<1>2. Past \in Int
  BY BlockCountIsNat DEF Past, BlockCount
<1>3. DataTypeOK' /\ Listed'
  BY <1>1, <1>2 DEF Accounts, DataTypeOK, Listed
<1>4. Accounted'
  BY <1>1 DEF Accounts, Accounted, AccountedFor, IsFree, InBox
<1>. QED BY <1>3, <1>4 DEF Accounts

LEMMA ProcessAccounts ==
  ASSUME Accounts, NEW p \in Proc, ProcessActs(p)
  PROVE  Accounts'
<1>0. at \in [Proc -> Point] /\ to \in [Proc -> Proc]
  BY DEF Accounts, DataTypeOK
<1>1. CASE Yield(p) \/ \E q \in Proc : \E n : ChangePriority(p, q, n)
  BY <1>0, <1>1, QuietAccounts DEF Yield, ChangePriority, dataVars, callVars
<1>2. CASE Request(p)
  BY <1>2, RequestAccounts
<1>3. CASE RequestFindsNone(p) \/ RequestBlocks(p) \/ ReleaseUnblocks(p)
  BY <1>0, <1>3, QuietAccounts
     DEF RequestFindsNone, RequestBlocks, ReleaseUnblocks, GoTo, Point
<1>4. CASE \E b \in MemBlock : Release(p, b)
  BY <1>4, ReleaseAccounts
<1>5. CASE \E b \in MemBlock, q \in Proc : Send(p, b, q)
  BY <1>5, SendAccounts
<1>6. CASE SendUnblocks(p)
  BY <1>0, <1>6, QuietAccounts, ProcAssumption DEF SendUnblocks, Point
<1>7. CASE \E b \in MemBlock, q \in Proc, d \in Nat : DelayedSend(p, b, q, d)
  BY <1>7, DelayedSendAccounts
<1>8. CASE Receive(p)
  BY <1>8, ReceiveAccounts
<1>9. CASE ReceiveFindsNone(p) \/ ReceiveBlocks(p)
  BY <1>0, <1>9, QuietAccounts DEF ReceiveFindsNone, ReceiveBlocks, GoTo, Point
<1>. QED BY <1>1, <1>2, <1>3, <1>4, <1>5, <1>6, <1>7, <1>8, <1>9 DEF ProcessActs, Primitives

\* Whoever does what, each block stays in one place.
LEMMA StepAccounts ==
  ASSUME Accounts, CallsNext
  PROVE  Accounts'
<1>0. at \in [Proc -> Point] /\ to \in [Proc -> Proc]
  BY DEF Accounts, DataTypeOK
<1>1. CASE Boot \/ (\E p \in Ending : Ends(p)) \/ EndReleases \/ UNCHANGED rtxVars
  BY <1>0, <1>1, QuietAccounts DEF Boot, Ends, EndReleases, rtxVars, dataVars, callVars
<1>2. CASE \E p \in Proc : ProcessActs(p)
  BY <1>2, ProcessAccounts
<1>3. CASE Tick
  BY <1>3, TickAccounts
<1>4. CASE TickSkips \/ TickEnds
  BY <1>0, <1>4, QuietAccounts DEF TickSkips, TickEnds, callVars
<1>5. CASE \E b \in MemBlock : TickDelivers(b)
  BY <1>5, TickDeliversAccounts
<1>6. CASE SerialInterrupt
  BY <1>6, SerialInterruptAccounts
<1>. QED BY <1>1, <1>2, <1>3, <1>4, <1>5, <1>6 DEF CallsNext, SystemActs

-----------------------------------------------------------------------------
(* Time. *)

\* The timer interrupt walks along the delayed mailbox, and past its end.
Scanning == scan \in 0..(BlockCount + 1) /\ (scan = 0 <=> isr = Idle)

\* Entries the interrupt under way has not come to may be a tick later than
\* the others; nothing outside the delayed mailbox is waited for any more.
Slack(i) == IF scan # 0 /\ i >= scan THEN 1 ELSE 0

Timely ==
    /\ \A b \in MemBlock : ~InBox(delayed, b) => left[b] <= 0
    /\ \A i \in Slot : delayed[i] # NoBlock =>
          left[delayed[i]] >= i - BlockCount - Slack(i)

LEMMA NextScanProperties ==
  ASSUME NEW i \in Slot
  PROVE  NextScan(i) \in {i, i + 1} /\ NextScan(i) \in 1..(BlockCount + 1)
BY BlockCountIsNat DEF NextScan

\* Outside the timer interrupt nothing but its beginning moves the index, and
\* inside it nothing but the loop and its end.
LEMMA ProcessScans ==
  ASSUME Scanning, NEW p \in Proc, ProcessActs(p)
  PROVE  Scanning' /\ scan' = scan
<1>1. CASE Yield(p) \/ \E q \in Proc : \E n : ChangePriority(p, q, n)
  BY <1>1 DEF Yield, ChangePriority, ReleaseProcessor, SetPriority, dataVars, Scanning
<1>2. CASE Request(p) \/ RequestFindsNone(p)
  BY <1>2 DEF Request, RequestFindsNone, vars, Scanning
<1>3. CASE RequestBlocks(p) \/ ReceiveBlocks(p)
  BY <1>3 DEF RequestBlocks, ReceiveBlocks, Block, Scanning
<1>4. CASE \E b \in MemBlock : Release(p, b)
  BY <1>4 DEF Release, vars, Scanning
<1>5. CASE ReleaseUnblocks(p)
  BY <1>5 DEF ReleaseUnblocks, UnblockByType, vars, Scanning
<1>6. CASE \E b \in MemBlock, q \in Proc : Send(p, b, q)
  BY <1>6 DEF Send, vars, Scanning
<1>7. CASE SendUnblocks(p)
  BY <1>7 DEF SendUnblocks, UnblockByPid, Scanning
<1>8. CASE \E b \in MemBlock, q \in Proc, d \in Nat : DelayedSend(p, b, q, d)
  BY <1>8 DEF DelayedSend, vars, Scanning
<1>9. CASE Receive(p) \/ ReceiveFindsNone(p)
  BY <1>9 DEF Receive, ReceiveFindsNone, vars, Scanning
<1>. QED BY <1>1, <1>2, <1>3, <1>4, <1>5, <1>6, <1>7, <1>8, <1>9 DEF ProcessActs, Primitives

LEMMA StepScans ==
  ASSUME IInv, Accounts, Scanning, CallsNext
  PROVE  Scanning'
<1>1. BlockCount \in Nat /\ Slot = 1..BlockCount
  BY BlockCountIsNat
<1>2. isr \in Level \cup {Idle} /\ kernel.priority \in [Proc -> Level] /\ Idle \notin Level
  BY KernelFields DEF IInv, TypeOK, Idle, Level
<1>3. CASE Boot
  BY <1>3 DEF Boot, CreateProcess, EnterMain, ReleaseProcessor, dataVars, Scanning
<1>4. CASE (\E p \in Ending : Ends(p)) \/ EndReleases \/ UNCHANGED rtxVars
  BY <1>4 DEF Ends, TerminateProcess, EndReleases, ReleaseProcessor, rtxVars, vars,
              dataVars, Scanning
<1>5. CASE \E p \in Proc : ProcessActs(p)
  BY <1>5, ProcessScans
<1>6. CASE Tick
  BY <1>1, <1>6 DEF Tick, TimerEnter, Idle, Scanning
<1>7. CASE TickSkips
  BY <1>1, <1>7 DEF TickSkips, vars, Scanning
<1>8. CASE TickEnds
  BY <1>1, <1>8 DEF TickEnds, TimerExit, Scanning
<1>9. CASE \E b \in MemBlock : TickDelivers(b)
  <2>1. PICK b \in MemBlock : TickDelivers(b)
    BY <1>9
  <2>2. /\ scan \in Slot /\ scan' = NextScan(scan)
        /\ isr' = isr \/ isr' = kernel.priority[rx[b]]
        /\ isr # Idle /\ (isr' # isr => IsProcessBlocked(kernel, rx[b]))
    BY <2>1 DEF TickDelivers, TimerUnblock, vars
  <2>3. NextScan(scan) \in 1..(BlockCount + 1)
    BY <2>2, NextScanProperties
  <2>4. rx[b] \in Proc
    BY DEF Accounts, DataTypeOK
  <2>5. isr' # Idle
    BY <1>2, <2>2, <2>4
  <2>. QED BY <1>1, <2>2, <2>3, <2>5 DEF Scanning
<1>10. CASE SerialInterrupt
  BY <1>10 DEF SerialInterrupt, UnblockByPid, Scanning
<1>. QED
  BY <1>3, <1>4, <1>5, <1>6, <1>7, <1>8, <1>9, <1>10 DEF CallsNext, SystemActs

\* The steps that leave the delayed mailbox and its times alone.
LEMMA QuietTimes ==
  ASSUME Timely, UNCHANGED <<left, delayed, scan>>
  PROVE  Timely'
BY DEF Timely, InBox, Slack

LEMMA InitTimely == RtxInit => Scanning /\ Timely
<1>1. Past \in Int /\ Past <= 0 /\ BlockCount \in Nat
  BY BlockCountIsNat DEF Past, BlockCount
<1>. QED BY <1>1 DEF RtxInit, Init, Scanning, Timely

LEMMA ReleaseTimes ==
  ASSUME Accounts, Timely, NEW p \in Proc, NEW b \in MemBlock, Release(p, b)
  PROVE  Timely'
<1>1. Past \in Int /\ Past <= 0
  BY BlockCountIsNat DEF Past, BlockCount
<1>2. /\ \A c \in MemBlock : left'[c] = IF c = b THEN Past ELSE left[c]
      /\ UNCHANGED <<delayed, scan>> /\ b \in held[p]
  BY DEF Release, MayRelease, Accounts, DataTypeOK
<1>3. ~InBox(delayed, b) /\ delayed \in Box
  BY <1>2, HeldProperties DEF Accounts, DataTypeOK
<1>4. \A i \in Slot : delayed[i] # NoBlock => delayed[i] \in MemBlock /\ delayed[i] # b
  BY <1>3 DEF Box, InBox
<1>. QED BY <1>1, <1>2, <1>4 DEF Timely, InBox, Slack

LEMMA DelayedSendTimes ==
  ASSUME Accounts, Timely, NEW p \in Proc, NEW b \in MemBlock, NEW q \in Proc,
         NEW d \in Nat, DelayedSend(p, b, q, d)
  PROVE  Timely'
<1>1. BlockCount \in Nat /\ Slot = 1..BlockCount /\ d \in Nat
  BY BlockCountIsNat, ReceiverAssumption
<1>2. /\ \A c \in MemBlock : left'[c] = IF c = b THEN d ELSE left[c]
      /\ delayed' = Put(delayed, b) /\ scan' = scan /\ b \in held[p]
  BY DEF DelayedSend, Address, Accounts, DataTypeOK
<1>3. ~InBox(delayed, b) /\ delayed \in Box /\ Single(delayed) /\ Compact(delayed)
  BY <1>2, HeldProperties DEF Accounts, DataTypeOK, Listed
<1>4. /\ \A c \in MemBlock : InBox(Put(delayed, b), c) <=> InBox(delayed, c) \/ c = b
      /\ \E f \in Slot : Put(delayed, b) = [delayed EXCEPT ![f] = b]
  BY <1>3, PutProperties
<1>5. PICK f \in Slot : \A i \in Slot : delayed'[i] = IF i = f THEN b ELSE delayed[i]
  BY <1>2, <1>3, <1>4 DEF Box
<1>6. \A c \in MemBlock : ~InBox(delayed', c) => left'[c] <= 0
  BY <1>2, <1>4 DEF Timely
<1>7. ASSUME NEW i \in Slot, delayed'[i] # NoBlock
      PROVE  left'[delayed'[i]] >= i - BlockCount - Slack(i)'
  <2>1. Slack(i)' = Slack(i) /\ Slack(i) \in {0, 1}
    BY <1>2 DEF Slack
  <2>2. CASE i = f
    BY <1>1, <1>2, <1>5, <2>1, <2>2
  <2>3. CASE i # f
    <3>1. delayed'[i] = delayed[i] /\ delayed[i] \in MemBlock /\ delayed[i] # b
      BY <1>3, <1>5, <1>7, <2>3 DEF Box, InBox
    <3>. QED BY <1>2, <1>7, <2>1, <3>1 DEF Timely
  <2>. QED BY <2>2, <2>3
<1>8. \A c \in MemBlock : ~InBox(delayed, c)' => left'[c] <= 0
  BY <1>6 DEF InBox
<1>. QED BY <1>7, <1>8 DEF Timely

LEMMA TickTimes ==
  ASSUME Accounts, Scanning, Timely, Tick
  PROVE  Timely'
<1>1. BlockCount \in Nat /\ Slot = 1..BlockCount /\ Past = -(BlockCount + 1)
  BY BlockCountIsNat DEF Past, BlockCount
<1>2. /\ \A b \in MemBlock : left'[b] = IF left[b] = Past THEN Past ELSE left[b] - 1
      /\ delayed' = delayed /\ scan' = 1 /\ scan = 0
  BY DEF Tick, TimerEnter, Scanning
<1>3. left \in [MemBlock -> Int] /\ delayed \in Box
  BY DEF Accounts, DataTypeOK
<1>4. \A b \in MemBlock : ~InBox(delayed, b)' => left'[b] <= 0
  BY <1>1, <1>2, <1>3 DEF Timely, InBox
<1>5. ASSUME NEW i \in Slot, delayed[i] # NoBlock
      PROVE  left'[delayed[i]] >= i - BlockCount - 1 /\ Slack(i)' = 1
  <2>1. delayed[i] \in MemBlock /\ left[delayed[i]] >= i - BlockCount
    BY <1>1, <1>2, <1>3, <1>5 DEF Timely, Slack, Box
  <2>. QED BY <1>1, <1>2, <1>3, <2>1 DEF Slack
<1>. QED BY <1>1, <1>2, <1>4, <1>5 DEF Timely

LEMMA TickSkipsTimes ==
  ASSUME Accounts, Timely, TickSkips
  PROVE  Timely'
<1>1. BlockCount \in Nat /\ Slot = 1..BlockCount
  BY BlockCountIsNat
<1>2. /\ left' = left /\ delayed' = delayed /\ scan' = scan + 1 /\ scan \in Slot
      /\ delayed[scan] # NoBlock => left[delayed[scan]] > 0
  <2>1. delayed[scan] # NoBlock /\ scan \in Slot => left[delayed[scan]] \in Int
    BY DEF Accounts, DataTypeOK, Box
  <2>. QED BY <2>1 DEF TickSkips, mailVars, Due
<1>3. left \in [MemBlock -> Int] /\ delayed \in Box
  BY DEF Accounts, DataTypeOK
<1>4. ASSUME NEW i \in Slot, delayed[i] # NoBlock
      PROVE  left[delayed[i]] >= i - BlockCount - Slack(i)'
  <2>1. left[delayed[i]] \in Int /\ left[delayed[i]] >= i - BlockCount - Slack(i)
    BY <1>3, <1>4 DEF Timely, Box
  <2>2. CASE i = scan
    BY <1>1, <1>2, <1>4, <2>1, <2>2 DEF Slack
  <2>3. CASE i # scan
    BY <1>1, <1>2, <2>1, <2>3 DEF Slack
  <2>. QED BY <2>2, <2>3
<1>. QED BY <1>2, <1>4 DEF Timely, InBox

LEMMA TickDeliversTimes ==
  ASSUME Accounts, Timely, NEW b \in MemBlock, TickDelivers(b)
  PROVE  Timely'
<1>. DEFINE rest == Take(delayed, scan)
<1>1. BlockCount \in Nat /\ Slot = 1..BlockCount
  BY BlockCountIsNat
<1>2. /\ scan \in Slot /\ delayed[scan] = b /\ b # NoBlock /\ left[b] <= 0
      /\ left' = left /\ delayed' = rest /\ scan' \in {scan, scan + 1}
  BY NextScanProperties, BlockAssumption DEF TickDelivers, Due
<1>3. /\ left \in [MemBlock -> Int] /\ delayed \in Box
      /\ Single(delayed) /\ Compact(delayed)
  BY DEF Accounts, DataTypeOK, Listed
<1>4. /\ \A c \in MemBlock : InBox(rest, c) <=> InBox(delayed, c) /\ c # b
      /\ \A j \in Slot : rest[j] = IF j < scan THEN delayed[j]
                                   ELSE IF j + 1 \in Slot THEN delayed[j + 1] ELSE NoBlock
  BY <1>2, <1>3, TakeProperties
<1>. HIDE DEF rest
<1>5. \A c \in MemBlock : ~InBox(delayed, c)' => left'[c] <= 0
  BY <1>2, <1>4 DEF Timely, InBox
<1>6. ASSUME NEW i \in Slot, rest[i] # NoBlock
      PROVE  left[rest[i]] >= i - BlockCount - Slack(i)'
  <2>1. CASE i < scan
    <3>1. left[delayed[i]] >= i - BlockCount - Slack(i) /\ rest[i] = delayed[i]
      BY <1>4, <1>6, <2>1 DEF Timely
    <3>2. Slack(i) = 0 /\ Slack(i)' = 0
      BY <1>1, <1>2, <2>1 DEF Slack
    <3>. QED BY <3>1, <3>2
  <2>2. CASE i >= scan
    <3>1. i + 1 \in Slot /\ rest[i] = delayed[i + 1] /\ delayed[i + 1] # NoBlock
      BY <1>1, <1>2, <1>4, <1>6, <2>2
    <3>2. left[delayed[i + 1]] >= (i + 1) - BlockCount - Slack(i + 1)
          /\ left[delayed[i + 1]] \in Int
      BY <1>3, <3>1 DEF Timely, Box
    <3>3. Slack(i + 1) \in {0, 1} /\ Slack(i)' \in {0, 1}
      BY DEF Slack
    <3>. QED BY <1>1, <3>1, <3>2, <3>3
  <2>. QED BY <1>1, <1>2, <2>1, <2>2
<1>. QED BY <1>2, <1>5, <1>6 DEF Timely

LEMMA TickEndsTimes ==
  ASSUME Accounts, Scanning, Timely, TickEnds
  PROVE  Timely'
<1>1. BlockCount \in Nat /\ Slot = 1..BlockCount
  BY BlockCountIsNat
<1>2. left' = left /\ delayed' = delayed /\ scan' = 0 /\ scan \notin Slot
  BY DEF TickEnds, mailVars
<1>3. scan \in 0..(BlockCount + 1)
  BY DEF Scanning
<1>4. \A i \in Slot : Slack(i) = 0 /\ Slack(i)' = 0
  BY <1>1, <1>2, <1>3 DEF Slack
<1>. QED BY <1>2, <1>4 DEF Timely, InBox

LEMMA StepTimes ==
  ASSUME Accounts, Scanning, Timely, CallsNext
  PROVE  Timely'
<1>1. CASE Boot \/ (\E p \in Ending : Ends(p)) \/ EndReleases \/ UNCHANGED rtxVars
  BY <1>1, QuietTimes DEF Boot, Ends, EndReleases, rtxVars, dataVars, mailVars
<1>2. CASE \E p \in Proc : ProcessActs(p)
  <2>1. PICK p \in Proc : ProcessActs(p)
    BY <1>2
  <2>2. CASE Yield(p) \/ \E q \in Proc : \E n : ChangePriority(p, q, n)
    BY <2>2, QuietTimes DEF Yield, ChangePriority, dataVars, mailVars
  <2>3. CASE Request(p) \/ RequestFindsNone(p) \/ RequestBlocks(p) \/ ReleaseUnblocks(p)
    BY <2>3, QuietTimes
       DEF Request, RequestFindsNone, RequestBlocks, ReleaseUnblocks, mailVars
  <2>4. CASE \E b \in MemBlock : Release(p, b)
    BY <2>4, ReleaseTimes
  <2>5. CASE SendUnblocks(p) \/ \E b \in MemBlock, q \in Proc : Send(p, b, q)
    BY <2>5, QuietTimes DEF Send, SendUnblocks, mailVars
  <2>6. CASE \E b \in MemBlock, q \in Proc, d \in Nat : DelayedSend(p, b, q, d)
    BY <2>6, DelayedSendTimes
  <2>7. CASE Receive(p) \/ ReceiveFindsNone(p) \/ ReceiveBlocks(p)
    BY <2>7, QuietTimes DEF Receive, ReceiveFindsNone, ReceiveBlocks, mailVars
  <2>. QED BY <2>1, <2>2, <2>3, <2>4, <2>5, <2>6, <2>7 DEF ProcessActs, Primitives
<1>3. CASE Tick
  BY <1>3, TickTimes
<1>4. CASE TickSkips
  BY <1>4, TickSkipsTimes
<1>5. CASE TickEnds
  BY <1>5, TickEndsTimes
<1>6. CASE \E b \in MemBlock : TickDelivers(b)
  BY <1>6, TickDeliversTimes
<1>7. CASE SerialInterrupt
  BY <1>7, QuietTimes DEF SerialInterrupt
<1>. QED BY <1>1, <1>2, <1>3, <1>4, <1>5, <1>6, <1>7 DEF CallsNext, SystemActs

-----------------------------------------------------------------------------
(* The theorems. *)

RtxIInv == IInv /\ Accounts /\ Scanning /\ Timely

LEMMA StepRtxIInv == RtxIInv /\ CallsNext => RtxIInv'
<1>. SUFFICES ASSUME RtxIInv, CallsNext PROVE RtxIInv'
  OBVIOUS
<1>1. Addressed
  BY DEF RtxIInv, Accounts, DataTypeOK, Addressed
<1>2. IInv'
  BY <1>1, CallsStep, NextIInv DEF RtxIInv
<1>. QED BY <1>2, StepAccounts, StepScans, StepTimes DEF RtxIInv

THEOREM RtxInductiveInvariant == RtxSpec => []RtxIInv
<1>1. RtxInit => RtxIInv
  BY InitIInv, InitAccounts, InitTimely DEF RtxInit, RtxIInv
<1>2. RtxIInv /\ [RtxNext]_rtxVars => RtxIInv'
  BY NextCalls, StepRtxIInv
<1>. QED BY <1>1, <1>2, PTL DEF RtxSpec

LEMMA RtxInvImpliesType == RtxIInv => RtxTypeOK
BY DEF RtxIInv, IInv, Accounts, DataTypeOK, Box, Scanning, BlockCount, RtxTypeOK

\* Whatever is called and sent, the arrays and the lists hold nothing but blocks,
\* receivers and owners are processes, and the index of the timer interrupt does
\* not leave the delayed mailbox by more than the one entry that ends its loop.
THEOREM RtxTypeCorrect == RtxSpec => []RtxTypeOK
BY RtxInvImpliesType, RtxInductiveInvariant, PTL

\* A set with at most the one element x.
LEMMA OneOrNone ==
  ASSUME NEW S, NEW x, \A y \in S : y = x
  PROVE  Cardinality(S) = IF S = {} THEN 0 ELSE 1
<1>1. S = {} \/ S = {x}
  OBVIOUS
<1>2. Cardinality({x}) = 1
  BY FS_Singleton
<1>. QED BY <1>1, <1>2, FS_EmptySet

LEMMA PlacedOnce ==
  ASSUME Accounts, NEW b \in MemBlock
  PROVE  Places(b) = 1
<1>. DEFINE F == {i \in DOMAIN available : available[i] = b}
            M == {i \in Slot : mailbox[i] = b}
            D == {i \in Slot : delayed[i] = b}
            H == {p \in Proc : b \in held[p]}
<1>1. AccountedFor(b) /\ b # NoBlock /\ NoOwner \notin Proc
  BY BlockAssumption, ReceiverAssumption DEF Accounts, Accounted
<1>2. DOMAIN available = 1..Len(available)
  BY DEF Accounts, DataTypeOK
<1>3. /\ F = {} <=> ~IsFree(b)
      /\ M = {} <=> ~InBox(mailbox, b)
      /\ D = {} <=> ~InBox(delayed, b)
      /\ H # {} => owner[b] \in Proc /\ b \in held[owner[b]]
      /\ H = {} => ~(owner[b] \in Proc /\ b \in held[owner[b]])
  <2>1. F = {} <=> ~IsFree(b)
    BY <1>2 DEF IsFree, Contains
  <2>2. (M = {} <=> ~InBox(mailbox, b)) /\ (D = {} <=> ~InBox(delayed, b))
    BY DEF InBox
  <2>3. /\ H # {} => owner[b] \in Proc /\ b \in held[owner[b]]
        /\ H = {} => ~(owner[b] \in Proc /\ b \in held[owner[b]])
    BY <1>1 DEF AccountedFor
  <2>. QED BY <2>1, <2>2, <2>3
<1>4. \E x : \A y \in F : y = x
  BY DEF Accounts, Listed, IsInjective
<1>5. (\E x : \A y \in M : y = x) /\ (\E x : \A y \in D : y = x)
  BY <1>1 DEF Accounts, Listed, Single
<1>6. \E x : \A y \in H : y = x
  <2>1. \A y \in H : y = owner[b]
    BY <1>1 DEF AccountedFor
  <2>. QED BY <2>1
<1>7. /\ Cardinality(F) = (IF F = {} THEN 0 ELSE 1)
      /\ Cardinality(M) = (IF M = {} THEN 0 ELSE 1)
      /\ Cardinality(D) = (IF D = {} THEN 0 ELSE 1)
      /\ Cardinality(H) = (IF H = {} THEN 0 ELSE 1)
  <2>. HIDE DEF F, M, D, H
  <2>1. Cardinality(F) = IF F = {} THEN 0 ELSE 1
    BY <1>4, OneOrNone
  <2>2. Cardinality(M) = IF M = {} THEN 0 ELSE 1
    <3>1. \E x : \A y \in M : y = x
      BY <1>5
    <3>. QED BY <3>1, OneOrNone
  <2>3. Cardinality(D) = IF D = {} THEN 0 ELSE 1
    <3>1. \E x : \A y \in D : y = x
      BY <1>5
    <3>. QED BY <3>1, OneOrNone
  <2>4. Cardinality(H) = IF H = {} THEN 0 ELSE 1
    BY <1>6, OneOrNone
  <2>. QED BY <2>1, <2>2, <2>3, <2>4
<1>8. Places(b) = Cardinality(F) + Cardinality(M) + Cardinality(D) + Cardinality(H)
  BY DEF Places
<1>. HIDE DEF F, M, D, H
<1>9. /\ F # {} => M = {} /\ D = {} /\ H = {}
      /\ M # {} => D = {} /\ H = {}
      /\ D # {} => H = {}
      /\ F # {} \/ M # {} \/ D # {} \/ H # {}
  <2>1. rx[b] \in Proc
    BY DEF Accounts, DataTypeOK
  <2>2. IsFree(b) => ~InBox(mailbox, b) /\ ~InBox(delayed, b) /\ owner[b] \notin Proc
    BY <1>1, <2>1 DEF AccountedFor
  <2>3. InBox(mailbox, b) => ~InBox(delayed, b)
    BY <1>1 DEF AccountedFor
  <2>4. owner[b] \in Proc /\ b \in held[owner[b]] => ~InBox(mailbox, b) /\ ~InBox(delayed, b)
    BY <1>1 DEF AccountedFor
  <2>5. \/ IsFree(b) \/ InBox(mailbox, b) \/ InBox(delayed, b)
        \/ owner[b] \in Proc /\ b \in held[owner[b]]
    BY <1>1 DEF AccountedFor
  <2>. QED BY <1>3, <2>2, <2>3, <2>4, <2>5
<1>. QED BY <1>7, <1>8, <1>9

\* No call and no interrupt, in any gap, loses a block or hands it out twice, and
\* the owner the code records is always the one that may use the block next.
THEOREM BlocksAccountedFor == RtxSpec => []BlockAccounting
<1>. SUFFICES ASSUME RtxIInv PROVE BlockAccounting
  BY RtxInductiveInvariant, PTL
<1>1. Accounts
  BY DEF RtxIInv
<1>2. used = MemBlock \ ToSet(available)
  <2>1. \A b : b \in ToSet(available) <=> IsFree(b)
    BY <1>1 DEF Accounts, DataTypeOK, ToSet, IsFree, Contains
  <2>. QED BY <1>1, <2>1 DEF Accounts, DataTypeOK, Accounted, AccountedFor
<1>. QED
  BY <1>1, <1>2, PlacedOnce DEF Accounts, Accounted, AccountedFor, IsFree, BlockAccounting

\* A search that stops at the first free entry of a mailbox array sees every
\* message in it.
THEOREM MailboxesHaveNoHoles == RtxSpec => []NoHoles
<1>1. RtxIInv => NoHoles
  BY DEF RtxIInv, Accounts, Listed, Compact, NoHoles
<1>. QED BY <1>1, RtxInductiveInvariant, PTL

\* No message is in the mailbox before its time, and none stays in the delayed
\* mailbox for more ticks after its time than there are entries before its own.
THEOREM DelayedAreOnTime == RtxSpec => []OnTime
<1>1. ASSUME RtxIInv PROVE OnTime
  <2>1. /\ BlockCount \in Nat /\ Slot = 1..BlockCount /\ left \in [MemBlock -> Int]
        /\ mailbox \in Box /\ delayed \in Box /\ Accounted /\ Timely
    BY <1>1, BlockCountIsNat DEF RtxIInv, Accounts, DataTypeOK
  <2>2. ASSUME NEW i \in Slot, mailbox[i] # NoBlock
        PROVE  left[mailbox[i]] <= 0
    <3>1. mailbox[i] \in MemBlock /\ InBox(mailbox, mailbox[i])
      BY <2>1, <2>2 DEF Box, InBox
    <3>. QED BY <2>1, <3>1 DEF Accounted, AccountedFor, Timely
  <2>3. ASSUME NEW i \in Slot, delayed[i] # NoBlock
        PROVE  left[delayed[i]] >= i - 1 - BlockCount
    <3>1. left[delayed[i]] \in Int /\ left[delayed[i]] >= i - BlockCount - Slack(i)
      BY <2>1, <2>3 DEF Box, Timely
    <3>. QED BY <2>1, <3>1 DEF Slack
  <2>. QED BY <2>2, <2>3 DEF OnTime, BlockCount
<1>. QED BY <1>1, RtxInductiveInvariant, PTL

\* The running process has not ended.
LEMMA RunningLives ==
  ASSUME RtxIInv, NEW p \in Proc, kernel.running = p
  PROVE  p \notin terminated
BY DEF RtxIInv, IInv, Placement, Alive

\* A step gives one block a new owner at most: the oldest free one, or one that
\* the running process holds.
OwnerMoves ==
    \/ owner' = owner
    \/ \E x \in Proc \cup {NoOwner} :
          available # <<>> /\ owner' = [owner EXCEPT ![Head(available)] = x]
    \/ \E p \in Proc : \E b \in held[p], x \in Proc \cup {NoOwner} :
          kernel.running = p /\ owner' = [owner EXCEPT ![b] = x]

LEMMA StepOwner == CallsNext => OwnerMoves
<1>1. ASSUME NEW p \in Proc, ProcessActs(p) PROVE OwnerMoves
  <2>1. ASSUME NEW b \in MemBlock, Release(p, b) PROVE OwnerMoves
    <3>1. kernel.running = p /\ b \in held[p] /\ owner' = [owner EXCEPT ![b] = NoOwner]
      BY <2>1 DEF Release, Running, MayRelease
    <3>. QED BY <3>1 DEF OwnerMoves
  <2>2. ASSUME NEW b \in MemBlock, NEW q \in Proc,
               Send(p, b, q) \/ \E d \in Nat : DelayedSend(p, b, q, d)
        PROVE  OwnerMoves
    <3>1. kernel.running = p /\ b \in held[p] /\ owner' = [owner EXCEPT ![b] = q]
      BY <2>2 DEF Send, DelayedSend, Running, Address
    <3>. QED BY <3>1, ReceiverAssumption DEF OwnerMoves
  <2>3. CASE Request(p)
    BY <2>3 DEF Request, OwnerMoves
  <2>. QED
    BY <1>1, <2>1, <2>2, <2>3
       DEF ProcessActs, Primitives, Yield, ChangePriority, RequestFindsNone, RequestBlocks,
           ReleaseUnblocks, SendUnblocks, Receive, ReceiveFindsNone, ReceiveBlocks,
           memVars, dataVars, OwnerMoves
<1>2. CASE SerialInterrupt
  BY <1>2, ReceiverAssumption DEF SerialInterrupt, OwnerMoves
<1>. QED
  BY <1>1, <1>2
     DEF CallsNext, SystemActs, ProcessActs, Primitives, Boot, Ends, EndReleases, Tick, TickSkips, TickEnds,
         TickDelivers, memVars, dataVars, rtxVars, OwnerMoves

\* What a process owned when it ended stays its own: only the running process and
\* the lists of free blocks lose a block.
THEOREM TheDeadKeepTheirBlocks == RtxSpec => DeadKeepTheirBlocks
<1>1. ASSUME RtxIInv, CallsNext,
             NEW p \in terminated, NEW b \in MemBlock, owner[b] = p
      PROVE  owner'[b] = p
  <2>1. p \in Proc /\ p # NoOwner /\ ~IsFree(b) /\ Accounts
    BY <1>1, ReceiverAssumption DEF RtxIInv, IInv, TypeOK, Accounts, Accounted, AccountedFor
  <2>2. CASE owner' = owner
    BY <1>1, <2>2
  <2>3. ASSUME available # <<>>, NEW x, owner' = [owner EXCEPT ![Head(available)] = x]
        PROVE  owner'[b] = p
    BY <1>1, <2>1, <2>3, HeadIsFree DEF Accounts, DataTypeOK
  <2>4. ASSUME NEW q \in Proc, kernel.running = q, NEW c \in held[q],
               NEW x, owner' = [owner EXCEPT ![c] = x]
        PROVE  owner'[b] = p
    <3>1. q \notin terminated
      BY <1>1, <2>4, RunningLives
    <3>2. c \in MemBlock /\ owner[c] = q
      BY <2>1, HeldProperties
    <3>3. c # b
      BY <1>1, <3>1, <3>2
    <3>. QED BY <1>1, <2>1, <2>4, <3>3 DEF Accounts, DataTypeOK
  <2>. QED BY <1>1, <2>2, <2>3, <2>4, StepOwner DEF OwnerMoves
<1>2. RtxIInv /\ [RtxNext]_rtxVars
        => [\A p \in terminated, b \in MemBlock : owner[b] = p => owner'[b] = p]_rtxVars
  BY <1>1, NextCalls
<1>. QED
  BY <1>2, RtxInductiveInvariant, PTL DEF RtxSpec, DeadKeepTheirBlocks

-----------------------------------------------------------------------------
(* The mailbox as inboxes. *)

LEMMA SeqSplit ==
  ASSUME NEW T, NEW s \in Seq(T), NEW k \in 1..Len(s)
  PROVE  /\ SubSeq(s, 1, k - 1) \in Seq(T) /\ Len(SubSeq(s, 1, k - 1)) = k - 1
         /\ \A i \in 1..(k - 1) : SubSeq(s, 1, k - 1)[i] = s[i]
         /\ SubSeq(s, k + 1, Len(s)) \in Seq(T)
         /\ Len(SubSeq(s, k + 1, Len(s))) = Len(s) - k
         /\ \A i \in 1..(Len(s) - k) : SubSeq(s, k + 1, Len(s))[i] = s[k + i]
         /\ s = SubSeq(s, 1, k - 1) \o (<<s[k]>> \o SubSeq(s, k + 1, Len(s)))
<1>1. Len(s) \in Nat /\ \A i \in 1..Len(s) : s[i] \in T
  BY LenProperties, ElementOfSeq
<1>. DEFINE n == Len(s)
<1>2. k \in 1..n /\ k - 1 \in Int /\ k - 1 <= n /\ 1 <= k /\ n \in Nat /\ k \in Nat
  BY <1>1
<1>3. /\ SubSeq(s, 1, k - 1) \in Seq(T)
      /\ Len(SubSeq(s, 1, k - 1)) = IF 1 <= k - 1 THEN k - 1 - 1 + 1 ELSE 0
      /\ \A i \in 1..(k - 1 - 1 + 1) : SubSeq(s, 1, k - 1)[i] = s[1 + i - 1]
  <2>1. \A i \in 1..(k - 1) : s[i] \in T
    BY <1>1, <1>2
  <2>. QED BY <1>2, <2>1, SubSeqProperties
<1>4. /\ SubSeq(s, k + 1, n) \in Seq(T)
      /\ Len(SubSeq(s, k + 1, n)) = IF k + 1 <= n THEN n - (k + 1) + 1 ELSE 0
      /\ \A i \in 1..(n - (k + 1) + 1) : SubSeq(s, k + 1, n)[i] = s[k + 1 + i - 1]
  <2>1. \A i \in (k + 1)..n : s[i] \in T
    BY <1>1, <1>2
  <2>2. k + 1 \in Int /\ n \in Int
    BY <1>2
  <2>. QED BY <2>1, <2>2, SubSeqProperties
<1>5. s = SubSeq(s, 1, k - 1) \o (<<s[k]>> \o SubSeq(s, k + 1, n))
  <2>1. SubSeq(s, k, n) = <<s[k]>> \o SubSeq(s, k + 1, n)
    <3>1. n \in k..Len(s)
      BY <1>2
    <3>. QED BY <3>1, SubSeqRecursiveFirst
  <2>2. SubSeq(s, 1, k - 1) \o SubSeq(s, (k - 1) + 1, n) = SubSeq(s, 1, n)
    <3>1. 1 \in 1..(Len(s) + 1) /\ k - 1 \in (1 - 1)..Len(s) /\ n \in (k - 1)..Len(s)
      BY <1>2
    <3>. QED BY <3>1, ConcatAdjacentSubSeq
  <2>3. (k - 1) + 1 = k /\ SubSeq(s, 1, n) = s
    BY <1>2, SubSeqFull
  <2>. QED BY <2>1, <2>2, <2>3
<1>. HIDE DEF n
<1>6. /\ SubSeq(s, 1, k - 1) \in Seq(T) /\ Len(SubSeq(s, 1, k - 1)) = k - 1
      /\ \A i \in 1..(k - 1) : SubSeq(s, 1, k - 1)[i] = s[i]
  BY <1>2, <1>3
<1>7. /\ SubSeq(s, k + 1, n) \in Seq(T) /\ Len(SubSeq(s, k + 1, n)) = n - k
      /\ \A i \in 1..(n - k) : SubSeq(s, k + 1, n)[i] = s[k + i]
  <2>. DEFINE c == SubSeq(s, k + 1, n)
  <2>1. n - (k + 1) + 1 = n - k /\ \A i \in 1..(n - k) : k + 1 + i - 1 = k + i
    BY <1>2
  <2>2. Len(c) = n - k
    <3>1. k + 1 <= n \/ n - k = 0
      BY <1>2
    <3>. HIDE DEF c
    <3>. QED BY <1>2, <1>4, <2>1, <3>1 DEF c
  <2>3. \A i \in 1..(n - k) : c[i] = s[k + i]
    BY <1>4, <2>1
  <2>. QED BY <1>4, <2>2, <2>3
<1>. QED BY <1>5, <1>6, <1>7 DEF n

Own(e, S) == IF e \in S THEN <<e>> ELSE <<>>

LEMMA AmongSplit ==
  ASSUME NEW T, NEW s \in Seq(T), NEW k \in 1..Len(s), NEW S
  PROVE  Among(s, S) = Among(SubSeq(s, 1, k - 1), S)
              \o (Own(s[k], S) \o Among(SubSeq(s, k + 1, Len(s)), S))
<1>. DEFINE a == SubSeq(s, 1, k - 1)
            e == s[k]
            c == SubSeq(s, k + 1, Len(s))
<1>1. a \in Seq(T) /\ c \in Seq(T) /\ s = a \o (<<e>> \o c) /\ e \in T
  BY SeqSplit, ElementOfSeq
<1>. HIDE DEF a, e, c
<1>. DEFINE o == <<e>>
            d == o \o c
            m == Among(o, S)
            x == Among(c, S)
<1>2. o \in Seq(T) /\ m = Own(e, S) /\ s = a \o d
  BY <1>1, AmongOne DEF Own
<1>. HIDE DEF o
<1>3. Among(o \o c, S) = Among(o, S) \o Among(c, S)
  BY <1>1, <1>2, AmongConcat
<1>4. d \in Seq(T) /\ Among(d, S) = m \o x
  BY <1>1, <1>2, <1>3, ConcatProperties
<1>5. Among(a \o d, S) = Among(a, S) \o Among(d, S)
  <2>1. d \in Seq(T) /\ a \in Seq(T)
    BY <1>1, <1>4
  <2>. HIDE DEF d, m, x
  <2>. QED BY <2>1, AmongConcat
<1>. HIDE DEF d, m, x
<1>6. Among(s, S) = Among(a, S) \o (m \o x)
  BY <1>2, <1>4, <1>5
<1>. QED BY <1>2, <1>6 DEF a, c, e, x

LEMMA BoxIsSeq ==
  ASSUME NEW box \in Box
  PROVE  /\ box \in Seq(MemBlock \cup {NoBlock}) /\ Len(box) = BlockCount
         /\ BlockCount \in Nat /\ Slot = 1..BlockCount
<1>1. BlockCount \in Nat /\ Slot = 1..BlockCount
  BY BlockCountIsNat
<1>. QED BY <1>1 DEF Box

\* A message that is put into the array is the last of its receiver's, ...
LEMMA AmongPut ==
  ASSUME NEW box \in Box, Single(box), Compact(box), NEW b \in MemBlock, ~InBox(box, b),
         NEW S \in SUBSET MemBlock
  PROVE  Among(Put(box, b), S) =
            IF b \in S THEN Append(Among(box, S), b) ELSE Among(box, S)
<1>. DEFINE new == Put(box, b)
            T == MemBlock \cup {NoBlock}
            n == BlockCount
<1>0. n \in Nat /\ Slot = 1..n /\ NoBlock \notin S
  BY BlockCountIsNat, BlockAssumption
<1>1. PICK f \in Slot : /\ box[f] = NoBlock /\ new = [box EXCEPT ![f] = b]
                        /\ \A j \in Slot : j < f <=> box[j] # NoBlock
  BY PutProperties
<1>2. new \in Box
  BY PutProperties
<1>. HIDE DEF new
<1>3. box \in Seq(T) /\ Len(box) = n /\ new \in Seq(T) /\ Len(new) = n
  BY <1>2, BoxIsSeq
<1>4. \A j \in 1..n : new[j] = IF j = f THEN b ELSE box[j]
  BY <1>0, <1>1 DEF Box
<1>. HIDE DEF T, n
<1>. DEFINE a == SubSeq(box, 1, f - 1)
            c == SubSeq(box, f + 1, Len(box))
            a2 == SubSeq(new, 1, f - 1)
            c2 == SubSeq(new, f + 1, Len(new))
<1>5. /\ f \in 1..Len(box) /\ f \in 1..Len(new)
      /\ \A i \in 1..(f - 1) : i \in 1..n /\ i # f
      /\ \A i \in 1..(n - f) : f + i \in 1..n /\ f + i # f
  BY <1>0, <1>1, <1>3
<1>6. /\ a \in Seq(T) /\ Len(a) = f - 1 /\ \A i \in 1..(f - 1) : a[i] = box[i]
      /\ c \in Seq(T) /\ Len(c) = n - f /\ \A i \in 1..(n - f) : c[i] = box[f + i]
  BY <1>3, <1>5, SeqSplit
<1>7. /\ a2 \in Seq(T) /\ Len(a2) = f - 1 /\ \A i \in 1..(f - 1) : a2[i] = new[i]
      /\ c2 \in Seq(T) /\ Len(c2) = n - f /\ \A i \in 1..(n - f) : c2[i] = new[f + i]
  BY <1>3, <1>5, SeqSplit
<1>8. Among(box, S) = Among(a, S) \o (Own(box[f], S) \o Among(c, S))
  BY <1>3, <1>5, AmongSplit
<1>9. Among(new, S) = Among(a2, S) \o (Own(new[f], S) \o Among(c2, S))
  BY <1>3, <1>5, AmongSplit
<1>. HIDE DEF a, c, a2, c2
<1>10. a2 = a /\ c2 = c
  <2>1. \A i \in 1..Len(a) : a2[i] = a[i]
    BY <1>4, <1>5, <1>6, <1>7
  <2>2. \A i \in 1..Len(c) : c2[i] = c[i]
    BY <1>4, <1>5, <1>6, <1>7
  <2>. QED BY <1>6, <1>7, <2>1, <2>2, SeqEqual
<1>11. Among(c, S) = <<>>
  <2>1. \A i \in 1..(n - f) : box[f + i] = NoBlock
    BY <1>0, <1>1, <1>5
  <2>2. \A i \in 1..Len(c) : c[i] \notin S
    BY <1>0, <1>6, <2>1
  <2>. QED BY <1>6, <2>2, AmongNone
<1>12. new[f] = b /\ Own(box[f], S) = <<>> /\ Own(b, S) = IF b \in S THEN <<b>> ELSE <<>>
  BY <1>0, <1>1, <1>4 DEF Own
<1>. DEFINE m == Among(a, S)
<1>13. m \in Seq(T) /\ b \in T
  BY <1>6, AmongType DEF T
<1>. HIDE DEF m
<1>14. m \o (<<>> \o <<>>) = m /\ m \o (<<b>> \o <<>>) = Append(m, b)
  <2>1. <<>> \o <<>> = <<>> /\ <<b>> \o <<>> = <<b>>
    OBVIOUS
  <2>. QED BY <1>13, <2>1, ConcatEmptySeq, AppendIsConcat
<1>15. Among(box, S) = m
  BY <1>8, <1>11, <1>12, <1>14 DEF m
<1>16. Among(new, S) = IF b \in S THEN Append(m, b) ELSE m
  BY <1>9, <1>10, <1>11, <1>12, <1>14 DEF m
<1>. QED BY <1>15, <1>16 DEF new

\* ... and one that is taken out leaves the others in their order.
LEMMA AmongTake ==
  ASSUME NEW box \in Box, Single(box), Compact(box), NEW k \in Slot, box[k] # NoBlock,
         NEW S \in SUBSET MemBlock
  PROVE  /\ box[k] \notin S => Among(Take(box, k), S) = Among(box, S)
         /\ box[k] \in S /\ (\A j \in 1..(k - 1) : box[j] \notin S) =>
               Among(box, S) = <<box[k]>> \o Among(Take(box, k), S)
<1>. DEFINE new == Take(box, k)
            T == MemBlock \cup {NoBlock}
            n == BlockCount
<1>0. n \in Nat /\ Slot = 1..n /\ NoBlock \notin S
  BY BlockCountIsNat, BlockAssumption
<1>1. /\ new \in Box
      /\ \A j \in Slot : new[j] = IF j < k THEN box[j]
                                  ELSE IF j + 1 \in Slot THEN box[j + 1] ELSE NoBlock
  BY TakeProperties
<1>. HIDE DEF new
<1>2. box \in Seq(T) /\ Len(box) = n /\ new \in Seq(T) /\ Len(new) = n
  BY <1>1, BoxIsSeq
<1>. HIDE DEF T, n
<1>. DEFINE a == SubSeq(box, 1, k - 1)
            c == SubSeq(box, k + 1, Len(box))
            d == SubSeq(new, 1, n - 1)
            z == SubSeq(new, n + 1, Len(new))
<1>3. /\ k \in 1..Len(box) /\ n \in 1..Len(new) /\ n \in Slot /\ k \in 1..n
  BY <1>0, <1>2
<1>4. /\ a \in Seq(T) /\ Len(a) = k - 1 /\ \A i \in 1..(k - 1) : a[i] = box[i]
      /\ c \in Seq(T) /\ Len(c) = n - k /\ \A i \in 1..(n - k) : c[i] = box[k + i]
  BY <1>2, <1>3, SeqSplit
<1>5. /\ d \in Seq(T) /\ Len(d) = n - 1 /\ \A i \in 1..(n - 1) : d[i] = new[i]
      /\ z \in Seq(T) /\ Len(z) = n - n
  BY <1>2, <1>3, SeqSplit
<1>6. Among(box, S) = Among(a, S) \o (Own(box[k], S) \o Among(c, S))
  BY <1>2, <1>3, AmongSplit
<1>7. Among(new, S) = Among(d, S) \o (Own(new[n], S) \o Among(z, S))
  BY <1>2, <1>3, AmongSplit
<1>. HIDE DEF a, c, d, z
<1>8. z = <<>>
  BY <1>0, <1>5, EmptySeq
<1>9. new[n] = NoBlock
  BY <1>0, <1>1, <1>3
<1>10. a \o c \in Seq(T) /\ d = a \o c
  <2>1. /\ a \o c \in Seq(T) /\ Len(a \o c) = (k - 1) + (n - k)
        /\ \A i \in 1..((k - 1) + (n - k)) :
              (a \o c)[i] = IF i <= k - 1 THEN a[i] ELSE c[i - (k - 1)]
    <3>1. /\ a \o c \in Seq(T) /\ Len(a \o c) = Len(a) + Len(c)
          /\ \A i \in 1..(Len(a) + Len(c)) :
                (a \o c)[i] = IF i <= Len(a) THEN a[i] ELSE c[i - Len(a)]
      BY <1>4, ConcatProperties
    <3>. QED BY <1>4, <3>1
  <2>. DEFINE g == a \o c
  <2>2. g \in Seq(T) /\ Len(g) = n - 1
    BY <1>0, <1>3, <2>1
  <2>3. \A i \in 1..(n - 1) : g[i] = IF i <= k - 1 THEN a[i] ELSE c[i - (k - 1)]
    <3>1. (k - 1) + (n - k) = n - 1
      BY <1>0, <1>3
    <3>. QED BY <2>1, <3>1
  <2>. HIDE DEF g
  <2>4. ASSUME NEW i \in 1..(n - 1) PROVE d[i] = g[i]
    <3>1. d[i] = IF i < k THEN box[i] ELSE box[i + 1]
      BY <1>0, <1>1, <1>5
    <3>2. i <= k - 1 => i \in 1..(k - 1) /\ i < k
      BY <1>0, <1>3
    <3>3. ~(i <= k - 1) => i - (k - 1) \in 1..(n - k) /\ k + (i - (k - 1)) = i + 1 /\ ~(i < k)
      BY <1>0, <1>3
    <3>4. i <= k - 1 => g[i] = box[i]
      BY <1>4, <2>3, <3>2
    <3>5. ~(i <= k - 1) => g[i] = box[i + 1]
      BY <1>4, <2>3, <3>3
    <3>. QED BY <3>1, <3>2, <3>3, <3>4, <3>5
  <2>5. d = g
    BY <1>5, <2>2, <2>4, SeqEqual
  <2>. QED BY <2>1, <2>5 DEF g
<1>11. Among(d, S) = Among(a, S) \o Among(c, S)
  BY <1>4, <1>10, AmongConcat
<1>. DEFINE x == Among(a, S)
            y == Among(c, S)
<1>12. x \in Seq(T) /\ y \in Seq(T) /\ x \o y \in Seq(T)
  BY <1>4, AmongType, ConcatProperties
<1>13. (\A j \in 1..(k - 1) : box[j] \notin S) => x = <<>>
  <2>1. (\A j \in 1..(k - 1) : box[j] \notin S) => \A j \in 1..Len(a) : a[j] \notin S
    BY <1>4
  <2>. QED BY <1>4, <2>1, AmongNone
<1>14. Among(new, S) = (x \o y) \o (<<>> \o <<>>)
  BY <1>0, <1>7, <1>8, <1>9, <1>11, AmongEmpty DEF Own
<1>15. Among(box, S) = x \o ((IF box[k] \in S THEN <<box[k]>> ELSE <<>>) \o y)
  BY <1>6 DEF Own
<1>. HIDE DEF x, y
<1>16. Among(new, S) = x \o y
  <2>1. <<>> \o <<>> = <<>>
    OBVIOUS
  <2>. QED BY <1>12, <1>14, <2>1, ConcatEmptySeq
<1>17. <<>> \o y = y
  BY <1>12, ConcatEmptySeq
<1>18. box[k] \notin S => Among(box, S) = x \o y
  BY <1>15, <1>17
<1>19. x = <<>> /\ box[k] \in S => Among(new, S) = y /\ Among(box, S) = <<box[k]>> \o y
  <2>1. SUFFICES ASSUME x = <<>>, box[k] \in S
                 PROVE  Among(new, S) = y /\ Among(box, S) = <<box[k]>> \o y
    OBVIOUS
  <2>2. box[k] \in T
    BY <1>0, <1>2, <1>3, ElementOfSeq
  <2>. DEFINE w == <<box[k]>> \o y
  <2>3. <<box[k]>> \in Seq(T)
    BY <2>2
  <2>4. w \in Seq(T)
    BY <1>12, <2>3, ConcatProperties
  <2>5. Among(box, S) = <<>> \o w
    BY <1>15, <2>1
  <2>. HIDE DEF w
  <2>6. <<>> \o w = w
    BY <2>4, ConcatEmptySeq
  <2>. QED BY <1>16, <1>17, <2>1, <2>5, <2>6 DEF w
<1>. QED BY <1>13, <1>16, <1>18, <1>19 DEF new

\* The mailbox holds what it held, and those messages are still for whom they were.
LEMMA InboxSame ==
  ASSUME Accounts, UNCHANGED mailbox, \A c \in MemBlock : InBox(mailbox, c) => rx'[c] = rx[c]
  PROVE  Inbox' = Inbox
<1>0. mailbox \in Box /\ NoBlock \notin MemBlock
  BY BlockAssumption DEF Accounts, DataTypeOK
<1>1. ASSUME NEW p \in Proc
      PROVE  Among(mailbox, {c \in MemBlock : rx'[c] = p})
                = Among(mailbox, {c \in MemBlock : rx[c] = p})
  <2>. DEFINE T == MemBlock \cup {NoBlock}
              S == {c \in MemBlock : rx[c] = p}
              R == {c \in MemBlock : rx'[c] = p}
  <2>1. mailbox \in Seq(T) /\ Len(mailbox) = BlockCount /\ Slot = 1..BlockCount
    BY <1>0, BoxIsSeq
  <2>2. \A i \in 1..Len(mailbox) : mailbox[i] \in R <=> mailbox[i] \in S
    BY <1>0, <2>1 DEF InBox
  <2>. HIDE DEF T, S, R
  <2>. QED BY <2>1, <2>2, AmongSame DEF S, R
<1>2. mailbox' = mailbox
  OBVIOUS
<1>. QED BY <1>1, <1>2 DEF Inbox

LEMMA HeadTailOfOne ==
  ASSUME NEW T, NEW b \in T, NEW y \in Seq(T), NEW x, x = <<b>> \o y
  PROVE  x # <<>> /\ Head(x) = b /\ Tail(x) = y
<1>1. <<b>> \in Seq(T) /\ Len(<<b>>) = 1 /\ <<b>>[1] = b /\ Len(y) \in Nat
  BY LenProperties
<1>. DEFINE o == <<b>>
<1>. HIDE DEF o
<1>2. /\ x \in Seq(T) /\ Len(x) = 1 + Len(y)
      /\ \A i \in 1..(1 + Len(y)) : x[i] = IF i <= 1 THEN o[i] ELSE y[i - 1]
  BY <1>1, ConcatProperties DEF o
<1>3. x # <<>> /\ Head(x) = b
  BY <1>1, <1>2, EmptySeq DEF o
<1>4. /\ Tail(x) \in Seq(T) /\ Len(Tail(x)) = Len(x) - 1
      /\ \A i \in 1..(Len(x) - 1) : Tail(x)[i] = x[i + 1]
  BY <1>2, <1>3, HeadTailProperties
<1>. DEFINE t == Tail(x)
<1>. HIDE DEF t
<1>5. t \in Seq(T) /\ Len(t) = Len(y) /\ \A i \in 1..Len(y) : t[i] = y[i]
  BY <1>1, <1>2, <1>4 DEF t
<1>6. t = y
  BY <1>5, SeqEqual
<1>. QED BY <1>3, <1>6 DEF t

LEMMA InboxPut ==
  ASSUME Accounts, NEW b \in MemBlock, ~InBox(mailbox, b), NEW q \in Proc,
         mailbox' = Put(mailbox, b),
         \A c \in MemBlock : rx'[c] = IF c = b THEN q ELSE rx[c]
  PROVE  Inbox' = [Inbox EXCEPT ![q] = Append(@, b)]
<1>0. mailbox \in Box /\ Single(mailbox) /\ Compact(mailbox) /\ NoBlock \notin MemBlock
  BY BlockAssumption DEF Accounts, DataTypeOK, Listed
<1>1. ASSUME NEW p \in Proc
      PROVE  Among(mailbox', {c \in MemBlock : rx'[c] = p})
                = IF p = q THEN Append(Among(mailbox, {c \in MemBlock : rx[c] = q}), b)
                  ELSE Among(mailbox, {c \in MemBlock : rx[c] = p})
  <2>. DEFINE T == MemBlock \cup {NoBlock}
              S == {c \in MemBlock : rx[c] = p}
              R == {c \in MemBlock : rx'[c] = p}
  <2>1. mailbox \in Seq(T) /\ Len(mailbox) = BlockCount /\ Slot = 1..BlockCount
    BY <1>0, BoxIsSeq
  <2>2. \A i \in 1..Len(mailbox) : mailbox[i] \in R <=> mailbox[i] \in S
    BY <1>0, <2>1 DEF InBox
  <2>3. R \in SUBSET MemBlock /\ (b \in R <=> p = q)
    OBVIOUS
  <2>. HIDE DEF T, S, R
  <2>4. Among(mailbox, R) = Among(mailbox, S)
    BY <2>1, <2>2, AmongSame
  <2>5. Among(Put(mailbox, b), R) = IF b \in R THEN Append(Among(mailbox, R), b)
                                    ELSE Among(mailbox, R)
    BY <1>0, <2>3, AmongPut
  <2>6. Among(mailbox', R) = IF p = q THEN Append(Among(mailbox, S), b) ELSE Among(mailbox, S)
    BY <2>3, <2>4, <2>5
  <2>. QED BY <2>6 DEF S, R
<1>. DEFINE In == Inbox
<1>2. In = [p \in Proc |-> Among(mailbox, {c \in MemBlock : rx[c] = p})]
  BY DEF Inbox
<1>3. Inbox' = [p \in Proc |-> Among(mailbox', {c \in MemBlock : rx'[c] = p})]
  BY DEF Inbox
<1>4. Inbox' = [p \in Proc |-> IF p = q THEN Append(In[q], b) ELSE In[p]]
  BY <1>1, <1>2, <1>3
<1>. HIDE DEF In
<1>5. In = [p \in Proc |-> In[p]]
  BY <1>2
<1>6. Inbox' = [In EXCEPT ![q] = Append(In[q], b)]
  BY <1>4, <1>5
<1>. QED BY <1>6 DEF In

LEMMA InboxTake ==
  ASSUME Accounts, NEW p \in Proc, NEW i \in FirstMail(p), mailbox' = Take(mailbox, i),
         rx' = rx
  PROVE  /\ Inbox[p] # <<>> /\ Head(Inbox[p]) = mailbox[i]
         /\ Inbox[p] = <<mailbox[i]>> \o Inbox'[p]
         /\ Inbox' = [Inbox EXCEPT ![p] = Tail(@)]
<1>0. /\ mailbox \in Box /\ Single(mailbox) /\ Compact(mailbox) /\ NoBlock \notin MemBlock
      /\ i \in Slot /\ mailbox[i] # NoBlock /\ rx[mailbox[i]] = p /\ mailbox[i] \in MemBlock
      /\ \A j \in 1..(i - 1) : rx[mailbox[j]] # p
  BY BlockAssumption DEF Accounts, DataTypeOK, Listed, FirstMail, Box
<1>. DEFINE S(q) == {c \in MemBlock : rx[c] = q}
            T == MemBlock \cup {NoBlock}
            b == mailbox[i]
<1>1. ASSUME NEW q \in Proc, q # p
      PROVE  Among(mailbox', S(q)) = Among(mailbox, S(q))
  <2>1. S(q) \in SUBSET MemBlock /\ mailbox[i] \notin S(q)
    BY <1>0, <1>1
  <2>. DEFINE X == S(q)
  <2>. HIDE DEF X
  <2>2. Among(Take(mailbox, i), X) = Among(mailbox, X)
    BY <1>0, <2>1, AmongTake DEF X
  <2>. QED BY <2>2 DEF X
<1>2. Among(mailbox, S(p)) = <<b>> \o Among(mailbox', S(p))
  <2>1. S(p) \in SUBSET MemBlock /\ mailbox[i] \in S(p)
        /\ \A j \in 1..(i - 1) : mailbox[j] \notin S(p)
    BY <1>0
  <2>. DEFINE X == S(p)
  <2>. HIDE DEF X
  <2>2. Among(mailbox, X) = <<mailbox[i]>> \o Among(Take(mailbox, i), X)
    BY <1>0, <2>1, AmongTake DEF X
  <2>. QED BY <2>2 DEF X
<1>3. b \in T /\ mailbox' \in Seq(T)
  BY <1>0, TakeProperties, BoxIsSeq
<1>. DEFINE x == Among(mailbox, S(p))
            y == Among(mailbox', S(p))
<1>4. y \in Seq(T)
  BY <1>3, AmongType
<1>5. Inbox[p] = x /\ Inbox'[p] = y
  BY DEF Inbox
<1>. DEFINE In == Inbox
<1>6. In = [q \in Proc |-> Among(mailbox, S(q))] /\ Inbox' = [q \in Proc |-> Among(mailbox', S(q))]
  BY DEF Inbox
<1>7. x = <<b>> \o y
  BY <1>2
<1>8. Inbox' = [q \in Proc |-> IF q = p THEN y ELSE In[q]]
  BY <1>1, <1>6
<1>9. In = [q \in Proc |-> In[q]] /\ In[p] = x
  BY <1>6
<1>. HIDE DEF In, x, y, b, S, T
<1>10. x # <<>> /\ Head(x) = b /\ Tail(x) = y
  BY <1>3, <1>4, <1>7, HeadTailOfOne
<1>11. Inbox' = [In EXCEPT ![p] = Tail(In[p])]
  BY <1>8, <1>9, <1>10
<1>. QED BY <1>5, <1>7, <1>9, <1>10, <1>11 DEF In, b

-----------------------------------------------------------------------------
(* The delayed mailbox as a function. *)

LEMMA Entries ==
  ASSUME NEW box \in Box
  PROVE  {box[i] : i \in Slot} \ {NoBlock} = {b \in MemBlock : InBox(box, b)}
BY BlockAssumption DEF Box, InBox

LEMMA LaterIs ==
  ASSUME Accounts
  PROVE  Later = [b \in {c \in MemBlock : InBox(delayed, c)} |-> rx[b]]
<1>1. delayed \in Box
  BY DEF Accounts, DataTypeOK
<1>. QED BY <1>1, Entries DEF Later

LEMMA LaterSame ==
  ASSUME Accounts, UNCHANGED delayed, \A c \in MemBlock : InBox(delayed, c) => rx'[c] = rx[c]
  PROVE  Later' = Later
<1>1. Later' = [b \in {delayed[i] : i \in Slot} \ {NoBlock} |-> rx'[b]]
  BY DEF Later
<1>2. delayed \in Box
  BY DEF Accounts, DataTypeOK
<1>. QED BY <1>1, <1>2, LaterIs, Entries

LEMMA LaterPut ==
  ASSUME Accounts, NEW b \in MemBlock, ~InBox(delayed, b), NEW q \in Proc,
         delayed' = Put(delayed, b),
         \A c \in MemBlock : rx'[c] = IF c = b THEN q ELSE rx[c]
  PROVE  Later' = [c \in DOMAIN Later \cup {b} |-> IF c = b THEN q ELSE Later[c]]
<1>. DEFINE box == Put(delayed, b)
            D == {c \in MemBlock : InBox(delayed, c)}
<1>1. box \in Box /\ \A c \in MemBlock : InBox(box, c) <=> InBox(delayed, c) \/ c = b
  BY PutProperties DEF Accounts, DataTypeOK, Listed
<1>2. Later' = [c \in {box[i] : i \in Slot} \ {NoBlock} |-> rx'[c]]
  BY DEF Later
<1>. HIDE DEF box
<1>3. Later' = [c \in {d \in MemBlock : InBox(box, d)} |-> rx'[c]]
  BY <1>1, <1>2, Entries
<1>4. {d \in MemBlock : InBox(box, d)} = D \cup {b}
  BY <1>1
<1>5. Later = [c \in D |-> rx[c]]
  BY LaterIs
<1>6. DOMAIN Later = D /\ \A c \in D : Later[c] = rx[c] /\ c \in MemBlock
  BY <1>5
<1>. HIDE DEF D
<1>. QED BY <1>3, <1>4, <1>6

LEMMA LaterTake ==
  ASSUME Accounts, NEW k \in Slot, NEW b \in MemBlock, delayed[k] = b,
         delayed' = Take(delayed, k), rx' = rx
  PROVE  /\ b \in DOMAIN Later /\ Later[b] = rx[b]
         /\ Later' = [c \in DOMAIN Later \ {b} |-> Later[c]]
<1>. DEFINE box == Take(delayed, k)
            D == {c \in MemBlock : InBox(delayed, c)}
<1>0. b # NoBlock
  BY BlockAssumption
<1>1. box \in Box /\ \A c \in MemBlock : InBox(box, c) <=> InBox(delayed, c) /\ c # b
  BY <1>0, TakeProperties DEF Accounts, DataTypeOK, Listed
<1>2. Later' = [c \in {box[i] : i \in Slot} \ {NoBlock} |-> rx'[c]]
  BY DEF Later
<1>. HIDE DEF box
<1>3. Later' = [c \in {d \in MemBlock : InBox(box, d)} |-> rx'[c]]
  BY <1>1, <1>2, Entries
<1>4. {d \in MemBlock : InBox(box, d)} = D \ {b}
  BY <1>1
<1>5. Later = [c \in D |-> rx[c]]
  BY LaterIs
<1>6. DOMAIN Later = D /\ \A c \in D : Later[c] = rx[c]
  BY <1>5
<1>7. b \in D
  BY DEF InBox
<1>. HIDE DEF D
<1>. QED BY <1>3, <1>4, <1>6, <1>7

-----------------------------------------------------------------------------
(* Every step is one of the abstract messaging. *)

LEMMA NotInTransit ==
  ASSUME Accounts, NEW b \in MemBlock, ~InBox(mailbox, b), ~InBox(delayed, b)
  PROVE  ~Post!InTransit(b)
<1>1. b \notin DOMAIN Later
  BY LaterIs
<1>2. ASSUME NEW p \in Proc, NEW i \in 1..Len(Inbox[p]), Inbox[p][i] = b PROVE FALSE
  <2>. DEFINE S == {c \in MemBlock : rx[c] = p}
              T == MemBlock \cup {NoBlock}
  <2>1. mailbox \in Seq(T) /\ Len(mailbox) = BlockCount /\ Slot = 1..BlockCount
    BY BoxIsSeq DEF Accounts, DataTypeOK
  <2>2. i \in 1..Len(Among(mailbox, S)) /\ Among(mailbox, S)[i] = b
    BY <1>2 DEF Inbox
  <2>. HIDE DEF S, T
  <2>3. (\E j \in 1..Len(Among(mailbox, S)) : Among(mailbox, S)[j] = b)
           <=> b \in S /\ \E j \in 1..Len(mailbox) : mailbox[j] = b
    BY <2>1, AmongType
  <2>4. \E j \in 1..Len(mailbox) : mailbox[j] = b
    BY <2>2, <2>3
  <2>. QED BY <2>1, <2>4 DEF InBox
<1>. QED BY <1>1, <1>2 DEF Post!InTransit, Post!Contains

LEMMA SendPosts ==
  ASSUME Accounts, NEW p \in Proc, NEW b \in MemBlock, NEW q \in Proc, Send(p, b, q)
  PROVE  Post!PostSend(b, q)
<1>1. Address(p, b, q) /\ mailbox' = Put(mailbox, b) /\ UNCHANGED delayed
  BY DEF Send
<1>2. /\ ~InBox(mailbox, b) /\ ~InBox(delayed, b)
      /\ \A c \in MemBlock : rx'[c] = IF c = b THEN q ELSE rx[c]
  BY <1>1, AddressProperties
<1>3. Inbox' = [Inbox EXCEPT ![q] = Append(@, b)]
  BY <1>1, <1>2, InboxPut
<1>4. Later' = Later
  BY <1>1, <1>2, LaterSame
<1>. QED BY <1>2, <1>3, <1>4, NotInTransit DEF Post!PostSend

LEMMA DelayedSendPosts ==
  ASSUME Accounts, NEW p \in Proc, NEW b \in MemBlock, NEW q \in Proc, NEW d,
         DelayedSend(p, b, q, d)
  PROVE  Post!PostDelayedSend(b, q)
<1>1. Address(p, b, q) /\ delayed' = Put(delayed, b) /\ UNCHANGED mailbox
  BY DEF DelayedSend
<1>2. /\ ~InBox(mailbox, b) /\ ~InBox(delayed, b)
      /\ \A c \in MemBlock : rx'[c] = IF c = b THEN q ELSE rx[c]
  BY <1>1, AddressProperties
<1>3. Later' = [c \in DOMAIN Later \cup {b} |-> IF c = b THEN q ELSE Later[c]]
  BY <1>1, <1>2, LaterPut
<1>4. Inbox' = Inbox
  BY <1>1, <1>2, InboxSame
<1>. QED BY <1>2, <1>3, <1>4, NotInTransit DEF Post!PostDelayedSend

LEMMA TickDeliversPosts ==
  ASSUME Accounts, NEW b \in MemBlock, TickDelivers(b)
  PROVE  Post!PostArrive(b)
<1>1. /\ scan \in Slot /\ delayed[scan] = b /\ mailbox' = Put(mailbox, b)
      /\ delayed' = Take(delayed, scan) /\ rx' = rx
  BY DEF TickDelivers
<1>2. InBox(delayed, b) /\ rx[b] \in Proc
  BY <1>1 DEF InBox, Accounts, DataTypeOK
<1>3. ~InBox(mailbox, b)
  BY <1>2 DEF Accounts, Accounted, AccountedFor
<1>4. /\ b \in DOMAIN Later /\ Later[b] = rx[b]
      /\ Later' = [c \in DOMAIN Later \ {b} |-> Later[c]]
  BY <1>1, LaterTake
<1>. DEFINE q == rx[b]
<1>5. \A c \in MemBlock : rx'[c] = IF c = b THEN q ELSE rx[c]
  BY <1>1
<1>6. q \in Proc
  BY <1>2
<1>. HIDE DEF q
<1>7. Inbox' = [Inbox EXCEPT ![q] = Append(@, b)]
  BY <1>1, <1>3, <1>5, <1>6, InboxPut
<1>8. Later[b] = q
  BY <1>4 DEF q
<1>. QED BY <1>4, <1>7, <1>8 DEF Post!PostArrive

LEMMA ReceivePosts ==
  ASSUME Accounts, NEW p \in Proc, Receive(p)
  PROVE  Post!PostReceive(p)
<1>1. PICK i \in FirstMail(p) : mailbox' = Take(mailbox, i)
  BY DEF Receive
<1>2. rx' = rx /\ delayed' = delayed
  BY DEF Receive
<1>3. Inbox[p] # <<>> /\ Inbox' = [Inbox EXCEPT ![p] = Tail(@)]
  BY <1>1, <1>2, InboxTake
<1>4. Later' = Later
  BY <1>2, LaterSame
<1>. QED BY <1>3, <1>4 DEF Post!PostReceive

LEMMA SerialInterruptPosts ==
  ASSUME Accounts, SerialInterrupt
  PROVE  Post!PostSend(Head(available), Kcd)
<1>. DEFINE h == Head(available)
<1>1. /\ available # <<>> /\ rx' = [rx EXCEPT ![h] = Kcd]
      /\ mailbox' = Put(mailbox, h) /\ UNCHANGED delayed
  BY DEF SerialInterrupt
<1>2. h \in MemBlock /\ IsFree(h) /\ Kcd \in Proc
  BY <1>1, HeadIsFree, ReceiverAssumption
<1>. HIDE DEF h
<1>3. ~InBox(mailbox, h) /\ ~InBox(delayed, h)
  BY <1>2, ReceiverAssumption DEF Accounts, DataTypeOK, Accounted, AccountedFor
<1>4. \A c \in MemBlock : rx'[c] = IF c = h THEN Kcd ELSE rx[c]
  BY <1>1 DEF Accounts, DataTypeOK
<1>5. Inbox' = [Inbox EXCEPT ![Kcd] = Append(@, h)]
  BY <1>1, <1>2, <1>3, <1>4, InboxPut
<1>6. Later' = Later
  BY <1>1, <1>3, <1>4, LaterSame
<1>7. Post!PostSend(h, Kcd)
  BY <1>2, <1>3, <1>5, <1>6, NotInTransit DEF Post!PostSend
<1>. QED BY <1>7 DEF h

\* The mail is left alone.
LEMMA MailRests ==
  ASSUME Accounts, UNCHANGED <<rx, mailbox, delayed>>
  PROVE  UNCHANGED Post!postVars
<1>1. Inbox' = Inbox /\ Later' = Later
  BY InboxSame, LaterSame
<1>. QED BY <1>1 DEF Post!postVars

LEMMA ReleasePosts ==
  ASSUME Accounts, NEW p \in Proc, NEW b \in MemBlock, Release(p, b)
  PROVE  UNCHANGED Post!postVars
<1>1. b \in held[p] /\ rx' = [rx EXCEPT ![b] = NullProc] /\ UNCHANGED <<mailbox, delayed>>
  BY DEF Release, MayRelease
<1>2. ~InBox(mailbox, b) /\ ~InBox(delayed, b)
  BY <1>1, HeldProperties
<1>3. \A c \in MemBlock : c # b => rx'[c] = rx[c]
  BY <1>1 DEF Accounts, DataTypeOK
<1>4. Inbox' = Inbox
  BY <1>1, <1>2, <1>3, InboxSame
<1>5. Later' = Later
  BY <1>1, <1>2, <1>3, LaterSame
<1>. QED BY <1>4, <1>5 DEF Post!postVars

LEMMA StepPosts ==
  ASSUME Accounts, CallsNext
  PROVE  [Post!PostNext]_(Post!postVars)
<1>1. ASSUME NEW p \in Proc, ProcessActs(p) PROVE [Post!PostNext]_(Post!postVars)
  <2>1. CASE \E b \in MemBlock, q \in Proc : Send(p, b, q)
    BY <2>1, SendPosts DEF Post!PostNext
  <2>2. CASE \E b \in MemBlock, q \in Proc, d \in Nat : DelayedSend(p, b, q, d)
    BY <2>2, DelayedSendPosts DEF Post!PostNext
  <2>3. CASE Receive(p)
    BY <2>3, ReceivePosts DEF Post!PostNext
  <2>4. CASE \E b \in MemBlock : Release(p, b)
    BY <2>4, ReleasePosts
  <2>5. CASE \/ Yield(p) \/ Request(p) \/ RequestFindsNone(p) \/ RequestBlocks(p)
             \/ ReleaseUnblocks(p) \/ SendUnblocks(p) \/ ReceiveFindsNone(p)
             \/ ReceiveBlocks(p) \/ (\E q \in Proc : \E n : ChangePriority(p, q, n))
    <3>1. UNCHANGED <<rx, mailbox, delayed>>
      BY <2>5 DEF Yield, Request, RequestFindsNone, RequestBlocks, ReleaseUnblocks,
                  SendUnblocks, ReceiveFindsNone, ReceiveBlocks, ChangePriority, dataVars,
                  mailVars
    <3>. QED BY <3>1, MailRests
  <2>. QED BY <1>1, <2>1, <2>2, <2>3, <2>4, <2>5 DEF ProcessActs, Primitives
<1>2. CASE \/ Boot \/ (\E p \in Ending : Ends(p)) \/ EndReleases \/ Tick \/ TickSkips
           \/ TickEnds \/ UNCHANGED rtxVars
  <2>1. UNCHANGED <<rx, mailbox, delayed>>
    BY <1>2 DEF Boot, Ends, EndReleases, Tick, TickSkips, TickEnds, rtxVars, dataVars, mailVars
  <2>. QED BY <2>1, MailRests
<1>3. CASE \E b \in MemBlock : TickDelivers(b)
  BY <1>3, TickDeliversPosts DEF Post!PostNext
<1>4. CASE SerialInterrupt
  <2>1. available # <<>>
    BY <1>4 DEF SerialInterrupt
  <2>2. Head(available) \in MemBlock /\ Kcd \in Proc
    BY <2>1, HeadIsFree, ReceiverAssumption
  <2>. QED BY <1>4, <2>2, SerialInterruptPosts DEF Post!PostNext
<1>. QED BY <1>1, <1>2, <1>3, <1>4 DEF CallsNext, SystemActs

LEMMA InitPosts == RtxInit => Post!PostInit
<1>. SUFFICES ASSUME RtxInit PROVE Post!PostInit
  OBVIOUS
<1>1. Accounts
  BY InitAccounts
<1>2. mailbox \in Seq(MemBlock \cup {NoBlock}) /\ Len(mailbox) = BlockCount /\ Slot = 1..BlockCount
  BY <1>1, BoxIsSeq DEF Accounts, DataTypeOK
<1>3. ASSUME NEW p \in Proc PROVE Among(mailbox, {b \in MemBlock : rx[b] = p}) = <<>>
  <2>. DEFINE S == {b \in MemBlock : rx[b] = p}
  <2>1. \A i \in 1..Len(mailbox) : mailbox[i] \notin S
    BY <1>2, BlockAssumption DEF RtxInit
  <2>. HIDE DEF S
  <2>2. Among(mailbox, S) = <<>>
    BY <1>2, <2>1, AmongNone
  <2>. QED BY <2>2 DEF S
<1>4. Inbox = [p \in Proc |-> <<>>]
  BY <1>3 DEF Inbox
<1>5. Later = << >>
  <2>1. {c \in MemBlock : InBox(delayed, c)} = {}
    BY BlockAssumption DEF RtxInit, InBox
  <2>2. Later = [b \in {} |-> rx[b]]
    BY <1>1, <2>1, LaterIs
  <2>. QED BY <2>2
<1>. QED BY <1>4, <1>5 DEF Post!PostInit

\* The arrays and the interrupts of messaging.c together are the abstract messaging
\* of module Post: each process takes its messages in the order they arrived, none is
\* lost and none is received twice, whatever is delayed and whoever is interrupted.
THEOREM RtxImplementsPost == RtxSpec => ImplementsPost
<1>1. RtxInit => Post!PostInit
  BY InitPosts
<1>2. RtxIInv /\ [RtxNext]_rtxVars => [Post!PostNext]_(Post!postVars)
  BY NextCalls, StepPosts DEF RtxIInv
<1>. QED BY <1>1, <1>2, RtxInductiveInvariant, PTL DEF RtxSpec, ImplementsPost, Post!PostSpec
-----------------------------------------------------------------------------
(* Some of the messages in the mailbox, in their order. *)

LEMMA StreamType ==
  ASSUME NEW box \in Box, NEW S \in SUBSET MemBlock
  PROVE  /\ Among(box, S) \in Seq(MemBlock)
         /\ \A i \in DOMAIN Among(box, S) : Among(box, S)[i] \in S /\ InBox(box, Among(box, S)[i])
         /\ \A c \in S : InBox(box, c) => \E i \in DOMAIN Among(box, S) : Among(box, S)[i] = c
<1>. DEFINE T == MemBlock \cup {NoBlock}
            s == Among(box, S)
<1>1. box \in Seq(T) /\ Len(box) = BlockCount /\ Slot = 1..BlockCount
  BY BoxIsSeq
<1>. HIDE DEF T
<1>2. /\ Among(box, S) \in Seq(T)
      /\ \A x : (\E i \in 1..Len(Among(box, S)) : Among(box, S)[i] = x)
                  <=> x \in S /\ \E i \in 1..Len(box) : box[i] = x
  <2>1. box \in Seq(T)
    BY <1>1
  <2>2. Among(box, S) \in Seq(T)
    BY <2>1, AmongType
  <2>3. ASSUME NEW x
        PROVE  (\E i \in 1..Len(Among(box, S)) : Among(box, S)[i] = x)
                  <=> x \in S /\ \E i \in 1..Len(box) : box[i] = x
    BY <2>1, AmongType
  <2>. QED BY <2>2, <2>3
<1>. HIDE DEF s
<1>3. Len(s) \in Nat /\ DOMAIN s = 1..Len(s)
  BY <1>2, LenProperties DEF s
<1>4. \A i \in 1..Len(s) : s[i] \in S /\ \E j \in 1..Len(box) : box[j] = s[i]
  BY <1>2 DEF s
<1>5. s \in Seq(MemBlock)
  <2>1. s \in Seq(Range(s))
    BY <1>2, SeqOfRange DEF s
  <2>2. Range(s) \subseteq MemBlock
    BY <1>3, <1>4 DEF Range
  <2>. QED BY <2>1, <2>2, SeqMonotonic
<1>6. \A c \in S : (\E j \in 1..Len(box) : box[j] = c) => \E i \in 1..Len(s) : s[i] = c
  BY <1>2 DEF s
<1>. QED BY <1>1, <1>3, <1>4, <1>5, <1>6 DEF InBox, s

-----------------------------------------------------------------------------
(* What is in the entries of a sequence. *)

Values(s, v) == [i \in DOMAIN s |-> v[s[i]]]

LEMMA ValuesSame ==
  ASSUME NEW s, NEW v, NEW w, \A i \in DOMAIN s : v[s[i]] = w[s[i]]
  PROVE  Values(s, v) = Values(s, w)
BY DEF Values

LEMMA ValuesType ==
  ASSUME NEW T, NEW s \in Seq(T), NEW V, NEW v, \A i \in DOMAIN s : v[s[i]] \in V
  PROVE  Values(s, v) \in Seq(V) /\ Len(Values(s, v)) = Len(s)
         /\ \A i \in 1..Len(s) : Values(s, v)[i] = v[s[i]]
<1>1. DOMAIN s = 1..Len(s) /\ Len(s) \in Nat
  BY LenProperties
<1>. DEFINE n == Len(s)
            u == [i \in 1..n |-> v[s[i]]]
<1>2. u \in Seq(V) /\ Len(u) = n /\ \A i \in 1..n : u[i] = v[s[i]]
  <2>1. \A i \in 1..n : v[s[i]] \in V
    BY <1>1
  <2>2. n \in Nat
    BY <1>1
  <2>. HIDE DEF n
  <2>. QED BY <2>1, <2>2
<1>. QED BY <1>1, <1>2 DEF Values

LEMMA ValuesOfSeq ==
  ASSUME NEW T, NEW s \in Seq(T), NEW v
  PROVE  Values(s, v) \in Seq({v[x] : x \in T}) /\ Len(Values(s, v)) = Len(s)
         /\ \A i \in 1..Len(s) : Values(s, v)[i] = v[s[i]]
<1>. DEFINE V == {v[x] : x \in T}
<1>1. \A i \in DOMAIN s : v[s[i]] \in V
  BY ElementOfSeq, LenProperties
<1>. HIDE DEF V
<1>2. Values(s, v) \in Seq(V) /\ Len(Values(s, v)) = Len(s)
      /\ \A i \in 1..Len(s) : Values(s, v)[i] = v[s[i]]
  BY <1>1, ValuesType
<1>. QED BY <1>2 DEF V

LEMMA ValuesEmpty == \A v : Values(<<>>, v) = <<>>
BY DEF Values

LEMMA ValuesAppend ==
  ASSUME NEW T, NEW s \in Seq(T), NEW e \in T, NEW v
  PROVE  Values(Append(s, e), v) = Append(Values(s, v), v[e])
<1>. DEFINE n == Len(s)
            t == Append(s, e)
            V == {v[x] : x \in T}
            a == Values(s, v)
            c == Values(t, v)
<1>1. /\ n \in Nat /\ Len(t) = n + 1 /\ t[n + 1] = e /\ \A i \in 1..n : t[i] = s[i]
      /\ t \in Seq(T)
  BY AppendProperties, LenProperties
<1>2. \A r \in Seq(T) : \A i \in DOMAIN r : v[r[i]] \in V
  BY ElementOfSeq, LenProperties
<1>. HIDE DEF t, n, V
<1>3. a \in Seq(V) /\ Len(a) = n /\ \A i \in 1..n : a[i] = v[s[i]]
  BY <1>2, ValuesType DEF n
<1>4. c \in Seq(V) /\ Len(c) = n + 1 /\ \A i \in 1..(n + 1) : c[i] = v[t[i]]
  BY <1>1, <1>2, ValuesType
<1>5. v[e] \in V
  BY DEF V
<1>. HIDE DEF a, c
<1>. DEFINE d == Append(a, v[e])
<1>6. /\ d \in Seq(V) /\ Len(d) = n + 1 /\ d[n + 1] = v[e] /\ \A i \in 1..n : d[i] = a[i]
  BY <1>3, <1>5, AppendProperties
<1>. HIDE DEF d
<1>7. \A i \in 1..Len(c) : c[i] = d[i]
  <2>1. SUFFICES ASSUME NEW i \in 1..(n + 1) PROVE c[i] = d[i]
    BY <1>4
  <2>2. CASE i = n + 1
    BY <1>1, <1>4, <1>6, <2>2
  <2>3. CASE i # n + 1
    <3>1. i \in 1..n
      BY <1>1, <2>3
    <3>. QED BY <1>1, <1>3, <1>4, <1>6, <3>1
  <2>. QED BY <2>2, <2>3
<1>8. c = d
  BY <1>4, <1>6, <1>7, SeqEqual
<1>. QED BY <1>8 DEF a, c, d, t

LEMMA ValuesConcat ==
  ASSUME NEW T, NEW s \in Seq(T), NEW t \in Seq(T), NEW v
  PROVE  Values(s \o t, v) = Values(s, v) \o Values(t, v)
<1>. DEFINE n == Len(s)
            m == Len(t)
            u == s \o t
            V == {v[x] : x \in T}
            a == Values(s, v)
            c == Values(t, v)
            d == Values(u, v)
<1>1. /\ n \in Nat /\ m \in Nat /\ u \in Seq(T) /\ Len(u) = n + m
      /\ \A i \in 1..(n + m) : u[i] = IF i <= n THEN s[i] ELSE t[i - n]
  BY ConcatProperties, LenProperties
<1>2. \A r \in Seq(T) : \A i \in DOMAIN r : v[r[i]] \in V
  BY ElementOfSeq, LenProperties
<1>. HIDE DEF u, n, m, V
<1>3. a \in Seq(V) /\ Len(a) = n /\ \A i \in 1..n : a[i] = v[s[i]]
  <2>1. n \in Nat /\ DOMAIN s = 1..n
    BY <1>1, LenProperties DEF n
  <2>2. \A i \in 1..n : v[s[i]] \in V
    BY <1>1, <1>2, <2>1
  <2>3. a = [i \in 1..n |-> v[s[i]]]
    BY ONLY <2>1 DEF a, Values
  <2>. HIDE DEF a
  <2>. QED BY ONLY <2>1, <2>2, <2>3
<1>4. c \in Seq(V) /\ Len(c) = m /\ \A i \in 1..m : c[i] = v[t[i]]
  <2>1. m \in Nat /\ DOMAIN t = 1..m
    BY <1>1, LenProperties DEF m
  <2>2. \A i \in 1..m : v[t[i]] \in V
    BY <1>1, <1>2, <2>1
  <2>3. c = [i \in 1..m |-> v[t[i]]]
    BY ONLY <2>1 DEF c, Values
  <2>. HIDE DEF c
  <2>. QED BY ONLY <2>1, <2>2, <2>3
<1>5. d \in Seq(V) /\ Len(d) = n + m /\ \A i \in 1..(n + m) : d[i] = v[u[i]]
  <2>. DEFINE k == n + m
  <2>1. k \in Nat /\ DOMAIN u = 1..k
    BY <1>1, LenProperties
  <2>. HIDE DEF k
  <2>2. \A i \in 1..k : v[u[i]] \in V
    BY <1>1, <1>2, <2>1
  <2>3. d = [i \in 1..k |-> v[u[i]]]
    BY ONLY <2>1 DEF d, Values
  <2>. HIDE DEF d
  <2>4. d \in Seq(V) /\ Len(d) = k /\ \A i \in 1..k : d[i] = v[u[i]]
    BY ONLY <2>1, <2>2, <2>3
  <2>. QED BY <2>4 DEF k
<1>. HIDE DEF a, c, d
<1>. DEFINE e == a \o c
<1>6. /\ e \in Seq(V) /\ Len(e) = n + m
      /\ \A i \in 1..(n + m) : e[i] = IF i <= n THEN a[i] ELSE c[i - n]
  <2>1. /\ e \in Seq(V) /\ Len(e) = Len(a) + Len(c)
        /\ \A i \in 1..(Len(a) + Len(c)) : e[i] = IF i <= Len(a) THEN a[i] ELSE c[i - Len(a)]
    <3>1. a \in Seq(V)
      BY <1>3
    <3>2. c \in Seq(V)
      BY <1>4
    <3>. QED BY ONLY <3>1, <3>2, ConcatProperties
  <2>. QED BY <1>3, <1>4, <2>1
<1>. HIDE DEF e
<1>7. ASSUME NEW i \in 1..(n + m) PROVE d[i] = e[i]
  <2>1. CASE i <= n
    <3>1. i \in 1..n
      BY <1>1, <2>1
    <3>2. d[i] = v[u[i]] /\ u[i] = s[i]
      BY <1>1, <1>5, <2>1
    <3>3. e[i] = a[i] /\ a[i] = v[s[i]]
      BY <1>3, <1>6, <2>1, <3>1
    <3>. QED BY ONLY <3>2, <3>3
  <2>2. CASE ~(i <= n)
    <3>1. i - n \in 1..m
      BY <1>1, <2>2
    <3>2. d[i] = v[u[i]] /\ u[i] = t[i - n]
      BY <1>1, <1>5, <2>2
    <3>3. e[i] = c[i - n] /\ c[i - n] = v[t[i - n]]
      BY <1>4, <1>6, <2>2, <3>1
    <3>. QED BY ONLY <3>2, <3>3
  <2>. QED BY <2>1, <2>2
<1>8. d = e
  BY <1>5, <1>6, <1>7, SeqEqual
<1>. QED BY <1>8 DEF d, e, a, c, u

-----------------------------------------------------------------------------
(* What a step does to the inboxes. *)

\* An inbox holds messages, those in the mailbox for its process.
LEMMA InboxType ==
  ASSUME Accounts, NEW p \in Proc
  PROVE  /\ Inbox[p] \in Seq(MemBlock)
         /\ \A i \in DOMAIN Inbox[p] : InBox(mailbox, Inbox[p][i]) /\ rx[Inbox[p][i]] = p
         /\ \A c \in MemBlock : InBox(mailbox, c) /\ rx[c] = p =>
               \E i \in DOMAIN Inbox[p] : Inbox[p][i] = c
<1>. DEFINE S == {b \in MemBlock : rx[b] = p}
<1>1. mailbox \in Box /\ S \in SUBSET MemBlock
  BY DEF Accounts, DataTypeOK
<1>2. Inbox[p] = Among(mailbox, S)
  BY DEF Inbox
<1>3. /\ Among(mailbox, S) \in Seq(MemBlock)
      /\ \A i \in DOMAIN Among(mailbox, S) :
            Among(mailbox, S)[i] \in S /\ InBox(mailbox, Among(mailbox, S)[i])
      /\ \A c \in S : InBox(mailbox, c) =>
            \E i \in DOMAIN Among(mailbox, S) : Among(mailbox, S)[i] = c
  <2>. HIDE DEF S
  <2>. QED BY <1>1, StreamType
<1>. QED BY <1>2, <1>3

\* The inbox of q gets one message more, that of p loses its first; the others stay.
InboxGets(b, q) ==
    /\ b \in MemBlock /\ ~InBox(mailbox, b) /\ q \in Proc
    /\ Inbox'[q] = Append(Inbox[q], b)
    /\ \A r \in Proc \ {q} : Inbox'[r] = Inbox[r]

InboxGives(p) ==
    \E b \in MemBlock :
        /\ InBox(mailbox, b) /\ rx[b] = p /\ held' = [held EXCEPT ![p] = @ \cup {b}]
        /\ Inbox[p] = <<b>> \o Inbox'[p]
        /\ \A r \in Proc \ {p} : Inbox'[r] = Inbox[r]

LEMMA InboxPuts ==
  ASSUME Accounts, NEW b \in MemBlock, ~InBox(mailbox, b), NEW q \in Proc,
         mailbox' = Put(mailbox, b),
         \A c \in MemBlock : rx'[c] = IF c = b THEN q ELSE rx[c]
  PROVE  InboxGets(b, q)
<1>1. Inbox' = [Inbox EXCEPT ![q] = Append(@, b)]
  BY InboxPut
<1>2. DOMAIN Inbox = Proc
  BY DEF Inbox
<1>. QED BY <1>1, <1>2 DEF InboxGets

LEMMA InboxOfSend ==
  ASSUME Accounts, NEW p \in Proc, NEW b \in MemBlock, NEW q \in Proc, Send(p, b, q)
  PROVE  InboxGets(b, q)
<1>1. Address(p, b, q) /\ mailbox' = Put(mailbox, b)
  BY DEF Send
<1>2. ~InBox(mailbox, b) /\ \A c \in MemBlock : rx'[c] = IF c = b THEN q ELSE rx[c]
  BY <1>1, AddressProperties
<1>. QED BY <1>1, <1>2, InboxPuts

LEMMA InboxOfReceive ==
  ASSUME Accounts, NEW p \in Proc, Receive(p)
  PROVE  InboxGives(p)
<1>1. PICK i \in FirstMail(p) : /\ mailbox' = Take(mailbox, i) /\ rx' = rx
                                /\ held' = [held EXCEPT ![p] = @ \cup {mailbox[i]}]
  BY DEF Receive
<1>2. /\ Inbox[p] = <<mailbox[i]>> \o Inbox'[p]
      /\ Inbox' = [Inbox EXCEPT ![p] = Tail(@)]
  BY <1>1, InboxTake
<1>3. DOMAIN Inbox = Proc
  BY DEF Inbox
<1>4. i \in Slot /\ mailbox[i] # NoBlock /\ rx[mailbox[i]] = p /\ mailbox[i] \in MemBlock
  BY <1>1 DEF FirstMail, Accounts, DataTypeOK, Box
<1>. QED BY <1>1, <1>2, <1>3, <1>4 DEF InboxGives, InBox

LEMMA InboxOfSerial ==
  ASSUME Accounts, SerialInterrupt
  PROVE  InboxGets(Head(available), Kcd)
<1>. DEFINE h == Head(available)
<1>1. available # <<>> /\ rx' = [rx EXCEPT ![h] = Kcd] /\ mailbox' = Put(mailbox, h)
  BY DEF SerialInterrupt
<1>2. h \in MemBlock /\ IsFree(h)
  BY <1>1, HeadIsFree
<1>. HIDE DEF h
<1>3. ~InBox(mailbox, h)
  BY <1>2, ReceiverAssumption DEF Accounts, DataTypeOK, Accounted, AccountedFor
<1>4. \A c \in MemBlock : rx'[c] = IF c = h THEN Kcd ELSE rx[c]
  BY <1>1, <1>2 DEF Accounts, DataTypeOK
<1>5. InboxGets(h, Kcd)
  BY <1>1, <1>2, <1>3, <1>4, InboxPuts, ReceiverAssumption
<1>. QED BY <1>5 DEF h

LEMMA InboxOfTick ==
  ASSUME Accounts, NEW b \in MemBlock, TickDelivers(b)
  PROVE  InboxGets(b, rx[b])
<1>1. delayed[scan] = b /\ scan \in Slot /\ mailbox' = Put(mailbox, b) /\ rx' = rx
  BY DEF TickDelivers
<1>2. ~InBox(mailbox, b)
  BY <1>1 DEF Accounts, Accounted, AccountedFor, InBox
<1>3. rx[b] \in Proc
  BY DEF Accounts, DataTypeOK
<1>4. \A c \in MemBlock : rx'[c] = IF c = b THEN rx[b] ELSE rx[c]
  BY <1>1
<1>. QED BY <1>1, <1>2, <1>3, <1>4, InboxPuts

LEMMA InboxRests ==
  ASSUME Accounts, UNCHANGED <<mailbox, rx>>
  PROVE  Inbox' = Inbox
BY InboxSame

LEMMA InboxOfRelease ==
  ASSUME Accounts, NEW p \in Proc, NEW b \in MemBlock, Release(p, b)
  PROVE  Inbox' = Inbox
<1>1. b \in held[p] /\ rx' = [rx EXCEPT ![b] = NullProc] /\ mailbox' = mailbox
  BY DEF Release, MayRelease
<1>2. ~InBox(mailbox, b)
  BY <1>1, HeldProperties
<1>3. \A c \in MemBlock : InBox(mailbox, c) => rx'[c] = rx[c]
  BY <1>1, <1>2 DEF Accounts, DataTypeOK
<1>. QED BY <1>1, <1>3, InboxSame

-----------------------------------------------------------------------------
(* What the kernel functions do to the states of the processes. *)

\* Outside P, from k to d, nothing happened but that a new process was started.
SameStates(k, d, P) ==
    \A x \in Proc \ P : \/ d.state[x] = k.state[x]
                        \/ k.state[x] = "new" /\ d.state[x] = "ready"

LEMMA EnqueueStates ==
  ASSUME NEW k \in KernelType, NEW p \in Proc, NEW kind \in Kind
  PROVE  LET e == EnqueueProcess(k, kind, p)
         IN  e \in KernelType /\ e.state = k.state /\ e.running = k.running
<1>. DEFINE lev == k.priority[p]
            s == Append(k.queue[kind][lev], p)
<1>1. lev \in Level
  BY KernelFields
<1>2. s \in Seq(Proc)
  BY <1>1, QueueIsSeq, AppendProperties
<1>3. EnqueueProcess(k, kind, p) = PutQueue(k, kind, lev, s)
  BY DEF EnqueueProcess, PutQueue
<1>. HIDE DEF lev, s
<1>. QED BY <1>1, <1>2, <1>3, PutQueueProperties

LEMMA SwitchStates ==
  ASSUME NEW k \in KernelType
  PROVE  SameStates(k, Dispatch(k), {}) /\ SameStates(k, ProcSwitch(k), {})
<1>1. ASSUME NEW c \in KernelType
      PROVE  SameStates(c, Dispatch(c), {})
  <2>1. CASE IsEmpty(c, "ready")
    BY <1>1, <2>1 DEF Dispatch, KernelType, SameStates
  <2>2. CASE ~IsEmpty(c, "ready")
    <3>. DEFINE l == FirstLevel(c, "ready")
                p == Head(c.queue["ready"][l])
                t == Tail(c.queue["ready"][l])
                r == PutQueue(c, "ready", l, t)
                s == IF c.state[p] = "new" THEN "ready" ELSE c.state[p]
    <3>1. l \in Level /\ c.queue["ready"][l] # <<>> /\ "ready" \in Kind
      BY <2>2, FirstLevelProperties DEF Kind
    <3>2. /\ c.queue["ready"][l] \in Seq(Proc) /\ p \in Proc
          /\ t \in Seq(Proc)
      <4>. HIDE DEF l
      <4>1. c.queue["ready"][l] \in Seq(Proc)
        BY <3>1, QueueIsSeq
      <4>. QED BY <3>1, <4>1, HeadTailProperties
    <3>3. Dispatch(c) = [r EXCEPT !.running = p, !.state[p] = s]
      BY <2>2 DEF Dispatch, PutQueue, KernelType
    <3>. HIDE DEF l, t
    <3>4. r \in KernelType /\ r.state = c.state
      BY <3>1, <3>2, PutQueueProperties
    <3>. HIDE DEF r
    <3>5. Dispatch(c).state = [c.state EXCEPT ![p] = s]
      BY <3>2, <3>3, <3>4 DEF KernelType
    <3>. QED BY <3>2, <3>5, KernelFields DEF SameStates
  <2>. QED BY <2>1, <2>2
<1>2. CASE k.running \in Proc /\ k.state[k.running] = "ready"
  <2>. DEFINE e == EnqueueProcess(k, "ready", k.running)
  <2>1. e \in KernelType /\ e.state = k.state
    BY <1>2, EnqueueStates DEF Kind
  <2>2. ProcSwitch(k) = Dispatch(e)
    BY <1>2 DEF ProcSwitch
  <2>. HIDE DEF e
  <2>. QED BY <1>1, <2>1, <2>2 DEF SameStates
<1>3. CASE ~(k.running \in Proc /\ k.state[k.running] = "ready")
  BY <1>1, <1>3 DEF ProcSwitch
<1>. QED BY <1>1, <1>2, <1>3

\* A process is given state s and put in queue "kind", and maybe there is a switch.
LEMMA PutStates ==
  ASSUME NEW k \in KernelType, NEW p \in Proc, NEW s \in ProcState \ {"new"},
         NEW kind \in Kind,
         NEW e, e = EnqueueProcess([k EXCEPT !.state[p] = s], kind, p),
         NEW d \in {e, ProcSwitch(e)}
  PROVE  d.state[p] = s /\ SameStates(k, d, {p})
<1>. DEFINE c == [k EXCEPT !.state[p] = s]
            f == [k.state EXCEPT ![p] = s]
<1>1. /\ f \in [Proc -> ProcState] /\ f[p] = s
      /\ \A x \in Proc \ {p} : f[x] = k.state[x]
  BY KernelFields
<1>2. c = [k EXCEPT !.state = f]
  OBVIOUS
<1>. HIDE DEF f, c
<1>3. c \in KernelType /\ c.state = f
  BY <1>1, <1>2, KernelUpdate
<1>4. e \in KernelType /\ e.state = f
  BY <1>3, EnqueueStates DEF c
<1>5. SameStates(e, d, {})
  <2>1. CASE d = e
    BY <2>1 DEF SameStates
  <2>2. CASE d = ProcSwitch(e)
    BY <1>4, <2>2, SwitchStates
  <2>. QED BY <2>1, <2>2
<1>. QED BY <1>1, <1>4, <1>5 DEF SameStates

LEMMA BlockStates ==
  ASSUME NEW k \in KernelType, NEW p \in Proc, p = k.running, k.state[p] = "ready",
         NEW type \in BlockType, NEW d, d = BlockProcess(k, p, type)
  PROVE  d.state[p] = BlockedState(type) /\ SameStates(k, d, {p})
<1>. DEFINE s == BlockedState(type)
            e == EnqueueProcess([k EXCEPT !.state[p] = s], type, p)
<1>1. s \in ProcState \ {"new"} /\ type \in Kind
  BY DEF BlockType, BlockedState, ProcState, Kind
<1>2. IsPidValid(k, p) /\ ~IsProcessBlocked(k, p) /\ RemoveProcess(k, p) = k
  BY DEF IsPidValid, IsProcessBlocked, RemoveProcess
<1>3. d \in {e, ProcSwitch(e)}
  BY <1>2 DEF BlockProcess
<1>4. e = EnqueueProcess([k EXCEPT !.state[p] = s], type, p)
  OBVIOUS
<1>. HIDE DEF s, e
<1>5. d.state[p] = s /\ SameStates(k, d, {p})
  BY <1>1, <1>3, <1>4, PutStates
<1>. QED BY <1>5 DEF s

LEMMA UnblockByPidStates ==
  ASSUME NEW k, NEW dead, Settled(k, dead), NEW p \in Proc, NEW release \in BOOLEAN,
         NEW d, d = UnblockProcessByPid(k, p, release)
  PROVE  /\ IsProcessBlocked(k, p) => d.state[p] = "ready"
         /\ SameStates(k, d, {p})
         /\ ~IsProcessBlocked(k, p) => d = k
<1>1. CASE ~IsProcessBlocked(k, p)
  BY <1>1 DEF UnblockProcessByPid, SameStates
<1>2. CASE IsProcessBlocked(k, p)
  <2>. DEFINE r == RemoveProcess(k, p)
              e == EnqueueProcess([r EXCEPT !.state[p] = "ready"], "ready", p)
              out == dead \cup {k.running}
  <2>1. p # k.running /\ p \notin out /\ k \in KernelType /\ Filed(k, out)
    BY <1>2, ValidIsLive DEF IsProcessBlocked, Settled
  <2>2. r \in KernelType /\ r.state = k.state
    <3>. HIDE DEF out
    <3>. QED BY <2>1, RemoveUnfiles
  <2>3. d \in {e, ProcSwitch(e)}
    BY <1>2 DEF UnblockProcessByPid
  <2>4. "ready" \in ProcState \ {"new"} /\ "ready" \in Kind
    BY DEF ProcState, Kind
  <2>. HIDE DEF r
  <2>5. d.state[p] = "ready" /\ SameStates(r, d, {p})
    <3>1. e = EnqueueProcess([r EXCEPT !.state[p] = "ready"], "ready", p)
      OBVIOUS
    <3>. HIDE DEF e
    <3>. QED BY <2>2, <2>3, <2>4, <3>1, PutStates
  <2>. QED BY <1>2, <2>2, <2>5 DEF SameStates
<1>. QED BY <1>1, <1>2

LEMMA UnblockByTypeStates ==
  ASSUME NEW k, NEW dead, Settled(k, dead), NEW type \in BlockType, ~IsEmpty(k, type),
         NEW release \in BOOLEAN, NEW d, d = UnblockProcessByType(k, type, release)
  PROVE  LET p == FirstBlocked(k, type)
         IN  /\ p \in Proc /\ k.state[p] = BlockedState(type)
             /\ d.state[p] = "ready" /\ SameStates(k, d, {p})
<1>. DEFINE l == FirstLevel(k, type)
            p == FirstBlocked(k, type)
            r == PutQueue(k, type, l, Tail(k.queue[type][l]))
            e == EnqueueProcess([r EXCEPT !.state[p] = "ready"], "ready", p)
            out == dead \cup {k.running}
<1>1. type \in Kind /\ k \in KernelType /\ Filed(k, out)
  BY DEF Kind, Settled
<1>2. l \in Level /\ k.queue[type][l] # <<>>
  BY <1>1, FirstLevelProperties
<1>3. p = Head(k.queue[type][l])
  BY DEF FirstBlocked
<1>4. d \in {e, ProcSwitch(e)}
  BY DEF UnblockProcessByType, PutQueue
<1>. HIDE DEF l, p, out
<1>5. /\ p \in Proc /\ QueueOf(k.state[p]) = type
      /\ r \in KernelType /\ r.state = k.state
  <2>1. r = PutQueue(k, type, l, Tail(k.queue[type][l]))
    OBVIOUS
  <2>. HIDE DEF r
  <2>2. Unfiled(k, type, p, out, r)
    <3>. HIDE DEF e
    <3>. QED BY <1>1, <1>2, <1>3, <2>1, TailUnfiles
  <2>. QED BY <2>2 DEF Unfiled
<1>6. k.state[p] = BlockedState(type)
  BY <1>5 DEF QueueOf, BlockedState, BlockType
<1>. HIDE DEF r
<1>7. "ready" \in ProcState \ {"new"} /\ "ready" \in Kind
  BY DEF ProcState, Kind
<1>8. d.state[p] = "ready" /\ SameStates(r, d, {p})
  <2>1. e = EnqueueProcess([r EXCEPT !.state[p] = "ready"], "ready", p)
    OBVIOUS
  <2>. HIDE DEF e
  <2>. QED BY <1>4, <1>5, <1>7, <2>1, PutStates
<1>. QED BY <1>5, <1>6, <1>8 DEF SameStates, p

LEMMA SetPriorityStates ==
  ASSUME NEW k, NEW dead, Settled(k, dead), NEW p \in Proc, NEW n,
         NEW d, d = SetProcessPriority(k, p, n)
  PROVE  SameStates(k, d, {})
<1>1. CASE ~MaySetPriority(k, p, n)
  BY <1>1 DEF SetProcessPriority, SameStates
<1>2. CASE MaySetPriority(k, p, n) /\ p = k.running
  <2>. DEFINE c == [k EXCEPT !.priority[p] = n]
  <2>1. c \in KernelType /\ c.state = k.state
    <3>. DEFINE f == [k.priority EXCEPT ![p] = n]
    <3>1. k \in KernelType /\ f \in [Proc -> Level] /\ c = [k EXCEPT !.priority = f]
      BY <1>2, KernelFields DEF MaySetPriority, Level, Settled
    <3>. HIDE DEF f, c
    <3>. QED BY <3>1, KernelUpdate
  <2>2. d = c \/ d = ProcSwitch(c)
    BY <1>2 DEF SetProcessPriority
  <2>. HIDE DEF c
  <2>. QED BY <2>1, <2>2, SwitchStates DEF SameStates
<1>3. CASE MaySetPriority(k, p, n) /\ p # k.running
  <2>. DEFINE r == RemoveProcess(k, p)
              c == [r EXCEPT !.priority[p] = n]
              e == Requeue(k, p, n)
              kind == QueueOf(k.state[p])
              out == dead \cup {k.running}
  <2>1. /\ p \notin out /\ k \in KernelType /\ Filed(k, out)
        /\ kind \in Kind /\ n \in Level
    <3>1. k \in KernelType /\ Filed(k, out) /\ n \in Level /\ IsPidValid(k, p)
      BY <1>3 DEF MaySetPriority, Level, Settled
    <3>2. p \notin out
      BY <1>3, <3>1, ValidIsLive
    <3>3. kind \in Kind
      BY <3>1, KernelFields, QueueOfKind
    <3>. QED BY <3>1, <3>2, <3>3
  <2>2. r \in KernelType /\ r.state = k.state
    <3>. HIDE DEF out
    <3>. QED BY <1>3, <2>1, RemoveUnfiles
  <2>. HIDE DEF r
  <2>3. c \in KernelType /\ c.state = r.state
    BY <2>1, <2>2 DEF KernelType
  <2>. HIDE DEF c
  <2>4. e = EnqueueProcess(c, kind, p)
    BY DEF Requeue, c, r
  <2>5. e \in KernelType /\ e.state = c.state
    BY <2>1, <2>3, <2>4, EnqueueStates
  <2>6. d = e \/ d = ProcSwitch(e)
    BY <1>3 DEF SetProcessPriority
  <2>. HIDE DEF e
  <2>. QED BY <2>2, <2>3, <2>5, <2>6, SwitchStates DEF SameStates
<1>. QED BY <1>1, <1>2, <1>3

-----------------------------------------------------------------------------
(* Who falls asleep in a step of the scheduler. *)

NobodyDozes == \A x \in Proc : kernel'.state[x] \in {kernel.state[x], "ready"}

Asleep(p) == kernel.state[p] \in {"blocked_mem", "blocked_msg"}

\* Blocked processes are alive, and blocked in the primitive they called.
Sleepers ==
    \A p \in Proc :
        /\ Asleep(p) => p \in Alive
        /\ kernel.state[p] = "blocked_mem" => at[p] = "mem"
        /\ kernel.state[p] = "blocked_msg" => at[p] = "recv"

\* A live process that is blocked can be found, and woken.
LEMMA AsleepIsBlocked ==
  ASSUME IInv, NEW p \in Proc, p \in Alive, Asleep(p)
  PROVE  IsProcessBlocked(kernel, p) /\ p # kernel.running
<1>1. p # kernel.running
  BY DEF IInv, Placement, Asleep
<1>2. /\ kernel.priority[p] \in Level /\ kernel.state[p] \in ProcState
      /\ QueueOf(kernel.state[p]) \in Kind
  BY KernelFields, QueueOfKind DEF IInv, TypeOK
<1>3. InQueue(kernel, QueueOf(kernel.state[p]), kernel.priority[p], p)
  BY <1>1, <1>2 DEF IInv, Placement, Filed
<1>4. IsPidValid(kernel, p)
  BY <1>2, <1>3 DEF IsPidValid
<1>. QED BY <1>1, <1>4 DEF IsProcessBlocked, Asleep

LEMMA QuietStates ==
  ASSUME IInv,
         \/ CreateProcess \/ EnterMain \/ ReleaseProcessor \/ TerminateProcess
         \/ \E p \in Proc : \E n : SetPriority(p, n)
         \/ TimerEnter \/ TimerExit \/ UNCHANGED vars
  PROVE  NobodyDozes
<1>0. kernel \in KernelType
  BY DEF IInv, TypeOK
<1>1. CASE CreateProcess
  <2>1. created + 1 \in 1..Len(Pibs)
    <3>1. created \in 0..Len(Pibs) /\ created # Len(Pibs) /\ Len(Pibs) \in Nat
      BY <1>1, PibsFacts DEF CreateProcess, Booted, IInv, TypeOK
    <3>. QED BY <3>1
  <2>2. Pibs[created + 1] \in Proc
    BY <2>1, PibsFacts
  <2>. QED BY <1>0, <1>1, <2>2, EnqueueStates DEF CreateProcess, Kind, NobodyDozes
<1>2. CASE EnterMain \/ TerminateProcess \/ TimerEnter \/ UNCHANGED vars
  BY <1>0, <1>2 DEF EnterMain, TerminateProcess, Terminate, RemoveProcess, TimerEnter,
                    vars, KernelType, NobodyDozes
<1>3. CASE ReleaseProcessor \/ TimerExit
  <2>1. kernel' = kernel \/ SameStates(kernel, kernel', {})
    BY <1>0, <1>3, SwitchStates DEF ReleaseProcessor, TimerExit
  <2>. QED BY <2>1 DEF SameStates, NobodyDozes
<1>4. ASSUME NEW p \in Proc, NEW n, SetPriority(p, n)
      PROVE  NobodyDozes
  <2>1. Booted /\ kernel' = SetProcessPriority(kernel, p, n)
    BY <1>4, CallingIsBooted DEF SetPriority, Calling
  <2>2. SameStates(kernel, kernel', {})
    BY <2>1, BootedIsSettled, SetPriorityStates
  <2>. QED BY <2>2 DEF SameStates, NobodyDozes
<1>. QED BY <1>1, <1>2, <1>3, <1>4

LEMMA UnblockByPidWakes ==
  ASSUME IInv, NEW p \in Proc, UnblockByPid(p) \/ TimerUnblock(p)
  PROVE  /\ NobodyDozes
         /\ p \in Alive /\ Asleep(p) => kernel'.state[p] = "ready"
<1>1. Booted
  BY CallingIsBooted DEF UnblockByPid, TimerUnblock
<1>2. Settled(kernel, Dead) /\ kernel \in KernelType /\ kernel.priority[p] \in Level
  BY <1>1, BootedIsSettled, KernelFields DEF IInv, TypeOK
<1>3. \E release \in BOOLEAN : kernel' = UnblockProcessByPid(kernel, p, release)
  BY <1>2, OutranksProperties DEF UnblockByPid, TimerUnblock
<1>4. /\ IsProcessBlocked(kernel, p) => kernel'.state[p] = "ready"
      /\ SameStates(kernel, kernel', {p})
      /\ ~IsProcessBlocked(kernel, p) => kernel' = kernel
  BY <1>2, <1>3, UnblockByPidStates
<1>. QED BY <1>4, AsleepIsBlocked DEF SameStates, NobodyDozes

LEMMA UnblockByTypeWakes ==
  ASSUME IInv, NEW type \in BlockType, UnblockByType(type)
  PROVE  /\ NobodyDozes
         /\ \E p \in Proc : /\ kernel.state[p] = BlockedState(type)
                            /\ kernel'.state[p] = "ready"
<1>. DEFINE p == FirstBlocked(kernel, type)
<1>1. ~IsEmpty(kernel, type) /\ Calling
  BY DEF UnblockByType
<1>2. Settled(kernel, Dead) /\ kernel \in KernelType
  BY <1>1, CallingIsBooted, BootedIsSettled DEF Calling, Settled
<1>3. p \in Proc
  BY <1>1, <1>2, UnblockByTypeSettles
<1>4. kernel.priority[p] \in Level
  BY <1>2, <1>3, KernelFields
<1>5. \E release \in BOOLEAN : kernel' = UnblockProcessByType(kernel, type, release)
  BY <1>2, <1>4, OutranksProperties DEF UnblockByType
<1>6. /\ kernel.state[p] = BlockedState(type) /\ kernel'.state[p] = "ready"
      /\ SameStates(kernel, kernel', {p})
  BY <1>1, <1>2, <1>5, UnblockByTypeStates
<1>. HIDE DEF p
<1>. QED BY <1>3, <1>6 DEF SameStates, NobodyDozes

LEMMA BlockDozes ==
  ASSUME IInv, NEW type \in BlockType, Block(type)
  PROVE  /\ kernel.running \in Proc /\ kernel.running \in Alive
         /\ kernel.state[kernel.running] = "ready"
         /\ kernel'.state[kernel.running] = BlockedState(type)
         /\ \A x \in Proc \ {kernel.running} :
               kernel'.state[x] \in {kernel.state[x], "ready"}
<1>1. /\ kernel.running \in Proc /\ kernel.running \in Alive /\ kernel \in KernelType
      /\ kernel.state[kernel.running] = "ready"
      /\ kernel' = BlockProcess(kernel, kernel.running, type)
  BY DEF Block, Calling, IInv, TypeOK, Placement
<1>2. /\ kernel'.state[kernel.running] = BlockedState(type)
      /\ SameStates(kernel, kernel', {kernel.running})
  BY <1>1, BlockStates
<1>. QED BY <1>1, <1>2 DEF SameStates

\* Nobody dies but the running process.
LEMMA StepAlive ==
  ASSUME IInv, [AnyNext]_vars, NEW p \in Alive, p # kernel.running
  PROVE  p \in Alive'
<1>0. created \in Nat
  <2>1. created \in 0..Len(Pibs) /\ Len(Pibs) \in Nat
    BY PibsFacts DEF IInv, TypeOK
  <2>. QED BY <2>1
<1>1. created' \in {created, created + 1}
  BY DEF AnyNext, Next, CreateProcess, EnterMain, ReleaseProcessor,
     TerminateProcess, Block, UnblockByType, UnblockByPid, SetPriority, TimerEnter,
     TimerExit, TimerUnblock, vars
<1>2. terminated' \in {terminated, terminated \cup {kernel.running}}
  BY DEF AnyNext, Next, CreateProcess, EnterMain, ReleaseProcessor,
     TerminateProcess, Block, UnblockByType, UnblockByPid, SetPriority, TimerEnter,
     TimerExit, TimerUnblock, vars
<1>. QED BY <1>0, <1>1, <1>2 DEF Alive

-----------------------------------------------------------------------------
(* Who falls asleep in a step of the whole kernel. *)

LEMMA ProcessMoves ==
  ASSUME Accounts, NEW r \in Proc, ProcessActs(r)
  PROVE  /\ kernel.running = r /\ Calling
         /\ \A x \in Proc \ {r} : at'[x] = at[x] /\ to'[x] = to[x]
         /\ at[r] = "send_gap" => SendUnblocks(r)
         /\ at[r] = "rel_gap" => ReleaseUnblocks(r)
<1>0. at \in [Proc -> Point] /\ to \in [Proc -> Proc]
  BY DEF Accounts, DataTypeOK
<1>1. CASE Yield(r) \/ \E q \in Proc : \E n : ChangePriority(r, q, n)
  BY <1>1 DEF Yield, ChangePriority, Running, dataVars, callVars
<1>2. CASE Request(r) \/ RequestFindsNone(r) \/ RequestBlocks(r)
  BY <1>0, <1>2 DEF Request, RequestFindsNone, RequestBlocks, GoTo, Running
<1>3. CASE \E b \in MemBlock : Release(r, b)
  BY <1>0, <1>3 DEF Release, GoTo, Running
<1>4. CASE ReleaseUnblocks(r)
  BY <1>0, <1>4 DEF ReleaseUnblocks, GoTo, Running
<1>5. CASE \E b \in MemBlock, q \in Proc : Send(r, b, q)
  BY <1>0, <1>5 DEF Send, Running
<1>6. CASE SendUnblocks(r)
  BY <1>0, <1>6 DEF SendUnblocks, Running
<1>7. CASE \E b \in MemBlock, q \in Proc, d \in Nat : DelayedSend(r, b, q, d)
  BY <1>7 DEF DelayedSend, Running, callVars
<1>8. CASE Receive(r) \/ ReceiveFindsNone(r) \/ ReceiveBlocks(r)
  BY <1>0, <1>8 DEF Receive, ReceiveFindsNone, ReceiveBlocks, GoTo, Running
<1>. QED BY <1>1, <1>2, <1>3, <1>4, <1>5, <1>6, <1>7, <1>8 DEF ProcessActs, Primitives

LEMMA SystemMoves ==
  ASSUME SystemActs
  PROVE  UNCHANGED <<at, to>>
BY DEF SystemActs, Boot, Ends, EndReleases, Tick, TickSkips, TickEnds, TickDelivers,
       SerialInterrupt, rtxVars, dataVars, callVars

LEMMA SystemDozes ==
  ASSUME RtxIInv, SystemActs
  PROVE  NobodyDozes
<1>0. IInv /\ \A b \in MemBlock : rx[b] \in Proc
  BY DEF RtxIInv, Accounts, DataTypeOK
<1>1. CASE Boot \/ (\E p \in Ending : Ends(p)) \/ EndReleases \/ UNCHANGED rtxVars
  BY <1>0, <1>1, QuietStates DEF Boot, Ends, EndReleases, rtxVars
<1>2. CASE Tick \/ TickSkips \/ TickEnds
  BY <1>0, <1>2, QuietStates DEF Tick, TickSkips, TickEnds
<1>3. CASE \E b \in MemBlock : TickDelivers(b)
  BY <1>0, <1>3, QuietStates, UnblockByPidWakes DEF TickDelivers
<1>4. CASE SerialInterrupt
  BY <1>0, <1>4, UnblockByPidWakes, ReceiverAssumption DEF SerialInterrupt
<1>. QED BY <1>1, <1>2, <1>3, <1>4 DEF SystemActs

LEMMA ProcessDozes ==
  ASSUME RtxIInv, NEW p \in Proc, ProcessActs(p)
  PROVE  NobodyDozes \/ RequestBlocks(p) \/ ReceiveBlocks(p)
<1>0. IInv /\ to[p] \in Proc
  BY DEF RtxIInv, Accounts, DataTypeOK
<1>1. CASE Yield(p)
  BY <1>0, <1>1, QuietStates DEF Yield
<1>2. CASE \E q \in Proc : \E n : ChangePriority(p, q, n)
  BY <1>0, <1>2, QuietStates DEF ChangePriority
<1>3. CASE ReleaseUnblocks(p)
  BY <1>0, <1>3, QuietStates, UnblockByTypeWakes DEF ReleaseUnblocks, BlockType
<1>4. CASE SendUnblocks(p)
  BY <1>0, <1>4, UnblockByPidWakes DEF SendUnblocks
<1>5. CASE \/ Request(p) \/ RequestFindsNone(p) \/ Receive(p) \/ ReceiveFindsNone(p)
           \/ \E b \in MemBlock : Release(p, b)
           \/ \E b \in MemBlock, q \in Proc : Send(p, b, q)
           \/ \E b \in MemBlock, q \in Proc, d \in Nat : DelayedSend(p, b, q, d)
  <2>1. UNCHANGED vars
    BY <1>5 DEF Request, RequestFindsNone, Receive, ReceiveFindsNone, Release, Send,
                DelayedSend
  <2>. QED BY <1>0, <2>1, QuietStates
<1>. QED BY <1>1, <1>2, <1>3, <1>4, <1>5 DEF ProcessActs, Primitives

\* A process that blocks is at the point of its primitive where it looks again.
LEMMA BlocksAt ==
  ASSUME RtxIInv, NEW p \in Proc, NEW type \in BlockType,
         \/ type = "mem" /\ RequestBlocks(p)
         \/ type = "msg" /\ ReceiveBlocks(p)
  PROVE  /\ kernel.running = p /\ p \in Alive /\ kernel.state[p] = "ready"
         /\ kernel'.state[p] = BlockedState(type)
         /\ at[p] = IF type = "mem" THEN "mem_gap" ELSE "recv_gap"
         /\ at'[p] = IF type = "mem" THEN "mem" ELSE "recv"
         /\ \A x \in Proc \ {p} : kernel'.state[x] \in {kernel.state[x], "ready"}
<1>1. IInv /\ Block(type) /\ kernel.running = p /\ at \in [Proc -> Point]
  BY DEF RtxIInv, Accounts, DataTypeOK, RequestBlocks, ReceiveBlocks, Running
<1>2. /\ at[p] = IF type = "mem" THEN "mem_gap" ELSE "recv_gap"
      /\ at'[p] = IF type = "mem" THEN "mem" ELSE "recv"
  BY <1>1 DEF RequestBlocks, ReceiveBlocks, Running, GoTo, BlockType
<1>. QED BY <1>1, <1>2, BlockDozes

LEMMA StepSleepers ==
  ASSUME RtxIInv, Sleepers, CallsNext
  PROVE  Sleepers'
<1>1. [AnyNext]_vars /\ IInv /\ Accounts
  BY CallsStep DEF RtxIInv, Accounts, DataTypeOK, Addressed
<1>2. \A x \in Proc : x # kernel.running => at'[x] = at[x]
  BY <1>1, ProcessMoves, SystemMoves DEF CallsNext
<1>3. ASSUME NEW x \in Proc, kernel'.state[x] = kernel.state[x]
      PROVE  /\ Asleep(x)' => x \in Alive'
             /\ kernel'.state[x] = "blocked_mem" => at'[x] = "mem"
             /\ kernel'.state[x] = "blocked_msg" => at'[x] = "recv"
  <2>1. Asleep(x) => x \in Alive /\ x # kernel.running
    BY <1>1, AsleepIsBlocked DEF Sleepers
  <2>. QED BY <1>1, <1>2, <1>3, <2>1, StepAlive DEF Sleepers, Asleep
<1>4. CASE NobodyDozes
  BY <1>3, <1>4 DEF NobodyDozes, Sleepers, Asleep
<1>5. ASSUME NEW p \in Proc, NEW type \in BlockType,
             \/ type = "mem" /\ RequestBlocks(p)
             \/ type = "msg" /\ ReceiveBlocks(p)
      PROVE  Sleepers'
  <2>1. /\ kernel.running = p /\ p \in Alive
        /\ kernel'.state[p] = BlockedState(type)
        /\ at'[p] = IF type = "mem" THEN "mem" ELSE "recv"
        /\ \A x \in Proc \ {p} : kernel'.state[x] \in {kernel.state[x], "ready"}
    BY <1>5, BlocksAt
  <2>2. Alive' = Alive
    BY <1>5 DEF RequestBlocks, ReceiveBlocks, Block, Alive
  <2>3. ASSUME NEW x \in Proc
        PROVE  /\ Asleep(x)' => x \in Alive'
               /\ kernel'.state[x] = "blocked_mem" => at'[x] = "mem"
               /\ kernel'.state[x] = "blocked_msg" => at'[x] = "recv"
    <3>1. CASE x = p
      BY <1>5, <2>1, <2>2, <3>1 DEF BlockedState, BlockType
    <3>2. CASE x # p
      BY <1>3, <2>1, <3>2 DEF Asleep
    <3>. QED BY <3>1, <3>2
  <2>. QED BY <2>3 DEF Sleepers
<1>6. NobodyDozes \/ \E p \in Proc : RequestBlocks(p) \/ ReceiveBlocks(p)
  BY SystemDozes, ProcessDozes DEF CallsNext
<1>. QED BY <1>4, <1>5, <1>6 DEF BlockType

\* A process that has to be woken can be: it lives, and it will look again.
THEOREM SleepersLive == RtxSpec => [](RtxIInv /\ Sleepers)
<1>1. RtxInit => Sleepers
  BY DEF RtxInit, Init, Sleepers, Asleep
<1>2. RtxIInv /\ Sleepers /\ [RtxNext]_rtxVars => Sleepers'
  BY NextCalls, StepSleepers
<1>. QED BY <1>1, <1>2, RtxInductiveInvariant, PTL DEF RtxSpec

-----------------------------------------------------------------------------
(* Mail. *)

HasMail(p) == \E b \in MemBlock : InBox(mailbox, b) /\ rx[b] = p

Beckoned(p) == \E q \in Proc : at[q] = "send_gap" /\ to[q] = p

LEMMA SomeMail ==
  ASSUME NEW box \in Box, NEW r, NEW p
  PROVE  (\E i \in Slot : box[i] # NoBlock /\ r[box[i]] = p)
            <=> \E b \in MemBlock : InBox(box, b) /\ r[b] = p
BY BlockAssumption DEF Box, InBox

LEMMA OversleptMeans ==
  ASSUME NEW p \in Proc
  PROVE  /\ Accounts => (Overslept(p) <=> /\ kernel.state[p] = "blocked_msg"
                                          /\ HasMail(p) /\ ~Beckoned(p))
         /\ Accounts' => (Overslept(p)' <=> /\ kernel'.state[p] = "blocked_msg"
                                            /\ HasMail(p)' /\ ~Beckoned(p)')
<1>1. ASSUME Accounts
      PROVE  (\E i \in Slot : mailbox[i] # NoBlock /\ rx[mailbox[i]] = p) <=> HasMail(p)
  <2>1. mailbox \in Box
    BY <1>1 DEF Accounts, DataTypeOK
  <2>. QED BY <2>1, SomeMail DEF HasMail
<1>2. ASSUME Accounts'
      PROVE  (\E i \in Slot : mailbox'[i] # NoBlock /\ rx'[mailbox'[i]] = p)
                <=> HasMail(p)'
  <2>1. mailbox' \in Box
    BY <1>2 DEF Accounts, DataTypeOK
  <2>2. (\E i \in Slot : mailbox'[i] # NoBlock /\ rx'[mailbox'[i]] = p)
            <=> \E b \in MemBlock : InBox(mailbox', b) /\ rx'[b] = p
    BY <2>1, SomeMail
  <2>. QED BY <2>2 DEF HasMail, InBox
<1>. QED BY <1>1, <1>2 DEF Overslept, Beckoned

\* A process puts nothing into the mailbox but what it sends.
LEMMA ProcessBox ==
  ASSUME RtxIInv, NEW r \in Proc, ProcessActs(r), NEW c \in MemBlock, InBox(mailbox, c)'
  PROVE  \/ InBox(mailbox, c) /\ rx'[c] = rx[c]
         \/ rx'[c] \in Proc /\ Send(r, c, rx'[c])
<1>0. /\ Accounts /\ mailbox \in Box /\ Single(mailbox) /\ Compact(mailbox)
      /\ rx \in [MemBlock -> Proc]
  BY DEF RtxIInv, Accounts, DataTypeOK, Listed
<1>1. CASE UNCHANGED <<mailbox, rx>>
  BY <1>1 DEF InBox
<1>2. ASSUME NEW b \in MemBlock, Release(r, b)
      PROVE  InBox(mailbox, c) /\ rx'[c] = rx[c]
  <2>1. b \in held[r] /\ mailbox' = mailbox /\ rx' = [rx EXCEPT ![b] = NullProc]
    BY <1>2 DEF Release, MayRelease
  <2>2. ~InBox(mailbox, b)
    BY <1>0, <2>1, HeldProperties
  <2>. QED BY <1>0, <2>1, <2>2 DEF InBox
<1>3. ASSUME NEW b \in MemBlock, NEW q \in Proc, Send(r, b, q)
      PROVE  \/ InBox(mailbox, c) /\ rx'[c] = rx[c]
             \/ c = b /\ rx'[c] = q
  <2>1. /\ b \in held[r] /\ mailbox' = Put(mailbox, b) /\ rx' = [rx EXCEPT ![b] = q]
    BY <1>3 DEF Send, Address
  <2>2. ~InBox(mailbox, b)
    BY <1>0, <2>1, HeldProperties
  <2>3. InBox(mailbox, c)' <=> InBox(mailbox, c) \/ c = b
    <3>1. InBox(Put(mailbox, b), c) <=> InBox(mailbox, c) \/ c = b
      BY <1>0, <2>2, PutProperties
    <3>. QED BY <2>1, <3>1 DEF InBox
  <2>. QED BY <1>0, <2>1, <2>3
<1>4. ASSUME NEW b \in MemBlock, NEW q \in Proc, NEW d \in Nat,
             DelayedSend(r, b, q, d)
      PROVE  InBox(mailbox, c) /\ rx'[c] = rx[c]
  <2>1. b \in held[r] /\ mailbox' = mailbox /\ rx' = [rx EXCEPT ![b] = q]
    BY <1>4 DEF DelayedSend, Address
  <2>2. ~InBox(mailbox, b)
    BY <1>0, <2>1, HeldProperties
  <2>. QED BY <1>0, <2>1, <2>2 DEF InBox
<1>5. CASE Receive(r)
  <2>1. PICK i \in FirstMail(r) : mailbox' = Take(mailbox, i)
    BY <1>5 DEF Receive
  <2>2. i \in Slot /\ mailbox[i] # NoBlock /\ rx' = rx
    BY <1>5 DEF Receive, FirstMail
  <2>3. InBox(mailbox, c)' => InBox(mailbox, c)
    <3>1. InBox(Take(mailbox, i), c) => InBox(mailbox, c)
      BY <1>0, <2>2, TakeProperties
    <3>. QED BY <2>1, <3>1 DEF InBox
  <2>. QED BY <2>2, <2>3
<1>6. CASE \/ Yield(r) \/ \E q \in Proc : \E n : ChangePriority(r, q, n)
           \/ Request(r) \/ RequestFindsNone(r) \/ RequestBlocks(r) \/ ReleaseUnblocks(r)
           \/ SendUnblocks(r) \/ ReceiveFindsNone(r) \/ ReceiveBlocks(r)
  <2>1. UNCHANGED <<mailbox, rx>>
    BY <1>6 DEF Yield, ChangePriority, Request, RequestFindsNone, RequestBlocks,
                ReleaseUnblocks, SendUnblocks, ReceiveFindsNone, ReceiveBlocks,
                dataVars, mailVars
  <2>. QED BY <1>1, <2>1
<1>. QED BY <1>2, <1>3, <1>4, <1>5, <1>6 DEF ProcessActs, Primitives

LEMMA ProcessMail ==
  ASSUME RtxIInv, NEW r \in Proc, ProcessActs(r), NEW p \in Proc, HasMail(p)'
  PROVE  HasMail(p) \/ \E b \in MemBlock : Send(r, b, p)
BY ProcessBox DEF HasMail

\* The serial interrupt puts nothing there but the character it sends.
LEMMA SerialBox ==
  ASSUME RtxIInv, SerialInterrupt, NEW c \in MemBlock, InBox(mailbox, c)'
  PROVE  \/ InBox(mailbox, c) /\ rx'[c] = rx[c]
         \/ c = Head(available) /\ rx'[c] = Kcd
<1>. DEFINE h == Head(available)
<1>1. mailbox' = Put(mailbox, h) /\ rx' = [rx EXCEPT ![h] = Kcd] /\ available # <<>>
  BY DEF SerialInterrupt
<1>2. /\ Accounts /\ mailbox \in Box /\ Single(mailbox) /\ Compact(mailbox)
      /\ rx \in [MemBlock -> Proc]
  BY DEF RtxIInv, Accounts, DataTypeOK, Listed
<1>3. h \in MemBlock /\ ~InBox(mailbox, h)
  <2>1. h \in MemBlock /\ IsFree(h)
    BY <1>1, <1>2, HeadIsFree
  <2>. HIDE DEF h
  <2>. QED BY <1>2, <2>1, ReceiverAssumption
           DEF Accounts, DataTypeOK, Accounted, AccountedFor
<1>. HIDE DEF h
<1>4. InBox(Put(mailbox, h), c) <=> InBox(mailbox, c) \/ c = h
  BY <1>2, <1>3, PutProperties
<1>. QED BY <1>1, <1>2, <1>3, <1>4 DEF InBox, h

\* A message that an interrupt delivers wakes its receiver.
LEMMA SystemMail ==
  ASSUME RtxIInv, Sleepers, SystemActs, NEW p \in Proc, HasMail(p)',
         kernel.state[p] = "blocked_msg", kernel'.state[p] = "blocked_msg"
  PROVE  HasMail(p)
<1>0. /\ IInv /\ Accounts /\ mailbox \in Box /\ Single(mailbox) /\ Compact(mailbox)
      /\ delayed \in Box /\ rx \in [MemBlock -> Proc]
  BY DEF RtxIInv, Accounts, DataTypeOK, Listed
<1>1. p \in Alive /\ Asleep(p) /\ IsProcessBlocked(kernel, p)
  BY <1>0, AsleepIsBlocked DEF Sleepers, Asleep
<1>2. ASSUME NEW b \in MemBlock, TickDelivers(b) PROVE HasMail(p)
  <2>1. /\ mailbox' = Put(mailbox, b) /\ rx' = rx /\ delayed[scan] = b /\ scan \in Slot
        /\ IF IsProcessBlocked(kernel, rx[b]) THEN TimerUnblock(rx[b]) ELSE UNCHANGED vars
    BY <1>2 DEF TickDelivers
  <2>2. rx[b] # p
    BY <1>0, <1>1, <2>1, UnblockByPidWakes
  <2>3. ~InBox(mailbox, b)
    BY <1>0, <2>1 DEF Accounts, Accounted, AccountedFor, InBox
  <2>4. \A c \in MemBlock : InBox(mailbox, c)' <=> InBox(mailbox, c) \/ c = b
    <3>1. \A c \in MemBlock : InBox(Put(mailbox, b), c) <=> InBox(mailbox, c) \/ c = b
      BY <1>0, <2>3, PutProperties
    <3>. QED BY <2>1, <3>1 DEF InBox
  <2>. QED BY <2>1, <2>2, <2>4 DEF HasMail
<1>3. CASE SerialInterrupt
  <2>1. UnblockByPid(Kcd)
    BY <1>3 DEF SerialInterrupt
  <2>2. Kcd # p
    BY <1>0, <1>1, <2>1, UnblockByPidWakes
  <2>. QED BY <1>3, <2>2, SerialBox DEF HasMail
<1>4. CASE UNCHANGED <<mailbox, rx>>
  BY <1>4 DEF HasMail, InBox
<1>5. CASE \/ Boot \/ (\E q \in Ending : Ends(q)) \/ EndReleases
           \/ Tick \/ TickSkips \/ TickEnds \/ UNCHANGED rtxVars
  <2>1. UNCHANGED <<mailbox, rx>>
    BY <1>5 DEF Boot, Ends, EndReleases, Tick, TickSkips, TickEnds, rtxVars,
                dataVars, mailVars
  <2>. QED BY <1>4, <2>1
<1>. QED BY <1>2, <1>3, <1>5 DEF SystemActs

LEMMA ProcessLeavesAwake ==
  ASSUME RtxIInv, Sleepers, NEW r \in Proc, ProcessActs(r),
         NEW p \in Proc, ~Overslept(p), Overslept(p)'
  PROVE  at[p] = "recv_gap"
<1>0. IInv /\ Accounts /\ Accounts'
  BY ProcessAccounts DEF RtxIInv
<1>1. kernel'.state[p] = "blocked_msg" /\ HasMail(p)' /\ ~Beckoned(p)'
  BY <1>0, OversleptMeans
<1>2. /\ kernel.running = r
      /\ \A x \in Proc \ {r} : at'[x] = at[x] /\ to'[x] = to[x]
      /\ at[r] = "send_gap" => SendUnblocks(r)
  BY <1>0, ProcessMoves
<1>3. CASE kernel.state[p] = "blocked_msg"
  <2>1. p \in Alive /\ Asleep(p)
    BY <1>3 DEF Sleepers, Asleep
  <2>2. HasMail(p)
    <3>1. ASSUME NEW b \in MemBlock, Send(r, b, p) PROVE FALSE
      <4>1. at'[r] = "send_gap" /\ to'[r] = p
        BY <1>0, <3>1 DEF Send, Accounts, DataTypeOK
      <4>. QED BY <1>1, <4>1 DEF Beckoned
    <3>. QED BY <1>1, <3>1, ProcessMail
  <2>3. PICK q \in Proc : at[q] = "send_gap" /\ to[q] = p
    BY <1>0, <1>3, <2>2, OversleptMeans DEF Beckoned
  <2>4. q = r
    BY <1>1, <1>2, <2>3 DEF Beckoned
  <2>5. UnblockByPid(p)
    BY <1>2, <2>3, <2>4 DEF SendUnblocks
  <2>. QED BY <1>0, <1>1, <2>1, <2>5, UnblockByPidWakes
<1>4. CASE kernel.state[p] # "blocked_msg"
  <2>1. RequestBlocks(r) \/ ReceiveBlocks(r)
    BY <1>1, <1>4, ProcessDozes DEF NobodyDozes
  <2>2. CASE RequestBlocks(r)
    BY <1>1, <1>4, <2>2, BlocksAt DEF BlockType, BlockedState
  <2>3. CASE ReceiveBlocks(r)
    BY <1>1, <1>4, <2>3, BlocksAt DEF BlockType, BlockedState
  <2>. QED BY <2>1, <2>2, <2>3
<1>. QED BY <1>3, <1>4

\* No system call and no interrupt leaves a receiver asleep on a message, but for
\* the receiver's own blocking in the gap of receive_message.
THEOREM OversleepingIsTheGaps == RtxSpec => OversleepsInGapOnly
<1>1. ASSUME RtxIInv, Sleepers, CallsNext,
             NEW p \in Proc, ~Overslept(p), Overslept(p)'
      PROVE  at[p] = "recv_gap"
  <2>1. CASE \E r \in Proc : ProcessActs(r)
    BY <1>1, <2>1, ProcessLeavesAwake
  <2>2. CASE SystemActs
    <3>0. Accounts /\ Accounts'
      BY <1>1, StepAccounts DEF RtxIInv
    <3>1. kernel'.state[p] = "blocked_msg" /\ HasMail(p)' /\ ~Beckoned(p)'
      BY <1>1, <3>0, OversleptMeans
    <3>2. kernel.state[p] = "blocked_msg"
      BY <1>1, <2>2, <3>1, SystemDozes DEF NobodyDozes
    <3>3. HasMail(p)
      BY <1>1, <2>2, <3>1, <3>2, SystemMail
    <3>4. ~Beckoned(p)
      BY <2>2, <3>1, SystemMoves DEF Beckoned
    <3>. QED BY <1>1, <3>0, <3>2, <3>3, <3>4, OversleptMeans
  <2>. QED BY <1>1, <2>1, <2>2 DEF CallsNext
<1>2. RtxIInv /\ Sleepers /\ [RtxNext]_rtxVars
        => [\A p \in Proc : ~Overslept(p) /\ Overslept(p)' => at[p] = "recv_gap"]_rtxVars
  BY <1>1, NextCalls
<1>. QED BY <1>2, SleepersLive, PTL DEF RtxSpec, OversleepsInGapOnly

-----------------------------------------------------------------------------
(* Memory. *)

\* The processes are those of the pibs, and finitely many.
LEMMA ProcIsFinite == IsFiniteSet(Proc)
<1>1. /\ Len(Pibs) \in Nat /\ Pibs \in [1..Len(Pibs) -> Proc]
      /\ \A p \in Proc : \E i \in 1..Len(Pibs) : Pibs[i] = p
  BY PibsAssumption, LenProperties, ElementOfSeq DEF Contains
<1>2. Pibs \in Surjection(1..Len(Pibs), Proc)
  BY <1>1 DEF Surjection
<1>. QED BY <1>1, <1>2, FS_Interval, FS_Surjection

MemoryWanted == \E p \in Proc : kernel.state[p] = "blocked_mem"

LEMMA SomeoneWaits ==
  IInv /\ Sleepers => (~IsEmpty(kernel, "mem") <=> MemoryWanted)
<1>. SUFFICES ASSUME IInv, Sleepers
              PROVE  ~IsEmpty(kernel, "mem") <=> MemoryWanted
  OBVIOUS
<1>0. /\ kernel \in KernelType /\ "mem" \in Kind
      /\ Filed(kernel, (Proc \ Alive) \cup {kernel.running})
  BY DEF IInv, TypeOK, Placement, Kind, BlockType
<1>1. ASSUME NEW l \in Level, kernel.queue["mem"][l] # <<>>
      PROVE  \E p \in Proc : kernel.state[p] = "blocked_mem"
  <2>. DEFINE p == Head(kernel.queue["mem"][l])
  <2>1. p \in Proc /\ Contains(kernel.queue["mem"][l], p)
    <3>1. kernel.queue["mem"][l] \in Seq(Proc)
      BY <1>0, QueueIsSeq
    <3>2. IsInjective(kernel.queue["mem"][l])
      BY <1>0 DEF Filed
    <3>. QED BY <1>1, <3>1, <3>2, TailContains DEF HeadAndTail
  <2>. HIDE DEF p
  <2>2. QueueOf(kernel.state[p]) = "mem" /\ kernel.state[p] \in ProcState
    BY <1>0, <2>1, FiledContains, KernelFields
  <2>. QED BY <2>1, <2>2 DEF QueueOf, ProcState
<1>2. ASSUME NEW p \in Proc, kernel.state[p] = "blocked_mem"
      PROVE  ~IsEmpty(kernel, "mem")
  <2>1. p \in Alive /\ p # kernel.running /\ kernel.priority[p] \in Level
    BY <1>0, <1>2, AsleepIsBlocked, KernelFields DEF Sleepers, Asleep
  <2>2. Contains(kernel.queue["mem"][kernel.priority[p]], p)
    BY <1>0, <1>2, <2>1 DEF Filed, InQueue, QueueOf
  <2>3. kernel.queue["mem"][kernel.priority[p]] \in Seq(Proc)
    BY <1>0, <2>1, QueueIsSeq
  <2>. QED BY <2>1, <2>2, <2>3, NotEmptyContains DEF IsEmpty
<1>. QED BY <1>1, <1>2 DEF IsEmpty, MemoryWanted

LEMMA SomeoneWaitsNext ==
  (IInv /\ Sleepers)' => (~IsEmpty(kernel, "mem") <=> MemoryWanted)'
BY SomeoneWaits, PTL

\* The blocks of the free list that nobody comes for.
LEMMA WakersAreFinite ==
  ASSUME NEW W \in SUBSET Proc
  PROVE  IsFiniteSet(W) /\ Cardinality(W) \in Nat
BY ProcIsFinite, FS_Subset, FS_CardinalityType

LEMMA MoreWakers ==
  ASSUME NEW W \in SUBSET Proc, NEW V \in SUBSET Proc, W \subseteq V,
         NEW m \in Nat, NEW n \in Nat, m <= n
  PROVE  n <= Cardinality(W) => m <= Cardinality(V)
<1>1. Cardinality(W) <= Cardinality(V)
  BY WakersAreFinite, FS_Subset
<1>. QED BY <1>1, WakersAreFinite

\* While nobody blocks on memory, the wakers go but one by one, each after what it
\* came for, and a block that is released comes with a waker.
LEMMA WantedAreFetched ==
  ASSUME RtxIInv, Sleepers, NEW r \in Proc, ProcessActs(r), ~RequestBlocks(r),
         MemoryWanted, Len(available) <= Cardinality(Wakers)
  PROVE  Len(available') <= Cardinality(Wakers')
<1>. DEFINE W == Wakers
            V == Wakers'
<1>0. /\ IInv /\ Accounts /\ available \in Seq(MemBlock) /\ at \in [Proc -> Point]
      /\ Len(available) \in Nat
  BY LenProperties DEF RtxIInv, Accounts, DataTypeOK
<1>1. kernel.running = r /\ \A x \in Proc \ {r} : at'[x] = at[x]
  BY <1>0, ProcessMoves
<1>2. W \in SUBSET Proc /\ V \in SUBSET Proc
  BY DEF Wakers
<1>3. W \ {r} \subseteq V
  <2>1. \A x \in Proc \ {r} : kernel'.state[x] \in {kernel.state[x], "ready"}
    BY ProcessDozes, BlocksAt DEF NobodyDozes, BlockType
  <2>. QED BY <1>1, <2>1 DEF Wakers
<1>4. /\ Cardinality(W) \in Nat /\ Cardinality(V) \in Nat /\ Cardinality(W \ {r}) \in Nat
      /\ Cardinality(W \ {r}) = IF r \in W THEN Cardinality(W) - 1 ELSE Cardinality(W)
      /\ Cardinality(W \ {r}) <= Cardinality(V)
  <2>. HIDE DEF W, V
  <2>1. IsFiniteSet(W) /\ IsFiniteSet(V) /\ Cardinality(W) \in Nat
        /\ Cardinality(V) \in Nat
    BY <1>2, WakersAreFinite
  <2>2. IsFiniteSet(W \ {r})
        /\ Cardinality(W \ {r}) = IF r \in W THEN Cardinality(W) - 1 ELSE Cardinality(W)
    BY <2>1, FS_RemoveElement
  <2>3. Cardinality(W \ {r}) <= Cardinality(V) /\ Cardinality(W \ {r}) \in Nat
    BY <1>3, <2>1, <2>2, FS_Subset, FS_CardinalityType
  <2>. QED BY <2>1, <2>2, <2>3
<1>5. CASE Request(r)
  <2>1. Len(available') = Len(available) - 1
    BY <1>0, <1>5, HeadTailProperties DEF Request
  <2>. QED BY <1>0, <1>4, <2>1
<1>6. CASE RequestFindsNone(r)
  <2>1. Len(available') = 0
    BY <1>0, <1>6, EmptySeq DEF RequestFindsNone, memVars
  <2>. QED BY <1>4, <2>1
<1>7. CASE \E b \in MemBlock : Release(r, b)
  <2>1. Len(available') = Len(available) + 1
    BY <1>0, <1>7, AppendProperties DEF Release
  <2>2. r \notin W /\ r \in V
    BY <1>0, <1>7 DEF Release, Running, GoTo, Wakers
  <2>3. Cardinality((W \ {r}) \cup {r}) = Cardinality(W \ {r}) + 1
        /\ Cardinality((W \ {r}) \cup {r}) <= Cardinality(V)
    <3>. HIDE DEF W, V
    <3>1. IsFiniteSet(W \ {r}) /\ IsFiniteSet(V) /\ (W \ {r}) \cup {r} \in SUBSET V
      BY <1>2, <1>3, <2>2, WakersAreFinite
    <3>. QED BY <3>1, FS_AddElement, FS_Subset
  <2>. QED BY <1>0, <1>4, <2>1, <2>2, <2>3
<1>8. CASE ReleaseUnblocks(r)
  <2>1. UnblockByType("mem") /\ at[r] = "rel_gap" /\ UNCHANGED available
    <3>1. ~IsEmpty(kernel, "mem")
      BY <1>0, SomeoneWaits
    <3>. QED BY <1>8, <3>1 DEF ReleaseUnblocks, Running, memVars
  <2>2. PICK w \in Proc : kernel.state[w] = "blocked_mem" /\ kernel'.state[w] = "ready"
    BY <1>0, <2>1, UnblockByTypeWakes DEF BlockType, BlockedState
  <2>3. at[w] = "mem" /\ w # r /\ at'[w] = "mem"
    BY <1>1, <2>1, <2>2 DEF Sleepers
  <2>4. w \notin W /\ w \in V /\ r \in W
    BY <2>1, <2>2, <2>3 DEF Wakers
  <2>5. Cardinality((W \ {r}) \cup {w}) = Cardinality(W \ {r}) + 1
        /\ Cardinality((W \ {r}) \cup {w}) <= Cardinality(V)
    <3>. HIDE DEF W, V
    <3>1. /\ IsFiniteSet(W \ {r}) /\ IsFiniteSet(V) /\ w \notin W \ {r}
          /\ (W \ {r}) \cup {w} \in SUBSET V
      BY <1>2, <1>3, <2>4, WakersAreFinite
    <3>. QED BY <3>1, FS_AddElement, FS_Subset
  <2>. QED BY <1>0, <1>4, <2>1, <2>4, <2>5
<1>9. CASE \/ Yield(r) \/ \E q \in Proc : \E n : ChangePriority(r, q, n)
           \/ \E b \in MemBlock, q \in Proc : Send(r, b, q)
           \/ \E b \in MemBlock, q \in Proc, d \in Nat : DelayedSend(r, b, q, d)
           \/ SendUnblocks(r) \/ Receive(r) \/ ReceiveFindsNone(r) \/ ReceiveBlocks(r)
  <2>1. r \notin W /\ UNCHANGED available
    BY <1>9 DEF Yield, ChangePriority, Send, DelayedSend, SendUnblocks, Receive,
                ReceiveFindsNone, ReceiveBlocks, Running, memVars, dataVars, Wakers
  <2>. QED BY <1>0, <1>4, <2>1
<1>. QED BY <1>5, <1>6, <1>7, <1>8, <1>9 DEF ProcessActs, Primitives

LEMMA InterruptsLeaveWakers ==
  ASSUME RtxIInv, SystemActs, Len(available) <= Cardinality(Wakers)
  PROVE  Len(available') <= Cardinality(Wakers')
<1>1. Wakers \subseteq Wakers' /\ Wakers \in SUBSET Proc /\ Wakers' \in SUBSET Proc
  BY SystemMoves, SystemDozes DEF NobodyDozes, Wakers
<1>2. available \in Seq(MemBlock) /\ Len(available) \in Nat
  BY LenProperties DEF RtxIInv, Accounts, DataTypeOK
<1>3. Len(available') \in Nat /\ Len(available') <= Len(available)
  <2>1. CASE SerialInterrupt
    <3>1. available # <<>> /\ available' = Tail(available)
      BY <2>1 DEF SerialInterrupt
    <3>2. Len(available) \in Nat \ {0} /\ Len(Tail(available)) = Len(available) - 1
      BY <1>2, <3>1, HeadTailProperties, EmptySeq
    <3>. QED BY <3>1, <3>2
  <2>2. CASE ~SerialInterrupt
    <3>1. UNCHANGED available
      BY <2>2 DEF SystemActs, Boot, Ends, EndReleases, Tick, TickSkips, TickEnds,
                  TickDelivers, rtxVars, dataVars, memVars
    <3>. QED BY <1>2, <3>1
  <2>. QED BY <2>1, <2>2
<1>. QED BY <1>1, <1>2, <1>3, MoreWakers

\* A process left waiting for memory, with a block free and nobody to fetch it,
\* has blocked in the gap of request_memory_block.
THEOREM StarvingIsTheGaps == RtxSpec => StarvesInGapOnly
<1>1. ASSUME RtxIInv, Sleepers, CallsNext, ~MemoryOverslept, MemoryOverslept'
      PROVE  \E p \in Proc : at[p] = "mem_gap" /\ at'[p] = "mem"
  <2>1. RtxIInv' /\ Sleepers' /\ IInv /\ IInv'
    BY <1>1, StepRtxIInv, StepSleepers DEF RtxIInv
  <2>2. MemoryWanted' /\ Len(available') > Cardinality(Wakers')
    BY <1>1, <2>1, SomeoneWaitsNext DEF MemoryOverslept
  <2>3. ASSUME ~ \E p \in Proc : RequestBlocks(p) PROVE FALSE
    <3>1. MemoryWanted
      <4>1. PICK p \in Proc : kernel'.state[p] = "blocked_mem"
        BY <2>2 DEF MemoryWanted
      <4>2. NobodyDozes \/ \E r \in Proc : ReceiveBlocks(r)
        BY <1>1, <2>3, SystemDozes, ProcessDozes DEF CallsNext
      <4>3. CASE NobodyDozes
        BY <4>1, <4>3 DEF NobodyDozes, MemoryWanted
      <4>4. ASSUME NEW r \in Proc, ReceiveBlocks(r) PROVE kernel.state[p] = "blocked_mem"
        BY <1>1, <4>1, <4>4, BlocksAt DEF BlockType, BlockedState
      <4>. QED BY <4>2, <4>3, <4>4 DEF MemoryWanted
    <3>2. /\ available \in Seq(MemBlock) /\ available' \in Seq(MemBlock)
          /\ Wakers \in SUBSET Proc /\ Wakers' \in SUBSET Proc
      BY <1>1, <2>1 DEF RtxIInv, Accounts, DataTypeOK, Wakers
    <3>3. /\ Len(available) \in Nat /\ Cardinality(Wakers) \in Nat
          /\ Len(available') \in Nat /\ Cardinality(Wakers') \in Nat
      BY <3>2, LenProperties, WakersAreFinite
    <3>4. Len(available) <= Cardinality(Wakers)
      BY <1>1, <2>1, <3>1, <3>3, SomeoneWaits DEF MemoryOverslept
    <3>5. Len(available') <= Cardinality(Wakers')
      BY <1>1, <2>3, <3>1, <3>4, WantedAreFetched, InterruptsLeaveWakers DEF CallsNext
    <3>. QED BY <2>2, <3>3, <3>5
  <2>4. PICK p \in Proc : RequestBlocks(p)
    BY <2>3
  <2>. QED BY <1>1, <2>4, BlocksAt DEF BlockType
<1>2. RtxIInv /\ Sleepers /\ [RtxNext]_rtxVars
        => [~MemoryOverslept /\ MemoryOverslept' =>
              \E p \in Proc : at[p] = "mem_gap" /\ at'[p] = "mem"]_rtxVars
  BY <1>1, NextCalls
<1>. QED BY <1>2, SleepersLive, PTL DEF RtxSpec, StarvesInGapOnly
=============================================================================
