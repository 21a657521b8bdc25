--------------------------- MODULE WallclockProofs ---------------------------
(***************************************************************************)
(* The time shown is right, for any number of ticks in a second and any    *)
(* width of the tick counter; only the start of the clock begins a chain   *)
(* of ticks, and the time is shown twice within a second only by two of    *)
(* them or past the wrap of the counter.                                   *)
(***************************************************************************)
EXTENDS Wallclock, SequenceTheorems, WellFoundedInduction, TLAPS

\* "elapsed" is what the clock computes from the tick counter and base_time.
TimeInv ==
    /\ ticks \in 0..(Wrap - 1) /\ baseTime \in 0..(Wrap - 1)
    /\ setTime \in TimeOfDay
    /\ elapsed \in 0..Wrap
    /\ elapsed < Wrap => Minus(ticks, baseTime) = elapsed

LEMMA Sixties ==
    ASSUME NEW a \in Nat
    PROVE  /\ a \div 60 \in Nat /\ a = 60 * (a \div 60) + (a % 60)
           /\ a % 60 \in Int /\ 0 <= a % 60 /\ a % 60 <= 59
  OBVIOUS

LEMMA Hours ==
    ASSUME NEW a \in Nat
    PROVE  /\ a \div 24 \in Nat /\ a = 24 * (a \div 24) + (a % 24)
           /\ a % 24 \in Int /\ 0 <= a % 24 /\ a % 24 <= 23
  OBVIOUS

LEMMA Days ==
    ASSUME NEW a \in Int, NEW d \in Int, NEW r \in Int, 0 <= r, r <= 86399,
           a = 86400 * d + r
    PROVE  a % 86400 = r
<1>1. a \div 86400 = d
  OBVIOUS
<1>2. a = 86400 * (a \div 86400) + (a % 86400)
  OBVIOUS
<1>3. a % 86400 \in Int
  OBVIOUS
<1>. QED  BY <1>1, <1>2, <1>3

\* The time shown s seconds after t is that many seconds later in the day.
LEMMA Digits ==
    ASSUME NEW t \in TimeOfDay, NEW s \in Nat
    PROVE  SecondOfDay(TimeAfter(t, s)) = (SecondOfDay(t) + s) % 86400
<1>1. t.hour \in Nat /\ t.min \in Nat /\ t.sec \in Nat
  BY DEF TimeOfDay
<1> DEFINE a == t.sec + s
           b == t.min + (a \div 60)
           c == t.hour + (b \div 60)
<1>2. a \in Nat /\ a \div 60 \in Nat
  <2>1. a \in Nat
    BY <1>1
  <2> HIDE DEF a
  <2>. QED  BY <2>1, Sixties
<1>3. b \in Nat /\ b \div 60 \in Nat
  <2>1. b \in Nat
    <3> HIDE DEF a
    <3>. QED  BY <1>1, <1>2
  <2> HIDE DEF b
  <2>. QED  BY <2>1, Sixties
<1>4. c \in Nat
  <2> HIDE DEF b
  <2>. QED  BY <1>1, <1>3
<1>5. SecondOfDay(TimeAfter(t, s)) = (c % 24) * 3600 + (b % 60) * 60 + (a % 60)
  BY DEF SecondOfDay, TimeAfter
<1>6. a = t.sec + s /\ b = t.min + (a \div 60) /\ c = t.hour + (b \div 60)
  OBVIOUS
<1>7. (t.hour * 3600 + t.min * 60 + t.sec + s) % 86400
        = (c % 24) * 3600 + (b % 60) * 60 + (a % 60)
  <2> HIDE DEF a, b, c
  <2>1. a = 60 * (a \div 60) + (a % 60) /\ a % 60 \in Int /\ 0 <= a % 60 /\ a % 60 <= 59
    BY <1>2, Sixties
  <2>2. b = 60 * (b \div 60) + (b % 60) /\ b % 60 \in Int /\ 0 <= b % 60 /\ b % 60 <= 59
    BY <1>3, Sixties
  <2>3. /\ c = 24 * (c \div 24) + (c % 24) /\ c \div 24 \in Nat
        /\ c % 24 \in Int /\ 0 <= c % 24 /\ c % 24 <= 23
    BY <1>4, Hours
  <2>4. /\ t.sec + s = 60 * (a \div 60) + (a % 60)
        /\ t.min + (a \div 60) = 60 * (b \div 60) + (b % 60)
        /\ t.hour + (b \div 60) = 24 * (c \div 24) + (c % 24)
    BY <1>6, <2>1, <2>2, <2>3
  <2>5. /\ t.hour \in Int /\ t.min \in Int /\ t.sec \in Int /\ s \in Int
        /\ a \div 60 \in Int /\ b \div 60 \in Int /\ c \div 24 \in Int
    BY <1>1, <1>2, <1>3, <2>3
  <2> DEFINE hour == t.hour  min == t.min  sec == t.sec
             p == a \div 60  q == b \div 60  d == c \div 24
             x == a % 60  y == b % 60  z == c % 24
  <2>6. /\ hour \in Int /\ min \in Int /\ sec \in Int /\ s \in Int
        /\ p \in Int /\ q \in Int /\ d \in Int /\ x \in Int /\ y \in Int /\ z \in Int
        /\ 0 <= x /\ x <= 59 /\ 0 <= y /\ y <= 59 /\ 0 <= z /\ z <= 23
        /\ sec + s = 60 * p + x /\ min + p = 60 * q + y /\ hour + q = 24 * d + z
    BY <2>1, <2>2, <2>3, <2>4, <2>5
  <2>7. (hour * 3600 + min * 60 + sec + s) % 86400 = z * 3600 + y * 60 + x
    <3> HIDE DEF hour, min, sec, p, q, d, x, y, z
    <3> DEFINE r == z * 3600 + y * 60 + x
               n == hour * 3600 + min * 60 + sec + s
    <3>1. n \in Int /\ r \in Int /\ 0 <= r /\ r <= 86399
      BY <2>6
    <3>2. n = 86400 * d + r
      BY <2>6
    <3> HIDE DEF r, n
    <3>3. n % 86400 = r
      BY <2>6, <3>1, <3>2, Days
    <3>. QED  BY <3>3 DEF r, n
  <2>. QED  BY <2>7
<1>. QED  BY <1>5, <1>7 DEF SecondOfDay

LEMMA TimeInit == Init => TimeInv
  BY WallclockAssumption DEF Init, TimeInv, TimeOfDay

LEMMA SetTime ==
    ASSUME TimeInv, NEW t, IsValid(t), Set(t), UNCHANGED ticks
    PROVE  TimeInv'
<1>1. t \in TimeOfDay
  BY DEF IsValid, Entered, TwoDigits, TimeOfDay
<1>. QED  BY <1>1, WallclockAssumption DEF TimeInv, Set, Minus

LEMMA TimeNext == TimeInv /\ [Next]_vars => TimeInv'
<1> SUFFICES ASSUME TimeInv, [Next]_vars PROVE TimeInv'
  OBVIOUS
<1>1. CASE TimerTick
  <2>1. /\ ticks' = Plus(ticks, 1) /\ elapsed' = UpTo(elapsed, Wrap)
        /\ UNCHANGED <<setTime, baseTime>>
    BY <1>1 DEF TimerTick, clock
  <2>. QED  BY <2>1, WallclockAssumption DEF TimeInv, Plus, Minus, UpTo
<1>2. CASE SetWhileOn
  BY <1>2, SetTime DEF SetWhileOn
<1>3. CASE Start
  BY <1>3, SetTime DEF Start
<1>4. CASE UNCHANGED <<ticks, setTime, baseTime, elapsed>>
  BY <1>4 DEF TimeInv, Minus
<1>5. TypeCommand \/ RefuseTime \/ Stop \/ ReceiveTick \/ DropTick \/ Show \/ SendTick
      \/ UNCHANGED vars => UNCHANGED <<ticks, setTime, baseTime, elapsed>>
  BY DEF TypeCommand, RefuseTime, Stop, ReceiveTick, DropTick, Show, SendTick,
         vars, clock, history
<1>. QED  BY <1>1, <1>2, <1>3, <1>4, <1>5 DEF Next, Process

\* While the clock has not run for as long as the tick counter can count, every
\* time it shows is the time it was set to and the whole seconds since, modulo
\* a day.
THEOREM ShowsTrueTime == Spec => ShownIsTrue
<1>1. TimeInv /\ [Next]_vars =>
         [Show /\ elapsed < Wrap =>
             SecondOfDay(shown') = (SecondOfDay(setTime) + elapsed \div Second) % 86400]_vars
  <2> SUFFICES ASSUME TimeInv, Show, elapsed < Wrap
               PROVE  SecondOfDay(shown') = (SecondOfDay(setTime) + elapsed \div Second) % 86400
    OBVIOUS
  <2>1. shown' = TimeAfter(setTime, elapsed \div Second)
    BY DEF Show, TimeInv
  <2>2. elapsed \div Second \in Nat
    BY WallclockAssumption DEF TimeInv
  <2>. QED  BY <2>1, <2>2, Digits DEF TimeInv
<1>. QED  BY <1>1, TimeInit, TimeNext, PTL DEF Spec, ShownIsTrue

-----------------------------------------------------------------------------
(* The entries of a sequence that are in a set. *)

\* Every non-empty set of natural numbers has a least element.
LEMMA LeastNat ==
  ASSUME NEW T \in SUBSET Nat, T # {}
  PROVE  \E x \in T : \A y \in T : x <= y
<1>. DEFINE R == OpToRel(<, Nat)
<1>1. IsWellFoundedOn(R, Nat)
  BY NatLessThanWellFounded, Zenon
<1>. HIDE DEF R
<1>2. PICK x \in T : \A y \in T : <<y, x>> \notin R
  BY <1>1, WFMin, Zenon
<1>3. ASSUME NEW y \in T, y < x PROVE <<y, x>> \in R
  <2>. DEFINE e == <<y, x>>
  <2>1. e \in Nat \X Nat /\ e[1] < e[2]
    BY <1>3
  <2>. HIDE DEF e
  <2>2. e \in R
    BY <2>1, Zenon DEF R, OpToRel
  <2>. QED BY <2>2 DEF e
<1>4. \A y \in T : ~(y < x)
  BY <1>2, <1>3, Zenon
<1>. QED BY <1>4

\* Induction, on the set of the numbers that have a property.
LEMMA InductionOnSet ==
  ASSUME NEW T, 0 \in T, \A n \in Nat : n \in T => n + 1 \in T
  PROVE  Nat \subseteq T
<1>. DEFINE U == Nat \ T
<1>1. SUFFICES ASSUME U # {} PROVE FALSE
  OBVIOUS
<1>2. PICK x \in U : \A y \in U : x <= y
  BY <1>1, LeastNat
<1>3. x # 0 /\ x - 1 \in Nat /\ x - 1 \notin U
  BY <1>2
<1>4. x - 1 \in T /\ (x - 1) + 1 = x
  BY <1>3
<1>. QED BY <1>2, <1>3, <1>4

\* Induction over the sequences of a set, as far as a set of them can say it.
LEMMA SeqInduction ==
  ASSUME NEW S, NEW T, <<>> \in T, \A s \in Seq(S), e \in S : s \in T => Append(s, e) \in T
  PROVE  \A s \in Seq(S) : s \in T
<1>. DEFINE U == {n \in Nat : \A s \in Seq(S) : Len(s) = n => s \in T}
<1>1. 0 \in U
  <2>1. \A s \in Seq(S) : Len(s) = 0 => s = <<>>
    BY EmptySeq
  <2>. QED BY <2>1
<1>2. ASSUME NEW n \in Nat, n \in U PROVE n + 1 \in U
  <2>1. SUFFICES ASSUME NEW s \in Seq(S), Len(s) = n + 1 PROVE s \in T
    OBVIOUS
  <2>2. s # <<>>
    BY <2>1, EmptySeq
  <2>3. PICK r \in Seq(S), e \in S : s = Append(r, e)
    BY <2>2, SequenceEmptyOrAppend
  <2>4. Len(r) = n
    BY <2>1, <2>3, AppendProperties, LenProperties
  <2>. QED BY <1>2, <2>3, <2>4
<1>3. Nat \subseteq U
  <2>. HIDE DEF U
  <2>. QED BY <1>1, <1>2, InductionOnSet
<1>. QED BY <1>3, LenProperties

\* The function in Among, and what it is required to be.
Picks(s, S, f) ==
    f = [i \in 0..Len(s) |-> IF i = 0 THEN <<>>
                             ELSE IF s[i] \in S THEN Append(f[i - 1], s[i])
                             ELSE f[i - 1]]

LEMMA PicksExtend ==
  ASSUME NEW T, NEW s \in Seq(T), NEW e \in T, NEW S, NEW f, Picks(s, S, f)
  PROVE  \E g : Picks(Append(s, e), S, g)
<1>. DEFINE n == Len(s)
            t == Append(s, e)
            last == IF e \in S THEN Append(f[n], e) ELSE f[n]
            g == [i \in 0..(n + 1) |-> IF i = n + 1 THEN last ELSE f[i]]
<1>1. n \in Nat /\ Len(t) = n + 1 /\ t[n + 1] = e /\ \A i \in 1..n : t[i] = s[i]
  BY AppendProperties, LenProperties
<1>2. \A i \in 0..n : f[i] = IF i = 0 THEN <<>> ELSE IF s[i] \in S THEN Append(f[i - 1], s[i])
                             ELSE f[i - 1]
  BY DEF Picks
<1>. HIDE DEF n, t
<1>3. ASSUME NEW i \in 0..(n + 1)
      PROVE  g[i] = IF i = 0 THEN <<>> ELSE IF t[i] \in S THEN Append(g[i - 1], t[i])
                    ELSE g[i - 1]
  <2>1. CASE i = n + 1
    <3>1. g[i] = last /\ i # 0 /\ i - 1 = n /\ g[n] = f[n] /\ t[i] = e
      BY <1>1, <2>1
    <3>. QED BY <3>1
  <2>2. CASE i # n + 1
    <3>1. i \in 0..n /\ g[i] = f[i]
      BY <1>1, <2>2
    <3>2. i # 0 => i - 1 \in 0..n /\ g[i - 1] = f[i - 1] /\ t[i] = s[i]
      BY <1>1, <3>1
    <3>. HIDE DEF g
    <3>. QED BY <1>2, <3>1, <3>2
  <2>. QED BY <2>1, <2>2
<1>4. DOMAIN g = 0..(n + 1) /\ g = [i \in 0..(n + 1) |-> g[i]]
  OBVIOUS
<1>. HIDE DEF g
<1>5. Picks(t, S, g)
  BY <1>1, <1>3, <1>4 DEF Picks
<1>. QED BY <1>5 DEF t

LEMMA PicksExists ==
  ASSUME NEW T, NEW s \in Seq(T), NEW S
  PROVE  \E f : Picks(s, S, f)
<1>. DEFINE U == {r \in Seq(T) : \E f : Picks(r, S, f)}
<1>1. <<>> \in U
  <2>. DEFINE f == [i \in 0..0 |-> <<>>]
  <2>1. Len(<<>>) = 0
    OBVIOUS
  <2>2. Picks(<<>>, S, f)
    BY <2>1 DEF Picks
  <2>. HIDE DEF f
  <2>. QED BY <2>2, EmptySeq
<1>2. ASSUME NEW r \in Seq(T), NEW e \in T, r \in U PROVE Append(r, e) \in U
  <2>1. Append(r, e) \in Seq(T)
    BY AppendProperties
  <2>. QED BY <1>2, <2>1, PicksExtend
<1>. HIDE DEF U
<1>3. \A r \in Seq(T) : r \in U
  BY <1>1, <1>2, SeqInduction
<1>. QED BY <1>3 DEF U

LEMMA AmongIs ==
  ASSUME NEW T, NEW s \in Seq(T), NEW S
  PROVE  \E f : Picks(s, S, f) /\ Among(s, S) = f[Len(s)]
<1>. DEFINE f == CHOOSE f : Picks(s, S, f)
<1>1. Picks(s, S, f)
  BY PicksExists
<1>2. Among(s, S) = f[Len(s)]
  BY DEF Among, Picks
<1>. HIDE DEF f
<1>. QED BY <1>1, <1>2

LEMMA AmongEmpty == \A S : Among(<<>>, S) = <<>>
<1>. SUFFICES ASSUME NEW S PROVE Among(<<>>, S) = <<>>
  OBVIOUS
<1>1. PICK f : Picks(<<>>, S, f) /\ Among(<<>>, S) = f[Len(<<>>)]
  BY AmongIs, EmptySeq
<1>2. Len(<<>>) = 0
  OBVIOUS
<1>. QED BY <1>1, <1>2 DEF Picks

LEMMA AmongAppend ==
  ASSUME NEW T, NEW s \in Seq(T), NEW e \in T, NEW S
  PROVE  Among(Append(s, e), S) =
            IF e \in S THEN Append(Among(s, S), e) ELSE Among(s, S)
<1>. DEFINE n == Len(s)
            t == Append(s, e)
<1>1. /\ n \in Nat /\ Len(t) = n + 1 /\ t[n + 1] = e /\ \A i \in 1..n : t[i] = s[i]
      /\ t \in Seq(T)
  BY AppendProperties, LenProperties
<1>2. PICK f : Picks(s, S, f) /\ Among(s, S) = f[n]
  BY AmongIs
<1>. HIDE DEF t
<1>3. PICK g : Picks(t, S, g) /\ Among(t, S) = g[Len(t)]
  BY <1>1, AmongIs
<1>. HIDE DEF n
<1>4. \A i \in 0..n : f[i] = IF i = 0 THEN <<>> ELSE IF s[i] \in S THEN Append(f[i - 1], s[i])
                             ELSE f[i - 1]
  BY <1>2 DEF Picks, n
<1>5. \A i \in 0..(n + 1) : g[i] = IF i = 0 THEN <<>> ELSE IF t[i] \in S
                             THEN Append(g[i - 1], t[i]) ELSE g[i - 1]
  BY <1>1, <1>3 DEF Picks
<1>. DEFINE U == {i \in Nat : i <= n => f[i] = g[i]}
<1>6. 0 \in U
  BY <1>1, <1>4, <1>5
<1>7. ASSUME NEW i \in Nat, i \in U PROVE i + 1 \in U
  <2>1. SUFFICES ASSUME i + 1 <= n PROVE f[i + 1] = g[i + 1]
    OBVIOUS
  <2>2. /\ i + 1 \in 0..n /\ i + 1 \in 0..(n + 1) /\ i + 1 # 0 /\ (i + 1) - 1 = i /\ f[i] = g[i]
        /\ t[i + 1] = s[i + 1]
    BY <1>1, <1>7, <2>1
  <2>. QED BY <1>4, <1>5, <2>2
<1>8. n \in U
  <2>. HIDE DEF U
  <2>. QED BY <1>1, <1>6, <1>7, InductionOnSet
<1>9. g[n] = f[n] /\ n + 1 \in 0..(n + 1) /\ n + 1 # 0 /\ (n + 1) - 1 = n
  BY <1>1, <1>8
<1>10. g[n + 1] = IF e \in S THEN Append(f[n], e) ELSE f[n]
  BY <1>1, <1>5, <1>9
<1>. QED BY <1>1, <1>2, <1>3, <1>10 DEF t

\* They are entries of the sequence, no more than it has, and none is left out.
LEMMA AmongMany ==
  ASSUME NEW T, NEW S
  PROVE  \A s \in Seq(T) : /\ Among(s, S) \in Seq(T) /\ Len(Among(s, S)) \in 0..Len(s)
                           /\ \A i \in 1..Len(s) : s[i] \in S =>
                                 \E j \in 1..Len(Among(s, S)) : Among(s, S)[j] = s[i]
<1>. DEFINE Has(r, x) == \E j \in 1..Len(r) : r[j] = x
            Good(r) == /\ Among(r, S) \in Seq(T) /\ Len(Among(r, S)) \in 0..Len(r)
                       /\ \A i \in 1..Len(r) : r[i] \in S => Has(Among(r, S), r[i])
            U == {r \in Seq(T) : Good(r)}
<1>1. <<>> \in U
  <2>. DEFINE none == <<>>
  <2>1. none \in Seq(T) /\ Len(none) = 0
    BY EmptySeq
  <2>2. Among(none, S) = none
    BY AmongEmpty
  <2>. HIDE DEF none
  <2>3. \A i \in 1..Len(none) : none[i] \in S => Has(Among(none, S), none[i])
    BY <2>1
  <2>4. Among(none, S) \in Seq(T) /\ Len(Among(none, S)) \in 0..Len(none)
    BY <2>1, <2>2
  <2>. HIDE DEF Has
  <2>5. none \in U
    BY <2>1, <2>3, <2>4
  <2>. QED BY <2>5 DEF none
<1>2. ASSUME NEW r \in Seq(T), NEW e \in T, r \in U PROVE Append(r, e) \in U
  <2>. DEFINE t == Append(r, e)
              a == Among(r, S)
              b == Append(a, e)
              n == Len(r)
              m == Len(a)
  <2>1. /\ n \in Nat /\ Len(t) = n + 1 /\ t[n + 1] = e /\ t \in Seq(T)
        /\ \A i \in 1..n : t[i] = r[i]
    BY AppendProperties, LenProperties
  <2>2. /\ a \in Seq(T) /\ m \in 0..n /\ \A i \in 1..n : r[i] \in S => Has(a, r[i])
    BY <1>2
  <2>3. Among(t, S) = IF e \in S THEN b ELSE a
    BY AmongAppend
  <2>. HIDE DEF a
  <2>4. /\ b \in Seq(T) /\ Len(b) = m + 1 /\ b[m + 1] = e
        /\ \A i \in 1..m : b[i] = a[i]
    BY <2>2, AppendProperties
  <2>. HIDE DEF t, b, n, m
  <2>5. \A x : Has(a, x) => Has(b, x)
    BY <2>1, <2>2, <2>4 DEF m
  <2>6. Has(b, e)
    BY <2>1, <2>2, <2>4
  <2>. HIDE DEF Has
  <2>7. \A i \in 1..(n + 1) : t[i] \in S => Has(Among(t, S), t[i])
    <3>. SUFFICES ASSUME NEW i \in 1..(n + 1), t[i] \in S PROVE Has(Among(t, S), t[i])
      OBVIOUS
    <3>1. CASE i = n + 1
      BY <2>1, <2>3, <2>6, <3>1
    <3>2. CASE i # n + 1
      BY <2>1, <2>2, <2>3, <2>5, <3>2
    <3>. QED BY <3>1, <3>2
  <2>8. Among(t, S) \in Seq(T) /\ Len(Among(t, S)) \in 0..(n + 1)
    BY <2>1, <2>2, <2>3, <2>4 DEF m
  <2>. QED BY <2>1, <2>7, <2>8 DEF t
<1>. HIDE DEF U
<1>3. \A r \in Seq(T) : r \in U
  BY <1>1, <1>2, SeqInduction
<1>. QED BY <1>3 DEF U

\* Of a sequence there are as many as of its parts.
LEMMA AmongConcat ==
  ASSUME NEW T, NEW S, NEW s \in Seq(T)
  PROVE  \A t \in Seq(T) : Len(Among(s \o t, S)) = Len(Among(s, S)) + Len(Among(t, S))
<1>. DEFINE U == {r \in Seq(T) : Len(Among(s \o r, S)) = Len(Among(s, S)) + Len(Among(r, S))}
<1>0. \A r \in Seq(T) : Among(r, S) \in Seq(T) /\ Len(Among(r, S)) \in Nat
  BY AmongMany, LenProperties
<1>1. <<>> \in U
  <2>1. s \o <<>> = s /\ Len(<<>>) = 0 /\ <<>> \in Seq(T)
    BY ConcatEmptySeq, EmptySeq
  <2>2. Len(Among(s, S)) \in Nat
    BY <1>0
  <2>. QED BY <2>1, <2>2, AmongEmpty
<1>2. ASSUME NEW r \in Seq(T), NEW e \in T, r \in U PROVE Append(r, e) \in U
  <2>. DEFINE last == <<e>>
              c == s \o r
              a == Among(c, S)
              b == Among(r, S)
  <2>1. last \in Seq(T) /\ c \in Seq(T) /\ Append(r, e) \in Seq(T)
    BY ConcatProperties, AppendProperties
  <2>2. Append(r, e) = r \o last /\ Append(c, e) = c \o last
    BY <2>1, AppendIsConcat
  <2>. HIDE DEF last
  <2>3. s \o (r \o last) = c \o last
    BY <2>1, ConcatAssociative
  <2>. HIDE DEF c
  <2>4. /\ Among(Append(c, e), S) = IF e \in S THEN Append(a, e) ELSE a
        /\ Among(Append(r, e), S) = IF e \in S THEN Append(b, e) ELSE b
    BY <2>1, AmongAppend
  <2>5. a \in Seq(T) /\ b \in Seq(T)
    BY <1>0, <2>1
  <2>6. Len(a) \in Nat /\ Len(b) \in Nat /\ Len(Among(s, S)) \in Nat
    BY <1>0, <2>1
  <2>7. Len(a) = Len(Among(s, S)) + Len(b)
    BY <1>2 DEF c
  <2>. HIDE DEF a, b
  <2>8. Len(Append(a, e)) = Len(a) + 1 /\ Len(Append(b, e)) = Len(b) + 1
    BY <2>5, AppendProperties
  <2>9. Len(Among(Append(c, e), S)) = Len(Among(s, S)) + Len(Among(Append(r, e), S))
    BY <2>4, <2>6, <2>7, <2>8
  <2>. QED BY <2>1, <2>2, <2>3, <2>9
<1>. HIDE DEF U
<1>3. \A r \in Seq(T) : r \in U
  BY <1>1, <1>2, SeqInduction
<1>. QED BY <1>3 DEF U

LEMMA AmongAll ==
  ASSUME NEW T, NEW S
  PROVE  \A s \in Seq(T) : (\A i \in 1..Len(s) : s[i] \in S) => Among(s, S) = s
<1>. DEFINE U == {r \in Seq(T) : (\A i \in 1..Len(r) : r[i] \in S) => Among(r, S) = r}
<1>1. <<>> \in U
  BY AmongEmpty, EmptySeq
<1>2. ASSUME NEW r \in Seq(T), NEW e \in T, r \in U PROVE Append(r, e) \in U
  <2>. DEFINE t == Append(r, e)
              n == Len(r)
  <2>1. /\ n \in Nat /\ Len(t) = n + 1 /\ t[n + 1] = e /\ t \in Seq(T)
        /\ \A i \in 1..n : t[i] = r[i]
    BY AppendProperties, LenProperties
  <2>2. Among(t, S) = IF e \in S THEN Append(Among(r, S), e) ELSE Among(r, S)
    BY AmongAppend
  <2>. HIDE DEF n
  <2>3. ASSUME \A i \in 1..Len(t) : t[i] \in S PROVE Among(t, S) = t
    <3>. HIDE DEF t
    <3>1. e \in S
      BY <2>1, <2>3
    <3>2. \A i \in 1..n : r[i] \in S
      BY <2>1, <2>3
    <3>3. Among(r, S) = r
      BY <1>2, <3>2 DEF n
    <3>. QED BY <2>2, <3>1, <3>3 DEF t
  <2>. QED BY <2>1, <2>3
<1>. HIDE DEF U
<1>3. \A r \in Seq(T) : r \in U
  BY <1>1, <1>2, SeqInduction
<1>. QED BY <1>3 DEF U

-----------------------------------------------------------------------------
(* The chains of ticks. *)

Message == Command \cup Tick

MailInv ==
    /\ inbox \in Seq(Message) /\ due \in Seq(Word)
    /\ at \in {"receive", "show", "again"}
    /\ ticks \in Word /\ quiet \in 0..Second

Arrived(s) == Len(TicksIn(s))

LEMMA ArrivedIs ==
  ASSUME NEW s \in Seq(Message)
  PROVE  Arrived(s) \in Nat
BY AmongMany, LenProperties DEF Arrived, TicksIn

LEMMA CommandsAreNoTicks == \A m \in Command : m \notin Tick
BY DEF Command, Tick

\* A command is not counted.
LEMMA ArrivedCommand ==
  ASSUME NEW s \in Seq(Message), NEW m \in Command
  PROVE  Arrived(Append(s, m)) = Arrived(s)
<1>1. m \in Message /\ m \notin Tick
  BY CommandsAreNoTicks DEF Message
<1>. QED BY <1>1, AmongAppend DEF Arrived, TicksIn

\* A message that is received is one less, if it is a tick.
LEMMA ArrivedTail ==
  ASSUME NEW s \in Seq(Message), s # <<>>
  PROVE  /\ Head(s) \in Message /\ Tail(s) \in Seq(Message)
         /\ Arrived(s) = (IF Head(s).kind = "tick" THEN 1 ELSE 0) + Arrived(Tail(s))
<1>. DEFINE h == Head(s)
            t == Tail(s)
            one == <<h>>
            none == <<>>
<1>1. h \in Message /\ t \in Seq(Message)
  BY HeadTailProperties
<1>2. s = one \o t
  BY HeadTailProperties, ConcatProperties
<1>3. h \in Tick <=> h.kind = "tick"
  <2>. HIDE DEF h
  <2>. QED BY <1>1 DEF Message, Command, Tick
<1>. HIDE DEF h, t
<1>4. one \in Seq(Message) /\ one = Append(none, h) /\ none \in Seq(Message)
  BY <1>1, EmptySeq
<1>5. Among(none, Tick) = none
  BY AmongEmpty
<1>. HIDE DEF one, none
<1>6. Among(one, Tick) = IF h \in Tick THEN Append(none, h) ELSE none
  BY <1>1, <1>4, <1>5, AmongAppend
<1>7. Len(none) = 0 /\ Len(Append(none, h)) = 1
  BY DEF none
<1>8. Arrived(one \o t) = Arrived(one) + Arrived(t)
  BY <1>1, <1>4, AmongConcat DEF Arrived, TicksIn
<1>9. Arrived(one) = IF h.kind = "tick" THEN 1 ELSE 0
  BY <1>3, <1>6, <1>7 DEF Arrived, TicksIn
<1>. QED BY <1>1, <1>2, <1>8, <1>9 DEF h, t

\* What is delivered is counted, each message once.
LEMMA ArrivedDelivered ==
  ASSUME NEW s \in Seq(Message), NEW n \in Nat, NEW new,
         new = [i \in 1..n |-> [kind |-> "tick", time |-> NoTime]]
  PROVE  s \o new \in Seq(Message) /\ Arrived(s \o new) = Arrived(s) + n
<1>1. [kind |-> "tick", time |-> NoTime] \in Tick
  BY DEF Tick
<1>2. new \in Seq(Message) /\ Len(new) = n /\ \A i \in 1..Len(new) : new[i] \in Tick
  BY <1>1 DEF Message
<1>3. Among(new, Tick) = new
  BY <1>2, AmongAll
<1>4. Arrived(s \o new) = Arrived(s) + Arrived(new)
  BY <1>2, AmongConcat DEF Arrived, TicksIn
<1>. QED BY <1>2, <1>3, <1>4, ConcatProperties DEF Arrived, TicksIn

LEMMA MailInit == Init => MailInv
  BY WallclockAssumption, EmptySeq DEF Init, MailInv, Word

\* Words added are words.
LEMMA PlusIsWord ==
  ASSUME NEW t \in Word, NEW n \in 0..Second
  PROVE  Plus(t, n) \in Word
BY WallclockAssumption DEF Plus, Word

\* A timer interrupt delivers the messages that are due and keeps the others.
LEMMA TickDelivers ==
  ASSUME MailInv, TimerTick
  PROVE  /\ due' \in Seq(Word) /\ Len(due') \in 0..Len(due)
         /\ \A i \in 1..Len(due) : ticks' < due[i] =>
                \E j \in 1..Len(due') : due'[j] = due[i]
         /\ inbox' \in Seq(Message)
         /\ Arrived(inbox') = Arrived(inbox) + (Len(due) - Len(due'))
<1>. DEFINE later == {time \in Word : ~IsDue(time, ticks')}
            n == Len(due) - Len(due')
            new == [i \in 1..n |-> [kind |-> "tick", time |-> NoTime]]
<1>1. due \in Seq(Word) /\ inbox \in Seq(Message) /\ Len(due) \in Nat
  BY LenProperties DEF MailInv
<1>2. due' = Among(due, later) /\ inbox' = inbox \o new
  BY DEF TimerTick
<1>3. ticks' \in Word
  BY PlusIsWord, WallclockAssumption DEF MailInv, TimerTick
<1>4. \A i \in 1..Len(due) : ticks' < due[i] => due[i] \in later
  <2>. DEFINE now == ticks'
  <2>1. \A i \in 1..Len(due) : due[i] \in Word
    BY <1>1
  <2>2. \A time \in Word : now < time => ~(time <= now)
    <3>1. now \in Int /\ \A time \in Word : time \in Int
      BY <1>3, WallclockAssumption DEF Word
    <3>. HIDE DEF now
    <3>. QED BY <3>1
  <2>. QED BY <2>1, <2>2 DEF IsDue
<1>. HIDE DEF later
<1>5. /\ due' \in Seq(Word) /\ Len(due') \in 0..Len(due)
      /\ \A i \in 1..Len(due) : due[i] \in later =>
            \E j \in 1..Len(due') : due'[j] = due[i]
  <2>1. \A s \in Seq(Word) :
           /\ Among(s, later) \in Seq(Word) /\ Len(Among(s, later)) \in 0..Len(s)
           /\ \A i \in 1..Len(s) : s[i] \in later =>
                 \E j \in 1..Len(Among(s, later)) : Among(s, later)[j] = s[i]
    BY AmongMany
  <2>. QED BY <1>1, <1>2, <2>1
<1>6. n \in Nat
  BY <1>1, <1>5
<1>. HIDE DEF n
<1>7. new = [i \in 1..n |-> [kind |-> "tick", time |-> NoTime]]
  OBVIOUS
<1>. HIDE DEF new
<1>8. inbox \o new \in Seq(Message) /\ Arrived(inbox \o new) = Arrived(inbox) + n
  BY <1>1, <1>6, <1>7, ArrivedDelivered
<1>. QED BY <1>2, <1>4, <1>5, <1>8 DEF n

\* What a receive takes from the messages that have arrived.
LEMMA ReceiveTakes ==
  ASSUME MailInv, NEW kind, Receives(kind)
  PROVE  /\ at = "receive" /\ inbox' \in Seq(Message)
         /\ Arrived(inbox') \in Nat
         /\ Arrived(inbox) = Arrived(inbox') + (IF kind = "tick" THEN 1 ELSE 0)
<1>1. inbox \in Seq(Message) /\ inbox # <<>> /\ inbox' = Tail(inbox)
      /\ Head(inbox).kind = kind /\ at = "receive"
  BY DEF MailInv, Receives
<1>2. /\ Tail(inbox) \in Seq(Message)
      /\ Arrived(inbox) = (IF Head(inbox).kind = "tick" THEN 1 ELSE 0) + Arrived(Tail(inbox))
  BY <1>1, ArrivedTail
<1>3. Arrived(Tail(inbox)) \in Nat
  BY <1>2, ArrivedIs
<1>. QED BY <1>1, <1>2, <1>3

LEMMA MailNext == MailInv /\ [Next]_vars => MailInv'
<1>. SUFFICES ASSUME MailInv, [Next]_vars PROVE MailInv'
  OBVIOUS
<1>0. /\ inbox \in Seq(Message) /\ due \in Seq(Word) /\ ticks \in Word
      /\ at \in {"receive", "show", "again"} /\ quiet \in 0..Second
  BY DEF MailInv
<1>1. CASE TypeCommand
  <2>1. PICK m \in Command : inbox' = Append(inbox, m)
    BY <1>1 DEF TypeCommand
  <2>2. m \in Message
    BY DEF Message
  <2>3. inbox' \in Seq(Message)
    BY <1>0, <2>1, <2>2, AppendProperties
  <2>. QED BY <1>0, <1>1, <2>3 DEF TypeCommand, MailInv, history
<1>2. CASE TimerTick
  <2>1. due' \in Seq(Word) /\ inbox' \in Seq(Message)
    BY <1>2, TickDelivers
  <2>2. ticks' \in Word
    BY <1>0, <1>2, PlusIsWord, WallclockAssumption DEF TimerTick
  <2>3. quiet' \in 0..Second /\ at' = at
    BY <1>0, <1>2, WallclockAssumption DEF TimerTick, UpTo
  <2>. QED BY <1>0, <2>1, <2>2, <2>3 DEF MailInv
<1>3. ASSUME NEW kind, Receives(kind), UNCHANGED <<ticks, due, quiet>>,
             at' \in {"receive", "show", "again"}
      PROVE  MailInv'
  BY <1>0, <1>3, ReceiveTakes DEF MailInv
<1>4. CASE RefuseTime
  BY <1>0, <1>3, <1>4 DEF RefuseTime, history
<1>5. CASE SetWhileOn
  BY <1>0, <1>3, <1>5 DEF SetWhileOn, Set
<1>6. CASE Start
  BY <1>0, <1>3, <1>6 DEF Start, Set
<1>7. CASE Stop
  BY <1>0, <1>3, <1>7 DEF Stop, history
<1>8. CASE ReceiveTick
  BY <1>0, <1>3, <1>8 DEF ReceiveTick, history
<1>9. CASE DropTick
  BY <1>0, <1>3, <1>9 DEF DropTick, history
<1>10. CASE Show
  BY <1>0, <1>10, WallclockAssumption DEF Show, MailInv
<1>11. CASE SendTick
  <2>1. Plus(ticks, Second) \in Word
    BY <1>0, PlusIsWord, WallclockAssumption
  <2>2. due' \in Seq(Word)
    BY <1>0, <1>11, <2>1, AppendProperties DEF SendTick
  <2>. QED BY <1>0, <1>11, <2>2 DEF SendTick, MailInv, history
<1>12. CASE UNCHANGED vars
  BY <1>0, <1>12 DEF vars, history, MailInv
<1>. QED BY <1>1, <1>2, <1>4, <1>5, <1>6, <1>7, <1>8, <1>9, <1>10, <1>11, <1>12
         DEF Next, Process

LEMMA MailAlways == Spec => []MailInv
  BY MailInit, MailNext, PTL DEF Spec

Answering(place) == IF place = "receive" THEN 0 ELSE 1

LEMMA ChainsAre ==
  ASSUME MailInv
  PROVE  /\ Chains = Len(due) + Arrived(inbox) + Answering(at)
         /\ Len(due) \in Nat /\ Arrived(inbox) \in Nat /\ Answering(at) \in 0..1
<1>1. Len(due) \in Nat /\ Arrived(inbox) \in Nat
  BY ArrivedIs, LenProperties DEF MailInv
<1>. QED BY <1>1 DEF Chains, Arrived, Answering

\* What a step other than the start of the clock adds at one of the three
\* places it takes from another.
LEMMA NoOtherChain ==
  ASSUME MailInv, [Next]_vars, ~Start
  PROVE  Chains' <= Chains
<1>. DEFINE a == Arrived(inbox)
            b == Answering(at)
<1>1. Chains = Len(due) + a + b /\ Len(due) \in Nat /\ a \in Nat /\ b \in 0..1
  BY ChainsAre
<1>2. Chains' = Len(due') + a' + b' /\ Len(due') \in Nat /\ a' \in Nat /\ b' \in 0..1
  <2>1. due' \in Seq(Word) /\ inbox' \in Seq(Message)
    BY MailNext DEF MailInv
  <2>2. Len(due') \in Nat /\ a' \in Nat
    BY <2>1, ArrivedIs, LenProperties
  <2>. QED BY <2>2 DEF Chains, Arrived, Answering
<1>. HIDE DEF a
<1>3. Len(due') + a' + b' <= Len(due) + a + b
  <2>1. CASE TypeCommand
    <3>1. PICK m \in Command : inbox' = Append(inbox, m)
      BY <2>1 DEF TypeCommand
    <3>2. a' = a
      BY <3>1, ArrivedCommand DEF MailInv, a
    <3>. QED BY <1>1, <2>1, <3>2 DEF TypeCommand
  <2>2. CASE TimerTick
    <3>1. a' = a + (Len(due) - Len(due')) /\ b' = b
      BY <2>2, TickDelivers DEF TimerTick, a
    <3>. QED BY <1>1, <1>2, <3>1
  <2>3. ASSUME Receives("set") \/ Receives("stop"), due' = due, at' = at
        PROVE  Len(due') + a' + b' <= Len(due) + a + b
    <3>1. a' = a
      BY <1>1, <1>2, <2>3, ReceiveTakes DEF a
    <3>. QED BY <1>1, <2>3, <3>1
  <2>4. CASE RefuseTime
    BY <2>3, <2>4 DEF RefuseTime
  <2>5. CASE SetWhileOn
    BY <2>3, <2>5 DEF SetWhileOn
  <2>6. CASE Stop
    BY <2>3, <2>6 DEF Stop
  <2>7. ASSUME Receives("tick"), due' = due, b' \in 0..1
        PROVE  Len(due') + a' + b' <= Len(due) + a + b
    <3>1. at = "receive" /\ a = a' + 1
      BY <2>7, ReceiveTakes DEF a
    <3>. QED BY <1>1, <1>2, <2>7, <3>1
  <2>8. CASE ReceiveTick
    BY <1>2, <2>7, <2>8 DEF ReceiveTick
  <2>9. CASE DropTick
    BY <1>2, <2>7, <2>9 DEF DropTick
  <2>10. CASE Show
    <3>1. a' = a /\ due' = due /\ b' = b
      BY <2>10 DEF Show, a, Answering
    <3>. QED BY <1>1, <3>1
  <2>11. CASE SendTick
    <3>1. a' = a /\ b = 1 /\ b' = 0
      BY <2>11 DEF SendTick, a, Answering
    <3>2. due \in Seq(Word) /\ due' = Append(due, Plus(ticks, Second))
          /\ Plus(ticks, Second) \in Word
      BY <2>11, PlusIsWord, WallclockAssumption DEF SendTick, MailInv
    <3>3. Len(due') = Len(due) + 1
      BY <3>2, AppendProperties
    <3>. QED BY <1>1, <3>1, <3>3
  <2>12. CASE UNCHANGED vars
    <3>1. a' = a /\ due' = due /\ b' = b
      BY <2>12 DEF vars, a
    <3>. QED BY <1>1, <3>1
  <2>. QED BY <2>1, <2>2, <2>4, <2>5, <2>6, <2>8, <2>9, <2>10, <2>11, <2>12
           DEF Next, Process
<1>. QED BY <1>1, <1>2, <1>3

\* However many messages are on their way and however the interrupts fall
\* between the steps of the clock, only turning it on begins a chain of ticks.
THEOREM ChainsBegunByStart == Spec => ChainBegunByStartOnly
<1>1. MailInv /\ [Next]_vars => [Chains' > Chains => ~clockOn /\ clockOn']_vars
  <2>. SUFFICES ASSUME MailInv, [Next]_vars, Chains' > Chains
                PROVE  ~clockOn /\ clockOn'
    OBVIOUS
  <2>1. Chains \in Int /\ Chains' \in Int
    <3>1. Chains \in Int
      BY ChainsAre
    <3>2. due' \in Seq(Word) /\ inbox' \in Seq(Message)
      BY MailNext DEF MailInv
    <3>3. Len(due') \in Nat /\ Arrived(inbox') \in Nat
      BY <3>2, ArrivedIs, LenProperties
    <3>4. Chains' \in Int
      BY <3>3 DEF Chains, Arrived
    <3>. QED BY <3>1, <3>4
  <2>2. Start
    BY <2>1, NoOtherChain
  <2>. QED BY <2>2 DEF Start
<1>. QED BY <1>1, MailAlways, PTL DEF Spec, ChainBegunByStartOnly

-----------------------------------------------------------------------------
(* Two times within a second. *)

\* While send_time cannot have wrapped, a clock that has just shown the time
\* has its tick under way for a second after that.
ShowsApart ==
    quiet < Second /\ quiet <= ticks /\ ticks < Wrap - Second =>
        \/ at = "again"
        \/ \E i \in 1..Len(due) : due[i] >= ticks - quiet + Second

ApartInv == MailInv /\ ShowsApart

LEMMA ApartInit == Init => ApartInv
<1>1. Init => ~(quiet < Second)
  BY WallclockAssumption DEF Init
<1>. QED BY <1>1, MailInit DEF ApartInv, ShowsApart

LEMMA ApartNext == ApartInv /\ [Next]_vars => ApartInv'
<1>. SUFFICES ASSUME ApartInv, [Next]_vars PROVE ShowsApart'
  BY MailNext DEF ApartInv
<1>0. /\ MailInv /\ MailInv' /\ ShowsApart
      /\ due \in Seq(Word) /\ ticks \in Word /\ quiet \in 0..Second
      /\ Len(due) \in Nat
  BY MailNext, LenProperties DEF ApartInv, MailInv
<1>1. CASE TimerTick
  <2>. SUFFICES ASSUME quiet' < Second, quiet' <= ticks', ticks' < Wrap - Second,
                       at' # "again"
                PROVE  \E i \in 1..Len(due') : due'[i] >= ticks' - quiet' + Second
    BY DEF ShowsApart
  <2>1. quiet' = quiet + 1 /\ ticks' = ticks + 1 /\ at' = at
        /\ quiet < Second /\ quiet <= ticks /\ ticks < Wrap - Second
    BY <1>0, <1>1, WallclockAssumption DEF TimerTick, Plus, UpTo, Word
  <2>2. PICK i \in 1..Len(due) : due[i] >= ticks - quiet + Second
    BY <1>0, <2>1 DEF ShowsApart
  <2>3. due[i] \in Word
    BY <1>0
  <2>4. due[i] \in Int /\ ticks \in Int /\ quiet \in Int /\ Second \in Int
    BY <1>0, <2>3, WallclockAssumption DEF Word
  <2>5. ticks' < due[i] /\ due[i] >= ticks' - quiet' + Second
    BY <2>1, <2>2, <2>4
  <2>6. PICK j \in 1..Len(due') : due'[j] = due[i]
    BY <1>0, <1>1, <2>5, TickDelivers
  <2>. QED BY <2>5, <2>6
<1>2. CASE Show
  BY <1>2 DEF Show, ShowsApart
<1>3. CASE SendTick
  <2>. SUFFICES ASSUME quiet' < Second, quiet' <= ticks', ticks' < Wrap - Second
                PROVE  \E i \in 1..Len(due') : due'[i] >= ticks' - quiet' + Second
    BY DEF ShowsApart
  <2>1. ticks' = ticks /\ quiet' = quiet /\ due' = Append(due, Plus(ticks, Second))
    BY <1>3 DEF SendTick, history
  <2>2. ticks \in Int /\ quiet \in Int /\ 0 <= quiet /\ Second \in Int /\ Wrap \in Int
    BY <1>0, WallclockAssumption DEF Word
  <2>3. Plus(ticks, Second) = ticks + Second
    BY <2>1, <2>2 DEF Plus
  <2>4. Plus(ticks, Second) \in Word
    BY <1>0, PlusIsWord, WallclockAssumption
  <2>5. Len(due') = Len(due) + 1 /\ due'[Len(due) + 1] = ticks + Second
    BY <1>0, <2>1, <2>3, <2>4, AppendProperties
  <2>6. Len(due) + 1 \in 1..Len(due') /\ ticks + Second >= ticks - quiet + Second
    BY <1>0, <2>2, <2>5
  <2>. QED BY <2>1, <2>5, <2>6
<1>4. CASE UNCHANGED <<ticks, due, quiet>> /\ at # "again"
  BY <1>0, <1>4 DEF ShowsApart
<1>5. CASE UNCHANGED <<ticks, due, quiet, at>>
  BY <1>0, <1>5 DEF ShowsApart
<1>6. CASE TypeCommand \/ UNCHANGED vars
  BY <1>5, <1>6 DEF TypeCommand, vars, history
<1>7. CASE RefuseTime \/ Stop \/ ReceiveTick \/ DropTick
  BY <1>4, <1>7 DEF RefuseTime, Stop, ReceiveTick, DropTick, Receives, history
<1>8. CASE SetWhileOn \/ Start
  BY <1>4, <1>8 DEF SetWhileOn, Start, Set, Receives
<1>. QED BY <1>1, <1>2, <1>3, <1>6, <1>7, <1>8 DEF Next, Process

LEMMA ApartAlways == Spec => []ApartInv
  BY ApartInit, ApartNext, PTL DEF Spec

\* Two times shown within a second take a second chain of ticks, or a send_time
\* past the wrap of the counter.
THEOREM TwiceASecondByTwoChains == Spec => TwiceASecondOnly
<1>1. ApartInv =>
         [Show /\ quiet < Second =>
             Chains > 1 \/ ticks >= Wrap - Second \/ ticks < Second]_vars
  <2>. SUFFICES ASSUME ApartInv, Show, quiet < Second,
                       ~(ticks >= Wrap - Second), ~(ticks < Second)
                PROVE  Chains > 1
    OBVIOUS
  <2>1. /\ MailInv /\ ShowsApart /\ at = "show"
        /\ ticks \in Int /\ quiet \in Int /\ Second \in Int /\ Wrap \in Int
    BY WallclockAssumption DEF ApartInv, MailInv, Show, Word
  <2>2. quiet <= ticks /\ ticks < Wrap - Second
    BY <2>1
  <2>3. \E i \in 1..Len(due) : due[i] >= ticks - quiet + Second
    BY <2>1, <2>2 DEF ShowsApart
  <2>4. Chains = Len(due) + Arrived(inbox) + 1 /\ Len(due) \in Nat /\ Arrived(inbox) \in Nat
    BY <2>1, ChainsAre DEF Answering
  <2>. QED BY <2>3, <2>4
<1>. QED BY <1>1, ApartAlways, PTL DEF Spec, TwiceASecondOnly
=============================================================================
