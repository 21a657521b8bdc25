--------------------------- MODULE TerminalProofs ---------------------------
(***************************************************************************)
(* The two ends of the console.                                            *)
(*                                                                         *)
(* Module Console implements Terminal: what is still to be written is the  *)
(* text on its way, the characters that have left the CRT process before   *)
(* the texts that have not; every step adds to its end or writes its       *)
(* first character.                                                        *)
(*                                                                         *)
(* The commands sent are the lines typed: the decoder's line is what has   *)
(* been typed of it, and what has been sent is what was expected.          *)
(***************************************************************************)
EXTENDS ConsoleProofs

-----------------------------------------------------------------------------
(* Texts one after the other. *)

\* The function in FlattenSeq, and what it is required to be.
Joins(ss, f) ==
    f = [i \in 1..Len(ss) |-> IF i = 1 THEN ss[i] ELSE f[i - 1] \o ss[i]]

LEMMA JoinsExtend ==
  ASSUME NEW T, NEW ss \in Seq(T), NEW t \in T, NEW f, Joins(ss, f)
  PROVE  \E g : Joins(Append(ss, t), g)
<1>. DEFINE n == Len(ss)
            r == Append(ss, t)
            last == IF n = 0 THEN t ELSE f[n] \o t
            g == [i \in 1..(n + 1) |-> IF i = n + 1 THEN last ELSE f[i]]
<1>1. n \in Nat /\ Len(r) = n + 1 /\ r[n + 1] = t /\ \A i \in 1..n : r[i] = ss[i]
  BY AppendProperties, LenProperties
<1>2. \A i \in 1..n : f[i] = IF i = 1 THEN ss[i] ELSE f[i - 1] \o ss[i]
  BY DEF Joins
<1>. HIDE DEF n, r
<1>3. ASSUME NEW i \in 1..(n + 1)
      PROVE  g[i] = IF i = 1 THEN r[i] ELSE g[i - 1] \o r[i]
  <2>1. CASE i = n + 1
    <3>1. g[i] = last /\ r[i] = t
      BY <1>1, <2>1
    <3>2. i # 1 => i - 1 = n /\ n # 0 /\ n \in 1..(n + 1) /\ n # n + 1
      BY <1>1, <2>1
    <3>3. i # 1 => g[i - 1] = f[n]
      BY <3>2
    <3>4. i = 1 => n = 0
      BY <1>1, <2>1
    <3>. HIDE DEF g
    <3>. QED BY <3>1, <3>2, <3>3, <3>4
  <2>2. CASE i # n + 1
    <3>1. i \in 1..n /\ g[i] = f[i]
      BY <1>1, <2>2
    <3>2. i # 1 => i - 1 \in 1..(n + 1) /\ i - 1 # n + 1
      BY <1>1, <3>1
    <3>3. (i # 1 => g[i - 1] = f[i - 1]) /\ r[i] = ss[i]
      BY <1>1, <3>1, <3>2
    <3>. HIDE DEF g
    <3>. QED BY <1>2, <3>1, <3>3
  <2>. QED BY <2>1, <2>2
<1>4. DOMAIN g = 1..(n + 1) /\ g = [i \in 1..(n + 1) |-> g[i]]
  OBVIOUS
<1>. HIDE DEF g
<1>5. Joins(r, g)
  BY <1>1, <1>3, <1>4 DEF Joins
<1>. QED BY <1>5 DEF r

LEMMA JoinsExists ==
  ASSUME NEW T, NEW ss \in Seq(T)
  PROVE  \E f : Joins(ss, f)
<1>. DEFINE U == {r \in Seq(T) : \E f : Joins(r, f)}
<1>1. <<>> \in U
  <2>. DEFINE f == [i \in 1..0 |-> <<>>]
  <2>1. Len(<<>>) = 0
    OBVIOUS
  <2>2. Joins(<<>>, f)
    BY <2>1 DEF Joins
  <2>. HIDE DEF f
  <2>. QED BY <2>2, EmptySeq
<1>2. ASSUME NEW r \in Seq(T), NEW e \in T, r \in U PROVE Append(r, e) \in U
  <2>1. Append(r, e) \in Seq(T)
    BY AppendProperties
  <2>. QED BY <1>2, <2>1, JoinsExtend
<1>. HIDE DEF U
<1>3. \A r \in Seq(T) : r \in U
  BY <1>1, <1>2, SeqInduction
<1>. QED BY <1>3 DEF U

LEMMA FlattenIs ==
  ASSUME NEW T, NEW ss \in Seq(T)
  PROVE  \E f : Joins(ss, f) /\ FlattenSeq(ss) = IF Len(ss) = 0 THEN ss ELSE f[Len(ss)]
<1>. DEFINE f == CHOOSE f : Joins(ss, f)
<1>1. Joins(ss, f)
  BY JoinsExists
<1>2. FlattenSeq(ss) = IF Len(ss) = 0 THEN ss ELSE f[Len(ss)]
  BY DEF FlattenSeq, Joins
<1>. HIDE DEF f
<1>. QED BY <1>1, <1>2

LEMMA FlattenEmpty == FlattenSeq(<<>>) = <<>>
<1>1. Len(<<>>) = 0
  OBVIOUS
<1>. QED BY <1>1 DEF FlattenSeq

\* The function is the same, as far as it goes, for a sequence with one more entry.
LEMMA FlattenAppend ==
  ASSUME NEW T, NEW ss \in Seq(Seq(T)), NEW t \in Seq(T)
  PROVE  FlattenSeq(Append(ss, t)) = FlattenSeq(ss) \o t
<1>. DEFINE n == Len(ss)
            r == Append(ss, t)
            flat == FlattenSeq(ss)
<1>1. /\ n \in Nat /\ Len(r) = n + 1 /\ r[n + 1] = t /\ \A i \in 1..n : r[i] = ss[i]
      /\ r \in Seq(Seq(T))
  BY AppendProperties, LenProperties
<1>2. PICK f : Joins(ss, f) /\ flat = IF n = 0 THEN ss ELSE f[n]
  BY FlattenIs
<1>. HIDE DEF r, flat
<1>3. PICK g : Joins(r, g) /\ FlattenSeq(r) = IF Len(r) = 0 THEN r ELSE g[Len(r)]
  BY <1>1, FlattenIs
<1>. HIDE DEF n
<1>4. \A i \in 1..n : f[i] = IF i = 1 THEN ss[i] ELSE f[i - 1] \o ss[i]
  BY <1>2 DEF Joins, n
<1>5. \A i \in 1..(n + 1) : g[i] = IF i = 1 THEN r[i] ELSE g[i - 1] \o r[i]
  BY <1>1, <1>3 DEF Joins
<1>. DEFINE U == {i \in Nat : i \in 1..n => f[i] = g[i]}
<1>6. 0 \in U
  OBVIOUS
<1>7. ASSUME NEW i \in Nat, i \in U PROVE i + 1 \in U
  <2>1. SUFFICES ASSUME i + 1 \in 1..n PROVE f[i + 1] = g[i + 1]
    OBVIOUS
  <2>2. i + 1 \in 1..(n + 1) /\ (i + 1) - 1 = i /\ r[i + 1] = ss[i + 1]
    BY <1>1, <1>7, <2>1
  <2>3. f[i + 1] = IF i + 1 = 1 THEN ss[i + 1] ELSE f[i] \o ss[i + 1]
    BY <1>4, <2>1, <2>2
  <2>4. g[i + 1] = IF i + 1 = 1 THEN r[i + 1] ELSE g[i] \o r[i + 1]
    BY <1>5, <2>2
  <2>5. i + 1 # 1 => i \in 1..n /\ f[i] = g[i]
    BY <1>1, <1>7, <2>1
  <2>. QED BY <2>2, <2>3, <2>4, <2>5
<1>8. n \in U
  <2>. HIDE DEF U
  <2>. QED BY <1>1, <1>6, <1>7, InductionOnSet
<1>9. FlattenSeq(r) = g[n + 1]
  BY <1>1, <1>3
<1>10. g[n + 1] = IF n = 0 THEN t ELSE g[n] \o t
  <2>1. n + 1 \in 1..(n + 1) /\ (n + 1) - 1 = n /\ (n + 1 = 1 <=> n = 0)
    BY <1>1
  <2>. QED BY <1>1, <1>5, <2>1
<1>11. CASE n = 0
  <2>1. ss = <<>>
    BY <1>11, EmptySeq DEF n
  <2>2. <<>> \o t = t
    BY ConcatEmptySeq
  <2>3. flat = <<>>
    BY <1>2, <1>11, <2>1
  <2>. QED BY <1>9, <1>10, <1>11, <2>2, <2>3 DEF r, flat
<1>12. CASE n # 0
  <2>1. n \in 1..n
    BY <1>1, <1>12
  <2>2. flat = f[n] /\ f[n] = g[n]
    BY <1>2, <1>8, <1>12, <2>1
  <2>. QED BY <1>9, <1>10, <1>12, <2>2 DEF r, flat
<1>. QED BY <1>11, <1>12

LEMMA FlattenType ==
  ASSUME NEW T, NEW ss \in Seq(Seq(T))
  PROVE  FlattenSeq(ss) \in Seq(T)
<1>. DEFINE U == {r \in Seq(Seq(T)) : FlattenSeq(r) \in Seq(T)}
<1>1. <<>> \in U
  BY FlattenEmpty, EmptySeq
<1>2. ASSUME NEW r \in Seq(Seq(T)), NEW e \in Seq(T), r \in U PROVE Append(r, e) \in U
  <2>1. Append(r, e) \in Seq(Seq(T))
    BY AppendProperties
  <2>2. FlattenSeq(Append(r, e)) = FlattenSeq(r) \o e /\ FlattenSeq(r) \in Seq(T)
    BY <1>2, FlattenAppend
  <2>3. FlattenSeq(r) \o e \in Seq(T)
    BY <2>2, ConcatProperties
  <2>. QED BY <2>1, <2>2, <2>3
<1>. HIDE DEF U
<1>3. ss \in U
  <2>1. \A r \in Seq(Seq(T)) : r \in U
    BY <1>1, <1>2, SeqInduction
  <2>. QED BY <2>1
<1>. QED BY <1>3 DEF U

LEMMA FlattenFirst ==
  ASSUME NEW T, NEW ss \in Seq(Seq(T)), NEW t \in Seq(T)
  PROVE  FlattenSeq(<<t>> \o ss) = t \o FlattenSeq(ss)
<1>. DEFINE U == {r \in Seq(Seq(T)) : FlattenSeq(<<t>> \o r) = t \o FlattenSeq(r)}
<1>0. <<t>> \in Seq(Seq(T)) /\ <<>> \in Seq(Seq(T)) /\ <<t>> = Append(<<>>, t)
  BY EmptySeq
<1>1. <<>> \in U
  <2>1. FlattenSeq(Append(<<>>, t)) = FlattenSeq(<<>>) \o t
    BY <1>0, FlattenAppend
  <2>2. <<>> \o t = t /\ t \o <<>> = t /\ <<t>> \o <<>> = <<t>>
    BY <1>0, ConcatEmptySeq
  <2>3. FlattenSeq(<<t>> \o <<>>) = t \o FlattenSeq(<<>>)
    BY <1>0, <2>1, <2>2, FlattenEmpty
  <2>. QED BY <1>0, <2>3
<1>2. ASSUME NEW r \in Seq(Seq(T)), NEW e \in Seq(T), r \in U PROVE Append(r, e) \in U
  <2>. DEFINE a == FlattenSeq(r)
              one == <<t>>
              c == one \o r
  <2>1. a \in Seq(T) /\ one \in Seq(Seq(T)) /\ c \in Seq(Seq(T)) /\ <<e>> \in Seq(Seq(T))
        /\ Append(r, e) \in Seq(Seq(T)) /\ FlattenSeq(c) = t \o a
    <3>1. one \in Seq(Seq(T)) /\ <<e>> \in Seq(Seq(T)) /\ Append(r, e) \in Seq(Seq(T))
      BY <1>0, AppendProperties
    <3>2. c \in Seq(Seq(T))
      BY <3>1, ConcatProperties
    <3>. QED BY <1>2, <3>1, <3>2, FlattenType
  <2>. HIDE DEF one
  <2>3. one \o Append(r, e) = Append(c, e)
    <3>. DEFINE S == Seq(T)
    <3>1. one \in Seq(S) /\ r \in Seq(S) /\ e \in S
      BY <2>1
    <3>. HIDE DEF S, c
    <3>2. \A s1, s2 \in Seq(S), x \in S : s1 \o Append(s2, x) = Append(s1 \o s2, x)
      BY ONLY ConcatAppend
    <3>3. one \o Append(r, e) = Append(one \o r, e)
      BY ONLY <3>1, <3>2, Zenon
    <3>. QED BY <3>3 DEF c
  <2>. HIDE DEF c, a
  <2>4. FlattenSeq(Append(c, e)) = FlattenSeq(c) \o e
    BY <2>1, FlattenAppend
  <2>5. FlattenSeq(Append(r, e)) = a \o e
    BY FlattenAppend DEF a
  <2>6. (t \o a) \o e = t \o (a \o e)
    <3>1. t \in Seq(T) /\ a \in Seq(T) /\ e \in Seq(T)
      BY <2>1
    <3>. QED BY ONLY <3>1, ConcatAssociative
  <2>7. FlattenSeq(one \o Append(r, e)) = t \o FlattenSeq(Append(r, e))
    BY <2>1, <2>3, <2>4, <2>5, <2>6
  <2>. QED BY <2>1, <2>7 DEF one
<1>. HIDE DEF U
<1>3. ss \in U
  <2>1. \A r \in Seq(Seq(T)) : r \in U
    BY <1>1, <1>2, SeqInduction
  <2>. QED BY <2>1
<1>. QED BY <1>3 DEF U

-----------------------------------------------------------------------------
(* What is printed of a text. *)

LEMMA StringAtType ==
  ASSUME NEW S, NEW t \in Seq(S), NEW i \in Nat \ {0}
  PROVE  StringAt(t, i) \in Seq(S)
<1>1. Len(t) \in Nat /\ DOMAIN t = 1..Len(t)
  BY LenProperties
<1>2. CASE i \in DOMAIN t
  <2>. DEFINE j == FirstOf(t, i, {NUL})
              k == j - 1
  <2>1. i \in 1..(Len(t) + 1)
    BY <1>1, <1>2
  <2>2. j \in i..(Len(t) + 1)
    BY <2>1, FirstOfProperties
  <2>. HIDE DEF j
  <2>3. k \in Int /\ \A n \in i..k : t[n] \in S
    BY <1>1, <1>2, <2>2, ElementOfSeq
  <2>. HIDE DEF k
  <2>4. SubSeq(t, i, k) \in Seq(S)
    BY <2>3, SubSeqProperties
  <2>. QED BY <1>2, <2>4 DEF StringAt, j, k
<1>3. CASE i \notin DOMAIN t
  BY <1>3, EmptySeq DEF StringAt
<1>. QED BY <1>2, <1>3

LEMMA StringAtEnd ==
  ASSUME NEW S, NEW t \in Seq(S), NEW i \in Nat \ {0}, CharAt(t, i) = NUL
  PROVE  StringAt(t, i) = <<>>
<1>1. Len(t) \in Nat /\ DOMAIN t = 1..Len(t)
  BY LenProperties
<1>2. CASE i \in DOMAIN t
  <2>. DEFINE j == FirstOf(t, i, {NUL})
              k == j - 1
  <2>1. i \in 1..(Len(t) + 1) /\ t[i] = NUL
    BY <1>1, <1>2 DEF CharAt
  <2>2. j \in i..(Len(t) + 1) /\ \A n \in i..(j - 1) : t[n] \notin {NUL}
    BY <2>1, FirstOfProperties
  <2>. HIDE DEF j
  <2>3. k \in Int /\ k < i
    BY <1>1, <2>1, <2>2
  <2>. HIDE DEF k
  <2>4. SubSeq(t, i, k) = <<>>
    BY <2>3, SubSeqEmpty
  <2>. QED BY <1>2, <2>4 DEF StringAt, j, k
<1>3. CASE i \notin DOMAIN t
  BY <1>3 DEF StringAt
<1>. QED BY <1>2, <1>3

LEMMA StringAtNext ==
  ASSUME NEW S, NEW t \in Seq(S), NEW i \in DOMAIN t, t[i] # NUL
  PROVE  StringAt(t, i) = <<t[i]>> \o StringAt(t, i + 1)
<1>. DEFINE n == Len(t)
            j == FirstOf(t, i, {NUL})
            h == FirstOf(t, i + 1, {NUL})
            k == j - 1
<1>1. n \in Nat /\ DOMAIN t = 1..n /\ i \in 1..n /\ i \in 1..(n + 1) /\ i + 1 \in 1..(n + 1)
  BY LenProperties
<1>2. /\ j \in i..(n + 1) /\ (j = n + 1 \/ t[j] \in {NUL})
      /\ \A m \in i..(j - 1) : t[m] \notin {NUL}
  BY <1>1, FirstOfProperties
<1>3. /\ h \in (i + 1)..(n + 1) /\ (h = n + 1 \/ t[h] \in {NUL})
      /\ \A m \in (i + 1)..(h - 1) : t[m] \notin {NUL}
  BY <1>1, FirstOfProperties
<1>. HIDE DEF j, h, n
<1>4. j = h
  <2>1. j # i
    BY <1>1, <1>2
  <2>2. ~(j < h)
    <3>1. j < h => j \in (i + 1)..(h - 1) /\ j # n + 1
      BY <1>1, <1>2, <1>3, <2>1
    <3>. QED BY <1>2, <1>3, <3>1
  <2>3. ~(h < j)
    <3>1. h < j => h \in i..(j - 1) /\ h # n + 1
      BY <1>1, <1>2, <1>3, <2>1
    <3>. QED BY <1>2, <1>3, <3>1
  <2>. QED BY <1>1, <1>2, <1>3, <2>2, <2>3
<1>5. k \in i..n
  BY <1>1, <1>3, <1>4
<1>6. SubSeq(t, i, k) = <<t[i]>> \o SubSeq(t, i + 1, k)
  <2>1. i \in 1..Len(t) /\ k \in i..Len(t)
    BY <1>1, <1>5 DEF n
  <2>. HIDE DEF k
  <2>. QED BY <2>1, SubSeqRecursiveFirst
<1>7. StringAt(t, i) = SubSeq(t, i, k)
  BY DEF StringAt, j
<1>8. StringAt(t, i + 1) = SubSeq(t, i + 1, k)
  <2>1. CASE i + 1 \in DOMAIN t
    BY <1>4, <2>1 DEF StringAt, h
  <2>2. CASE i + 1 \notin DOMAIN t
    <3>1. k \in Int /\ k < i + 1 /\ i + 1 \in Int
      BY <1>1, <1>5, <2>2
    <3>. HIDE DEF k
    <3>2. SubSeq(t, i + 1, k) = <<>>
      BY <3>1, SubSeqEmpty
    <3>. QED BY <2>2, <3>2 DEF StringAt
  <2>. QED BY <2>1, <2>2
<1>. QED BY <1>6, <1>7, <1>8

LEMMA StringOfOne ==
  ASSUME NEW c
  PROVE  StringAt(<<c>>, 1) = IF c = NUL THEN <<>> ELSE <<c>>
<1>. DEFINE t == <<c>>
<1>1. t \in Seq({c}) /\ 1 \in DOMAIN t /\ t[1] = c /\ 2 \notin DOMAIN t
  OBVIOUS
<1>. HIDE DEF t
<1>2. c = NUL => StringAt(t, 1) = <<>>
  BY <1>1, StringAtEnd DEF CharAt
<1>3. c # NUL => StringAt(t, 1) = <<c>> \o StringAt(t, 2)
  BY <1>1, StringAtNext
<1>4. StringAt(t, 2) = <<>> /\ <<c>> \o <<>> = <<c>>
  <2>1. <<c>> \in Seq({c})
    OBVIOUS
  <2>. QED BY <1>1, <2>1, ConcatEmptySeq DEF StringAt
<1>. QED BY <1>2, <1>3, <1>4 DEF t

\* A text is printed if what a reader sees of it, up to the first zero, is.
Readable(t) == StringAt(t, 1) = <<>> \/ IsPrinted(StringAt(t, 1))

LEMMA EchoReadable ==
  ASSUME NEW c \in Printed
  PROVE  Readable(<<c>>)
BY StringOfOne DEF Readable, IsPrinted

LEMMA NewLineReadable == Readable(<<CR, LF>>)
<1>. DEFINE t == <<CR, LF>>
<1>1. t \in Seq({CR, LF}) /\ t # <<>> /\ \A k \in DOMAIN t : t[k] # NUL
  <2>1. CR # NUL /\ LF # NUL
    BY DEF CR, LF, NUL
  <2>2. DOMAIN t = {1, 2} /\ t[1] = CR /\ t[2] = LF /\ t # <<>> /\ t \in Seq({CR, LF})
    OBVIOUS
  <2>. HIDE DEF t
  <2>. QED BY <2>1, <2>2
<1>. HIDE DEF t
<1>2. StringAt(t, 1) = t
  BY <1>1, StringAtWhole
<1>. QED BY <1>2 DEF Readable, IsPrinted, t

LEMMA ReplyReadable ==
  ASSUME NEW kind \in ReplyKind, NEW x \in Seq(Letters), Short(x)
  PROVE  Readable(Overwrite(x, Reply[kind]))
<1>. DEFINE r == Reply[kind]
            t == Overwrite(x, r)
            j == FirstOf(t, 1, {NUL})
            k == j - 1
            m == Len(r)
            s == StringAt(t, 1)
<1>1. /\ r \in Seq(Letters) /\ Len(r) <= BufferSize /\ \A i \in DOMAIN r : r[i] # NUL
      /\ m \in Nat /\ DOMAIN r = 1..m
  BY ReplyIsText, ReplyAssumption, LenProperties
<1>2. /\ t \in Seq(Letters) /\ Len(t) = (IF m >= Len(x) THEN m ELSE Len(x))
      /\ \A i \in 1..m : t[i] = r[i]
  BY <1>1, OverwriteProperties
<1>. HIDE DEF t, r
<1>3. Len(t) \in Nat /\ DOMAIN t = 1..Len(t) /\ m <= Len(t) /\ Len(t) <= BufferSize /\ Len(x) \in Nat
  BY <1>1, <1>2, LenProperties, BufferFacts DEF Short, r
<1>. SUFFICES ASSUME s # <<>> PROVE IsPrinted(s)
  BY DEF Readable, t, r
<1>4. 1 \in DOMAIN t /\ s = SubSeq(t, 1, k)
  BY DEF StringAt
<1>5. /\ j \in 1..(Len(t) + 1) /\ (j = Len(t) + 1 \/ t[j] = NUL)
  <2>1. 1 \in 1..(Len(t) + 1)
    BY <1>3
  <2>. QED BY <1>2, <2>1, FirstOfProperties
<1>. HIDE DEF j, s
<1>6. k \in Int /\ k >= m /\ k <= Len(t) /\ k >= 0
  <2>1. j \notin 1..m
    <3>1. ASSUME j \in 1..m PROVE FALSE
      <4>1. t[j] # NUL /\ j # Len(t) + 1
        BY <1>1, <1>2, <1>3, <3>1
      <4>. QED BY <1>5, <4>1
    <3>. QED BY <3>1
  <2>. QED BY <1>1, <1>3, <1>5, <2>1
<1>. HIDE DEF k
<1>7. s \in Seq(Letters) /\ Len(s) = k /\ \A i \in 1..k : s[i] = t[i]
  <2>1. \A i \in 1..k : t[i] \in Letters
    BY <1>2, <1>3, <1>6, ElementOfSeq
  <2>2. /\ SubSeq(t, 1, k) \in Seq(Letters)
        /\ Len(SubSeq(t, 1, k)) = IF 1 <= k THEN k - 1 + 1 ELSE 0
        /\ \A i \in 1..(k - 1 + 1) : SubSeq(t, 1, k)[i] = t[1 + i - 1]
    BY <1>6, <2>1, SubSeqProperties
  <2>3. \A i \in 1..k : i \in 1..(k - 1 + 1) /\ 1 + i - 1 = i
    BY <1>6
  <2>. QED BY <1>4, <1>6, <2>2, <2>3
<1>8. IsPrefix(r, s) /\ Len(s) <= BufferSize
  <2>1. SubSeq(r, 1, m) = r
    BY <1>1, SubSeqFull
  <2>. DEFINE u == SubSeq(s, 1, m)
  <2>2. u \in Seq(Letters) /\ Len(u) = m /\ \A i \in 1..m : u[i] = s[i]
    <3>1. \A i \in 1..m : s[i] \in Letters
      BY <1>1, <1>6, <1>7, ElementOfSeq
    <3>2. /\ u \in Seq(Letters) /\ Len(u) = IF 1 <= m THEN m - 1 + 1 ELSE 0
          /\ \A i \in 1..(m - 1 + 1) : u[i] = s[1 + i - 1]
      BY <1>1, <3>1, SubSeqProperties
    <3>3. \A i \in 1..m : i \in 1..(m - 1 + 1) /\ 1 + i - 1 = i
      BY <1>1
    <3>. HIDE DEF u
    <3>. QED BY <1>1, <3>2, <3>3
  <2>. HIDE DEF u
  <2>3. \A i \in 1..m : u[i] = r[i]
    BY <1>1, <1>2, <1>6, <1>7, <2>2
  <2>4. u = r
    BY <1>1, <2>2, <2>3, SeqEqual
  <2>5. SubSeq(r, 1, Len(r)) = SubSeq(s, 1, Len(r)) /\ Len(r) <= Len(s)
    BY <1>6, <1>7, <2>1, <2>4 DEF u
  <2>6. Len(s) <= BufferSize
    BY <1>3, <1>6, <1>7, BufferFacts
  <2>. QED BY <2>5, <2>6 DEF IsPrefix
<1>. QED BY <1>8 DEF IsPrinted, r

-----------------------------------------------------------------------------
(* What is between the programs and the line. *)

Leads(c) == [b \in MemBlock |-> CharAt(c[b].text, 1)]
Strings(c) == [b \in MemBlock |-> StringAt(c[b].text, 1)]

\* The characters that the CRT has sent on.
Writing == IF pc[Uart] = "write" THEN <<char_out>> ELSE <<>>
Leaving == Writing \o Sending

\* The characters it has not sent on, and the texts that are waiting for it.
Printing == IF pc[Crt] \in {"got", "request", "fill"} THEN StringAt(Text(Crt), pos) ELSE <<>>
Entering == Printing \o FlattenSeq(TextsFor(Crt))

LEMMA LeadsAre ==
  ASSUME NEW s \in Seq(MemBlock), NEW c
  PROVE  [i \in DOMAIN s |-> CharAt(c[s[i]].text, 1)] = Values(s, Leads(c))
<1>1. \A i \in DOMAIN s : s[i] \in MemBlock
  BY LenProperties, ElementOfSeq
<1>. QED BY <1>1 DEF Values, Leads

LEMMA SendingNow ==
  ASSUME Coming(Uart) \in Seq(MemBlock)
  PROVE  Sending = Values(Coming(Uart), Leads(content))
BY LeadsAre DEF Sending

LEMMA SendingNext ==
  ASSUME NEW s \in Seq(MemBlock), Coming(Uart)' = s
  PROVE  Sending' = Values(s, Leads(content'))
BY LeadsAre DEF Sending

LEMMA StringsAre ==
  ASSUME NEW s \in Seq(MemBlock), NEW c
  PROVE  [i \in DOMAIN s |-> StringAt(c[s[i]].text, 1)] = Values(s, Strings(c))
<1>1. \A i \in DOMAIN s : s[i] \in MemBlock
  BY LenProperties, ElementOfSeq
<1>. QED BY <1>1 DEF Values, Strings

LEMMA TextsNow ==
  ASSUME Inbox[Crt] \in Seq(MemBlock)
  PROVE  TextsFor(Crt) = Values(Inbox[Crt], Strings(content))
BY StringsAre DEF TextsFor

LEMMA TextsNext ==
  ASSUME NEW s \in Seq(MemBlock), Inbox'[Crt] = s
  PROVE  TextsFor(Crt)' = Values(s, Strings(content'))
BY StringsAre DEF TextsFor

LEMMA LeadsStay ==
  ASSUME NEW s \in Seq(MemBlock), Unwritten(s)
  PROVE  /\ Values(s, Leads(content')) = Values(s, Leads(content))
         /\ Values(s, Strings(content')) = Values(s, Strings(content))
<1>1. \A i \in DOMAIN s : s[i] \in MemBlock
  BY LenProperties, ElementOfSeq
<1>2. /\ \A i \in DOMAIN s : Leads(content')[s[i]] = Leads(content)[s[i]]
      /\ \A i \in DOMAIN s : Strings(content')[s[i]] = Strings(content)[s[i]]
  BY <1>1 DEF Unwritten, Leads, Strings
<1>. QED BY <1>2, ValuesSame

\* Everything consists of letters.
LEMMA LeavingType ==
  ASSUME RtxIInv, Pointers, AllTidy, Texts, char_out \in Letters
  PROVE  /\ Writing \in Seq(Letters) /\ Sending \in Seq(Letters) /\ Leaving \in Seq(Letters)
         /\ Coming(Uart) \in Seq(MemBlock)
<1>1. Coming(Uart) \in Seq(MemBlock)
  BY ComingType DEF Client, AllTidy
<1>2. Sending \in Seq(Letters)
  <2>1. \A b \in MemBlock : Leads(content)[b] \in Letters
    BY CharAtIsLetter DEF Leads, Texts, Content
  <2>2. \A i \in DOMAIN Coming(Uart) : Leads(content)[Coming(Uart)[i]] \in Letters
    BY <1>1, <2>1, LenProperties, ElementOfSeq
  <2>3. Values(Coming(Uart), Leads(content)) \in Seq(Letters)
    BY <1>1, <2>2, ValuesType
  <2>. QED BY <1>1, <2>3, SendingNow
<1>3. Writing \in Seq(Letters)
  BY EmptySeq DEF Writing
<1>. QED BY <1>1, <1>2, <1>3, ConcatProperties DEF Leaving

LEMMA EnteringType ==
  ASSUME RtxIInv, Pointers, AllTidy, Texts, pos \in Nat \ {0}
  PROVE  /\ Inbox[Crt] \in Seq(MemBlock) /\ TextsFor(Crt) \in Seq(Seq(Letters))
         /\ FlattenSeq(TextsFor(Crt)) \in Seq(Letters)
         /\ Printing \in Seq(Letters) /\ Entering \in Seq(Letters)
<1>1. Inbox[Crt] \in Seq(MemBlock) /\ Tidy(Crt) /\ Crt \in Proc
  BY ComingType, ClientsAreProc DEF Client, AllTidy
<1>2. TextsFor(Crt) \in Seq(Seq(Letters))
  <2>1. \A b \in MemBlock : Strings(content)[b] \in Seq(Letters)
    BY StringAtType DEF Strings, Texts, Content
  <2>2. \A i \in DOMAIN Inbox[Crt] : Strings(content)[Inbox[Crt][i]] \in Seq(Letters)
    BY <1>1, <2>1, LenProperties, ElementOfSeq
  <2>3. Values(Inbox[Crt], Strings(content)) \in Seq(Seq(Letters))
    BY <1>1, <2>2, ValuesType
  <2>. QED BY <1>1, <2>3, TextsNow
<1>3. FlattenSeq(TextsFor(Crt)) \in Seq(Letters)
  BY <1>2, FlattenType
<1>4. Printing \in Seq(Letters)
  <2>1. CASE pc[Crt] \in {"got", "request", "fill"}
    <3>1. msg[Crt] \in MemBlock
      BY <1>1, <2>1 DEF Tidy, Named, RtxIInv, Accounts, DataTypeOK
    <3>2. Text(Crt) \in Seq(Letters)
      BY <3>1 DEF Text, Texts, Content
    <3>3. StringAt(Text(Crt), pos) \in Seq(Letters)
      BY <3>2, StringAtType
    <3>. QED BY <2>1, <3>3 DEF Printing
  <2>2. CASE pc[Crt] \notin {"got", "request", "fill"}
    BY <2>2, EmptySeq DEF Printing
  <2>. QED BY <2>1, <2>2
<1>5. Entering \in Seq(Letters)
  BY <1>3, <1>4, ConcatProperties DEF Entering
<1>. QED BY <1>1, <1>2, <1>3, <1>4, <1>5

-----------------------------------------------------------------------------
(* Who sends to whom. *)

\* The steps that send a text to the CRT.
Prints == KcdEchoes \/ KcdSendsClear \/ PrioComplains \/ PrioReplies

LEMMA DecoderPosts ==
  ASSUME RtxIInv, Asked, Decoder
  PROVE  /\ Inbox'[Uart] = Inbox[Uart]
         /\ ~Prints => Inbox'[Crt] = Inbox[Crt]
         /\ \E point : GoesFrom(Kcd, point)
         /\ UNCHANGED <<pos, char_out>>
<1>0. Crt \in Proc /\ Uart \in Proc /\ Crt # Kcd /\ Crt # Uart /\ Crt # Prio /\ Uart # Kcd /\ Uart # Prio
  BY ClientsAreProc, ClientsDiffer DEF Client
<1>1. CASE KcdStarts
  BY <1>1, QuietInbox DEF KcdStarts, GoesFrom, GoOn
<1>2. CASE KcdRegisters \/ KcdClears
  <2>1. Inbox' = Inbox
    BY <1>2, FreesInbox DEF KcdRegisters, KcdClears
  <2>. QED BY <1>2, <2>1 DEF KcdRegisters, KcdClears, GoesFrom, GoOn
<1>3. CASE KcdEchoes \/ KcdSendsClear
  <2>1. \E b : Send(Kcd, b, Crt)
    BY <1>3 DEF KcdEchoes, KcdSendsClear, Mail
  <2>2. Inbox'[Uart] = Inbox[Uart]
    BY <1>0, <2>1, SendsInbox
  <2>. QED BY <1>3, <2>2 DEF KcdEchoes, KcdSendsClear, GoesFrom, GoOn, Prints
<1>4. CASE KcdSendsCommand
  <2>1. PICK i \in Match(line) : Mail(Kcd, new[Kcd], cmds[i].pid, line)
    BY <1>4 DEF KcdSendsCommand
  <2>2. cmds[i].pid \in {Kcd, Prio}
    <3>1. i \in DOMAIN cmds
      BY DEF Match
    <3>. QED BY <3>1, KnownCommands
  <2>3. Inbox'[Uart] = Inbox[Uart] /\ Inbox'[Crt] = Inbox[Crt]
    BY <1>0, <2>1, <2>2, SendsInbox DEF Mail
  <2>. QED BY <1>4, <2>3 DEF KcdSendsCommand, GoesFrom, GoOn
<1>. QED BY <1>1, <1>2, <1>3, <1>4 DEF Decoder

LEMMA PriorityPosts ==
  ASSUME RtxIInv, Command
  PROVE  /\ Inbox'[Uart] = Inbox[Uart]
         /\ ~Prints => Inbox'[Crt] = Inbox[Crt]
         /\ \E point : GoesFrom(Prio, point)
         /\ UNCHANGED <<pos, char_out>>
<1>0. Crt \in Proc /\ Uart \in Proc /\ Crt # Kcd /\ Crt # Uart /\ Uart # Kcd
  BY ClientsAreProc, ClientsDiffer DEF Client
<1>1. CASE PrioRegisters
  <2>1. \E b : Send(Prio, b, Kcd)
    BY <1>1 DEF PrioRegisters, Register
  <2>2. Inbox'[Uart] = Inbox[Uart] /\ Inbox'[Crt] = Inbox[Crt]
    BY <1>0, <2>1, SendsInbox
  <2>. QED BY <1>1, <2>2 DEF PrioRegisters, GoesFrom, GoOn
<1>2. CASE PrioComplains \/ PrioReplies
  <2>1. \E b : Send(Prio, b, Crt)
    BY <1>2 DEF PrioComplains, PrioReplies, Mail
  <2>2. Inbox'[Uart] = Inbox[Uart]
    BY <1>0, <2>1, SendsInbox
  <2>. QED BY <1>2, <2>2 DEF PrioComplains, PrioReplies, GoesFrom, GoOn, Prints
<1>3. CASE PrioSets
  BY <1>3, PriorityInbox DEF PrioSets, GoesFrom, GoOn
<1>. QED BY <1>1, <1>2, <1>3 DEF Command

LEMMA OutputPosts ==
  ASSUME RtxIInv, Output
  PROVE  /\ ~CrtSends => Inbox' = Inbox
         /\ Inbox'[Crt] = Inbox[Crt]
         /\ CrtSends => GoesFrom(Crt, "got") /\ InboxGets(new[Crt], Uart)
         /\ CrtActs => char_out' = char_out /\ \E point \in {"request", "got", "receive"} : GoesFrom(Crt, point)
         /\ UartActs => pos' = pos /\ \E point \in {"write", "receive"} : GoesFrom(Uart, point)
<1>0. Crt \in Proc /\ Uart \in Proc /\ Crt # Uart
  BY ClientsAreProc, ClientsDiffer DEF Client
<1>1. ASSUME CrtLoops \/ UartWrites PROVE Inbox' = Inbox
  <2>1. UNCHANGED rtxVars
    BY <1>1 DEF CrtLoops, UartWrites
  <2>. QED BY <2>1, QuietInbox
<1>2. ASSUME CrtReleases \/ UartTakes PROVE Inbox' = Inbox
  BY <1>2, FreesInbox DEF CrtReleases, UartTakes
<1>3. ASSUME CrtSends PROVE Inbox'[Crt] = Inbox[Crt]
  BY <1>0, <1>3, SendsInbox DEF CrtSends, Mail
<1>4. /\ CrtSends => GoesFrom(Crt, "got") /\ InboxGets(new[Crt], Uart)
      /\ CrtActs => char_out' = char_out /\ \E point \in {"request", "got", "receive"} : GoesFrom(Crt, point)
      /\ UartActs => pos' = pos /\ \E point \in {"write", "receive"} : GoesFrom(Uart, point)
  <2>1. CrtSends => InboxGets(new[Crt], Uart)
    BY SendsInbox DEF CrtSends, Mail
  <2>. QED BY <2>1 DEF CrtActs, UartActs, CrtLoops, CrtSends, CrtReleases, UartTakes, UartWrites, GoesFrom, GoOn
<1>5. Inbox'[Crt] = Inbox[Crt] /\ (~CrtSends => Inbox' = Inbox)
  BY <1>0, <1>1, <1>2, <1>3 DEF Output
<1>. QED BY <1>4, <1>5

-----------------------------------------------------------------------------
(* What a step does to the characters between the CRT and the line. *)

LEMMA LeavingStays ==
  ASSUME Coming(Uart) \in Seq(MemBlock), Coming(Uart)' = Coming(Uart), Unwritten(Coming(Uart)),
         pc'[Uart] = "write" <=> pc[Uart] = "write", char_out' = char_out
  PROVE  Leaving' = Leaving
<1>1. Sending' = Sending
  <2>. DEFINE s == Coming(Uart)
  <2>1. s \in Seq(MemBlock) /\ Coming(Uart)' = s /\ Unwritten(s)
    OBVIOUS
  <2>2. Sending = Values(s, Leads(content))
    BY SendingNow
  <2>. HIDE DEF s
  <2>3. Sending' = Values(s, Leads(content'))
    BY <2>1, SendingNext
  <2>. QED BY <2>1, <2>2, <2>3, LeadsStay
<1>2. Writing' = Writing
  BY DEF Writing
<1>. QED BY <1>1, <1>2 DEF Leaving

LEMMA UartWritesOne ==
  ASSUME RtxIInv, Pointers, AllTidy, Texts, Written, [ConsoleNext]_consoleVars, UartWrites,
         char_out \in Letters
  PROVE  Leaving = <<char_out>> \o Leaving'
<1>0. Uart \in Client /\ Uart \in Proc
  BY ClientsAreProc DEF Client
<1>1. pc[Uart] = "write" /\ pc'[Uart] = "receive" /\ GoesFrom(Uart, "receive") /\ content' = content
  BY <1>0 DEF UartWrites, GoOn, GoesFrom, Pointers
<1>2. Inbox' = Inbox
  BY QuietInbox DEF UartWrites
<1>3. Coming(Uart)' = Coming(Uart)
  BY <1>0, <1>1, <1>2, ComingGoesOn
<1>. DEFINE s == Coming(Uart)
<1>4. Sending' = Sending
  <2>1. s \in Seq(MemBlock) /\ Coming(Uart)' = s /\ Sending = Values(s, Leads(content))
    BY <1>3, LeavingType, SendingNow
  <2>. HIDE DEF s
  <2>2. Sending' = Values(s, Leads(content'))
    BY <2>1, SendingNext
  <2>. QED BY <1>1, <2>1, <2>2
<1>5. Leaving' = <<>> \o Sending /\ Leaving = <<char_out>> \o Sending
  BY <1>1, <1>4 DEF Leaving, Writing
<1>6. Sending \in Seq(Letters)
  BY LeavingType
<1>. QED BY <1>5, <1>6, ConcatEmptySeq

LEMMA UartTakesOne ==
  ASSUME RtxIInv, Pointers, AllTidy, Texts, Written, [ConsoleNext]_consoleVars, UartTakes,
         char_out \in Letters
  PROVE  Leaving' = Leaving
<1>0. Uart \in Client /\ Uart \in Proc /\ Tidy(Uart)
  BY ClientsAreProc DEF Client, AllTidy
<1>1. /\ pc[Uart] = "got" /\ pc'[Uart] = "write" /\ Free(Uart, msg[Uart])
      /\ char_out' = CharAt(Text(Uart), 1)
  BY <1>0 DEF UartTakes, GoOn, Pointers
<1>2. Inbox' = Inbox
  BY <1>1, FreesInbox
<1>. DEFINE s == Inbox[Uart]
            m == msg[Uart]
            one == <<m>>
<1>3. m \in MemBlock /\ s \in Seq(MemBlock) /\ Coming(Uart) = one \o s /\ Coming(Uart)' = s
  BY <1>0, <1>1, <1>2, ComingShrinks
<1>4. Unwritten(s)
  BY <1>0, InboxUnwritten
<1>5. Sending = Values(one \o s, Leads(content))
  BY <1>3, LeavingType, SendingNow
<1>6. one \in Seq(MemBlock) /\ Values(one, Leads(content)) = <<char_out'>>
  BY <1>1, <1>3 DEF Values, Leads, Text
<1>. HIDE DEF s, one
<1>7. Sending' = Values(s, Leads(content'))
  BY <1>3, SendingNext
<1>8. Values(s, Leads(content')) = Values(s, Leads(content))
  BY <1>3, <1>4, LeadsStay
<1>9. Values(one \o s, Leads(content)) = Values(one, Leads(content)) \o Values(s, Leads(content))
  <2>1. \A v : Values(one \o s, v) = Values(one, v) \o Values(s, v)
    BY <1>3, <1>6, ValuesConcat
  <2>. QED BY <2>1
<1>10. Sending = <<char_out'>> \o Sending'
  BY <1>5, <1>6, <1>7, <1>8, <1>9
<1>11. Leaving = <<>> \o Sending /\ Leaving' = <<char_out'>> \o Sending'
  BY <1>1 DEF Leaving, Writing
<1>12. <<>> \o Sending = Sending
  BY LeavingType, ConcatEmptySeq
<1>. QED BY <1>10, <1>11, <1>12

\* The CRT and the uart process do not both go on.
LEMMA NotBoth ==
  ASSUME Pointers
  PROVE  ~(CrtActs /\ UartActs)
<1>1. SUFFICES ASSUME CrtActs, UartActs PROVE FALSE
  OBVIOUS
<1>2. Crt \in Proc /\ Uart \in Proc /\ Crt # Uart
  BY ClientsAreProc, ClientsDiffer DEF Client
<1>3. pc'[Crt] # pc[Crt]
  BY <1>1, <1>2 DEF CrtActs, CrtLoops, CrtSends, CrtReleases, GoOn, Pointers
<1>4. pc'[Crt] = pc[Crt]
  BY <1>1, <1>2 DEF UartActs, UartTakes, UartWrites, GoOn, Pointers
<1>. QED BY <1>3, <1>4

LEMMA CrtSendsOne ==
  ASSUME RtxIInv, Pointers, AllTidy, Texts, Written, [ConsoleNext]_consoleVars, CrtSends,
         char_out \in Letters
  PROVE  Leaving' = Append(Leaving, CharAt(Text(Crt), pos))
<1>0. Uart \in Client /\ Crt \in Client /\ Crt \in Proc /\ Uart \in Proc /\ Crt # Uart
      /\ ~Acts(Uart) /\ Tidy(Crt)
  BY ClientsAreProc, ClientsDiffer, NotBoth DEF Client, Acts, CrtActs, AllTidy
<1>. DEFINE b == new[Crt]
            c == CharAt(Text(Crt), pos)
            s == Coming(Uart)
            t == Append(s, b)
<1>1. /\ pc[Crt] = "fill" /\ Mail(Crt, b, Uart, <<c>>) /\ GoesFrom(Crt, "got")
      /\ InboxGets(b, Uart) /\ pc' = [pc EXCEPT ![Crt] = "got"] /\ new' = new
      /\ char_out' = char_out
  BY OutputPosts DEF CrtSends, Output, GoOn
<1>2. b \in MemBlock /\ Coming(Uart)' = t /\ s \in Seq(MemBlock)
  BY <1>0, <1>1, ComingGoesOn, LeavingType
<1>3. Unwritten(s)
  BY <1>0, ComingUnwritten
<1>4. Sending = Values(s, Leads(content))
  BY LeavingType, SendingNow
<1>5. Leads(content')[b] = c /\ c \in Letters
  <2>1. content[b] = Blank /\ ~IsRegistration(b)
    BY <1>0, <1>1, BlankToFill
  <2>2. c \in Letters
    <3>1. msg[Crt] \in MemBlock
      BY <1>0, <1>1 DEF Tidy, Named, RtxIInv, Accounts, DataTypeOK
    <3>. QED BY <3>1, CharAtIsLetter DEF Text, Texts, Content
  <2>. HIDE DEF c
  <2>3. <<c>> \in Seq(Letters)
    BY <2>2
  <2>4. Rewrites(b, Crt, Overwrite(content[b].text, <<c>>))
    BY <1>0, <1>1, <2>1, <2>3, MailContents
  <2>5. content'[b].text = Overwrite(<<>>, <<c>>)
    BY <1>2, <2>1, <2>4, BlankIsContent DEF Rewrites, Texts
  <2>6. content'[b].text = <<c>>
    BY <2>3, <2>5, OverwriteBlank
  <2>7. DOMAIN <<c>> = {1} /\ <<c>>[1] = c
    OBVIOUS
  <2>8. Leads(content')[b] = c
    BY <1>2, <2>6, <2>7 DEF Leads, CharAt
  <2>. QED BY <2>2, <2>8
<1>. HIDE DEF s, c, b
<1>6. t \in Seq(MemBlock)
  BY <1>2, AppendProperties
<1>7. Values(t, Leads(content')) = Append(Values(s, Leads(content')), Leads(content')[b])
  <2>1. \A v : Values(Append(s, b), v) = Append(Values(s, v), v[b])
    BY <1>2, ValuesAppend
  <2>. QED BY <2>1
<1>. HIDE DEF t
<1>8. Sending' = Values(t, Leads(content'))
  BY <1>2, <1>6, SendingNext
<1>9. Values(s, Leads(content')) = Values(s, Leads(content))
  BY <1>2, <1>3, LeadsStay
<1>10. Sending' = Append(Sending, c)
  BY <1>4, <1>5, <1>7, <1>8, <1>9
<1>11. Writing' = Writing
  BY <1>0, <1>1 DEF Writing, Pointers
<1>12. Writing \in Seq(Letters) /\ Sending \in Seq(Letters)
  BY LeavingType
<1>13. Writing \o Append(Sending, c) = Append(Writing \o Sending, c)
  BY <1>5, <1>12, ConcatAppend
<1>. QED BY <1>10, <1>11, <1>13 DEF Leaving, c

LEMMA LeavingOtherwise ==
  ASSUME RtxIInv, Pointers, AllTidy, Programs, Texts, Written, Asked, [ConsoleNext]_consoleVars,
         ~CrtSends, ~UartActs, char_out \in Letters
  PROVE  Leaving' = Leaving /\ char_out' = char_out
<1>0. /\ Uart \in Client /\ Uart \in Proc /\ Kcd \in Proc /\ Crt \in Proc /\ Prio \in Proc
      /\ Uart # Kcd /\ Uart # Crt /\ Uart # Prio /\ ~Acts(Uart) /\ Coming(Uart) \in Seq(MemBlock)
  BY ClientsAreProc, ClientsDiffer, LeavingType DEF Client, Acts
<1>1. Unwritten(Coming(Uart))
  BY <1>0, ComingUnwritten
<1>2. SUFFICES /\ Coming(Uart)' = Coming(Uart) /\ char_out' = char_out
               /\ pc'[Uart] = "write" <=> pc[Uart] = "write"
  BY <1>0, <1>1, LeavingStays
<1>3. CASE \/ Boot /\ UNCHANGED <<localVars, userVars, historyVars>>
           \/ TypesInVain \/ UNCHANGED consoleVars
  <2>1. UNCHANGED <<mailbox, rx, pc, msg, char_out>>
    BY <1>3 DEF Boot, TypesInVain, consoleVars, localVars, rtxVars, dataVars, mailVars
  <2>2. Inbox' = Inbox
    BY <2>1, InboxRests DEF RtxIInv
  <2>. QED BY <2>1, <2>2, ComingStays
<1>4. CASE Types
  <2>1. UNCHANGED <<pc, msg, char_out>>
    BY <1>4 DEF Types
  <2>2. Inbox'[Uart] = Inbox[Uart]
    <3>1. InboxGets(Head(available), Kcd)
      BY <1>4, InboxOfSerial DEF Types, RtxIInv
    <3>. QED BY <1>0, <3>1 DEF InboxGets
  <2>. QED BY <2>1, <2>2, ComingStays
<1>5. ASSUME NEW r \in Client, ClientStep(r)
      PROVE  /\ Coming(Uart)' = Coming(Uart) /\ char_out' = char_out
             /\ pc'[Uart] = "write" <=> pc[Uart] = "write"
  <2>1. char_out' = char_out
    BY <1>5 DEF ClientStep, Waits, Gets, Obtains, localVars
  <2>2. pc'[Uart] = "write" <=> pc[Uart] = "write"
    <3>1. r \in Proc
      BY ClientsAreProc
    <3>2. /\ \A q \in Proc \ {r} : pc'[q] = pc[q]
          /\ <<pc[r], pc'[r]>> \in {<<"receive", "got">>, <<"request", "fill">>,
                                    <<"request2", "fill2">>, <<pc[r], pc[r]>>}
      BY <1>5, <3>1, ClientProceeds
    <3>. QED BY <1>0, <3>1, <3>2
  <2>. QED BY <1>0, <1>5, <2>1, <2>2, ComingWaits
<1>6. ASSUME NEW r \in Proc \ {Uart}, NEW point, GoesFrom(r, point), Inbox'[Uart] = Inbox[Uart],
             char_out' = char_out
      PROVE  /\ Coming(Uart)' = Coming(Uart) /\ char_out' = char_out
             /\ pc'[Uart] = "write" <=> pc[Uart] = "write"
  <2>1. pc'[Uart] = pc[Uart]
    BY <1>0, <1>6 DEF GoesFrom, Pointers
  <2>. QED BY <1>0, <1>6, <2>1, ComingGoesOn
<1>7. CASE Decoder
  BY <1>0, <1>6, <1>7, DecoderPosts
<1>8. CASE Command
  BY <1>0, <1>6, <1>8, PriorityPosts
<1>9. CASE Output
  <2>1. Inbox' = Inbox /\ CrtActs
    BY <1>9, OutputPosts DEF Output, CrtActs, UartActs
  <2>2. char_out' = char_out /\ \E point : GoesFrom(Crt, point)
    BY <1>9, <2>1, OutputPosts
  <2>. QED BY <1>0, <1>6, <2>1, <2>2
<1>. QED BY <1>3, <1>4, <1>5, <1>7, <1>8, <1>9 DEF ConsoleNext, Processor

-----------------------------------------------------------------------------
(* What the CRT is sent. *)

\* A text is put behind those that wait for the CRT, which is in the middle of one.
CrtGets(b) == InboxGets(b, Crt) /\ content'[b].text \in Seq(Letters) /\ Readable(content'[b].text)

LEMMA EchoPrints ==
  ASSUME RtxIInv, Pointers, AllTidy, Texts, Written, KcdMail, [ConsoleNext]_consoleVars,
         KcdEchoes
  PROVE  \E b : CrtGets(b)
<1>0. Kcd \in Client /\ Kcd \in Proc /\ Crt # Kcd
  BY ClientsAreProc, ClientsDiffer DEF Client
<1>. DEFINE m == msg[Kcd]
            d == CharAt(Text(Kcd), 1)
            s == IF d = CR THEN <<CR, LF>> ELSE <<d>>
<1>1. /\ pc[Kcd] = "got" /\ Mail(Kcd, m, Crt, s) /\ pc'[Kcd] # "got"
      /\ content[m].type # REGISTER_CMD
  BY <1>0 DEF KcdEchoes, GoOn, Pointers
<1>2. m \in MemBlock /\ InboxGets(m, Crt) /\ Inbox'[Kcd] = Inbox[Kcd]
  BY <1>0, <1>1, SendsInbox DEF Mail
<1>3. KcdEnds
  BY <1>1, <1>2, DecoderGoesOn
<1>4. PICK c \in Printed : Text(Kcd) = <<c>> /\ d = c
  BY <1>3, EchoesOne
<1>5. s \in Seq(Letters) /\ Len(s) >= 1 /\ Readable(s)
  <2>1. CASE c = CR
    <3>1. s = <<CR, LF>> /\ Len(<<CR, LF>>) = 2
      BY <1>4, <2>1
    <3>. QED BY <3>1, ControlsAreText, NewLineReadable
  <2>2. CASE c # CR
    <3>1. s = <<c>> /\ Len(<<c>>) = 1
      BY <1>4, <2>2
    <3>2. <<c>> \in Seq(Letters)
      BY DEF Letters
    <3>. QED BY <3>1, <3>2, EchoReadable
  <2>. QED BY <2>1, <2>2
<1>. HIDE DEF s, m
<1>6. content'[m].text = Overwrite(content[m].text, s)
  <2>1. content' = [content EXCEPT ![m].text = Overwrite(content[m].text, s), ![m].tx = Kcd]
    BY <1>1 DEF Mail
  <2>2. Rewrites(m, Kcd, Overwrite(content[m].text, s))
    BY <1>2, <2>1, TextWritten DEF Texts
  <2>. QED BY <1>2, <2>2 DEF Rewrites, Texts
<1>7. content[m].text = <<c>> /\ <<c>> \in Seq(Letters) /\ Len(<<c>>) = 1
  <2>1. content[m].text = <<c>>
    BY <1>4 DEF Text, m
  <2>. QED BY <2>1 DEF Letters
<1>8. Overwrite(<<c>>, s) = s
  BY <1>5, <1>7, OverwriteProperties
<1>9. content'[m].text = s
  BY <1>6, <1>7, <1>8
<1>. QED BY <1>2, <1>5, <1>9 DEF CrtGets

LEMMA ClearPrints ==
  ASSUME RtxIInv, Pointers, AllTidy, Texts, Written, KcdSendsClear
  PROVE  \E b : CrtGets(b)
<1>0. Kcd \in Client /\ Kcd \in Proc
  BY ClientsAreProc DEF Client
<1>. DEFINE m == new[Kcd]
<1>1. /\ pc[Kcd] = "fill2" /\ Mail(Kcd, m, Crt, <<FF>>)
  BY DEF KcdSendsClear
<1>2. m \in MemBlock /\ InboxGets(m, Crt)
  BY <1>1, SendsInbox DEF Mail
<1>3. content[m] = Blank
  BY <1>0, <1>1, BlankToFill
<1>. HIDE DEF m
<1>4. content'[m].text = Overwrite(content[m].text, <<FF>>)
  <2>1. content' = [content EXCEPT ![m].text = Overwrite(content[m].text, <<FF>>), ![m].tx = Kcd]
    BY <1>1 DEF Mail
  <2>2. Rewrites(m, Kcd, Overwrite(content[m].text, <<FF>>))
    BY <1>2, <2>1, TextWritten DEF Texts
  <2>. QED BY <1>2, <2>2 DEF Rewrites, Texts
<1>5. content'[m].text = <<FF>>
  BY <1>3, <1>4, BlankIsContent, OverwriteBlank, ControlsAreText
<1>6. Readable(<<FF>>)
  <2>1. FF \in Printed
    BY DEF Printed
  <2>. QED BY <2>1, EchoReadable
<1>. QED BY <1>2, <1>5, <1>6, ControlsAreText DEF CrtGets

LEMMA ReplyPrints ==
  ASSUME RtxIInv, Pointers, AllTidy, Texts, Written, ShortTexts, PrioComplains \/ PrioReplies
  PROVE  \E b : CrtGets(b)
<1>. DEFINE m == msg[Prio]
            old == content[m].text
<1>1. Send(Prio, m, Crt)
  BY DEF PrioComplains, PrioReplies, Mail
<1>2. m \in MemBlock /\ InboxGets(m, Crt)
  BY <1>1, SendsInbox
<1>3. old \in Seq(Letters) /\ Short(old) /\ Divided(old) \in Seq(Letters) /\ Short(Divided(old))
  <2>1. old \in Seq(Letters) /\ Short(old)
    BY <1>2 DEF Texts, Content, ShortTexts
  <2>. HIDE DEF old
  <2>. QED BY <2>1, DividedProperties DEF Short
<1>4. ASSUME NEW x \in Seq(Letters), Short(x), NEW kind \in ReplyKind,
             content' = [content EXCEPT ![m].text = Overwrite(x, Reply[kind]), ![m].tx = Prio]
      PROVE  CrtGets(m)
  <2>. HIDE DEF m
  <2>1. Rewrites(m, Prio, Overwrite(x, Reply[kind]))
    BY <1>2, <1>4, TextWritten DEF Texts
  <2>2. content'[m].text = Overwrite(x, Reply[kind])
    BY <1>2, <2>1 DEF Rewrites, Texts
  <2>3. Overwrite(x, Reply[kind]) \in Seq(Letters) /\ Readable(Overwrite(x, Reply[kind]))
    BY <1>4, ReplyIsText, OverwriteProperties, ReplyReadable
  <2>. QED BY <1>2, <2>2, <2>3 DEF CrtGets
<1>5. CASE PrioComplains
  <2>1. PICK kind \in Complaint(old) :
          content' = [content EXCEPT
             ![m].text = Overwrite(IF kind = "bad" THEN @ ELSE Divided(@), Reply[kind]),
             ![m].tx = Prio]
    BY <1>5 DEF PrioComplains, Text
  <2>2. kind \in ReplyKind
    BY <2>1 DEF Complaint, ReplyKind
  <2>. DEFINE x == IF kind = "bad" THEN old ELSE Divided(old)
  <2>3. x \in Seq(Letters) /\ Short(x)
    BY <1>3
  <2>4. content' = [content EXCEPT ![m].text = Overwrite(x, Reply[kind]), ![m].tx = Prio]
    BY <2>1
  <2>. HIDE DEF x, old, m
  <2>. QED BY <1>4, <2>2, <2>3, <2>4
<1>6. CASE PrioReplies
  <2>1. content' = [content EXCEPT ![m].text = Overwrite(old, Reply[reply]), ![m].tx = Prio]
    BY <1>6 DEF PrioReplies, Mail
  <2>2. reply \in ReplyKind
    BY DEF Texts
  <2>. HIDE DEF old, m
  <2>. QED BY <1>3, <1>4, <2>1, <2>2
<1>. QED BY <1>5, <1>6

LEMMA CrtIsSent ==
  ASSUME RtxIInv, Pointers, AllTidy, Texts, Written, KcdMail, ShortTexts,
         [ConsoleNext]_consoleVars, Prints
  PROVE  \E b : CrtGets(b)
BY EchoPrints, ClearPrints, ReplyPrints DEF Prints

-----------------------------------------------------------------------------
(* What a step does to the texts that the CRT has still to send on. *)

LEMMA QueuedStay ==
  ASSUME NEW s \in Seq(MemBlock), Inbox[Crt] = s, Inbox'[Crt] = s, Unwritten(s)
  PROVE  TextsFor(Crt)' = TextsFor(Crt)
<1>1. TextsFor(Crt) = Values(s, Strings(content))
  BY TextsNow
<1>2. TextsFor(Crt)' = Values(s, Strings(content'))
  BY TextsNext
<1>. QED BY <1>1, <1>2, LeadsStay

LEMMA EnteringStays ==
  ASSUME RtxIInv, Pointers, AllTidy, Texts, Written, [ConsoleNext]_consoleVars,
         Inbox'[Crt] = Inbox[Crt], Printing' = Printing
  PROVE  Entering' = Entering
<1>1. Crt \in Proc
  BY ClientsAreProc DEF Client
<1>2. Inbox[Crt] \in Seq(MemBlock) /\ Unwritten(Inbox[Crt])
  BY <1>1, InboxUnwritten, InboxType DEF RtxIInv
<1>3. TextsFor(Crt)' = TextsFor(Crt)
  BY <1>2, QueuedStay
<1>. QED BY <1>3 DEF Entering

\* What it is printing stays as long as its program does not go on.
LEMMA PrintingStays ==
  ASSUME RtxIInv, Pointers, AllTidy, Texts, Written, [ConsoleNext]_consoleVars,
         ~CrtActs, ~ClientStep(Crt)
  PROVE  Printing' = Printing
<1>0. Crt \in Client /\ Crt \in Proc /\ Tidy(Crt) /\ ~Acts(Crt)
  BY ClientsAreProc, ClientsDiffer DEF Client, AllTidy, Acts
<1>1. pc'[Crt] = pc[Crt] /\ msg'[Crt] = msg[Crt] /\ pos' = pos
  BY <1>0, ProgramRests, PosStays
<1>2. pc[Crt] \in {"got", "request", "fill"} => Text(Crt)' = Text(Crt)
  <2>1. pc[Crt] \in {"got", "request", "fill"} => msg[Crt] \in held[Crt]
    BY <1>0 DEF Tidy, Named
  <2>2. msg[Crt] \in held[Crt] => content'[msg[Crt]] = content[msg[Crt]]
    BY <1>0, MessageRests
  <2>. QED BY <1>1, <2>1, <2>2 DEF Text
<1>. QED BY <1>1, <1>2 DEF Printing

LEMMA CrtTakesOne ==
  ASSUME RtxIInv, Pointers, AllTidy, Texts, Written, CrtAt, [ConsoleNext]_consoleVars, CrtSends
  PROVE  Entering = <<CharAt(Text(Crt), pos)>> \o Entering'
<1>0. Crt \in Client /\ Crt \in Proc /\ Tidy(Crt) /\ Crt # Uart
  BY ClientsAreProc, ClientsDiffer DEF Client, AllTidy
<1>1. pc[Crt] = "fill" /\ pc'[Crt] = "got" /\ pos' = pos + 1 /\ msg' = msg
      /\ Mail(Crt, new[Crt], Uart, <<CharAt(Text(Crt), pos)>>)
  BY <1>0 DEF CrtSends, GoOn, Pointers
<1>2. msg[Crt] \in MemBlock /\ new[Crt] \in MemBlock /\ msg[Crt] # new[Crt]
  <2>1. msg[Crt] \in held[Crt] /\ msg[Crt] # new[Crt]
    BY <1>0, <1>1 DEF Tidy, Named
  <2>2. new[Crt] \in MemBlock
    BY <1>1, SendCalls DEF Mail
  <2>. QED BY <1>0, <2>1, <2>2 DEF RtxIInv, Accounts, DataTypeOK
<1>. DEFINE t == Text(Crt)
<1>3. t \in Seq(Letters) /\ pos \in DOMAIN t /\ t[pos] # NUL /\ pos \in Nat \ {0}
  BY <1>1, <1>2 DEF Text, Texts, Content, CrtAt
<1>4. Text(Crt)' = t
  <2>1. Rewrites(new[Crt], Crt, Overwrite(content[new[Crt]].text, <<CharAt(Text(Crt), pos)>>))
    BY <1>1, <1>2, TextWritten DEF Mail, Texts
  <2>2. content'[msg[Crt]].text = content[msg[Crt]].text
    BY <1>2, <2>1 DEF Rewrites, Texts
  <2>. QED BY <1>1, <2>2 DEF Text
<1>5. Printing = StringAt(t, pos) /\ Printing' = StringAt(t, pos + 1)
  BY <1>1, <1>4 DEF Printing
<1>. HIDE DEF t
<1>6. Printing = <<t[pos]>> \o Printing'
  BY <1>3, <1>5, StringAtNext
<1>7. TextsFor(Crt)' = TextsFor(Crt)
  <2>1. Inbox'[Crt] = Inbox[Crt]
    BY OutputPosts DEF Output
  <2>2. Inbox[Crt] \in Seq(MemBlock) /\ Unwritten(Inbox[Crt])
    BY <1>0, InboxUnwritten, InboxType DEF RtxIInv
  <2>. QED BY <2>1, <2>2, QueuedStay
<1>. DEFINE q == FlattenSeq(TextsFor(Crt))
            one == <<t[pos]>>
            p == StringAt(t, pos + 1)
<1>8. q \in Seq(Letters)
  BY <1>3, EnteringType
<1>9. one \in Seq(Letters)
  BY <1>3, ElementOfSeq, LenProperties
<1>10. p \in Seq(Letters)
  <2>1. pos + 1 \in Nat \ {0}
    BY <1>3
  <2>. QED BY <1>3, <2>1, StringAtType
<1>11. Entering = (one \o p) \o q /\ Entering' = p \o q
  BY <1>5, <1>6, <1>7 DEF Entering
<1>12. CharAt(t, pos) = t[pos]
  BY <1>3 DEF CharAt
<1>. HIDE DEF one, p, q
<1>13. (one \o p) \o q = one \o (p \o q)
  BY ONLY <1>8, <1>9, <1>10, ConcatAssociative
<1>. QED BY <1>11, <1>12, <1>13 DEF one, t

\* The CRT receives a text: it was the first of those that were waiting.
LEMMA CrtReceives ==
  ASSUME RtxIInv, RtxIInv', Pointers, AllTidy, Texts, Written, CrtAt,
         [ConsoleNext]_consoleVars, Gets(Crt)
  PROVE  Entering' = Entering
<1>0. Crt \in Client /\ Crt \in Proc /\ Tidy(Crt)
  BY ClientsAreProc DEF Client, AllTidy
<1>1. PICK b \in MemBlock :
          /\ msg' = [msg EXCEPT ![Crt] = b]
          /\ pc[Crt] = "receive" /\ pc' = [pc EXCEPT ![Crt] = "got"]
  BY <1>0, GetsHolds
<1>2. /\ msg'[Crt] = b /\ pc'[Crt] = "got" /\ content' = content
      /\ pos = 1 /\ pos' = pos
  BY <1>0, <1>1 DEF Gets, Pointers, CrtAt
<1>3. Coming(Crt)' = Coming(Crt)
  BY <1>0, ComingWaits DEF ClientStep
<1>4. Coming(Crt)' = <<b>> \o Inbox'[Crt]
  BY <1>2 DEF Coming, Handed
<1>5. Coming(Crt) = Inbox[Crt] /\ Inbox[Crt] \in Seq(MemBlock)
  BY <1>0, <1>1, ComingType
<1>. DEFINE s == Inbox'[Crt]
            one == <<b>>
            v == Strings(content)
            t == v[b]
            ss == Values(s, v)
<1>6. s \in Seq(MemBlock) /\ one \in Seq(MemBlock)
  BY <1>0, InboxNext
<1>7. /\ Printing = <<>> /\ Printing' = t
  BY <1>1, <1>2 DEF Printing, Text, Strings
<1>8. TextsFor(Crt) = Values(one \o s, v)
  BY <1>3, <1>4, <1>5, TextsNow
<1>9. TextsFor(Crt)' = ss
  BY <1>2, <1>6, TextsNext
<1>10. t \in Seq(Letters) /\ \A m \in MemBlock : v[m] \in Seq(Letters)
  BY StringAtType DEF Strings, Texts, Content
<1>11. Values(one, v) = <<t>>
  BY DEF Values
<1>. HIDE DEF v, s
<1>12. ss \in Seq(Seq(Letters))
  <2>1. \A i \in DOMAIN s : v[s[i]] \in Seq(Letters)
    BY <1>6, <1>10, LenProperties, ElementOfSeq
  <2>. QED BY <1>6, <2>1, ValuesType
<1>. HIDE DEF one
<1>13. Values(one \o s, v) = Values(one, v) \o ss
  BY ONLY <1>6, ValuesConcat DEF ss
<1>. HIDE DEF ss, t
<1>14. FlattenSeq(<<t>> \o ss) = t \o FlattenSeq(ss)
  BY <1>10, <1>12, FlattenFirst
<1>15. Entering = <<>> \o (t \o FlattenSeq(ss)) /\ Entering' = t \o FlattenSeq(ss)
  BY <1>7, <1>8, <1>9, <1>11, <1>13, <1>14 DEF Entering
<1>16. t \o FlattenSeq(ss) \in Seq(Letters)
  BY <1>10, <1>12, FlattenType, ConcatProperties
<1>. QED BY <1>15, <1>16, ConcatEmptySeq

LEMMA CrtGoesOn ==
  ASSUME RtxIInv, RtxIInv', Pointers, AllTidy, Programs, Texts, Written, CrtAt,
         [ConsoleNext]_consoleVars, CrtLoops \/ CrtReleases \/ ClientStep(Crt)
  PROVE  Entering' = Entering
<1>0. Crt \in Client /\ Crt \in Proc /\ Tidy(Crt)
  BY ClientsAreProc DEF Client, AllTidy
<1>1. CASE CrtLoops
  <2>1. /\ pc[Crt] = "got" /\ pc'[Crt] = "request" /\ UNCHANGED <<content, msg, pos>>
        /\ UNCHANGED rtxVars
    BY <1>0, <1>1 DEF CrtLoops, GoOn, Pointers
  <2>2. Printing' = Printing
    BY <2>1 DEF Printing, Text
  <2>. QED BY <2>1, <2>2, QuietInbox, EnteringStays
<1>2. CASE CrtReleases
  <2>1. /\ pc[Crt] = "got" /\ pc'[Crt] = "receive" /\ CharAt(Text(Crt), pos) = NUL
        /\ Free(Crt, msg[Crt])
    BY <1>0, <1>2 DEF CrtReleases, GoOn, Pointers
  <2>2. StringAt(Text(Crt), pos) = <<>>
    <3>1. msg[Crt] \in MemBlock
      BY <1>0, <2>1 DEF Tidy, Named, RtxIInv, Accounts, DataTypeOK
    <3>2. Text(Crt) \in Seq(Letters) /\ pos \in Nat \ {0}
      BY <3>1 DEF Text, Texts, Content, CrtAt
    <3>. QED BY <2>1, <3>2, StringAtEnd
  <2>3. Printing' = Printing
    BY <2>1, <2>2 DEF Printing
  <2>4. Inbox' = Inbox
    BY <2>1, FreesInbox
  <2>. QED BY <2>3, <2>4, EnteringStays
<1>3. CASE Gets(Crt)
  BY <1>3, CrtReceives
<1>4. CASE Waits(Crt)
  <2>1. UNCHANGED <<mailbox, rx, content, pc, msg, pos>>
    BY <1>4 DEF Waits, RequestFindsNone, RequestBlocks, ReleaseUnblocks, SendUnblocks,
                ReceiveFindsNone, ReceiveBlocks, dataVars, mailVars, localVars
  <2>2. Inbox' = Inbox
    BY <2>1, InboxRests DEF RtxIInv
  <2>3. Printing' = Printing
    BY <2>1 DEF Printing, Text
  <2>. QED BY <2>2, <2>3, EnteringStays
<1>5. CASE Obtains(Crt)
  <2>1. UNCHANGED <<mailbox, rx, content, msg, pos>>
    BY <1>5 DEF Obtains, Request, dataVars, mailVars
  <2>2. Inbox' = Inbox
    BY <2>1, InboxRests DEF RtxIInv
  <2>3. pc[Crt] = "request" /\ pc'[Crt] = "fill"
    BY <1>0, <1>5, ObtainsHolds DEF Pointers, Programs
  <2>4. Printing' = Printing
    BY <2>1, <2>3 DEF Printing, Text
  <2>. QED BY <2>2, <2>4, EnteringStays
<1>. QED BY <1>1, <1>2, <1>3, <1>4, <1>5 DEF ClientStep

LEMMA EnteringGrows ==
  ASSUME RtxIInv, Pointers, AllTidy, Texts, Written, CrtAt, [ConsoleNext]_consoleVars,
         Printing' = Printing, NEW b, CrtGets(b)
  PROVE  \E t \in Seq(Letters) : /\ Entering' = Entering \o t
                                 /\ t = <<>> \/ IsPrinted(t)
<1>0. Crt \in Proc /\ b \in MemBlock
  BY ClientsAreProc DEF Client, CrtGets, InboxGets
<1>. DEFINE s == Inbox[Crt]
            t == StringAt(content'[b].text, 1)
            r == Append(s, b)
            v == Strings(content')
            ss == TextsFor(Crt)
            q == FlattenSeq(ss)
<1>1. /\ s \in Seq(MemBlock) /\ ss \in Seq(Seq(Letters)) /\ q \in Seq(Letters)
      /\ Printing \in Seq(Letters)
  BY EnteringType DEF CrtAt
<1>2. t \in Seq(Letters) /\ (t = <<>> \/ IsPrinted(t)) /\ v[b] = t
  BY <1>0, StringAtType DEF CrtGets, Readable, Strings
<1>3. Inbox'[Crt] = r
  BY DEF CrtGets, InboxGets
<1>4. Unwritten(s)
  BY <1>0, InboxUnwritten
<1>5. ss = Values(s, Strings(content))
  BY <1>1, TextsNow
<1>. HIDE DEF s, t, ss
<1>6. r \in Seq(MemBlock)
  BY <1>0, <1>1, AppendProperties
<1>. HIDE DEF r, q
<1>7. TextsFor(Crt)' = Values(r, v)
  BY <1>3, <1>6, TextsNext
<1>. HIDE DEF v
<1>8. Values(r, v) = Append(Values(s, v), v[b])
  BY <1>0, <1>1, ValuesAppend DEF r
<1>9. Values(s, v) = ss
  BY <1>1, <1>4, <1>5, LeadsStay DEF v
<1>10. TextsFor(Crt)' = Append(ss, t)
  BY <1>2, <1>7, <1>8, <1>9
<1>11. FlattenSeq(Append(ss, t)) = q \o t
  BY <1>1, <1>2, FlattenAppend DEF q
<1>12. Entering' = Printing \o (q \o t) /\ Entering = Printing \o q
  BY <1>10, <1>11 DEF Entering, q, ss
<1>13. (Printing \o q) \o t = Printing \o (q \o t)
  <2>. DEFINE p == Printing
  <2>1. p \in Seq(Letters) /\ q \in Seq(Letters) /\ t \in Seq(Letters)
    BY <1>1, <1>2
  <2>. HIDE DEF p
  <2>2. (p \o q) \o t = p \o (q \o t)
    BY ONLY <2>1, ConcatAssociative
  <2>. QED BY <2>2 DEF p
<1>. QED BY <1>2, <1>12, <1>13

LEMMA EnteringOtherwise ==
  ASSUME RtxIInv, RtxIInv', Pointers, AllTidy, Programs, Texts, Written, Asked,
         ShortTexts, KcdMail, CrtAt, [ConsoleNext]_consoleVars, ~CrtSends
  PROVE  \E t \in Seq(Letters) : /\ Entering' = Entering \o t
                                 /\ t = <<>> \/ IsPrinted(t)
<1>0. Crt \in Client /\ Crt \in Proc /\ Kcd \in Proc /\ Prio \in Proc /\ Crt # Kcd /\ Crt # Prio
  BY ClientsAreProc, ClientsDiffer DEF Client
<1>1. SUFFICES ASSUME ~ \E t \in Seq(Letters) : /\ Entering' = Entering \o t
                                                /\ t = <<>> \/ IsPrinted(t)
               PROVE  FALSE
  OBVIOUS
<1>2. Entering' # Entering
  <2>1. Entering \o <<>> = Entering /\ <<>> \in Seq(Letters)
    BY EnteringType, ConcatEmptySeq, EmptySeq DEF CrtAt
  <2>. QED BY <1>1, <2>1
<1>3. ~CrtActs /\ ~ClientStep(Crt)
  BY <1>2, CrtGoesOn DEF CrtActs
<1>4. Printing' = Printing
  BY <1>3, PrintingStays
<1>5. Inbox'[Crt] # Inbox[Crt]
  BY <1>2, <1>4, EnteringStays
<1>6. ~Prints
  BY <1>1, <1>4, CrtIsSent, EnteringGrows
<1>7. ~Decoder /\ ~Command /\ ~Output
  BY <1>5, <1>6, DecoderPosts, PriorityPosts, OutputPosts
<1>8. ~(\E r \in Client : ClientStep(r))
  <2>1. SUFFICES ASSUME NEW r \in Client, ClientStep(r) PROVE FALSE
    OBVIOUS
  <2>2. r \in Proc /\ r # Crt
    BY <1>3, <2>1, ClientsAreProc
  <2>3. CASE Gets(r)
    <3>1. InboxGives(r)
      BY <2>2, <2>3, InboxOfReceive DEF Gets, RtxIInv
    <3>. QED BY <1>0, <1>5, <2>2, <3>1 DEF InboxGives
  <2>4. CASE Waits(r) \/ Obtains(r)
    <3>1. UNCHANGED <<mailbox, rx>>
      BY <2>4 DEF Waits, Obtains, Request, RequestFindsNone, RequestBlocks, ReleaseUnblocks, SendUnblocks,
                  ReceiveFindsNone, ReceiveBlocks, dataVars, mailVars
    <3>. QED BY <1>5, <3>1, InboxRests DEF RtxIInv
  <2>. QED BY <2>1, <2>3, <2>4 DEF ClientStep
<1>9. ~Types
  <2>1. Types => InboxGets(Head(available), Kcd)
    BY InboxOfSerial DEF Types, RtxIInv
  <2>. QED BY <1>0, <1>5, <2>1 DEF InboxGets
<1>10. UNCHANGED <<mailbox, rx>>
  BY <1>7, <1>8, <1>9 DEF ConsoleNext, Processor, Boot, TypesInVain, consoleVars, rtxVars, dataVars, mailVars
<1>. QED BY <1>5, <1>10, InboxRests DEF RtxIInv

-----------------------------------------------------------------------------
(* The CRT and the uart process are a terminal. *)

LEMMA DisplayConcat ==
  ASSUME NEW T, NEW s \in Seq(T), NEW t \in Seq(T)
  PROVE  IsPrefix(s, s \o t) /\ SubSeq(s \o t, Len(s) + 1, Len(s \o t)) = t
<1>. DEFINE c == s \o t
<1>1. c \in Seq(T) /\ Len(c) = Len(s) + Len(t)
  BY ConcatProperties
<1>2. SubSeq(c, 1, Len(s)) = s
  BY SubSeqOfConcat1
<1>3. SubSeq(c, Len(s) + 1, Len(s) + Len(t)) = t
  BY SubSeqOfConcat2
<1>4. SubSeq(s, 1, Len(s)) = s
  BY SubSeqFull
<1>5. Len(s) \in Nat /\ Len(t) \in Nat
  BY LenProperties
<1>. HIDE DEF c
<1>6. Len(s) <= Len(c)
  BY <1>1, <1>5
<1>. QED BY <1>1, <1>2, <1>3, <1>4, <1>6 DEF IsPrefix

TermInv == TextInv /\ char_out \in Letters

\* Everything that TextInv and the character tell the lemmas above.
LEMMA TermFacts ==
  ASSUME TermInv
  PROVE  /\ RtxIInv /\ Pointers /\ AllTidy /\ Programs /\ Texts /\ Written /\ Asked
         /\ ShortTexts /\ KcdMail /\ CrtAt /\ char_out \in Letters /\ pos \in Nat \ {0}
BY DEF TermInv, TextInv, ConsoleInv, KernelInv, CrtAt

LEMMA InitTermInv == ConsoleInit => TermInv
<1>. SUFFICES ASSUME ConsoleInit PROVE TermInv
  OBVIOUS
<1>1. char_out = NUL
  BY DEF ConsoleInit, ProgramInit
<1>. QED BY <1>1, InitTextInv DEF TermInv, Letters

LEMMA StepTermInv == TermInv /\ [ConsoleNext]_consoleVars => TermInv'
<1>. SUFFICES ASSUME TermInv, [ConsoleNext]_consoleVars PROVE TermInv'
  OBVIOUS
<1>1. TextInv'
  BY StepTextInv DEF TermInv
<1>2. char_out' \in Letters
  <2>1. CASE UartTakes
    <3>1. Uart \in Client /\ Uart \in Proc
      BY ClientsAreProc DEF Client
    <3>2. msg[Uart] \in MemBlock
      BY <2>1, <3>1, TermFacts DEF UartTakes, Tidy, AllTidy, Named, RtxIInv, Accounts, DataTypeOK
    <3>3. Text(Uart) \in Seq(Letters)
      BY <3>2, TermFacts DEF Texts, Content, Text
    <3>. QED BY <2>1, <3>3, CharAtIsLetter DEF UartTakes
  <2>2. CASE UartWrites
    BY <2>2, TermFacts DEF UartWrites
  <2>3. CASE CrtSends
    BY <2>3, TermFacts DEF CrtSends
  <2>4. CASE ~CrtSends /\ ~UartActs
    BY <2>4, TermFacts, LeavingOtherwise
  <2>. QED BY <2>1, <2>2, <2>3, <2>4 DEF UartActs
<1>. QED BY <1>1, <1>2 DEF TermInv

LEMMA PendingIs ==
  TermInv => /\ Leaving \in Seq(Letters) /\ Entering \in Seq(Letters)
             /\ Pending = Leaving \o Entering
<1>. SUFFICES ASSUME TermInv
              PROVE  /\ Leaving \in Seq(Letters) /\ Entering \in Seq(Letters)
                     /\ Pending = Leaving \o Entering
  OBVIOUS
<1>1. Leaving \in Seq(Letters) /\ Entering \in Seq(Letters)
  BY TermFacts, LeavingType, EnteringType
<1>2. Leaving \in Seq(Letters) /\ Printing \in Seq(Letters) /\ FlattenSeq(TextsFor(Crt)) \in Seq(Letters)
  BY TermFacts, LeavingType, EnteringType
<1>. DEFINE L == Leaving
            P == Printing
            F == FlattenSeq(TextsFor(Crt))
<1>3. Pending = (L \o P) \o F
  BY DEF Pending, Leaving, Writing, Printing
<1>4. Entering = P \o F
  BY DEF Entering
<1>5. L \in Seq(Letters) /\ P \in Seq(Letters) /\ F \in Seq(Letters)
  BY <1>2
<1>. HIDE DEF L, P, F
<1>6. (L \o P) \o F = L \o (P \o F)
  BY ONLY <1>5, ConcatAssociative
<1>. QED BY <1>1, <1>3, <1>4, <1>6 DEF L

LEMMA PendingType ==
  ASSUME TermInv
  PROVE  /\ Leaving \in Seq(Letters) /\ Entering \in Seq(Letters)
         /\ Pending = Leaving \o Entering
BY PendingIs

LEMMA PendingNext ==
  TermInv' => /\ Leaving' \in Seq(Letters) /\ Entering' \in Seq(Letters)
              /\ Pending' = Leaving' \o Entering'
<1>1. (TermInv => /\ Leaving \in Seq(Letters) /\ Entering \in Seq(Letters)
                  /\ Pending = Leaving \o Entering)'
  BY PendingIs, PTL
<1>. QED BY <1>1

\* The uart process writes a character: it was the first of those pending.
LEMMA UartTransmits ==
  ASSUME TermInv, TermInv', [ConsoleNext]_consoleVars, UartWrites
  PROVE  Pending # <<>> /\ Pending' = Tail(Pending)
<1>0. Uart \in Client /\ Crt \in Client /\ Uart \in Proc /\ Crt \in Proc /\ Crt # Uart
  BY ClientsAreProc, ClientsDiffer DEF Client
<1>1. Leaving = <<char_out>> \o Leaving'
  BY TermFacts, UartWritesOne
<1>2. Entering' = Entering
  <2>1. Inbox'[Crt] = Inbox[Crt]
    BY TermFacts, OutputPosts DEF Output
  <2>2. pc'[Crt] = pc[Crt]
    BY <1>0, TermFacts DEF UartWrites, GoOn, Pointers
  <2>3. Printing' = Printing
    BY <2>2 DEF UartWrites, Printing, Text
  <2>. QED BY <2>1, <2>3, TermFacts, EnteringStays
<1>. DEFINE L == Leaving'
            E == Entering
            one == <<char_out>>
<1>3. Pending = Leaving \o E /\ Leaving = one \o L /\ E \in Seq(Letters)
  BY <1>1, PendingType
<1>4. Pending' = L \o E /\ L \in Seq(Letters)
  BY <1>2, PendingNext
<1>5. one \in Seq(Letters) /\ char_out \in Letters
  BY TermFacts
<1>. HIDE DEF L, E
<1>6. (one \o L) \o E = one \o (L \o E)
  <2>. HIDE DEF one
  <2>. QED BY ONLY <1>3, <1>4, <1>5, ConcatAssociative
<1>. DEFINE R == L \o E
<1>7. R \in Seq(Letters)
  BY <1>3, <1>4, ConcatProperties
<1>8. Pending = one \o R /\ Pending' = R
  BY <1>3, <1>4, <1>6
<1>. HIDE DEF R
<1>9. one \o R # <<>> /\ Tail(one \o R) = R
  BY <1>5, <1>7
<1>. QED BY <1>8, <1>9

\* The CRT sends a character on: the order stays.
LEMMA CrtPasses ==
  ASSUME TermInv, TermInv', [ConsoleNext]_consoleVars, CrtSends
  PROVE  Pending' = Pending
<1>. DEFINE L == Leaving
            E == Entering'
            c == CharAt(Text(Crt), pos)
            one == <<c>>
<1>1. Leaving' = Append(L, c)
  BY TermFacts, CrtSendsOne
<1>2. Entering = one \o E
  BY TermFacts, CrtTakesOne
<1>3. Pending = L \o Entering /\ L \in Seq(Letters) /\ Pending' = Leaving' \o E /\ E \in Seq(Letters)
  BY PendingType, PendingNext
<1>4. c \in Letters
  <2>1. Crt \in Client /\ Crt \in Proc
    BY ClientsAreProc DEF Client
  <2>2. msg[Crt] \in MemBlock
    BY <2>1, TermFacts DEF CrtSends, Tidy, AllTidy, Named, RtxIInv, Accounts, DataTypeOK
  <2>3. Text(Crt) \in Seq(Letters)
    BY <2>2, TermFacts DEF Texts, Content, Text
  <2>. QED BY <2>3, CharAtIsLetter
<1>. HIDE DEF L, E, c
<1>5. one \in Seq(Letters)
  BY <1>4
<1>6. Append(L, c) = L \o one
  BY <1>3, <1>4
<1>. HIDE DEF one
<1>7. (L \o one) \o E = L \o (one \o E)
  BY ONLY <1>3, <1>5, ConcatAssociative
<1>. QED BY <1>1, <1>2, <1>3, <1>6, <1>7

\* Any other step leaves what is pending, or prints a text behind it.
LEMMA PendingGrows ==
  ASSUME TermInv, TermInv', [ConsoleNext]_consoleVars, ~CrtSends, ~UartWrites
  PROVE  \E t \in Seq(Letters) : Pending' = Pending \o t /\ (t = <<>> \/ IsPrinted(t))
<1>1. Leaving' = Leaving
  BY TermFacts, UartTakesOne, LeavingOtherwise DEF UartActs
<1>2. PICK t \in Seq(Letters) : Entering' = Entering \o t /\ (t = <<>> \/ IsPrinted(t))
  <2>1. RtxIInv'
    BY DEF TermInv, TextInv, ConsoleInv, KernelInv
  <2>. QED BY <2>1, TermFacts, EnteringOtherwise
<1>. DEFINE L == Leaving
            E == Entering
<1>3. Pending = L \o E /\ L \in Seq(Letters) /\ E \in Seq(Letters)
  BY PendingType
<1>4. Pending' = L \o (E \o t)
  BY <1>1, <1>2, PendingNext
<1>. HIDE DEF L, E
<1>5. (L \o E) \o t = L \o (E \o t)
  BY ONLY <1>2, <1>3, ConcatAssociative
<1>. QED BY <1>2, <1>3, <1>4, <1>5

LEMMA InitPending == ConsoleInit => Pending = <<>>
<1>. SUFFICES ASSUME ConsoleInit PROVE Pending = <<>>
  OBVIOUS
<1>1. TermInv
  BY InitTermInv
<1>2. pc[Uart] = "receive" /\ pc[Crt] = "receive"
  BY ClientsDiffer, ClientsAreProc DEF ConsoleInit, ProgramInit, Client
<1>3. Inbox[Crt] = <<>> /\ Inbox[Uart] = <<>>
  <2>1. Inbox = [p \in Proc |-> <<>>] /\ Crt \in Proc /\ Uart \in Proc
    BY InitPosts, ClientsAreProc DEF ConsoleInit, ProgramInit, Post!PostInit, Client
  <2>. QED BY <2>1
<1>4. Leaving = <<>>
  <2>1. Coming(Uart) = <<>> \o <<>>
    BY <1>2, <1>3 DEF Coming, Handed
  <2>2. Coming(Uart) = <<>>
    BY <2>1
  <2>3. Sending = <<>>
    BY <2>2 DEF Sending
  <2>4. Writing = <<>>
    BY <1>2 DEF Writing
  <2>. QED BY <2>3, <2>4 DEF Leaving
<1>5. Entering = <<>>
  <2>1. TextsFor(Crt) = <<>>
    BY <1>3 DEF TextsFor
  <2>2. Printing = <<>>
    BY <1>2 DEF Printing
  <2>. QED BY <2>1, <2>2, FlattenEmpty DEF Entering
<1>6. Pending = <<>> \o <<>>
  BY <1>1, <1>4, <1>5, PendingType
<1>. QED BY <1>6

LEMMA StepTerminal ==
  ASSUME TermInv, [ConsoleNext]_consoleVars
  PROVE  [Terminal!Next]_Pending
<1>0. TermInv'
  BY StepTermInv
<1>1. CASE CrtSends
  BY <1>0, <1>1, CrtPasses
<1>2. CASE UartWrites
  <2>1. Terminal!Transmit(Pending, Pending')
    BY <1>0, <1>2, UartTransmits DEF Terminal!Transmit
  <2>. QED BY <2>1 DEF Terminal!Next
<1>3. CASE ~CrtSends /\ ~UartWrites
  <2>1. PICK t \in Seq(Letters) : Pending' = Pending \o t /\ (t = <<>> \/ IsPrinted(t))
    BY <1>0, <1>3, PendingGrows
  <2>2. Pending \in Seq(Letters)
    BY PendingType, ConcatProperties
  <2>. DEFINE P == Pending
  <2>3. P \in Seq(Letters) /\ Pending' = P \o t
    BY <2>1, <2>2
  <2>4. CASE t = <<>>
    <3>1. P \o <<>> = P
      <4>. HIDE DEF P
      <4>. QED BY <2>3, ConcatEmptySeq
    <3>. QED BY <2>3, <2>4, <3>1
  <2>5. CASE IsPrinted(t)
    <3>1. IsPrefix(P, P \o t) /\ SubSeq(P \o t, Len(P) + 1, Len(P \o t)) = t
      <4>. HIDE DEF P
      <4>. QED BY ONLY <2>1, <2>3, DisplayConcat
    <3>2. Terminal!Display(Pending, Pending')
      BY <2>3, <2>5, <3>1 DEF Terminal!Display, Terminal!IsPrefix, IsPrefix
    <3>. QED BY <3>2 DEF Terminal!Next
  <2>. QED BY <2>1, <2>4, <2>5
<1>. QED BY <1>1, <1>2, <1>3

\* The inductive invariant of the terminal: that of the texts, and the character that
\* the uart process has taken is a letter.
THEOREM TermInductiveInvariant == ConsoleSpec => []TermInv
BY InitTermInv, StepTermInv, PTL DEF ConsoleSpec

\* What is sent to the CRT comes out character by character, in the order in which
\* it was sent, nothing twice and nothing left out: the CRT and the uart process
\* implement a terminal.
THEOREM ConsoleImplementsTerminal == ConsoleSpec => ImplementsTerminal
<1>1. ConsoleInit => Terminal!Init
  BY InitPending DEF Terminal!Init
<1>2. TermInv /\ [ConsoleNext]_consoleVars => [Terminal!Next]_Pending
  BY StepTerminal
<1>. QED BY <1>1, <1>2, TermInductiveInvariant, PTL
         DEF ConsoleSpec, ImplementsTerminal, Terminal!TerminalSpec

-----------------------------------------------------------------------------
(* The line that is being typed. *)

\* LineStarts and LineFrom, of any characters taken.
Starts(d, k) ==
    {j \in 1..(k - 1) : /\ d[j].char = "%"
                        /\ \A i \in (j + 1)..(k - 1) : d[i].char \notin {"%", CR}}
From(d, j, k) == [i \in 1..Min({k - j, BufferSize}) |-> d[j + i - 1].char]

LEMMA OneStart ==
  ASSUME NEW d, NEW k \in Nat, NEW i \in Starts(d, k), NEW j \in Starts(d, k)
  PROVE  i = j
<1>1. i \in 1..(k - 1) /\ j \in 1..(k - 1) /\ d[i].char = "%" /\ d[j].char = "%"
  BY DEF Starts
<1>2. j \notin (i + 1)..(k - 1) /\ i \notin (j + 1)..(k - 1)
  BY <1>1 DEF Starts
<1>. QED BY <1>1, <1>2

LEMMA MinIs ==
  ASSUME NEW m \in Int, NEW n \in Int
  PROVE  Min({m, n}) = IF m <= n THEN m ELSE n
<1>1. \E x \in {m, n} : \A y \in {m, n} : x <= y
  OBVIOUS
<1>2. Min({m, n}) \in {m, n} /\ \A y \in {m, n} : Min({m, n}) <= y
  BY <1>1 DEF Min
<1>. QED BY <1>2

LEMMA FromProperties ==
  ASSUME NEW d \in Seq(Taking), NEW k \in 1..(Len(d) + 1), NEW j \in 1..(k - 1)
  PROVE  /\ From(d, j, k) \in Seq(Printed)
         /\ Len(From(d, j, k)) = IF k - j <= BufferSize THEN k - j ELSE BufferSize
         /\ \A i \in 1..Len(From(d, j, k)) : From(d, j, k)[i] = d[j + i - 1].char
<1>. DEFINE n == Len(d)
            m == Min({k - j, BufferSize})
            f == From(d, j, k)
<1>1. n \in Nat /\ \A i \in 1..n : d[i].char \in Printed
  <2>1. n \in Nat /\ \A i \in 1..n : d[i] \in Taking
    BY LenProperties, ElementOfSeq
  <2>2. \A e \in Taking : e.char \in Printed
    BY DEF Taking
  <2>. QED BY <2>1, <2>2
<1>. HIDE DEF n
<1>2. m = (IF k - j <= BufferSize THEN k - j ELSE BufferSize) /\ m \in Nat /\ m <= k - j
  <2>1. k - j \in Nat /\ BufferSize \in Nat
    BY <1>1, BufferFacts DEF n
  <2>. QED BY <2>1, MinIs
<1>. HIDE DEF m
<1>3. \A i \in 1..m : d[j + i - 1].char \in Printed
  <2>1. \A i \in 1..m : j + i - 1 \in 1..n
    BY <1>1, <1>2 DEF n
  <2>. QED BY <1>1, <2>1
<1>4. f = [i \in 1..m |-> d[j + i - 1].char]
  BY DEF From, m
<1>5. f \in Seq(Printed) /\ Len(f) = m /\ \A i \in 1..m : f[i] = d[j + i - 1].char
  <2>. DEFINE c(i) == d[j + i - 1].char
  <2>1. m \in Nat /\ (\A i \in 1..m : c(i) \in Printed) /\ f = [i \in 1..m |-> c(i)]
    BY <1>2, <1>3, <1>4
  <2>. HIDE DEF c, f
  <2>2. f \in Seq(Printed) /\ Len(f) = m /\ \A i \in 1..m : f[i] = c(i)
    BY ONLY <2>1
  <2>. QED BY <2>2 DEF c
<1>. HIDE DEF f
<1>. QED BY <1>2, <1>5 DEF f

\* What one more character does to the beginnings of lines.
LEMMA StartsGrow ==
  ASSUME NEW d \in Seq(Taking), NEW e \in Taking
  PROVE  LET t == Append(d, e)
             n == Len(d)
         IN  /\ \A k \in 1..(n + 1) : Starts(t, k) = Starts(d, k)
             /\ e.char = "%" => Starts(t, n + 2) = {n + 1}
             /\ e.char = CR => Starts(t, n + 2) = {}
             /\ e.char \notin {"%", CR} => Starts(t, n + 2) = Starts(d, n + 1)
<1>. DEFINE t == Append(d, e)
            n == Len(d)
<1>1. n \in Nat /\ t[n + 1] = e /\ \A i \in 1..n : t[i] = d[i]
  BY LenProperties, AppendProperties
<1>. HIDE DEF t, n
<1>2. "%" # CR
  BY DEF CR
<1>3. ASSUME NEW k \in 1..(n + 1) PROVE Starts(t, k) = Starts(d, k)
  BY <1>1 DEF Starts
<1>4. ASSUME e.char = "%" PROVE Starts(t, n + 2) = {n + 1}
  <2>1. n + 1 \in Starts(t, n + 2)
    BY <1>1, <1>4 DEF Starts
  <2>2. n + 2 \in Nat
    BY <1>1
  <2>. QED BY <2>1, <2>2, OneStart
<1>5. ASSUME e.char = CR PROVE Starts(t, n + 2) = {}
  <2>1. ASSUME NEW j \in Starts(t, n + 2) PROVE FALSE
    <3>1. j \in 1..(n + 1) /\ t[j].char = "%" /\ \A i \in (j + 1)..(n + 1) : t[i].char # CR
      BY <1>1, <2>1 DEF Starts
    <3>2. j = n + 1
      BY <1>1, <1>5, <3>1
    <3>. QED BY <1>1, <1>2, <1>5, <3>1, <3>2
  <2>. QED BY <2>1
<1>6. ASSUME e.char \notin {"%", CR} PROVE Starts(t, n + 2) = Starts(d, n + 1)
  <2>1. ASSUME NEW j \in Starts(t, n + 2) PROVE j \in Starts(d, n + 1)
    <3>1. j \in 1..(n + 1) /\ t[j].char = "%" /\ \A i \in (j + 1)..(n + 1) : t[i].char \notin {"%", CR}
      BY <1>1, <2>1 DEF Starts
    <3>2. j \in 1..n
      BY <1>1, <1>6, <3>1
    <3>. QED BY <1>1, <3>1, <3>2 DEF Starts
  <2>2. ASSUME NEW j \in Starts(d, n + 1) PROVE j \in Starts(t, n + 2)
    <3>1. j \in 1..n /\ d[j].char = "%" /\ \A i \in (j + 1)..n : d[i].char \notin {"%", CR}
      BY <1>1, <2>2 DEF Starts
    <3>2. \A i \in (j + 1)..(n + 1) : t[i].char \notin {"%", CR}
      BY <1>1, <1>6, <3>1
    <3>. QED BY <1>1, <3>1, <3>2 DEF Starts
  <2>. QED BY <2>1, <2>2
<1>. QED BY <1>3, <1>4, <1>5, <1>6 DEF t, n

LEMMA FromStays ==
  ASSUME NEW d \in Seq(Taking), NEW e \in Taking, NEW k \in 1..(Len(d) + 1),
         NEW j \in 1..(k - 1)
  PROVE  From(Append(d, e), j, k) = From(d, j, k)
<1>. DEFINE t == Append(d, e)
            n == Len(d)
            m == Min({k - j, BufferSize})
<1>1. n \in Nat /\ \A i \in 1..n : t[i] = d[i]
  BY LenProperties, AppendProperties
<1>2. m \in Nat /\ m <= k - j
  <2>1. k - j \in Nat /\ BufferSize \in Nat
    BY <1>1, BufferFacts
  <2>. QED BY <2>1, MinIs
<1>. HIDE DEF m, t
<1>3. \A i \in 1..m : t[j + i - 1] = d[j + i - 1]
  BY <1>1, <1>2
<1>. QED BY <1>3 DEF From, m, t

\* The line, after the characters d.
IsLine(l, d) ==
    IF Starts(d, Len(d) + 1) = {} THEN l = <<>>
    ELSE \E j \in Starts(d, Len(d) + 1) : l = From(d, j, Len(d) + 1)
Added(l, c) ==
    IF c = "%" THEN <<c>>
    ELSE IF c = CR THEN <<>>
    ELSE IF l # <<>> /\ Len(l) < BufferSize THEN Append(l, c) ELSE l

\* There is one line.
LEMMA IsLineOf ==
  ASSUME NEW d, NEW n, Len(d) = n, NEW l
  PROVE  /\ Starts(d, n + 1) = {} => (IsLine(l, d) <=> l = <<>>)
         /\ \A j \in Starts(d, n + 1) : l = From(d, j, n + 1) => IsLine(l, d)
         /\ IsLine(l, d) => Starts(d, n + 1) = {} \/ \E j \in Starts(d, n + 1) : l = From(d, j, n + 1)
BY DEF IsLine

LEMMA LineGrows ==
  ASSUME NEW d \in Seq(Taking), NEW e \in Taking, NEW l, IsLine(l, d)
  PROVE  IsLine(Added(l, e.char), Append(d, e))
<1>. DEFINE t == Append(d, e)
            n == Len(d)
            c == e.char
<1>0. n \in Nat /\ Len(t) = n + 1 /\ t \in Seq(Taking) /\ t[n + 1] = e /\ c \in Printed
      /\ \A i \in 1..n : t[i] = d[i]
  BY LenProperties, AppendProperties DEF Taking
<1>1. /\ c = "%" => Starts(t, n + 2) = {n + 1}
      /\ c = CR => Starts(t, n + 2) = {}
      /\ c \notin {"%", CR} => Starts(t, n + 2) = Starts(d, n + 1)
  BY StartsGrow
<1>. HIDE DEF t, c
<1>2. (n + 1) + 1 = n + 2 /\ "%" # CR
  BY <1>0 DEF CR
<1>3. CASE c = "%"
  <2>. DEFINE one == <<c>>
              f == From(t, n + 1, n + 2)
  <2>1. /\ f \in Seq(Printed) /\ Len(f) = IF (n + 2) - (n + 1) <= BufferSize THEN (n + 2) - (n + 1) ELSE BufferSize
        /\ \A i \in 1..Len(f) : f[i] = t[(n + 1) + i - 1].char
    <3>1. n + 2 \in 1..(Len(t) + 1) /\ n + 1 \in 1..((n + 2) - 1)
      BY <1>0
    <3>. QED BY <1>0, <3>1, FromProperties
  <2>2. Len(f) = 1 /\ f[1] = c
    <3>1. Len(f) = 1
      <4>1. (n + 2) - (n + 1) = 1 /\ 1 <= BufferSize
        BY <1>0, BufferFacts
      <4>. HIDE DEF f, n
      <4>. QED BY <2>1, <4>1
    <3>2. f[1] = t[(n + 1) + 1 - 1].char
      BY <2>1, <3>1
    <3>. QED BY <1>0, <3>1, <3>2 DEF c
  <2>3. one \in Seq(Printed) /\ Len(one) = 1 /\ one[1] = c
    BY <1>0
  <2>. HIDE DEF f, one
  <2>4. f = one
    BY <2>1, <2>2, <2>3, SeqEqual
  <2>5. Added(l, c) = From(t, n + 1, n + 2)
    BY <1>3, <2>4 DEF Added, f, one
  <2>6. n + 1 \in Starts(t, (n + 1) + 1)
    BY <1>1, <1>2, <1>3
  <2>7. IsLine(Added(l, c), t)
    BY <1>0, <1>2, <2>5, <2>6, IsLineOf
  <2>. QED BY <2>7 DEF t, c
<1>4. CASE c = CR
  <2>1. Added(l, c) = <<>>
    BY <1>2, <1>4 DEF Added
  <2>2. IsLine(<<>>, t)
    BY <1>0, <1>1, <1>2, <1>4, IsLineOf
  <2>. QED BY <2>1, <2>2 DEF t, c
<1>5. CASE c \notin {"%", CR}
  <2>1. CASE Starts(d, n + 1) = {}
    <3>1. l = <<>>
      BY <2>1 DEF IsLine, n
    <3>2. Added(l, c) = <<>>
      BY <1>5, <3>1 DEF Added
    <3>3. IsLine(<<>>, t)
      BY <1>0, <1>1, <1>2, <1>5, <2>1, IsLineOf
    <3>. QED BY <3>2, <3>3 DEF t, c
  <2>2. CASE Starts(d, n + 1) # {}
    <3>1. PICK j \in Starts(d, n + 1) : l = From(d, j, n + 1)
      BY <2>2 DEF IsLine, n
    <3>2. j \in 1..n
      BY <1>0, <3>1 DEF Starts
    <3>. DEFINE f == From(t, j, n + 2)
    <3>3. /\ l \in Seq(Printed)
          /\ Len(l) = IF (n + 1) - j <= BufferSize THEN (n + 1) - j ELSE BufferSize
          /\ \A i \in 1..Len(l) : l[i] = d[j + i - 1].char
      <4>1. n + 1 \in 1..(Len(d) + 1) /\ j \in 1..((n + 1) - 1)
        BY <1>0, <3>2 DEF n
      <4>. QED BY <3>1, <4>1, FromProperties
    <3>4. /\ f \in Seq(Printed)
          /\ Len(f) = IF (n + 2) - j <= BufferSize THEN (n + 2) - j ELSE BufferSize
          /\ \A i \in 1..Len(f) : f[i] = t[j + i - 1].char
      <4>1. n + 2 \in 1..(Len(t) + 1) /\ j \in 1..((n + 2) - 1)
        BY <1>0, <3>2
      <4>. QED BY <1>0, <4>1, FromProperties
    <3>. HIDE DEF f, n
    <3>5. BufferSize \in Nat /\ 2 <= BufferSize
      BY BufferFacts
    <3>6. l # <<>>
      <4>1. Len(l) # 0
        BY <1>0, <3>2, <3>3, <3>5
      <4>. QED BY <4>1
    <3>7. Added(l, c) = f
      <4>1. CASE Len(l) < BufferSize
        <5>. DEFINE a == Append(l, c)
        <5>1. a \in Seq(Printed) /\ Len(a) = Len(l) + 1 /\ a[Len(l) + 1] = c
              /\ \A i \in 1..Len(l) : a[i] = l[i]
          BY <1>0, <3>3, AppendProperties
        <5>. HIDE DEF a
        <5>2. Len(l) = (n + 1) - j /\ Len(f) = (n + 2) - j
          BY <1>0, <3>2, <3>3, <3>4, <3>5, <4>1
        <5>3. \A i \in 1..Len(f) : a[i] = f[i]
          <6>. SUFFICES ASSUME NEW i \in 1..Len(f) PROVE a[i] = f[i]
            OBVIOUS
          <6>1. CASE i = Len(l) + 1
            <7>1. j + i - 1 = n + 1
              BY <1>0, <3>2, <5>2, <6>1
            <7>. QED BY <1>0, <3>4, <5>1, <6>1, <7>1 DEF c
          <6>2. CASE i # Len(l) + 1
            <7>1. i \in 1..Len(l) /\ j + i - 1 \in 1..n
              BY <1>0, <3>2, <5>2, <6>2
            <7>. QED BY <1>0, <3>3, <3>4, <5>1, <7>1
          <6>. QED BY <6>1, <6>2
        <5>4. Len(a) = Len(f)
          BY <1>0, <3>2, <5>1, <5>2
        <5>5. a = f
          BY <3>4, <5>1, <5>3, <5>4, SeqEqual
        <5>. QED BY <1>5, <3>6, <4>1, <5>5 DEF Added, a
      <4>2. CASE ~(Len(l) < BufferSize)
        <5>1. Len(l) = BufferSize /\ Len(f) = BufferSize /\ BufferSize <= (n + 1) - j
          BY <1>0, <3>2, <3>3, <3>4, <3>5, <4>2
        <5>2. \A i \in 1..Len(f) : l[i] = f[i]
          <6>. SUFFICES ASSUME NEW i \in 1..Len(f) PROVE l[i] = f[i]
            OBVIOUS
          <6>1. i \in 1..Len(l) /\ j + i - 1 \in 1..n
            BY <1>0, <3>2, <3>5, <5>1
          <6>. QED BY <1>0, <3>3, <3>4, <6>1
        <5>3. l = f
          BY <3>3, <3>4, <5>1, <5>2, SeqEqual
        <5>. QED BY <1>5, <4>2, <5>3 DEF Added
      <4>. QED BY <4>1, <4>2
    <3>8. Added(l, c) = From(t, j, (n + 1) + 1) /\ j \in Starts(t, (n + 1) + 1)
      BY <1>1, <1>2, <1>5, <3>1, <3>7 DEF f
    <3>9. IsLine(Added(l, c), t)
      BY <1>0, <3>8, IsLineOf
    <3>. QED BY <3>9 DEF t, c
  <2>. QED BY <2>1, <2>2
<1>. QED BY <1>3, <1>4, <1>5 DEF t, c


-----------------------------------------------------------------------------
(* Whose command a line is. *)

\* A line matches a command if the command is its first word.
LEMMA MatchesFirstWord ==
  ASSUME NEW S, NEW l \in Seq(S), NEW cmd \in {Clear, Switch}
  PROVE  Matches(cmd, l) <=> cmd = FirstWord(l)
<1>. DEFINE Stops == {" ", NUL}
            f == FirstOf(l, 1, Stops)
            m == Len(cmd)
            n == Len(l)
            T == {"%", "c", "l", "r", "C"}
            w == SubSeq(l, 1, f - 1)
<1>1. n \in Nat /\ DOMAIN l = 1..n
  BY LenProperties
<1>2. cmd \in Seq(T) /\ m \in Nat /\ \A i \in 1..m : cmd[i] \in T
  <2>1. Clear \in Seq(T) /\ Switch \in Seq(T)
    BY DEF Clear, Switch
  <2>2. cmd \in Seq(T)
    BY <2>1
  <2>. HIDE DEF T
  <2>. QED BY <2>2, LenProperties, ElementOfSeq
<1>3. \A x \in T : x \notin Stops
  BY DEF NUL
<1>. HIDE DEF T
<1>4. /\ f \in 1..(n + 1)
      /\ f = n + 1 \/ l[f] \in Stops
      /\ \A k \in 1..(f - 1) : l[k] \notin Stops
  <2>1. 1 \in 1..(Len(l) + 1)
    BY <1>1
  <2>. HIDE DEF Stops
  <2>. QED BY <2>1, FirstOfProperties DEF f
<1>. HIDE DEF f, m, n
<1>0. NUL \in Stops
  OBVIOUS
<1>. HIDE DEF Stops
<1>9. f \in Int /\ 1 <= f /\ f <= n + 1 /\ f - 1 \in 0..n
  <2>1. f \in 1..(n + 1)
    BY <1>4
  <2>. QED BY <1>1, <2>1
<1>5. CharAt(l, f) \in Stops
  <2>1. CASE f = n + 1
    <3>1. f \notin DOMAIN l
      BY <1>1, <2>1
    <3>. QED BY <1>0, <3>1 DEF CharAt
  <2>2. CASE f # n + 1
    <3>1. f \in DOMAIN l
      BY <1>1, <1>9, <2>2
    <3>. QED BY <1>4, <2>2, <3>1 DEF CharAt
  <2>. QED BY <2>1, <2>2
<1>6. w \in Seq(S) /\ Len(w) = f - 1 /\ \A i \in 1..(f - 1) : w[i] = l[i]
  <2>. DEFINE e == f - 1
  <2>1. 1 \in 1..(Len(l) + 1) /\ e \in 0..Len(l)
    BY <1>1, <1>9 DEF n
  <2>. HIDE DEF e
  <2>2. /\ SubSeq(l, 1, e) \in Seq(S) /\ Len(SubSeq(l, 1, e)) = e
        /\ \A i \in 1..e : SubSeq(l, 1, e)[i] = l[i]
    BY <2>1, SubSeqProperties
  <2>. QED BY <2>2 DEF e
<1>. HIDE DEF w
<1>7. ASSUME Matches(cmd, l) PROVE cmd = w
  <2>. DEFINE c == SubSeq(cmd, 1, m)
              d == SubSeq(l, 1, m)
  <2>1. m <= n /\ c = d /\ CharAt(l, m + 1) \in Stops
    BY <1>7 DEF Matches, IsPrefix, m, n, Stops
  <2>2. /\ Len(c) = m /\ \A i \in 1..m : c[i] = cmd[i]
    BY <1>2, SubSeqProperties DEF m
  <2>3. /\ Len(d) = m /\ \A i \in 1..m : d[i] = l[i]
    <3>1. 1 \in 1..(Len(l) + 1) /\ m \in 0..Len(l)
      BY <1>1, <1>2, <2>1 DEF n
    <3>. QED BY <3>1, SubSeqProperties
  <2>. HIDE DEF c, d
  <2>4. \A i \in 1..m : cmd[i] = l[i]
    BY <2>1, <2>2, <2>3
  <2>5. ~(f <= m)
    <3>. SUFFICES ASSUME f <= m PROVE FALSE
      OBVIOUS
    <3>1. f \in 1..m /\ f # n + 1
      BY <1>1, <1>2, <1>4, <2>1
    <3>. QED BY <1>2, <1>3, <1>4, <2>4, <3>1
  <2>6. ~(m + 1 < f)
    <3>. SUFFICES ASSUME m + 1 < f PROVE FALSE
      OBVIOUS
    <3>1. m + 1 \in 1..(f - 1) /\ m + 1 \in 1..n
      BY <1>1, <1>2, <1>9
    <3>2. CharAt(l, m + 1) = l[m + 1]
      BY <1>1, <3>1 DEF CharAt
    <3>. QED BY <1>4, <2>1, <3>1, <3>2
  <2>7. f - 1 = m
    BY <1>1, <1>2, <1>9, <2>5, <2>6
  <2>8. Len(w) = Len(cmd) /\ \A i \in 1..Len(w) : w[i] = cmd[i]
    BY <1>6, <2>4, <2>7 DEF m
  <2>9. w \in Seq(S \cup T) /\ cmd \in Seq(S \cup T)
    BY <1>2, <1>6
  <2>. QED BY ONLY <2>8, <2>9, SeqEqual
<1>8. ASSUME cmd = w PROVE Matches(cmd, l)
  <2>. DEFINE c == SubSeq(cmd, 1, m)
              d == SubSeq(l, 1, m)
  <2>0. m = f - 1
    BY <1>6, <1>8 DEF m
  <2>1. m = f - 1 /\ m <= n /\ m + 1 = f
    BY <1>1, <1>9, <2>0
  <2>2. c \in Seq(T) /\ Len(c) = m /\ \A i \in 1..m : c[i] = cmd[i]
    BY <1>2, SubSeqProperties DEF m
  <2>3. d \in Seq(S) /\ Len(d) = m /\ \A i \in 1..m : d[i] = l[i]
    <3>1. 1 \in 1..(Len(l) + 1) /\ m \in 0..Len(l)
      BY <1>1, <1>2, <2>1 DEF n
    <3>. QED BY <3>1, SubSeqProperties
  <2>4. \A i \in 1..m : cmd[i] = l[i]
    BY <1>6, <1>8, <2>1
  <2>. HIDE DEF c, d
  <2>5. c = d
    <3>1. c \in Seq(S \cup T) /\ d \in Seq(S \cup T)
      BY <2>2, <2>3
    <3>2. Len(c) = Len(d) /\ \A i \in 1..Len(c) : c[i] = d[i]
      BY <2>2, <2>3, <2>4
    <3>. QED BY ONLY <3>1, <3>2, SeqEqual
  <2>6. IsPrefix(cmd, l)
    BY <2>1, <2>5 DEF IsPrefix, c, d, m, n
  <2>. QED BY <1>5, <2>1, <2>6 DEF Matches, m, Stops
<1>. QED BY <1>7, <1>8 DEF FirstWord, w, f, Stops

LEMMA ListFacts ==
  ASSUME cmds \in {<<>>, First, Both}
  PROVE  /\ Len(cmds) \in 0..2 /\ DOMAIN cmds = 1..Len(cmds)
         /\ \A i \in 1..Len(cmds) : cmds[i].cmd \in {Clear, Switch} /\ cmds[i].pid \in Proc
<1>. DEFINE a == [cmd |-> Clear, pid |-> Kcd]
            b == [cmd |-> Switch, pid |-> Prio]
<1>1. /\ a.cmd = Clear /\ b.cmd = Switch /\ First = <<a>> /\ Both = <<a, b>>
      /\ a.pid \in Proc /\ b.pid \in Proc
  BY ClientsAreProc DEF First, Both, Client
<1>2. cmds \in {<<>>, <<a>>, <<a, b>>}
  BY <1>1
<1>. HIDE DEF a, b
<1>3. CASE cmds = <<>>
  BY <1>3
<1>4. CASE cmds = <<a>>
  <2>1. Len(cmds) = 1 /\ DOMAIN cmds = 1..1 /\ cmds[1] = a
    BY <1>4
  <2>. QED BY <1>1, <2>1
<1>5. CASE cmds = <<a, b>>
  <2>1. Len(cmds) = 2 /\ DOMAIN cmds = 1..2 /\ cmds[1] = a /\ cmds[2] = b
    BY <1>5
  <2>. QED BY <1>1, <2>1
<1>. QED BY <1>2, <1>3, <1>4, <1>5

\* Owner, of any list of commands.
OwnerOf(l, known, c) ==
    LET named == {i \in 1..known : c[i].cmd = FirstWord(l)}
    IN  {c[i].pid : i \in {n \in named : \A m \in named : n <= m}}

\* The decoder finds the process that has registered the first word first.
LEMMA OwnerIsMatch ==
  ASSUME cmds \in {<<>>, First, Both}, NEW S, NEW l \in Seq(S)
  PROVE  /\ OwnerOf(l, Len(cmds), cmds) = {cmds[i].pid : i \in Match(l)}
         /\ \A i, j \in Match(l) : i = j
         /\ \A i \in Match(l) : cmds[i].pid \in Proc /\ l # <<>>
<1>. DEFINE n == Len(cmds)
            Is(i) == cmds[i].cmd = FirstWord(l)
            named == {i \in 1..n : Is(i)}
            first == {i \in named : \A m \in named : i <= m}
<1>1. n \in Nat /\ DOMAIN cmds = 1..n /\ \A i \in 1..n : cmds[i].cmd \in {Clear, Switch} /\ cmds[i].pid \in Proc
  BY ListFacts
<1>. HIDE DEF n
<1>2. \A i \in 1..n : Matches(cmds[i].cmd, l) <=> Is(i)
  BY <1>1, MatchesFirstWord
<1>3. Match(l) = {i \in 1..n : Is(i) /\ \A j \in 1..(i - 1) : ~Is(j)}
  <2>1. \A i \in 1..n : \A j \in 1..(i - 1) : j \in 1..n
    BY <1>1
  <2>. QED BY <1>1, <1>2, <2>1 DEF Match
<1>4. OwnerOf(l, n, cmds) = {cmds[i].pid : i \in first}
  BY DEF OwnerOf
<1>. HIDE DEF Is
<1>5. first = Match(l)
  <2>1. ASSUME NEW i \in first PROVE i \in Match(l)
    BY <1>1, <1>3, <2>1
  <2>2. ASSUME NEW i \in Match(l) PROVE i \in first
    <3>1. i \in 1..n /\ Is(i) /\ \A j \in 1..(i - 1) : ~Is(j)
      BY <1>3, <2>2
    <3>2. ASSUME NEW m \in named PROVE i <= m
      BY <1>1, <3>1, <3>2
    <3>. QED BY <3>1, <3>2
  <2>. QED BY <2>1, <2>2
<1>6. \A i, j \in Match(l) : i = j
  BY <1>1, <1>3
<1>7. \A i \in Match(l) : cmds[i].pid \in Proc
  BY <1>1, <1>3
<1>8. l = <<>> => Match(l) = {}
  <2>. SUFFICES ASSUME l = <<>>, NEW i \in Match(l) PROVE FALSE
    OBVIOUS
  <2>1. cmds[i].cmd \in {Clear, Switch} /\ Matches(cmds[i].cmd, l)
    BY <1>1, <1>2, <1>3
  <2>2. Len(cmds[i].cmd) \in Nat /\ Len(cmds[i].cmd) > 0
    <3>. DEFINE cmd == cmds[i].cmd
    <3>1. Len(Clear) = 4 /\ Len(Switch) = 2 /\ cmd \in {Clear, Switch}
      BY <2>1, Commands DEF ClearFacts, SwitchFacts
    <3>. HIDE DEF cmd
    <3>2. Len(cmd) \in {4, 2}
      BY <3>1
    <3>3. Len(cmd) \in Nat /\ Len(cmd) > 0
      BY ONLY <3>2
    <3>. QED BY <3>3 DEF cmd
  <2>3. Len(cmds[i].cmd) <= 0
    BY <2>1 DEF Matches, IsPrefix
  <2>. QED BY <2>2, <2>3
<1>. QED BY <1>4, <1>5, <1>6, <1>7, <1>8 DEF n


-----------------------------------------------------------------------------
(* The commands that are expected. *)

\* Orders and Expected, of any characters taken and any list of commands.
OrdersOf(d, c, k) ==
    {o \in {[text |-> From(d, j, k), to |-> p] : j \in Starts(d, k), p \in Proc} :
        o.to \in OwnerOf(o.text, d[k].known, c)}
OrderEnds(d, c) == {k \in 1..Len(d) : d[k].char = CR /\ OrdersOf(d, c, k) # {}}
Chosen(d, c) == [k \in 1..Len(d) |-> CHOOSE o \in OrdersOf(d, c, k) : TRUE]
ExpectedOf(d, c) == Values(Among(Upto(Len(d)), OrderEnds(d, c)), Chosen(d, c))

LEMMA AmongUpto ==
  ASSUME NEW n \in Nat, NEW S
  PROVE  /\ Among(Upto(n), S) \in Seq(Nat)
         /\ \A i \in DOMAIN Among(Upto(n), S) : Among(Upto(n), S)[i] \in 1..n
<1>. DEFINE u == Upto(n)
            a == Among(u, S)
<1>1. u \in Seq(Nat) /\ Len(u) = n /\ \A i \in 1..n : u[i] = i
  BY UptoFacts
<1>. HIDE DEF u
<1>2. /\ Among(u, S) \in Seq(Nat)
      /\ \A x : (\E i \in 1..Len(Among(u, S)) : Among(u, S)[i] = x)
                 <=> x \in S /\ \E i \in 1..Len(u) : u[i] = x
  <2>. DEFINE N == Nat
  <2>1. u \in Seq(N)
    BY <1>1
  <2>. HIDE DEF N
  <2>2. /\ Among(u, S) \in Seq(N)
        /\ \A x : (\E i \in 1..Len(Among(u, S)) : Among(u, S)[i] = x)
                   <=> x \in S /\ \E i \in 1..Len(u) : u[i] = x
    BY ONLY <2>1, AmongType
  <2>. QED BY <2>2 DEF N
<1>3. a \in Seq(Nat) /\ \A i \in 1..Len(a) : \E k \in 1..Len(u) : u[k] = a[i]
  BY <1>2
<1>. HIDE DEF a
<1>4. DOMAIN a = 1..Len(a)
  BY <1>3, LenProperties
<1>. QED BY <1>1, <1>3, <1>4 DEF a, u

LEMMA ExpectedOfIs ==
  ASSUME NEW d \in Seq(Taking), NEW c
  PROVE  LET ends == Ascending({k \in {k \in DOMAIN d : d[k].char = CR} : OrdersOf(d, c, k) # {}}, Len(d))
         IN  [i \in DOMAIN ends |-> CHOOSE o \in OrdersOf(d, c, ends[i]) : TRUE]
             = ExpectedOf(d, c)
<1>. DEFINE n == Len(d)
            ends == Among(Upto(n), OrderEnds(d, c))
<1>1. n \in Nat /\ DOMAIN d = 1..n
  BY LenProperties
<1>. HIDE DEF n
<1>2. {k \in {k \in DOMAIN d : d[k].char = CR} : OrdersOf(d, c, k) # {}} = OrderEnds(d, c)
  BY <1>1 DEF OrderEnds, n
<1>3. Ascending(OrderEnds(d, c), Len(d)) = ends
  BY DEF Ascending, Upto, n
<1>4. \A i \in DOMAIN ends : ends[i] \in 1..n
  BY <1>1, AmongUpto
<1>. HIDE DEF ends
<1>5. \A i \in DOMAIN ends : Chosen(d, c)[ends[i]] = CHOOSE o \in OrdersOf(d, c, ends[i]) : TRUE
  BY <1>4 DEF Chosen, n
<1>6. [i \in DOMAIN ends |-> CHOOSE o \in OrdersOf(d, c, ends[i]) : TRUE] = Values(ends, Chosen(d, c))
  BY <1>5 DEF Values
<1>. QED BY <1>2, <1>3, <1>6 DEF ExpectedOf, ends, n

LEMMA ExpectedIs ==
  /\ decoded \in Seq(Taking) => Expected = ExpectedOf(decoded, cmds)
  /\ decoded' \in Seq(Taking) => Expected' = ExpectedOf(decoded', cmds')
<1>1. ASSUME decoded \in Seq(Taking) PROVE Expected = ExpectedOf(decoded, cmds)
  <2>1. LET ends == Ascending({k \in {k \in DOMAIN decoded : decoded[k].char = CR} :
                                 OrdersOf(decoded, cmds, k) # {}}, Len(decoded))
        IN  [i \in DOMAIN ends |-> CHOOSE o \in OrdersOf(decoded, cmds, ends[i]) : TRUE]
            = ExpectedOf(decoded, cmds)
    BY <1>1, ExpectedOfIs
  <2>2. Expected =
           LET ends == Ascending({k \in {k \in DOMAIN decoded : decoded[k].char = CR} :
                                    OrdersOf(decoded, cmds, k) # {}}, Len(decoded))
           IN  [i \in DOMAIN ends |-> CHOOSE o \in OrdersOf(decoded, cmds, ends[i]) : TRUE]
    BY DEF Expected, LineEnds, Orders, OrdersOf, LineStarts, Starts, LineFrom, From, Owner, OwnerOf
  <2>. QED BY <2>1, <2>2
<1>2. ASSUME decoded' \in Seq(Taking) PROVE Expected' = ExpectedOf(decoded', cmds')
  <2>1. LET ends == Ascending({k \in {k \in DOMAIN decoded' : decoded'[k].char = CR} :
                                 OrdersOf(decoded', cmds', k) # {}}, Len(decoded'))
        IN  [i \in DOMAIN ends |-> CHOOSE o \in OrdersOf(decoded', cmds', ends[i]) : TRUE]
            = ExpectedOf(decoded', cmds')
    BY <1>2, ExpectedOfIs
  <2>2. Expected' =
           LET ends == Ascending({k \in {k \in DOMAIN decoded' : decoded'[k].char = CR} :
                                    OrdersOf(decoded', cmds', k) # {}}, Len(decoded'))
           IN  [i \in DOMAIN ends |-> CHOOSE o \in OrdersOf(decoded', cmds', ends[i]) : TRUE]
    BY DEF Expected, LineEnds, Orders, OrdersOf, LineStarts, Starts, LineFrom, From, Owner, OwnerOf
  <2>. QED BY <2>1, <2>2
<1>. QED BY <1>1, <1>2

\* What has been taken stays an order: it is of the commands known then.
LEMMA OrdersStay ==
  ASSUME NEW d \in Seq(Taking), NEW e \in Taking, NEW c, NEW k \in 1..Len(d)
  PROVE  OrdersOf(Append(d, e), c, k) = OrdersOf(d, c, k)
<1>. DEFINE t == Append(d, e)
<1>1. Len(d) \in Nat /\ t[k] = d[k]
  BY LenProperties, AppendProperties
<1>2. k \in 1..(Len(d) + 1)
  BY <1>1
<1>3. Starts(t, k) = Starts(d, k)
  BY <1>2, StartsGrow
<1>4. \A j \in Starts(d, k) : From(t, j, k) = From(d, j, k)
  <2>1. \A j \in Starts(d, k) : j \in 1..(k - 1)
    BY DEF Starts
  <2>. QED BY <1>2, <2>1, FromStays
<1>. HIDE DEF t
<1>5. OrdersOf(t, c, k) = OrdersOf(d, c, k)
  BY <1>1, <1>3, <1>4 DEF OrdersOf
<1>. QED BY <1>5 DEF t

LEMMA OrdersKnown ==
  ASSUME NEW d, NEW c, NEW more, NEW k, d[k].known \in Nat,
         \A i \in 1..d[k].known : more[i] = c[i]
  PROVE  OrdersOf(d, more, k) = OrdersOf(d, c, k)
<1>1. \A l : OwnerOf(l, d[k].known, more) = OwnerOf(l, d[k].known, c)
  BY DEF OwnerOf
<1>. QED BY <1>1 DEF OrdersOf

\* A further command makes nothing an order that has been taken before.
LEMMA ExpectedKnown ==
  ASSUME NEW d \in Seq(Taking), NEW c, NEW more, NEW m \in Nat,
         \A k \in 1..Len(d) : d[k].known <= m, \A i \in 1..m : more[i] = c[i]
  PROVE  ExpectedOf(d, more) = ExpectedOf(d, c)
<1>1. \A k \in 1..Len(d) : d[k].known \in Nat
  <2>1. \A k \in 1..Len(d) : d[k] \in Taking
    BY ElementOfSeq
  <2>. QED BY <2>1 DEF Taking
<1>2. \A k \in 1..Len(d) : OrdersOf(d, more, k) = OrdersOf(d, c, k)
  <2>. SUFFICES ASSUME NEW k \in 1..Len(d) PROVE OrdersOf(d, more, k) = OrdersOf(d, c, k)
    OBVIOUS
  <2>1. d[k].known \in Nat /\ \A i \in 1..d[k].known : more[i] = c[i]
    BY <1>1
  <2>. QED BY <2>1, OrdersKnown
<1>3. OrderEnds(d, more) = OrderEnds(d, c) /\ Chosen(d, more) = Chosen(d, c)
  BY <1>2 DEF OrderEnds, Chosen
<1>. QED BY <1>3 DEF ExpectedOf

\* One more character taken is the end of an order, or nothing new is expected.
LEMMA ExpectedGrows ==
  ASSUME NEW d \in Seq(Taking), NEW e \in Taking, NEW c
  PROVE  LET t == Append(d, e)
             n == Len(d)
         IN  /\ e.char = CR /\ OrdersOf(t, c, n + 1) # {} =>
                   ExpectedOf(t, c) =
                      Append(ExpectedOf(d, c), CHOOSE o \in OrdersOf(t, c, n + 1) : TRUE)
             /\ e.char # CR \/ OrdersOf(t, c, n + 1) = {} => ExpectedOf(t, c) = ExpectedOf(d, c)
<1>. DEFINE t == Append(d, e)
            n == Len(d)
            u == Upto(n)
            A == OrderEnds(d, c)
            B == OrderEnds(t, c)
            v == Chosen(d, c)
            w == Chosen(t, c)
            a == Among(u, A)
<1>1. n \in Nat /\ Len(t) = n + 1 /\ t[n + 1] = e /\ \A k \in 1..n : t[k] = d[k]
  BY LenProperties, AppendProperties
<1>2. \A k \in 1..n : OrdersOf(t, c, k) = OrdersOf(d, c, k)
  BY OrdersStay
<1>. HIDE DEF t, n
<1>3. u \in Seq(Nat) /\ Len(u) = n /\ (\A i \in 1..n : u[i] = i) /\ Upto(n + 1) = Append(u, n + 1)
  BY <1>1, UptoFacts
<1>. HIDE DEF u
<1>4. \A k \in 1..n : (k \in A <=> k \in B) /\ v[k] = w[k]
  BY <1>1, <1>2 DEF OrderEnds, Chosen, n
<1>5. /\ n + 1 \in B <=> e.char = CR /\ OrdersOf(t, c, n + 1) # {}
      /\ w[n + 1] = CHOOSE o \in OrdersOf(t, c, n + 1) : TRUE
  BY <1>1 DEF OrderEnds, Chosen
<1>. HIDE DEF A, B, v, w
<1>6. Among(u, B) = a
  <2>1. \A i \in 1..Len(u) : u[i] \in A <=> u[i] \in B
    BY <1>3, <1>4
  <2>2. u \in Seq(Nat)
    BY <1>3
  <2>. QED BY <2>1, <2>2, AmongSame
<1>7. a \in Seq(Nat) /\ \A i \in DOMAIN a : a[i] \in 1..n
  BY <1>1, AmongUpto DEF u
<1>8. Among(Upto(n + 1), B) = IF n + 1 \in B THEN Append(a, n + 1) ELSE a
  <2>. DEFINE x == n + 1
  <2>1. u \in Seq(Nat) /\ x \in Nat
    BY <1>1, <1>3
  <2>. HIDE DEF x
  <2>2. Among(Append(u, x), B) = IF x \in B THEN Append(Among(u, B), x) ELSE Among(u, B)
    BY <2>1, AmongAppend
  <2>. QED BY <1>3, <1>6, <2>2 DEF x
<1>. HIDE DEF a
<1>9. Values(a, w) = Values(a, v)
  <2>1. \A i \in DOMAIN a : w[a[i]] = v[a[i]]
    BY <1>4, <1>7
  <2>. QED BY <2>1, ValuesSame
<1>10. Values(Append(a, n + 1), w) = Append(Values(a, w), w[n + 1])
  <2>. DEFINE x == n + 1
  <2>1. a \in Seq(Nat) /\ x \in Nat
    BY <1>1, <1>7
  <2>. HIDE DEF x
  <2>2. Values(Append(a, x), w) = Append(Values(a, w), w[x])
    BY ONLY <2>1, ValuesAppend
  <2>. QED BY <2>2 DEF x
<1>11. ExpectedOf(t, c) = Values(Among(Upto(n + 1), B), w) /\ ExpectedOf(d, c) = Values(a, v)
  BY <1>1 DEF ExpectedOf, a, u, n, A, B, v, w
<1>12. CASE n + 1 \in B
  BY <1>5, <1>8, <1>9, <1>10, <1>11, <1>12 DEF t, n
<1>13. CASE n + 1 \notin B
  BY <1>5, <1>8, <1>9, <1>11, <1>13 DEF t, n
<1>. QED BY <1>12, <1>13


-----------------------------------------------------------------------------
(* What the decoder has sent. *)

\* The end of a line is an order if the line matches a command.
LEMMA OrdersAtEnd ==
  ASSUME cmds \in {<<>>, First, Both}, NEW d \in Seq(Taking), NEW e \in Taking,
         e.known = Len(cmds), NEW l \in Seq(Printed), IsLine(l, d)
  PROVE  OrdersOf(Append(d, e), cmds, Len(d) + 1) = {[text |-> l, to |-> cmds[i].pid] : i \in Match(l)}
<1>. DEFINE t == Append(d, e)
            n == Len(d)
            own == OwnerOf(l, Len(cmds), cmds)
            S == Starts(d, n + 1)
<1>1. n \in Nat /\ t[n + 1] = e /\ n + 1 \in 1..(n + 1) /\ n + 1 \in Nat
  BY LenProperties, AppendProperties
<1>2. Starts(t, n + 1) = S
  BY <1>1, StartsGrow
<1>3. \A j \in S : From(t, j, n + 1) = From(d, j, n + 1)
  <2>1. \A j \in S : j \in 1..((n + 1) - 1)
    BY DEF Starts
  <2>. QED BY <1>1, <2>1, FromStays
<1>4. /\ own = {cmds[i].pid : i \in Match(l)}
      /\ \A i \in Match(l) : cmds[i].pid \in Proc /\ l # <<>>
  BY OwnerIsMatch
<1>5. S = {} => l = <<>>
  BY IsLineOf
<1>6. \A j \in S : From(d, j, n + 1) = l
  <2>1. S # {} => \E j \in S : l = From(d, j, n + 1)
    BY IsLineOf
  <2>2. \A i, j \in S : i = j
    BY <1>1, OneStart
  <2>. HIDE DEF S
  <2>. QED BY <2>1, <2>2
<1>. HIDE DEF S, own
<1>7. OrdersOf(t, cmds, n + 1) = {o \in {[text |-> l, to |-> p] : j \in S, p \in Proc} : o.to \in OwnerOf(o.text, Len(cmds), cmds)}
  <2>1. {[text |-> From(t, j, n + 1), to |-> p] : j \in S, p \in Proc}
          = {[text |-> l, to |-> p] : j \in S, p \in Proc}
    BY <1>3, <1>6
  <2>2. t[n + 1].known = Len(cmds)
    BY <1>1
  <2>. HIDE DEF t, n
  <2>. QED BY <1>2, <2>1, <2>2 DEF OrdersOf
<1>8. ASSUME NEW o \in OrdersOf(t, cmds, n + 1)
      PROVE  o \in {[text |-> l, to |-> cmds[i].pid] : i \in Match(l)}
  <2>1. PICK p \in Proc : o = [text |-> l, to |-> p] /\ o.to \in OwnerOf(o.text, Len(cmds), cmds)
    BY <1>7
  <2>2. p \in own
    BY <2>1 DEF own
  <2>. QED BY <1>4, <2>1, <2>2
<1>9. ASSUME NEW i \in Match(l)
      PROVE  [text |-> l, to |-> cmds[i].pid] \in OrdersOf(t, cmds, n + 1)
  <2>. DEFINE p == cmds[i].pid
              o == [text |-> l, to |-> p]
  <2>1. p \in Proc /\ p \in own /\ S # {}
    BY <1>4, <1>5
  <2>2. o.text = l /\ o.to = p
    OBVIOUS
  <2>3. o \in {[text |-> l, to |-> q] : j \in S, q \in Proc}
    BY <2>1
  <2>. HIDE DEF o
  <2>4. o \in OrdersOf(t, cmds, n + 1)
    BY <1>7, <2>1, <2>2, <2>3 DEF own
  <2>. QED BY <2>4 DEF o
<1>. QED BY <1>8, <1>9 DEF t, n

\* What has been sent is what was expected, and the decoder's line is the one typed;
\* while it waits for a block it has still to send the last one expected, that in
\* its line, which has come to its end.
SentSoFar ==
    IF pc[Kcd] \in {"request", "fill"}
    THEN /\ IsLine(<<>>, decoded)
         /\ \E i \in Match(line) :
               Expected = Append(ordered, [text |-> line, to |-> cmds[i].pid])
    ELSE IsLine(line, decoded) /\ ordered = Expected
KnownThen == \A k \in 1..Len(decoded) : decoded[k].known <= Len(cmds)

LinesInv == LostInv /\ ordered \in Seq(Order) /\ KnownThen /\ SentSoFar

LEMMA LinesFacts ==
  ASSUME LinesInv
  PROVE  /\ RtxIInv /\ Pointers /\ AllTidy /\ Texts /\ Written /\ Asked
         /\ decoded \in Seq(Taking) /\ line \in Seq(Printed)
         /\ cmds \in {<<>>, First, Both} /\ Len(cmds) \in Nat
         /\ ordered \in Seq(Order) /\ KnownThen /\ SentSoFar
<1>1. cmds \in {<<>>, First, Both}
  BY DEF LinesInv, LostInv, TextInv, ConsoleInv, Asked
<1>. QED BY <1>1, ListFacts DEF LinesInv, LostInv, TextInv, ConsoleInv, KernelInv, KeptSoFar, User

LEMMA InitLines == ConsoleInit => ordered \in Seq(Order) /\ KnownThen /\ SentSoFar
<1>. SUFFICES ASSUME ConsoleInit PROVE ordered \in Seq(Order) /\ KnownThen /\ SentSoFar
  OBVIOUS
<1>. DEFINE none == <<>>
<1>1. /\ decoded = none /\ line = none /\ cmds = none /\ ordered = none
      /\ pc[Kcd] = "start" /\ Len(none) = 0 /\ none \in Seq(Taking) /\ none \in Seq(Order)
  <2>1. ProgramInit({Prio})
    BY DEF ConsoleInit
  <2>2. pc[Kcd] = "start"
    BY <2>1, ClientsDiffer, ClientsAreProc DEF ProgramInit, Client
  <2>3. decoded = none /\ line = none /\ cmds = none /\ ordered = none
    BY <2>1 DEF ProgramInit
  <2>4. Len(none) = 0 /\ none \in Seq(Taking) /\ none \in Seq(Order)
    BY EmptySeq
  <2>. QED BY <2>2, <2>3, <2>4
<1>. HIDE DEF none
<1>2. KnownThen
  BY <1>1 DEF KnownThen
<1>3. IsLine(none, none)
  <2>1. Starts(none, Len(none) + 1) = {}
    BY <1>1 DEF Starts
  <2>. QED BY <2>1 DEF IsLine, none
<1>4. ExpectedOf(none, none) = none
  <2>. DEFINE a == Among(Upto(0), OrderEnds(none, none))
  <2>1. a \in Seq(Nat) /\ \A i \in DOMAIN a : a[i] \in 1..0
    BY AmongUpto
  <2>. HIDE DEF a
  <2>2. Len(a) \in Nat /\ DOMAIN a = 1..Len(a)
    BY <2>1, LenProperties
  <2>3. Len(a) = 0
    <3>1. ASSUME Len(a) # 0 PROVE FALSE
      <4>1. 1 \in DOMAIN a
        BY <2>2, <3>1
      <4>. QED BY <2>1, <4>1
    <3>. QED BY <3>1
  <2>4. a = none
    BY <2>1, <2>3, EmptySeq DEF none
  <2>. QED BY <1>1, <2>4, ValuesEmpty DEF ExpectedOf, a, none
<1>5. Expected = none
  BY <1>1, <1>4, ExpectedIs
<1>. QED BY <1>1, <1>2, <1>3, <1>5 DEF SentSoFar

\* The steps that neither take a character, nor send a command, nor register one.
LEMMA LinesStay ==
  ASSUME RtxIInv, Pointers, [ConsoleNext]_consoleVars,
         ~KcdEchoes, ~KcdSendsCommand, ~KcdRegisters, ~KcdStarts
  PROVE  /\ UNCHANGED <<decoded, line, cmds, ordered>>
         /\ pc'[Kcd] \in {"request", "fill"} <=> pc[Kcd] \in {"request", "fill"}
<1>0. Kcd \in Proc /\ Kcd \in Client /\ Kcd # Crt /\ Kcd # Uart /\ Kcd # Prio
  BY ClientsAreProc, ClientsDiffer DEF Client
<1>1. CASE \/ Boot /\ UNCHANGED <<localVars, userVars, historyVars>>
           \/ Types \/ TypesInVain \/ UNCHANGED consoleVars
  BY <1>1, IdleProceeds DEF historyVars
<1>2. ASSUME NEW p \in Client, ClientStep(p)
      PROVE  /\ UNCHANGED <<decoded, line, cmds, ordered>>
             /\ pc'[Kcd] \in {"request", "fill"} <=> pc[Kcd] \in {"request", "fill"}
  <2>1. UNCHANGED <<decoded, line, cmds, ordered>>
    BY <1>2 DEF ClientStep, Waits, Gets, Obtains, localVars, historyVars
  <2>2. /\ \A q \in Proc \ {p} : pc'[q] = pc[q]
        /\ <<pc[p], pc'[p]>> \in {<<"receive", "got">>, <<"request", "fill">>,
                                  <<"request2", "fill2">>, <<pc[p], pc[p]>>}
    BY <1>2, ClientProceeds, ClientsAreProc
  <2>. QED BY <1>0, <2>1, <2>2
<1>3. CASE KcdClears \/ KcdSendsClear
  BY <1>0, <1>3 DEF KcdClears, KcdSendsClear, GoOn, Pointers, historyVars
<1>4. CASE Output
  <2>1. pc'[Kcd] = pc[Kcd]
    BY <1>0, <1>4, OutputProceeds DEF Proceeds
  <2>2. UNCHANGED <<decoded, line, cmds, ordered>>
    BY <1>4 DEF Output, CrtLoops, CrtSends, CrtReleases, UartTakes, UartWrites, historyVars
  <2>. QED BY <2>1, <2>2
<1>5. CASE Command
  <2>1. pc'[Kcd] = pc[Kcd]
    BY <1>0, <1>5, CommandProceeds DEF Proceeds
  <2>2. UNCHANGED <<decoded, line, cmds, ordered>>
    BY <1>5 DEF Command, PrioRegisters, PrioComplains, PrioSets, PrioReplies, historyVars
  <2>. QED BY <2>1, <2>2
<1>. QED BY <1>1, <1>2, <1>3, <1>4, <1>5 DEF ConsoleNext, Processor, Decoder

LEMMA EchoSends ==
  ASSUME LinesInv, KcdEchoes, decoded' \in Seq(Taking)
  PROVE  KnownThen' /\ SentSoFar'
<1>. DEFINE c == CharAt(Text(Kcd), 1)
            e == [char |-> c, known |-> Len(cmds)]
            n == Len(decoded)
            O == OrdersOf(decoded', cmds, n + 1)
<1>1. /\ Pointers /\ decoded \in Seq(Taking) /\ line \in Seq(Printed)
      /\ cmds \in {<<>>, First, Both} /\ Len(cmds) \in Nat /\ KnownThen /\ SentSoFar
  BY LinesFacts
<1>2. /\ pc[Kcd] = "got" /\ pc' = [pc EXCEPT ![Kcd] = IF c = CR /\ Match(line) # {} THEN "request" ELSE "receive"]
      /\ decoded' = Append(decoded, e) /\ line' = Buffered(c) /\ cmds' = cmds /\ ordered' = ordered
  BY DEF KcdEchoes, GoOn
<1>3. n \in Nat /\ Len(decoded') = n + 1 /\ decoded'[n + 1] = e
      /\ \A k \in 1..n : decoded'[k] = decoded[k]
  BY <1>1, <1>2, LenProperties, AppendProperties
<1>4. e \in Taking /\ e.char = c /\ e.known = Len(cmds)
  <2>1. decoded'[n + 1] \in Taking
    BY <1>3, ElementOfSeq
  <2>. QED BY <1>3, <2>1
<1>. HIDE DEF c, e, n
<1>5. KnownThen'
  <2>. SUFFICES ASSUME NEW k \in 1..(n + 1) PROVE decoded'[k].known <= Len(cmds)
    BY <1>2, <1>3 DEF KnownThen
  <2>1. CASE k = n + 1
    BY <1>1, <1>3, <1>4, <2>1
  <2>2. CASE k # n + 1
    <3>1. k \in 1..n
      BY <1>3, <2>2
    <3>. QED BY <1>1, <1>3, <3>1 DEF KnownThen, n
  <2>. QED BY <2>1, <2>2
<1>6. IsLine(line, decoded) /\ ordered = Expected
  BY <1>1, <1>2 DEF SentSoFar
<1>7. IsLine(Added(line, c), decoded')
  BY <1>1, <1>2, <1>4, <1>6, LineGrows
<1>8. Expected = ExpectedOf(decoded, cmds) /\ Expected' = ExpectedOf(decoded', cmds)
  BY <1>1, <1>2, ExpectedIs
<1>9. /\ c = CR /\ O # {} => Expected' = Append(Expected, CHOOSE o \in O : TRUE)
      /\ c # CR \/ O = {} => Expected' = Expected
  BY <1>1, <1>2, <1>4, <1>8, ExpectedGrows DEF n
<1>10. O = {[text |-> line, to |-> cmds[i].pid] : i \in Match(line)}
  BY <1>1, <1>2, <1>4, <1>6, OrdersAtEnd DEF n
<1>11. pc'[Kcd] = IF c = CR /\ Match(line) # {} THEN "request" ELSE "receive"
  BY <1>2, ClientsAreProc DEF Pointers, Client, LinesInv, LostInv, TextInv, ConsoleInv
<1>. HIDE DEF O
<1>12. CASE c # CR
  <2>1. line' = Added(line, c)
    BY <1>2, <1>12 DEF Buffered, Added
  <2>2. pc'[Kcd] \notin {"request", "fill"}
    BY <1>11, <1>12
  <2>. QED BY <1>2, <1>5, <1>6, <1>7, <1>9, <1>12, <2>1, <2>2 DEF SentSoFar
<1>13. CASE c = CR /\ Match(line) = {}
  <2>1. c # "%"
    BY <1>13 DEF CR
  <2>2. line' = Added(line, c)
    BY <1>2, <1>13, <2>1 DEF Buffered, Added
  <2>3. pc'[Kcd] \notin {"request", "fill"}
    BY <1>11, <1>13
  <2>4. O = {}
    BY <1>10, <1>13
  <2>. QED BY <1>2, <1>5, <1>6, <1>7, <1>9, <2>2, <2>3, <2>4 DEF SentSoFar
<1>14. CASE c = CR /\ Match(line) # {}
  <2>1. c # "%"
    BY <1>14 DEF CR
  <2>2. line' = line /\ Added(line, c) = <<>>
    BY <1>2, <1>14, <2>1 DEF Buffered, Added
  <2>3. pc'[Kcd] = "request"
    BY <1>11, <1>14
  <2>4. PICK i \in Match(line) : \A j \in Match(line) : j = i
    BY <1>1, <1>14, OwnerIsMatch
  <2>. DEFINE o == [text |-> line, to |-> cmds[i].pid]
  <2>5. O = {o}
    BY <1>10, <2>4
  <2>. HIDE DEF o
  <2>6. Expected' = Append(ordered, o)
    BY <1>6, <1>9, <1>14, <2>5
  <2>7. Match(line)' = Match(line)
    BY <1>2, <2>2 DEF Match
  <2>8. \E k \in Match(line)' : Expected' = Append(ordered', [text |-> line', to |-> cmds'[k].pid])
    BY <1>2, <2>2, <2>6, <2>7 DEF o
  <2>. QED BY <1>5, <1>7, <2>2, <2>3, <2>8 DEF SentSoFar
<1>. QED BY <1>12, <1>13, <1>14

LEMMA CommandSent ==
  ASSUME LinesInv, KcdSendsCommand
  PROVE  KnownThen' /\ SentSoFar'
<1>1. /\ Pointers /\ decoded \in Seq(Taking) /\ line \in Seq(Printed)
      /\ cmds \in {<<>>, First, Both} /\ KnownThen /\ SentSoFar
  BY LinesFacts
<1>2. /\ pc[Kcd] = "fill" /\ pc' = [pc EXCEPT ![Kcd] = "receive"]
      /\ line' = <<>> /\ cmds' = cmds /\ decoded' = decoded
  BY DEF KcdSendsCommand, GoOn
<1>3. PICK i \in Match(line) : ordered' = Append(ordered, [text |-> line, to |-> cmds[i].pid])
  BY DEF KcdSendsCommand
<1>4. PICK k \in Match(line) : Expected = Append(ordered, [text |-> line, to |-> cmds[k].pid])
  BY <1>1, <1>2 DEF SentSoFar
<1>5. i = k
  BY <1>1, OwnerIsMatch
<1>6. Expected' = Expected
  BY <1>1, <1>2, ExpectedIs
<1>7. pc'[Kcd] = "receive"
  BY <1>1, <1>2, ClientsAreProc DEF Pointers, Client
<1>8. IsLine(<<>>, decoded)
  BY <1>1, <1>2 DEF SentSoFar
<1>9. ordered' = Expected'
  BY <1>3, <1>4, <1>5, <1>6
<1>. QED BY <1>1, <1>2, <1>7, <1>8, <1>9 DEF SentSoFar, KnownThen

\* A registration makes the list longer.
LEMMA ListGrows ==
  ASSUME LinesInv, KcdRegisters \/ KcdStarts
  PROVE  KnownThen' /\ SentSoFar'
<1>1. /\ Pointers /\ decoded \in Seq(Taking)
      /\ cmds \in {<<>>, First, Both} /\ Len(cmds) \in Nat /\ KnownThen /\ SentSoFar
  BY LinesFacts
<1>2. /\ pc[Kcd] \in {"got", "start"} /\ pc' = [pc EXCEPT ![Kcd] = "receive"]
      /\ line' = line /\ decoded' = decoded /\ ordered' = ordered
      /\ \E s, p : cmds' = Registered(s, p)
  BY DEF KcdRegisters, KcdStarts, GoOn, historyVars
<1>3. /\ Len(cmds') \in Nat /\ Len(cmds) <= Len(cmds')
      /\ \A i \in 1..Len(cmds) : cmds'[i] = cmds[i]
  <2>1. PICK s, p : cmds' = Registered(s, p)
    BY <1>2
  <2>. DEFINE x == [cmd |-> StringAt(s, 1), pid |-> p]
              a == [cmd |-> Clear, pid |-> Kcd]
              b == [cmd |-> Switch, pid |-> Prio]
              T == {a, b, x}
  <2>2. cmds' \in {cmds, Append(cmds, x)}
    BY <2>1 DEF Registered
  <2>4. cmds \in Seq(T)
    <3>1. cmds \in {<<>>, <<a>>, <<a, b>>}
      BY <1>1 DEF First, Both
    <3>2. a \in T /\ b \in T
      OBVIOUS
    <3>. HIDE DEF a, b, x, T
    <3>3. <<>> \in Seq(T) /\ <<a>> \in Seq(T) /\ <<a, b>> \in Seq(T)
      BY <3>2
    <3>. QED BY <3>1, <3>3
  <2>5. x \in T
    OBVIOUS
  <2>. HIDE DEF x, T
  <2>6. /\ Len(Append(cmds, x)) = Len(cmds) + 1
        /\ \A i \in 1..Len(cmds) : Append(cmds, x)[i] = cmds[i]
    BY <2>4, <2>5, AppendProperties
  <2>. QED BY <1>1, <2>2, <2>6
<1>4. KnownThen'
  <2>. SUFFICES ASSUME NEW k \in 1..Len(decoded) PROVE decoded[k].known <= Len(cmds')
    BY <1>2 DEF KnownThen
  <2>1. decoded[k].known <= Len(cmds)
    BY <1>1 DEF KnownThen
  <2>2. decoded[k].known \in Nat
    <3>1. decoded[k] \in Taking
      BY <1>1, ElementOfSeq
    <3>. QED BY <3>1 DEF Taking
  <2>. QED BY <1>1, <1>3, <2>1, <2>2
<1>5. ExpectedOf(decoded, cmds') = ExpectedOf(decoded, cmds)
  <2>1. \A k \in 1..Len(decoded) : decoded[k].known <= Len(cmds)
    BY <1>1 DEF KnownThen
  <2>. QED BY <1>1, <1>3, <2>1, ExpectedKnown
<1>6. Expected' = Expected
  BY <1>1, <1>2, <1>5, ExpectedIs
<1>7. pc'[Kcd] = "receive"
  BY <1>1, <1>2, ClientsAreProc DEF Pointers, Client
<1>8. IsLine(line, decoded) /\ ordered = Expected
  BY <1>1, <1>2 DEF SentSoFar
<1>. QED BY <1>2, <1>4, <1>6, <1>7, <1>8 DEF SentSoFar

LEMMA StepLinesInv == LinesInv /\ [ConsoleNext]_consoleVars => LinesInv'
<1>. SUFFICES ASSUME LinesInv, [ConsoleNext]_consoleVars PROVE LinesInv'
  OBVIOUS
<1>1. LostInv'
  BY StepLostInv DEF LinesInv
<1>2. decoded' \in Seq(Taking)
  BY <1>1 DEF LostInv, KeptSoFar
<1>4. ordered' \in Seq(Order)
  <2>1. Texts /\ Asked /\ ordered \in Seq(Order)
    BY LinesFacts
  <2>. QED BY <2>1, StepOrdered
<1>3. KnownThen' /\ SentSoFar'
  <2>1. CASE KcdEchoes
    BY <1>2, <2>1, EchoSends
  <2>2. CASE KcdSendsCommand
    BY <2>2, CommandSent
  <2>3. CASE KcdRegisters \/ KcdStarts
    BY <2>3, ListGrows
  <2>4. CASE ~(KcdEchoes \/ KcdSendsCommand \/ KcdRegisters \/ KcdStarts)
    <3>1. /\ RtxIInv /\ Pointers /\ decoded \in Seq(Taking) /\ KnownThen /\ SentSoFar
      BY LinesFacts
    <3>2. /\ UNCHANGED <<decoded, line, cmds, ordered>>
          /\ pc'[Kcd] \in {"request", "fill"} <=> pc[Kcd] \in {"request", "fill"}
      BY <2>4, <3>1, LinesStay
    <3>3. Expected' = Expected
      BY <1>2, <3>1, <3>2, ExpectedIs
    <3>4. Match(line)' = Match(line)
      BY <3>2 DEF Match
    <3>5. KnownThen'
      BY <3>1, <3>2 DEF KnownThen
    <3>6. CASE pc[Kcd] \in {"request", "fill"}
      <4>1. IsLine(<<>>, decoded') /\ pc'[Kcd] \in {"request", "fill"}
        BY <3>1, <3>2, <3>6 DEF SentSoFar
      <4>2. PICK i \in Match(line) : Expected = Append(ordered, [text |-> line, to |-> cmds[i].pid])
        BY <3>1, <3>6 DEF SentSoFar
      <4>3. i \in Match(line)' /\ Expected' = Append(ordered', [text |-> line', to |-> cmds'[i].pid])
        BY <3>2, <3>3, <3>4, <4>2
      <4>. QED BY <3>5, <4>1, <4>3 DEF SentSoFar
    <3>7. CASE pc[Kcd] \notin {"request", "fill"}
      BY <3>1, <3>2, <3>3, <3>5, <3>7 DEF SentSoFar
    <3>. QED BY <3>6, <3>7
  <2>. QED BY <2>1, <2>2, <2>3, <2>4
<1>. QED BY <1>1, <1>3, <1>4 DEF LinesInv

\* What the decoder has sent, and what is still in its line, with what was lost
\* and who was registered when: the commands and the lines cannot be told of one by one.
THEOREM LinesInductiveInvariant == ConsoleSpec => []LinesInv
<1>1. ConsoleInit => LinesInv
  BY InitTextInv, InitKept, InitLines DEF LostInv, LinesInv
<1>. QED BY <1>1, StepLinesInv, PTL DEF ConsoleSpec

LEMMA AllButTheLast ==
  ASSUME NEW S, NEW s \in Seq(S), NEW x \in S
  PROVE  Front(Append(s, x)) = s
<1>. DEFINE t == Append(s, x)
            n == Len(s)
            f == SubSeq(t, 1, n)
<1>1. n \in Nat /\ t \in Seq(S) /\ Len(t) = n + 1 /\ \A i \in 1..n : t[i] = s[i]
  BY LenProperties, AppendProperties
<1>. HIDE DEF t
<1>2. 1 \in 1..(Len(t) + 1) /\ n \in 0..Len(t) /\ Len(t) - 1 = n
  BY <1>1
<1>. HIDE DEF n
<1>3. /\ f \in Seq(S) /\ Len(f) = n /\ \A i \in 1..n : f[i] = t[i]
  BY <1>1, <1>2, SubSeqProperties
<1>. HIDE DEF f
<1>4. Len(f) = Len(s) /\ \A i \in 1..Len(f) : f[i] = s[i]
  BY <1>1, <1>3 DEF n
<1>5. f = s
  BY ONLY <1>3, <1>4, SeqEqual
<1>. QED BY <1>2, <1>5 DEF Front, f, t

\* The messages sent to the processes are, in this order, exactly the lines typed
\* whose first word was registered when they ended, each whole and to whom had
\* registered it, but for the one the decoder is getting a block for.
THEOREM CommandsAreTheLines == ConsoleSpec => []CommandsAreLines
<1>1. LinesInv => CommandsAreLines
  <2>. SUFFICES ASSUME LinesInv PROVE CommandsAreLines
    OBVIOUS
  <2>1. /\ Texts /\ ordered \in Seq(Order) /\ SentSoFar /\ line \in Seq(Printed)
        /\ cmds \in {<<>>, First, Both}
    BY LinesFacts
  <2>2. CASE pc[Kcd] \in {"request", "fill"}
    <3>1. PICK i \in Match(line) : Expected = Append(ordered, [text |-> line, to |-> cmds[i].pid])
      BY <2>1, <2>2 DEF SentSoFar
    <3>. DEFINE o == [text |-> line, to |-> cmds[i].pid]
    <3>2. cmds[i].pid \in Proc
      BY <2>1, OwnerIsMatch
    <3>3. o \in Order
      BY <2>1, <3>2 DEF Texts, Order
    <3>. HIDE DEF o
    <3>4. Expected = Append(ordered, o)
      BY <3>1 DEF o
    <3>5. Front(Expected) = ordered
      BY <2>1, <3>3, <3>4, AllButTheLast
    <3>. QED BY <2>2, <3>5 DEF CommandsAreLines
  <2>3. CASE pc[Kcd] \notin {"request", "fill"}
    BY <2>1, <2>3 DEF SentSoFar, CommandsAreLines
  <2>. QED BY <2>2, <2>3
<1>. QED BY <1>1, LinesInductiveInvariant, PTL DEF ConsoleSpec
=============================================================================
