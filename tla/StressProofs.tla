---------------------------- MODULE StressProofs ----------------------------
(***************************************************************************)
(* The programs of module Stress, with those of the console, whose lemmas  *)
(* are in ConsoleProofs: what stress_c has of the messages that travel to  *)
(* it, and in which order they come.                                       *)
(***************************************************************************)
EXTENDS Stress, ConsoleProofs

-----------------------------------------------------------------------------
(* Three processes more. *)

LEMMA StressedAreProc == Stressed \subseteq Proc \ {NullProc}
BY StressAssumption

LEMMA StressedDiffer ==
  StressA # StressB /\ StressA # StressC /\ StressB # StressC
<1>4. \A a, b : Stressed # {a, b}
  <2>1. SUFFICES ASSUME NEW a, NEW b, Stressed = {a, b} PROVE FALSE
    OBVIOUS
  <2>2. IsFiniteSet({a}) /\ Cardinality({a}) = 1
    BY FS_Singleton
  <2>3. Cardinality({a} \cup {b}) <= 2
    BY <2>2, FS_AddElement
  <2>4. {a, b} = {a} \cup {b}
    OBVIOUS
  <2>5. Cardinality(Stressed) = 3
    BY StressAssumption
  <2>6. Cardinality(Stressed) <= 2
    BY ONLY <2>1, <2>3, <2>4
  <2>. QED BY ONLY <2>5, <2>6
<1>6. /\ StressA = StressB => Stressed = {StressA, StressC}
      /\ StressA = StressC => Stressed = {StressA, StressB}
      /\ StressB = StressC => Stressed = {StressA, StressB}
  BY DEF Stressed
<1>. QED BY <1>4, <1>6

-----------------------------------------------------------------------------
(* The stress test. *)

Workers == Client \cup Stressed

\* Those whose program uses exactly what they hold: all but stress_c.
Keepers == Client \cup {StressA, StressB}

LEMMA WorkersDiffer ==
  /\ Workers \subseteq Proc \ {NullProc} /\ Keepers \subseteq Workers
  /\ StressA \in Workers /\ StressB \in Workers /\ StressC \in Workers
  /\ Kcd \in Workers /\ Crt \in Workers /\ Uart \in Workers /\ Prio \in Workers
  /\ StressA \notin Client /\ StressB \notin Client /\ StressC \notin Keepers
  /\ \A p \in Workers : p \in Keepers \/ p = StressC
  /\ StressA # Crt /\ StressB # Crt /\ StressC # Crt /\ StressA # Kcd /\ StressA # Prio
<1>1. Stressed \cap Client = {}
  BY StressAssumption
<1>. QED BY <1>1, ClientsAreProc, StressedAreProc, ClientsDiffer, StressedDiffer DEF Workers, Keepers, Client, Stressed

\* A step of the console's processes, of the processor that has not started yet or of
\* the user.
ConsoleStep == [ConsoleNext]_consoleVars /\ UNCHANGED stressLocal

AActs == ARegisters \/ AStarts \/ ACounts \/ AYields
CActs == CDequeues \/ CTakes \/ CAnnounces \/ CSleeps \/ CSleepsOn \/ CGets \/ CReleases \/ CYields
TimerActs == StressTick \/ StressScan

LEMMA StressCases ==
  ASSUME [StressNext]_stressVars
  PROVE  \/ ConsoleStep \/ CDamages
         \/ ~damaged /\ (\/ (\E p \in Stressed : ClientStep(p)) /\ UNCHANGED stressLocal
                         \/ AActs \/ BForwards \/ CActs \/ TimerActs)
BY DEF StressNext, StressProcessor, ConsoleStep, ConsoleNext, AActs, CActs, TimerActs, stressVars

LEMMA DelayedSendCalls ==
  ASSUME RtxIInv, NEW p, NEW b, NEW q, NEW d \in Nat, DelayedSend(p, b, q, d)
  PROVE  p \in Proc /\ q \in Proc /\ b \in MemBlock /\ b \in held[p] /\ Primitives(p)
<1>1. Running(p, {"run"}) /\ IsPidValid(kernel, q) /\ b \in held[p]
  BY DEF DelayedSend, Address
<1>2. p \in Proc /\ q \in Proc
  BY <1>1, ValidIsProc
<1>3. b \in MemBlock
  BY <1>1, <1>2 DEF RtxIInv, Accounts, DataTypeOK
<1>. QED BY <1>1, <1>2, <1>3 DEF Primitives

LEMMA StressCalls == RtxIInv /\ [StressNext]_stressVars => CallsNext
<1>. SUFFICES ASSUME RtxIInv, [StressNext]_stressVars PROVE CallsNext
  OBVIOUS
<1>0. \A p \in Proc : Primitives(p) => CallsNext
  BY DEF CallsNext, ProcessActs
<1>1. CASE ConsoleStep
  BY <1>1, ConsoleCalls DEF ConsoleStep
<1>2. CASE CDamages
  BY <1>2 DEF CDamages, consoleVars, CallsNext, SystemActs
<1>3. CASE \E p \in Stressed : ClientStep(p)
  BY <1>0, <1>3, ClientsAreProc, StressedAreProc, ClientCalls
<1>4. CASE AActs
  <2>1. StressA \in Proc
    BY WorkersDiffer
  <2>. QED BY <1>0, <1>4, <2>1, SendCalls, ReleaseCalls
           DEF AActs, ARegisters, AStarts, ACounts, AYields, Register, Free, Primitives
<1>5. CASE BForwards
  BY <1>0, <1>5, SendCalls DEF BForwards, Mail
<1>6. CASE CActs
  <2>1. StressC \in Proc /\ Sleep \in Nat
    BY WorkersDiffer, StressAssumption
  <2>2. CASE CDequeues
    BY <2>2 DEF CDequeues, CallsNext, SystemActs
  <2>3. CASE CTakes \/ CAnnounces \/ CYields
    BY <1>0, <2>1, <2>3, SendCalls, ReleaseCalls
       DEF CTakes, CAnnounces, CYields, Free, Mail, Primitives
  <2>4. CASE CSleeps
    BY <1>0, <2>1, <2>4, DelayedSendCalls DEF CSleeps
  <2>5. CASE CSleepsOn \/ CGets
    BY <1>0, <2>1, <2>5 DEF CSleepsOn, CGets, Primitives
  <2>6. CASE CReleases
    <3>1. UNCHANGED rtxVars \/ Release(StressC, hibernate)
      BY <2>6 DEF CReleases, Free
    <3>. QED BY <1>0, <3>1, ReleaseCalls DEF CallsNext, SystemActs
  <2>. QED BY <1>6, <2>2, <2>3, <2>4, <2>5, <2>6 DEF CActs
<1>7. CASE TimerActs
  BY <1>7 DEF TimerActs, StressTick, StressScan, CallsNext, SystemActs
<1>. QED BY <1>1, <1>2, <1>3, <1>4, <1>5, <1>6, <1>7, StressCases

-----------------------------------------------------------------------------
(* What kind of message is in a block. *)

Shaped ==
    content = [b \in MemBlock |->
                 [type |-> content[b].type, tx |-> content[b].tx, text |-> content[b].text]]

\* Block b is written, the others are not.
Tagged(b, type, x) ==
    /\ Shaped' /\ content'[b].type = type /\ content'[b].tx = x
    /\ \A c \in MemBlock \ {b} : content'[c] = content[c]

LEMMA WriteTags ==
  ASSUME Shaped, NEW b \in MemBlock, NEW r, NEW type, NEW x, NEW t,
         r = [type |-> type, tx |-> x, text |-> t],
         content' = [content EXCEPT ![b] = r]
  PROVE  Tagged(b, type, x)
<1>1. r.type = type /\ r.tx = x /\ r = [type |-> r.type, tx |-> r.tx, text |-> r.text]
  OBVIOUS
<1>2. DOMAIN content = MemBlock
      /\ content = [c \in DOMAIN content |-> content[c]]
      /\ \A c \in MemBlock : content[c] =
            [type |-> content[c].type, tx |-> content[c].tx, text |-> content[c].text]
  BY DEF Shaped
<1>. HIDE DEF Shaped
<1>3. content'[b] = r /\ DOMAIN content' = MemBlock
      /\ content' = [c \in DOMAIN content' |-> content'[c]]
      /\ \A c \in MemBlock \ {b} : content'[c] = content[c]
  BY <1>2
<1>4. \A c \in MemBlock : content'[c] =
         [type |-> content'[c].type, tx |-> content'[c].tx, text |-> content'[c].text]
  BY <1>1, <1>2, <1>3
<1>5. Shaped'
  BY <1>3, <1>4 DEF Shaped
<1>. QED BY <1>1, <1>3, <1>5 DEF Tagged

\* str_copy and send_message, into the block itself.
LEMMA TextTags ==
  ASSUME Shaped, NEW b \in MemBlock, NEW x, NEW t,
         content' = [content EXCEPT ![b].text = t, ![b].tx = x]
  PROVE  Tagged(b, content[b].type, x)
<1>. DEFINE r == content[b]
            u == [r EXCEPT !.text = t]
            s == [u EXCEPT !.tx = x]
<1>1. r = [type |-> r.type, tx |-> r.tx, text |-> r.text]
  BY DEF Shaped
<1>2. content' = [content EXCEPT ![b] = s]
  <2>1. b \in DOMAIN content /\ content = [c \in DOMAIN content |-> content[c]]
    BY DEF Shaped
  <2>2. /\ DOMAIN content' = DOMAIN content /\ content'[b] = s
        /\ content' = [c \in DOMAIN content |-> content'[c]]
        /\ \A c \in DOMAIN content \ {b} : content'[c] = content[c]
    BY <2>1
  <2>. HIDE DEF s, r, u
  <2>. QED BY <2>1, <2>2
<1>. HIDE DEF r
<1>3. u = [type |-> r.type, tx |-> r.tx, text |-> t]
  BY <1>1
<1>. HIDE DEF u
<1>4. s = [type |-> r.type, tx |-> x, text |-> t]
  BY <1>3
<1>. HIDE DEF s
<1>5. Tagged(b, r.type, x)
  BY <1>2, <1>4, WriteTags
<1>. QED BY <1>5 DEF r

LEMMA DividedTags ==
  ASSUME Shaped, NEW b \in MemBlock, NEW t, content' = [content EXCEPT ![b].text = t]
  PROVE  Tagged(b, content[b].type, content[b].tx)
<1>. DEFINE r == content[b]
            u == [r EXCEPT !.text = t]
<1>1. r = [type |-> r.type, tx |-> r.tx, text |-> r.text]
  BY DEF Shaped
<1>2. content' = [content EXCEPT ![b] = u]
  OBVIOUS
<1>. HIDE DEF r
<1>3. u = [type |-> r.type, tx |-> r.tx, text |-> t]
  BY <1>1
<1>. HIDE DEF u
<1>4. Tagged(b, r.type, r.tx)
  BY <1>2, <1>3, WriteTags
<1>. QED BY <1>4 DEF r

\* stress_a and stress_c write a type and their pid into a block.
LEMMA TypeTags ==
  ASSUME Shaped, NEW b \in MemBlock, NEW x, NEW type,
         content' = [content EXCEPT ![b].type = type, ![b].tx = x]
  PROVE  Tagged(b, type, x)
<1>. DEFINE r == content[b]
            u == [r EXCEPT !.type = type]
            s == [u EXCEPT !.tx = x]
<1>1. r = [type |-> r.type, tx |-> r.tx, text |-> r.text]
  BY DEF Shaped
<1>2. content' = [content EXCEPT ![b] = s]
  <2>1. b \in DOMAIN content /\ content = [c \in DOMAIN content |-> content[c]]
    BY DEF Shaped
  <2>2. /\ DOMAIN content' = DOMAIN content /\ content'[b] = s
        /\ content' = [c \in DOMAIN content |-> content'[c]]
        /\ \A c \in DOMAIN content \ {b} : content'[c] = content[c]
    BY <2>1
  <2>. HIDE DEF s, r, u
  <2>. QED BY <2>1, <2>2
<1>. HIDE DEF r
<1>3. u = [type |-> type, tx |-> r.tx, text |-> r.text]
  BY <1>1
<1>. HIDE DEF u
<1>4. s = [type |-> type, tx |-> x, text |-> r.text]
  BY <1>3
<1>. HIDE DEF s
<1>. QED BY <1>2, <1>4, WriteTags

IsWake(b) == content[b].type = WAKEUP10

\* Who may have a block of which type.  A registration is on its way to the decoder, a
\* number on its way through stress_b to stress_c, and the message that wakes stress_c
\* is its own while it sleeps, and until it releases it.
Tags ==
    /\ \A b \in MemBlock : IsFree(b) => content[b].type = PLAIN
    /\ \A p \in Workers : pc[p] \in {"fill", "fill2"} => content[new[p]].type = PLAIN
    /\ \A b \in MemBlock : content[b].type = REGISTER_CMD =>
          owner[b] = Kcd /\ content[b].tx \in {Prio, StressA}
    /\ \A b \in MemBlock : content[b].type = COUNT_REPORT => owner[b] \in {StressB, StressC}

Wakeup ==
    /\ \A b \in MemBlock : IsWake(b) =>
          owner[b] = StressC /\ b = hibernate /\ pc[StressC] \in {"sleep", "stale"}
    /\ pc[StressC] = "sleep" => hibernate \in MemBlock /\ IsWake(hibernate)
    /\ \A b \in MemBlock : InBox(delayed, b) => IsWake(b)

LEMMA TypesDiffer ==
  /\ PLAIN # REGISTER_CMD /\ PLAIN # COUNT_REPORT /\ PLAIN # WAKEUP10
  /\ REGISTER_CMD # COUNT_REPORT /\ REGISTER_CMD # WAKEUP10 /\ COUNT_REPORT # WAKEUP10
BY DEF PLAIN, REGISTER_CMD, COUNT_REPORT, WAKEUP10

\* What a step of p may do with block c.
Same(c) ==
    /\ content'[c].type = content[c].type /\ content'[c].tx = content[c].tx
    /\ owner'[c] = owner[c] /\ (IsFree(c)' <=> IsFree(c))

Writes(c, p) ==
    /\ c \in held[p] /\ ~IsFree(c)'
    /\ \/ /\ content'[c].type = content[c].type
          /\ p = Kcd => content[c].type # REGISTER_CMD
          /\ p = StressB => owner'[c] = StressC
          /\ p = StressC => content[c].type = PLAIN
       \/ /\ content'[c].type = REGISTER_CMD
          /\ p \in {Prio, StressA} /\ content'[c].tx = p /\ owner'[c] = Kcd
       \/ content'[c].type = COUNT_REPORT /\ p = StressA /\ owner'[c] = StressB
       \/ content'[c].type = WAKEUP10 /\ p = StressC /\ owner'[c] = StressC

Moves(c, p) ==
    \/ Same(c)
    \/ c \in held[p] /\ content'[c].type = PLAIN
    \/ Writes(c, p)

AllMove(p) == Shaped' /\ \A c \in MemBlock : Moves(c, p)

LEMMA NothingMoves ==
  ASSUME Shaped, UNCHANGED <<content, owner, available>>, NEW p
  PROVE  AllMove(p)
BY DEF AllMove, Shaped, Moves, Same, IsFree

LEMMA FreeMoves ==
  ASSUME RtxIInv, Shaped, NEW p, NEW b, Free(p, b)
  PROVE  /\ AllMove(p) /\ p \in Proc /\ b \in MemBlock /\ b \in held[p]
         /\ Tagged(b, PLAIN, NullProc)
<1>1. Release(p, b) /\ p \in Proc /\ b \in MemBlock /\ b \in held[p]
  BY ReleaseCalls DEF Free
<1>2. available' = Append(available, b) /\ owner' = [owner EXCEPT ![b] = NoOwner]
  BY <1>1 DEF Release
<1>3. \A c : IsFree(c)' <=> IsFree(c) \/ c = b
  <2>1. available \in Seq(MemBlock)
    BY DEF RtxIInv, Accounts, DataTypeOK
  <2>. QED BY <1>1, <1>2, <2>1, AppendContains DEF IsFree
<1>4. \A c \in MemBlock \ {b} : owner'[c] = owner[c]
  BY <1>2 DEF RtxIInv, Accounts, DataTypeOK
<1>5. Tagged(b, PLAIN, NullProc)
  <2>1. content' = [content EXCEPT ![b] = Blank]
    BY DEF Free
  <2>2. Blank = [type |-> PLAIN, tx |-> NullProc, text |-> <<>>]
    BY DEF Blank
  <2>. QED BY <1>1, <2>1, <2>2, WriteTags
<1>6. \A c \in MemBlock \ {b} : Same(c)
  BY <1>3, <1>4, <1>5 DEF Same, Tagged
<1>. QED BY <1>1, <1>5, <1>6 DEF AllMove, Moves, Tagged

LEMMA SendMoves ==
  ASSUME RtxIInv, NEW p, NEW b, NEW q, Send(p, b, q) \/ \E d \in Nat : DelayedSend(p, b, q, d),
         NEW type, NEW x, Tagged(b, type, x)
  PROVE  /\ Shaped' /\ p \in Proc /\ b \in MemBlock /\ b \in held[p] /\ ~IsFree(b)'
         /\ owner'[b] = q /\ content'[b].type = type /\ content'[b].tx = x
         /\ \A c \in MemBlock \ {b} : Same(c)
<1>1. p \in Proc /\ b \in MemBlock /\ b \in held[p]
  BY SendCalls, DelayedSendCalls
<1>2. available' = available /\ owner' = [owner EXCEPT ![b] = q]
  BY DEF Send, DelayedSend, Address
<1>3. owner'[b] = q /\ \A c \in MemBlock \ {b} : owner'[c] = owner[c]
  BY <1>1, <1>2 DEF RtxIInv, Accounts, DataTypeOK
<1>4. ~IsFree(b) /\ \A c : IsFree(c)' <=> IsFree(c)
  BY <1>1, <1>2, HeldProperties DEF RtxIInv, IsFree
<1>5. \A c \in MemBlock \ {b} : Same(c)
  BY <1>3, <1>4 DEF Same, Tagged
<1>. QED BY <1>1, <1>3, <1>4, <1>5 DEF Tagged

\* A message is passed on, or sent, with another text.
LEMMA MailMoves ==
  ASSUME RtxIInv, Shaped, NEW p, NEW b, NEW q, NEW t, Send(p, b, q),
         content' = [content EXCEPT ![b].text = t, ![b].tx = p],
         p = Kcd => content[b].type # REGISTER_CMD,
         p = StressB => q = StressC,
         p = StressC => content[b].type = PLAIN
  PROVE  AllMove(p) /\ content'[b].type = content[b].type
<1>1. b \in MemBlock
  BY SendCalls
<1>2. Tagged(b, content[b].type, p)
  BY <1>1, TextTags
<1>. DEFINE type == content[b].type
<1>. HIDE DEF type
<1>3. /\ Shaped' /\ b \in held[p] /\ ~IsFree(b)' /\ owner'[b] = q
      /\ content'[b].type = type
      /\ \A c \in MemBlock \ {b} : Same(c)
  <2>1. Tagged(b, type, p)
    BY <1>2 DEF type
  <2>. QED BY <2>1, SendMoves
<1>4. Writes(b, p)
  BY <1>3 DEF Writes, type
<1>. QED BY <1>3, <1>4 DEF AllMove, Moves, type

LEMMA MailText ==
  ASSUME RtxIInv, Shaped, NEW p, NEW b, NEW q, NEW s, Mail(p, b, q, s)
  PROVE  /\ Send(p, b, q) /\ p \in Proc /\ b \in MemBlock /\ b \in held[p]
         /\ \E t : content' = [content EXCEPT ![b].text = t, ![b].tx = p]
<1>1. Send(p, b, q) /\ p \in Proc /\ b \in MemBlock /\ b \in held[p] /\ b \in DOMAIN content
  BY SendCalls DEF Mail, Shaped
<1>. DEFINE t == Overwrite(content[b].text, s)
<1>2. content' = [content EXCEPT ![b].text = t, ![b].tx = p]
  BY <1>1 DEF Mail
<1>. QED BY <1>1, <1>2

\* stress_a and stress_c send what they have written a type into.
LEMMA TypeMoves ==
  ASSUME RtxIInv, Shaped, NEW p, NEW b, NEW q, NEW type,
         Send(p, b, q) \/ \E d \in Nat : DelayedSend(p, b, q, d), Tagged(b, type, p),
         \/ type = COUNT_REPORT /\ p = StressA /\ q = StressB
         \/ type = WAKEUP10 /\ p = StressC /\ q = StressC
  PROVE  /\ AllMove(p) /\ p \in Proc /\ b \in MemBlock /\ b \in held[p] /\ ~IsFree(b)'
         /\ content'[b].type = type /\ owner'[b] = q
         /\ \A c \in MemBlock \ {b} : Same(c)
<1>3. /\ Shaped' /\ p \in Proc /\ b \in MemBlock /\ b \in held[p] /\ ~IsFree(b)'
      /\ owner'[b] = q /\ content'[b].type = type /\ \A c \in MemBlock \ {b} : Same(c)
  BY SendMoves
<1>4. Writes(b, p)
  BY <1>3 DEF Writes
<1>. QED BY <1>3, <1>4 DEF AllMove, Moves

LEMMA RegisterMoves ==
  ASSUME RtxIInv, Shaped, NEW p \in {Prio, StressA}, NEW b, NEW s, Register(p, b, s)
  PROVE  AllMove(p)
<1>1. Send(p, b, Kcd) /\ b \in MemBlock
  BY SendCalls DEF Register
<1>2. Tagged(b, REGISTER_CMD, p)
  <2>. DEFINE t == Overwrite(content[b].text, s)
              r == [type |-> REGISTER_CMD, tx |-> p, text |-> t]
  <2>1. content' = [content EXCEPT ![b] = r]
    <3>1. b \in DOMAIN content
      BY <1>1 DEF Shaped
    <3>. QED BY <3>1 DEF Register
  <2>2. r = [type |-> REGISTER_CMD, tx |-> p, text |-> t]
    OBVIOUS
  <2>. HIDE DEF r, t
  <2>. QED BY <1>1, <2>1, <2>2, WriteTags
<1>3. /\ Shaped' /\ b \in held[p] /\ ~IsFree(b)' /\ owner'[b] = Kcd
      /\ content'[b].type = REGISTER_CMD /\ content'[b].tx = p
      /\ \A c \in MemBlock \ {b} : Same(c)
  BY <1>1, <1>2, SendMoves
<1>4. Writes(b, p)
  BY <1>3 DEF Writes
<1>. QED BY <1>3, <1>4 DEF AllMove, Moves

LEMMA DecoderMoves ==
  ASSUME RtxIInv, Shaped, Tags, Decoder
  PROVE  AllMove(Kcd)
<1>0. Kcd \in Workers /\ Kcd # StressB /\ Kcd # StressC
  BY WorkersDiffer DEF Client, Keepers
<1>1. CASE KcdStarts
  BY <1>1, NothingMoves DEF KcdStarts, rtxVars, dataVars, memVars
<1>2. CASE KcdRegisters \/ KcdClears
  BY <1>2, FreeMoves DEF KcdRegisters, KcdClears
<1>3. CASE KcdEchoes
  <2>1. PICK x : Mail(Kcd, msg[Kcd], Crt, x)
    BY <1>3 DEF KcdEchoes
  <2>2. content[msg[Kcd]].type # REGISTER_CMD
    BY <1>3 DEF KcdEchoes
  <2>. QED BY <1>0, <2>1, <2>2, MailText, MailMoves
<1>4. CASE KcdSendsClear \/ KcdSendsCommand
  <2>1. PICK q, x : Mail(Kcd, new[Kcd], q, x)
    BY <1>4 DEF KcdSendsClear, KcdSendsCommand
  <2>2. content[new[Kcd]].type # REGISTER_CMD
    BY <1>0, <1>4, TypesDiffer DEF KcdSendsClear, KcdSendsCommand, Tags
  <2>. QED BY <1>0, <2>1, <2>2, MailText, MailMoves
<1>. QED BY <1>1, <1>2, <1>3, <1>4 DEF Decoder

LEMMA OutputMoves ==
  ASSUME RtxIInv, Shaped, Tags, NEW p \in {Crt, Uart},
         \/ p = Crt /\ (CrtLoops \/ CrtSends \/ CrtReleases)
         \/ p = Uart /\ (UartTakes \/ UartWrites)
  PROVE  AllMove(p)
<1>0. p # Kcd /\ p # StressB /\ p # StressC
  BY WorkersDiffer, ClientsDiffer, StressedDiffer DEF Client, Keepers
<1>1. CASE CrtLoops \/ UartWrites
  BY <1>1, NothingMoves DEF CrtLoops, UartWrites, rtxVars, dataVars, memVars
<1>2. CASE p = Crt /\ CrtReleases
  BY <1>2, FreeMoves DEF CrtReleases
<1>3. CASE p = Uart /\ UartTakes
  BY <1>3, FreeMoves DEF UartTakes
<1>4. CASE p = Crt /\ CrtSends
  <2>1. PICK x : Mail(Crt, new[Crt], Uart, x)
    BY <1>4 DEF CrtSends
  <2>. QED BY <1>0, <1>4, <2>1, MailText, MailMoves
<1>. QED BY <1>1, <1>2, <1>3, <1>4

LEMMA CommandMoves ==
  ASSUME RtxIInv, Shaped, Tidy(Prio), Command
  PROVE  AllMove(Prio)
<1>0. Prio # Kcd /\ Prio # StressB /\ Prio # StressC /\ Prio \in Proc
  BY WorkersDiffer, ClientsDiffer, StressedDiffer DEF Client, Keepers
<1>1. CASE PrioRegisters
  BY <1>1, RegisterMoves DEF PrioRegisters
<1>2. CASE PrioReplies
  <2>1. Mail(Prio, msg[Prio], Crt, Reply[reply])
    BY <1>2 DEF PrioReplies
  <2>. QED BY <1>0, <2>1, MailText, MailMoves
<1>3. CASE PrioComplains
  <2>. DEFINE b == msg[Prio]
              old == content[b].text
  <2>1. PICK kind \in Complaint(Text(Prio)) :
          /\ Send(Prio, b, Crt)
          /\ content' = [content EXCEPT
                ![b].text = Overwrite(IF kind = "bad" THEN @ ELSE Divided(@), Reply[kind]),
                ![b].tx = Prio]
    BY <1>3 DEF PrioComplains
  <2>2. b \in DOMAIN content
    BY <2>1, SendCalls DEF Shaped
  <2>. DEFINE t == Overwrite(IF kind = "bad" THEN old ELSE Divided(old), Reply[kind])
  <2>3. content' = [content EXCEPT ![b].text = t, ![b].tx = Prio]
    BY <2>1, <2>2
  <2>. HIDE DEF t, b
  <2>. QED BY <1>0, <2>1, <2>3, MailMoves
<1>4. CASE PrioSets
  <2>1. msg[Prio] \in held[Prio] /\ msg[Prio] \in MemBlock
    BY <1>0, <1>4 DEF PrioSets, Tidy, Named, RtxIInv, Accounts, DataTypeOK
  <2>. DEFINE t == Divided(content[msg[Prio]].text)
  <2>2. content' = [content EXCEPT ![msg[Prio]].text = t]
    <3>1. msg[Prio] \in DOMAIN content
      BY <2>1 DEF Shaped
    <3>. QED BY <1>4, <3>1 DEF PrioSets
  <2>. HIDE DEF t
  <2>3. Tagged(msg[Prio], content[msg[Prio]].type, content[msg[Prio]].tx)
    BY <2>1, <2>2, DividedTags
  <2>4. UNCHANGED <<owner, available>>
    BY <1>4 DEF PrioSets, ChangePriority, dataVars, memVars, rtxVars
  <2>5. \A c \in MemBlock : content'[c].type = content[c].type /\ content'[c].tx = content[c].tx
    BY <2>3 DEF Tagged
  <2>6. \A c \in MemBlock : Same(c)
    BY <2>4, <2>5 DEF Same, IsFree
  <2>. QED BY <2>3, <2>6 DEF AllMove, Moves, Tagged
<1>. QED BY <1>1, <1>2, <1>3, <1>4 DEF Command

\* A process that is about to write into a block holds it.
Holding(p) == pc[p] \in {"fill", "fill2"} => new[p] \in held[p]

LEMMA MovesTags ==
  ASSUME RtxIInv, Tags, \A q \in Workers : Holding(q),
         NEW p \in Workers, AllMove(p), OthersStay(p), pc'[p] \notin {"fill", "fill2"}
  PROVE  Tags'
<1>0. Workers \subseteq Proc /\ Kcd \in Proc /\ held \in [Proc -> SUBSET MemBlock]
  BY WorkersDiffer, ReceiverAssumption DEF RtxIInv, Accounts, DataTypeOK
<1>1. \A c \in MemBlock : c \in held[p] =>
         owner[c] = p /\ ~IsFree(c) /\ \A q \in Proc : c \in held[q] => q = p
  BY <1>0, HeldProperties DEF RtxIInv
<1>2. ASSUME NEW c \in MemBlock, IsFree(c)' PROVE content'[c].type = PLAIN
  BY <1>2 DEF AllMove, Moves, Same, Writes, Tags
<1>3. ASSUME NEW q \in Workers, pc'[q] \in {"fill", "fill2"}
      PROVE  content'[new'[q]].type = PLAIN
  <2>1. q # p /\ q \in Proc /\ pc[q] \in {"fill", "fill2"} /\ new'[q] = new[q]
    BY <1>0, <1>3 DEF OthersStay
  <2>2. new[q] \in held[q] /\ new[q] \in MemBlock /\ content[new[q]].type = PLAIN
    BY <1>0, <1>3, <2>1 DEF Holding, Tags
  <2>3. new[q] \notin held[p]
    BY <1>1, <2>1, <2>2
  <2>4. Same(new[q])
    BY <2>2, <2>3 DEF AllMove, Moves, Writes
  <2>. QED BY <2>1, <2>2, <2>4 DEF Same
<1>4. ASSUME NEW c \in MemBlock, content'[c].type = REGISTER_CMD
      PROVE  owner'[c] = Kcd /\ content'[c].tx \in {Prio, StressA}
  <2>1. CASE Same(c)
    BY <1>4, <2>1 DEF Same, Tags
  <2>2. ASSUME ~Same(c), content[c].type = REGISTER_CMD PROVE p = Kcd
    BY <1>1, <1>4, <2>2, TypesDiffer DEF AllMove, Moves, Writes, Tags
  <2>3. CASE ~Same(c)
    BY <1>4, <2>2, <2>3, TypesDiffer DEF AllMove, Moves, Writes
  <2>. QED BY <2>1, <2>3
<1>5. ASSUME NEW c \in MemBlock, content'[c].type = COUNT_REPORT
      PROVE  owner'[c] \in {StressB, StressC}
  <2>1. CASE Same(c)
    BY <1>5, <2>1 DEF Same, Tags
  <2>2. ASSUME ~Same(c), content[c].type = COUNT_REPORT PROVE p \in {StressB, StressC}
    BY <1>1, <1>5, <2>2, TypesDiffer DEF AllMove, Moves, Writes, Tags
  <2>3. CASE ~Same(c)
    BY <1>5, <2>2, <2>3, TypesDiffer DEF AllMove, Moves, Writes
  <2>. QED BY <2>1, <2>3
<1>. QED BY <1>2, <1>3, <1>4, <1>5 DEF Tags

LEMMA MovesWakeup ==
  ASSUME RtxIInv, Wakeup, NEW p \in Keepers, AllMove(p), OthersStay(p),
         UNCHANGED <<hibernate, delayed>>
  PROVE  Wakeup' /\ \A c \in MemBlock : IsWake(c)' <=> IsWake(c)
<1>0. p \in Proc /\ StressC \in Proc /\ p # StressC /\ StressA # StressC
      /\ held \in [Proc -> SUBSET MemBlock]
  BY WorkersDiffer DEF RtxIInv, Accounts, DataTypeOK, Keepers
<1>1. \A c \in MemBlock : c \in held[p] => owner[c] = p
  BY <1>0, HeldProperties DEF RtxIInv
<1>2. pc'[StressC] = pc[StressC]
  BY <1>0 DEF OthersStay
<1>3. ASSUME NEW c \in MemBlock, IsWake(c)' PROVE IsWake(c) /\ Same(c)
  <2>1. c \in held[p] => ~IsWake(c)
    BY <1>0, <1>1 DEF Wakeup
  <2>. QED BY <1>0, <1>3, <2>1, TypesDiffer DEF AllMove, Moves, Writes, Same, IsWake
<1>4. ASSUME NEW c \in MemBlock, IsWake(c) PROVE IsWake(c)'
  <2>1. c \notin held[p]
    BY <1>0, <1>1, <1>4 DEF Wakeup
  <2>. QED BY <1>4, <2>1 DEF AllMove, Moves, Writes, Same, IsWake
<1>. QED BY <1>2, <1>3, <1>4 DEF Wakeup, Same, InBox

\* Steps that write nothing but a free block, take none back and move stress_c neither
\* into its sleep nor out of it.
Takes ==
    /\ Shaped'
    /\ \A c \in MemBlock :
          /\ content'[c].type = content[c].type /\ (IsFree(c)' => IsFree(c))
          /\ ~IsFree(c) => owner'[c] = owner[c] /\ content'[c].tx = content[c].tx
          /\ InBox(delayed, c)' => InBox(delayed, c)
    /\ \A q \in Workers : pc'[q] \in {"fill", "fill2"} =>
          new'[q] \in MemBlock /\ content[new'[q]].type = PLAIN
    /\ \/ pc'[StressC] = pc[StressC]
       \/ {pc[StressC], pc'[StressC]} \cap {"sleep", "stale"} = {}
    /\ hibernate' = hibernate

LEMMA TakesTags ==
  ASSUME Tags, Wakeup, Takes
  PROVE  Shaped' /\ Tags' /\ Wakeup' /\ \A c \in MemBlock : IsWake(c)' <=> IsWake(c)
<1>1. \A c \in MemBlock : content[c].type # PLAIN => ~IsFree(c)
  BY DEF Tags
<1>2. Tags'
  <2>1. \A c \in MemBlock : content'[c].type # PLAIN =>
           owner'[c] = owner[c] /\ content'[c].tx = content[c].tx
           /\ content'[c].type = content[c].type
    BY <1>1 DEF Takes
  <2>2. \A c \in MemBlock : IsFree(c)' => content'[c].type = PLAIN
    BY DEF Takes, Tags
  <2>3. \A q \in Workers : pc'[q] \in {"fill", "fill2"} => content'[new'[q]].type = PLAIN
    BY DEF Takes
  <2>. QED BY <2>1, <2>2, <2>3, TypesDiffer DEF Tags
<1>3. Wakeup'
  <2>1. \A c \in MemBlock : IsWake(c)' => IsWake(c) /\ owner'[c] = owner[c]
    BY <1>1, TypesDiffer DEF Takes, IsWake
  <2>2. \A c \in MemBlock : IsWake(c) => IsWake(c)'
    BY DEF Takes, IsWake
  <2>. QED BY <2>1, <2>2 DEF Wakeup, Takes
<1>. QED BY <1>2, <1>3 DEF Takes, IsWake

LEMMA ClientTakes ==
  ASSUME RtxIInv, Pointers, Shaped, Tags, \A q \in Workers : Holding(q),
         NEW p \in Workers, ClientStep(p), hibernate' = hibernate
  PROVE  Takes
<1>0. Workers \subseteq Proc /\ StressC \in Workers /\ held \in [Proc -> SUBSET MemBlock]
      /\ available \in Seq(MemBlock) /\ owner \in [MemBlock -> Proc \cup {NoOwner}]
  BY WorkersDiffer DEF RtxIInv, Accounts, DataTypeOK
<1>1. content' = content /\ delayed' = delayed /\ Shaped'
  BY DEF ClientStep, Waits, Gets, Obtains, localVars, ReceiveFindsNone, ReceiveBlocks,
         RequestFindsNone, RequestBlocks, SendUnblocks, ReleaseUnblocks, Receive, Request,
         mailVars, Shaped
<1>2. /\ \A c \in MemBlock : IsFree(c)' => IsFree(c)
      /\ \A c \in MemBlock : ~IsFree(c) => owner'[c] = owner[c]
  <2>1. CASE Waits(p) \/ Gets(p)
    <3>1. UNCHANGED <<available, owner>>
      BY <2>1 DEF Waits, Gets, ReceiveFindsNone, ReceiveBlocks, RequestFindsNone,
                  RequestBlocks, SendUnblocks, ReleaseUnblocks, Receive, memVars
    <3>. QED BY <3>1 DEF IsFree
  <2>2. CASE Obtains(p)
    <3>1. /\ available' = Tail(available)
          /\ owner' = [owner EXCEPT ![Head(available)] = p] /\ available # <<>>
      BY <2>2 DEF Obtains, Request
    <3>2. /\ IsFree(Head(available))
          /\ \A b : Contains(Tail(available), b) <=> IsFree(b) /\ b # Head(available)
      BY <3>1, HeadIsFree DEF RtxIInv
    <3>. QED BY <1>0, <3>1, <3>2 DEF IsFree
  <2>. QED BY <2>1, <2>2 DEF ClientStep
<1>3. OthersStay(p)
  BY <1>0, ClientTidies
<1>4. \A q \in Workers : Holding(q) /\ pc[q] \in {"fill", "fill2"} => new[q] \in MemBlock
  BY <1>0 DEF Holding
<1>5. CASE Waits(p)
  <2>1. pc' = pc /\ new' = new
    BY <1>5 DEF Waits, localVars
  <2>. QED BY <1>1, <1>2, <1>4, <2>1 DEF Takes, Tags
<1>6. CASE Gets(p)
  <2>1. pc' = [pc EXCEPT ![p] = "got"] /\ new' = new /\ pc[p] = "receive"
    BY <1>6 DEF Gets, GoOn
  <2>2. pc'[p] = "got"
    BY <1>0, <2>1 DEF Pointers
  <2>3. {pc[p], pc'[p]} \cap {"sleep", "stale"} = {}
    BY <2>1, <2>2
  <2>. QED BY <1>0, <1>1, <1>2, <1>3, <1>4, <2>1, <2>2, <2>3 DEF Takes, Tags, OthersStay
<1>7. CASE Obtains(p)
  <2>1. PICK b \in MemBlock :
          /\ IsFree(b) /\ new' = [new EXCEPT ![p] = b]
          /\ \/ pc[p] = "request" /\ pc' = [pc EXCEPT ![p] = "fill"]
             \/ pc[p] = "request2" /\ pc' = [pc EXCEPT ![p] = "fill2"]
    BY <1>0, <1>7, ObtainsHolds
  <2>2. pc'[p] \in {"fill", "fill2"} /\ new'[p] = b /\ content[b].type = PLAIN
    BY <1>0, <2>1 DEF Pointers, Tags
  <2>3. {pc[p], pc'[p]} \cap {"sleep", "stale"} = {}
    BY <2>1, <2>2
  <2>. QED BY <1>0, <1>1, <1>2, <1>3, <1>4, <2>2, <2>3 DEF Takes, Tags, OthersStay
<1>. QED BY <1>5, <1>6, <1>7 DEF ClientStep

LEMMA IdleTakes ==
  ASSUME Shaped, Tags, RtxIInv, \A q \in Workers : Holding(q),
         UNCHANGED <<content, owner, available, pc, new, hibernate>>,
         \A c \in MemBlock : InBox(delayed, c)' => InBox(delayed, c)
  PROVE  Takes
<1>1. \A q \in Workers : pc[q] \in {"fill", "fill2"} => new[q] \in MemBlock
  BY WorkersDiffer DEF Holding, RtxIInv, Accounts, DataTypeOK
<1>. QED BY <1>1 DEF Takes, Shaped, IsFree, Tags

LEMMA TypesTakes ==
  ASSUME Shaped, Tags, RtxIInv, \A q \in Workers : Holding(q), Types, hibernate' = hibernate
  PROVE  Takes
<1>. DEFINE b == Head(available)
<1>1. /\ available # <<>> /\ available' = Tail(available) /\ delayed' = delayed
      /\ owner' = [owner EXCEPT ![b] = Kcd] /\ pc' = pc /\ new' = new
  BY DEF Types, SerialInterrupt
<1>2. b \in MemBlock /\ IsFree(b) /\ \A c : Contains(Tail(available), c) <=> IsFree(c) /\ c # b
  BY <1>1, HeadIsFree DEF RtxIInv
<1>3. Tagged(b, content[b].type, kernel.running)
  <2>. DEFINE t == Overwrite(content[b].text, <<Head(keys)>>)
  <2>1. content' = [content EXCEPT ![b].text = t, ![b].tx = kernel.running]
    <3>1. b \in DOMAIN content
      BY <1>2 DEF Shaped
    <3>. QED BY <3>1 DEF Types
  <2>. HIDE DEF t, b
  <2>. QED BY <1>2, <2>1, TextTags
<1>4. \A q \in Workers : pc[q] \in {"fill", "fill2"} => new[q] \in MemBlock
  BY WorkersDiffer DEF Holding, RtxIInv, Accounts, DataTypeOK
<1>5. \A c \in MemBlock : ~IsFree(c) => owner'[c] = owner[c] /\ c # b
  BY <1>1, <1>2 DEF RtxIInv, Accounts, DataTypeOK
<1>6. \A c \in MemBlock : content'[c].type = content[c].type /\ (c # b => content'[c] = content[c])
  BY <1>3 DEF Tagged
<1>. HIDE DEF b
<1>. QED BY <1>1, <1>2, <1>3, <1>4, <1>5, <1>6 DEF Takes, Tagged, IsFree, InBox, Tags

LEMMA TimerTakes ==
  ASSUME Shaped, Tags, RtxIInv, \A q \in Workers : Holding(q), TimerActs
  PROVE  Takes
<1>1. UNCHANGED <<content, owner, available, pc, new, hibernate>>
  BY DEF TimerActs, StressTick, StressScan, Tick, TickSkips, TickEnds, TickDelivers,
         memVars, localVars, stressLocal
<1>2. ASSUME NEW c \in MemBlock PROVE InBox(delayed, c)' => InBox(delayed, c)
  <2>1. CASE delayed' = delayed
    BY <2>1 DEF InBox
  <2>2. ASSUME NEW b \in MemBlock, TickDelivers(b)
        PROVE  InBox(delayed, c)' => InBox(delayed, c)
    <3>1. scan \in Slot /\ delayed' = Take(delayed, scan) /\ delayed[scan] # NoBlock
      BY <2>2, BlockAssumption DEF TickDelivers
    <3>2. delayed \in Box /\ Single(delayed) /\ Compact(delayed)
      BY DEF RtxIInv, Accounts, DataTypeOK, Listed
    <3>3. InBox(Take(delayed, scan), c) => InBox(delayed, c)
      BY <3>1, <3>2, TakeProperties
    <3>. QED BY <3>1, <3>3 DEF InBox
  <2>. QED BY <2>1, <2>2 DEF TimerActs, StressTick, StressScan, Tick, TickSkips, TickEnds,
              mailVars
<1>. QED BY <1>1, <1>2, IdleTakes

-----------------------------------------------------------------------------
(* The programs of the stress test. *)

\* A step of p's program that takes no block.
WorkerActs(p) ==
    /\ AllMove(p) /\ OthersStay(p) /\ pc'[p] \notin {"fill", "fill2"}
    /\ delayed' = delayed

LEMMA FirstActs ==
  ASSUME RtxIInv, Pointers, Shaped, AActs
  PROVE  Pointers' /\ WorkerActs(StressA) /\ (Tidy(StressA) => Tidy(StressA)')
         /\ pc'[StressA] \in {"receive", "request", "yield"}
         /\ UNCHANGED <<local, hibernate, damaged, cmds>>
<1>0. /\ StressA \in Proc /\ StressA # Crt /\ StressA # Kcd /\ StressA # StressB
      /\ StressA # StressC /\ held \in [Proc -> SUBSET MemBlock]
  BY WorkersDiffer, ClientsDiffer, StressedDiffer DEF RtxIInv, Accounts, DataTypeOK
<1>1. CASE ARegisters
  <2>1. pc[StressA] = "fill" /\ Parts(StressA, {new[StressA]}, "receive") /\ delayed' = delayed
    BY <1>1 DEF ARegisters, Register, Send, Address, GoOn, Parts
  <2>2. AllMove(StressA)
    BY <1>1, RegisterMoves DEF ARegisters
  <2>3. Named(StressA) = {new[StressA]}
    BY <1>0, <2>1 DEF Named
  <2>4. Pointers' /\ OthersStay(StressA) /\ (Tidy(StressA) => Tidy(StressA)') /\ pc'[StressA] = "receive"
    <3>1. "receive" \in Stages
      BY DEF Stages
    <3>. QED BY <1>0, <2>1, <2>3, <3>1, PartsTidy, PartsStay
  <2>. QED BY <1>1, <2>1, <2>2, <2>4 DEF WorkerActs, ARegisters, stressLocal, Elsewhere
<1>2. CASE AStarts
  <2>1. PICK point \in {"receive", "request"} :
           pc[StressA] = "got" /\ Parts(StressA, {msg[StressA]}, point) /\ delayed' = delayed
    BY <1>2 DEF AStarts, Free, Release, GoOn, Parts
  <2>2. AllMove(StressA)
    BY <1>2, FreeMoves DEF AStarts
  <2>3. Named(StressA) = {msg[StressA]}
    BY <1>0, <2>1 DEF Named
  <2>4. Pointers' /\ OthersStay(StressA) /\ (Tidy(StressA) => Tidy(StressA)') /\ pc'[StressA] = point
    <3>1. point \in Stages /\ point \notin {"got", "reply", "fill", "fill2"}
      BY DEF Stages
    <3>. QED BY <1>0, <2>1, <2>3, <3>1, PartsTidy, PartsStay
  <2>. QED BY <1>2, <2>1, <2>2, <2>4 DEF WorkerActs, AStarts, Elsewhere
<1>3. CASE ACounts
  <2>1. pc[StressA] = "fill" /\ Parts(StressA, {new[StressA]}, "yield") /\ delayed' = delayed
    BY <1>3 DEF ACounts, Send, Address, GoOn, Parts
  <2>. DEFINE b == new[StressA]
  <2>2. AllMove(StressA)
    <3>1. /\ Send(StressA, b, StressB) /\ b \in MemBlock
          /\ content' = [content EXCEPT ![b].type = COUNT_REPORT, ![b].tx = StressA]
      BY <1>3, SendCalls DEF ACounts
    <3>. HIDE DEF b
    <3>2. Tagged(b, COUNT_REPORT, StressA)
      BY <3>1, TypeTags
    <3>. QED BY <3>1, <3>2, TypeMoves
  <2>3. Named(StressA) = {new[StressA]}
    BY <1>0, <2>1 DEF Named
  <2>4. Pointers' /\ OthersStay(StressA) /\ (Tidy(StressA) => Tidy(StressA)') /\ pc'[StressA] = "yield"
    <3>1. "yield" \in Stages
      BY DEF Stages
    <3>. QED BY <1>0, <2>1, <2>3, <3>1, PartsTidy, PartsStay
  <2>. QED BY <1>3, <2>1, <2>2, <2>4 DEF WorkerActs, ACounts, Elsewhere
<1>4. CASE AYields
  <2>1. pc[StressA] = "yield" /\ Parts(StressA, {}, "request") /\ UNCHANGED <<delayed, owner, available, content>>
    BY <1>0, <1>4 DEF AYields, Yield, dataVars, memVars, mailVars, GoOn, Parts
  <2>2. AllMove(StressA)
    BY <2>1, NothingMoves
  <2>3. Named(StressA) = {}
    BY <1>0, <2>1 DEF Named
  <2>4. Pointers' /\ OthersStay(StressA) /\ (Tidy(StressA) => Tidy(StressA)') /\ pc'[StressA] = "request"
    <3>1. "request" \in Stages
      BY DEF Stages
    <3>. QED BY <1>0, <2>1, <2>3, <3>1, PartsTidy, PartsStay
  <2>. QED BY <1>4, <2>1, <2>2, <2>4 DEF WorkerActs, AYields, stressLocal, Elsewhere
<1>. QED BY <1>1, <1>2, <1>3, <1>4 DEF AActs

LEMMA SecondActs ==
  ASSUME RtxIInv, Pointers, Shaped, BForwards
  PROVE  Pointers' /\ WorkerActs(StressB) /\ (Tidy(StressB) => Tidy(StressB)')
         /\ pc'[StressB] = "receive" /\ UNCHANGED <<stressLocal, cmds>>
<1>0. /\ StressB \in Proc /\ StressB # Crt /\ StressB # Kcd /\ StressB # StressC
      /\ held \in [Proc -> SUBSET MemBlock]
  BY WorkersDiffer, ClientsDiffer, StressedDiffer DEF RtxIInv, Accounts, DataTypeOK, Client
<1>1. pc[StressB] = "got" /\ Parts(StressB, {msg[StressB]}, "receive") /\ delayed' = delayed
  BY DEF BForwards, Mail, Send, Address, GoOn, Parts
<1>2. AllMove(StressB)
  <2>1. Mail(StressB, msg[StressB], StressC, <<>>)
    BY DEF BForwards
  <2>. QED BY <1>0, <2>1, MailText, MailMoves
<1>3. Named(StressB) = {msg[StressB]}
  BY <1>0, <1>1 DEF Named
<1>4. Pointers' /\ OthersStay(StressB) /\ (Tidy(StressB) => Tidy(StressB)') /\ pc'[StressB] = "receive"
  <2>1. "receive" \in Stages
    BY DEF Stages
  <2>. QED BY <1>0, <1>1, <1>3, <2>1, PartsTidy, PartsStay
<1>. QED BY <1>1, <1>2, <1>4 DEF WorkerActs, BForwards, Elsewhere

\* Every step of the console's own is that of one client, which takes a block or not,
\* or of nobody.
LEMMA ConsoleStepActs ==
  ASSUME RtxIInv, Pointers, Shaped, Tags, \A q \in Workers : Holding(q), \A q \in Client : Tidy(q),
         ConsoleStep
  PROVE  /\ Pointers'
         /\ \E p \in Client : OthersStay(p) /\ Tidy(p)' /\ (Takes \/ WorkerActs(p))
         /\ UNCHANGED stressLocal
<1>0. /\ Client \subseteq Workers /\ Kcd \in Client /\ Crt \in Client /\ Uart \in Client
      /\ Prio \in Client /\ UNCHANGED stressLocal /\ hibernate' = hibernate
  BY DEF Workers, Client, ConsoleStep, stressLocal
<1>1. CASE \/ Boot /\ UNCHANGED <<localVars, userVars, historyVars>>
           \/ TypesInVain \/ UNCHANGED consoleVars
  <2>1. UNCHANGED <<content, owner, available, pc, new, msg, held, delayed>>
    BY <1>1 DEF Boot, dataVars, memVars, mailVars, localVars, TypesInVain, rtxVars, consoleVars
  <2>2. Takes
    BY <1>0, <2>1, IdleTakes DEF InBox
  <2>3. Pointers' /\ OthersStay(Kcd) /\ Tidy(Kcd)'
    BY <1>0, <2>1 DEF Pointers, OthersStay, Tidy, Named
  <2>. QED BY <1>0, <2>2, <2>3
<1>2. CASE Types
  <2>1. UNCHANGED <<pc, new, msg, held>>
    BY <1>2 DEF Types, SerialInterrupt
  <2>2. Takes
    BY <1>0, <1>2, TypesTakes
  <2>3. Pointers' /\ OthersStay(Kcd) /\ Tidy(Kcd)'
    BY <1>0, <2>1 DEF Pointers, OthersStay, Tidy, Named
  <2>. QED BY <1>0, <2>2, <2>3
<1>3. ASSUME NEW p \in Client, ClientStep(p)
      PROVE  Pointers' /\ OthersStay(p) /\ Tidy(p)' /\ Takes
  <2>1. Takes
    BY <1>0, <1>3, ClientTakes
  <2>. QED BY <1>3, <2>1, ClientTidies, ClientsAreProc, StressedAreProc
<1>4. CASE Decoder
  <2>1. AllMove(Kcd)
    BY <1>4, DecoderMoves
  <2>2. pc'[Kcd] \notin {"fill", "fill2"}
    BY <1>4, DecoderProceeds
  <2>3. delayed' = delayed
    BY <1>4 DEF Decoder, KcdStarts, KcdRegisters, KcdClears, KcdSendsClear, KcdEchoes,
                KcdSendsCommand, rtxVars, dataVars, mailVars, Free, Release, Mail, Send
  <2>4. Pointers' /\ OthersStay(Kcd) /\ Tidy(Kcd)'
    BY <1>0, <1>4, DecoderTidies
  <2>. QED BY <1>0, <2>1, <2>2, <2>3, <2>4 DEF WorkerActs
<1>5. CASE Output
  <2>1. delayed' = delayed
    BY <1>5 DEF Output, CrtLoops, CrtSends, CrtReleases, UartTakes, UartWrites,
                rtxVars, dataVars, mailVars, Free, Release, Mail, Send
  <2>2. CASE CrtLoops \/ CrtSends \/ CrtReleases
    <3>1. AllMove(Crt) /\ Pointers' /\ OthersStay(Crt) /\ Tidy(Crt)'
      BY <1>0, <2>2, OutputMoves, CrtTidies
    <3>2. pc'[Crt] \in {"receive", "got", "request"}
      BY <1>0, <2>2, WorkersDiffer
         DEF CrtLoops, CrtSends, CrtReleases, GoOn, Pointers
    <3>. QED BY <1>0, <2>1, <3>1, <3>2 DEF WorkerActs
  <2>3. CASE UartTakes \/ UartWrites
    <3>1. AllMove(Uart) /\ Pointers' /\ OthersStay(Uart) /\ Tidy(Uart)'
      BY <1>0, <2>3, OutputMoves, UartTidies
    <3>2. pc'[Uart] \in {"receive", "write"}
      BY <1>0, <2>3, WorkersDiffer DEF UartTakes, UartWrites, GoOn, Pointers
    <3>. QED BY <1>0, <2>1, <3>1, <3>2 DEF WorkerActs
  <2>. QED BY <1>5, <2>2, <2>3 DEF Output
<1>6. CASE Command
  <2>1. AllMove(Prio)
    BY <1>0, <1>6, CommandMoves
  <2>2. pc'[Prio] \notin {"fill", "fill2"}
    BY <1>6, CommandProceeds
  <2>3. delayed' = delayed
    BY <1>6 DEF Command, PrioRegisters, PrioComplains, PrioSets, PrioReplies, ChangePriority,
                rtxVars, dataVars, mailVars, Register, Mail, Send
  <2>4. Pointers' /\ OthersStay(Prio) /\ Tidy(Prio)'
    BY <1>0, <1>6, CommandTidies
  <2>. QED BY <1>0, <2>1, <2>2, <2>3, <2>4 DEF WorkerActs
<1>. QED BY <1>0, <1>1, <1>2, <1>3, <1>4, <1>5, <1>6 DEF ConsoleStep, ConsoleNext, Processor

-----------------------------------------------------------------------------
(* What stress_c has. *)

LEMMA TailRange ==
  ASSUME NEW S, NEW s \in Seq(S), s # <<>>, IsInjective(s)
  PROVE  /\ Tail(s) \in Seq(S) /\ IsInjective(Tail(s)) /\ Head(s) \in S
         /\ Range(Tail(s)) = Range(s) \ {Head(s)} /\ Head(s) \in Range(s)
<1>1. /\ Tail(s) \in Seq(S) /\ Len(Tail(s)) = Len(s) - 1 /\ Head(s) \in S /\ Head(s) = s[1]
      /\ \A i \in 1..(Len(s) - 1) : Tail(s)[i] = s[i + 1]
      /\ Len(s) \in Nat \ {0} /\ DOMAIN s = 1..Len(s) /\ DOMAIN Tail(s) = 1..(Len(s) - 1)
  BY HeadTailProperties, EmptySeq
<1>. DEFINE t == Tail(s)
            n == Len(s)
<1>2. /\ \A i \in 1..(n - 1) : t[i] = s[i + 1] /\ i + 1 \in 1..n /\ i + 1 # 1
      /\ \A i \in 1..n : i = 1 \/ (i - 1 \in 1..(n - 1) /\ (i - 1) + 1 = i)
      /\ 1 \in 1..n
  BY <1>1
<1>. HIDE DEF t, n
<1>3. \A i, j \in 1..n : s[i] = s[j] => i = j
  BY <1>1 DEF IsInjective, n
<1>4. \A i, j \in 1..(n - 1) : t[i] = t[j] => i = j
  <2>1. \A i, j \in 1..(n - 1) : i + 1 = j + 1 => i = j
    OBVIOUS
  <2>. QED BY <1>2, <1>3, <2>1
<1>5. \A x : (\E i \in 1..(n - 1) : x = t[i]) <=> (\E i \in 1..n : x = s[i]) /\ x # s[1]
  <2>1. ASSUME NEW x, NEW i \in 1..(n - 1), x = t[i]
        PROVE  (\E j \in 1..n : x = s[j]) /\ x # s[1]
    BY <1>2, <1>3, <2>1
  <2>2. ASSUME NEW x, NEW i \in 1..n, x = s[i], x # s[1]
        PROVE  \E j \in 1..(n - 1) : x = t[j]
    <3>1. i - 1 \in 1..(n - 1) /\ (i - 1) + 1 = i
      BY <1>2, <2>2
    <3>. QED BY <1>2, <2>2, <3>1
  <2>. QED BY <2>1, <2>2
<1>6. Range(t) = Range(s) \ {s[1]} /\ s[1] \in Range(s)
  <2>1. DOMAIN t = 1..(n - 1) /\ DOMAIN s = 1..n
    BY <1>1 DEF t, n
  <2>2. \A x : x \in Range(t) <=> x \in Range(s) /\ x # s[1]
    <3>1. \A x : x \in Range(t) <=> \E i \in 1..(n - 1) : x = t[i]
      BY <2>1 DEF Range
    <3>2. \A x : x \in Range(s) <=> \E i \in 1..n : x = s[i]
      BY <2>1 DEF Range
    <3>. QED BY <1>5, <3>1, <3>2
  <2>3. s[1] \in Range(s)
    BY <1>2, <2>1 DEF Range
  <2>. QED BY <2>2, <2>3
<1>7. IsInjective(t)
  BY <1>1, <1>4 DEF IsInjective, t, n
<1>. QED BY <1>1, <1>6, <1>7 DEF t

LEMMA AppendRange ==
  ASSUME NEW S, NEW s \in Seq(S), NEW e \in S, IsInjective(s), e \notin Range(s)
  PROVE  /\ Append(s, e) \in Seq(S) /\ IsInjective(Append(s, e))
         /\ Range(Append(s, e)) = Range(s) \cup {e} /\ Append(s, e) # <<>>
<1>. DEFINE t == Append(s, e)
            n == Len(s)
<1>1. /\ t \in Seq(S) /\ DOMAIN t = 1..(n + 1) /\ t[n + 1] = e /\ n \in Nat
      /\ \A i \in 1..n : t[i] = s[i]
      /\ DOMAIN s = 1..n /\ t # <<>>
  BY AppendProperties
<1>. HIDE DEF t, n
<1>2. /\ \A i \in 1..(n + 1) : i \in 1..n \/ i = n + 1
      /\ \A i \in 1..n : i \in 1..(n + 1)
      /\ n + 1 \in 1..(n + 1)
  BY <1>1
<1>3. \A i \in 1..n : s[i] # e
  BY <1>1 DEF Range
<1>4. IsInjective(t)
  BY <1>1, <1>2, <1>3 DEF IsInjective
<1>5. Range(t) = Range(s) \cup {e}
  BY <1>1, <1>2 DEF Range
<1>. QED BY <1>1, <1>4, <1>5 DEF t

\* The message that has woken stress_c.
Woken == {b \in MemBlock : pc[StressC] = "stale" /\ IsWake(b)}

\* stress_c holds what it names, what is in its queue and the message that has woken
\* it; the queue has nothing twice, and hibernate never points into it.
CTidy ==
    /\ local \in Seq(MemBlock) /\ IsInjective(local)
    /\ held[StressC] = Named(StressC) \cup Range(local) \cup Woken
    /\ Named(StressC) \cap Range(local) = {}
    /\ hibernate \in BlockOrNone \ Range(local)
    /\ pc[StressC] = "dequeue" => local # <<>>

\* stress_c parts with everything but its queue.
LEMMA CParts ==
  ASSUME CTidy, Wakeup, held'[StressC] = held[StressC] \ (Named(StressC) \cup Woken),
         local' = local, hibernate' \in BlockOrNone \ Range(local),
         Named(StressC)' = {}, Woken' = {}, pc'[StressC] = "dequeue" => local # <<>>
  PROVE  CTidy'
<1>1. Woken \cap Range(local) = {}
  BY DEF CTidy, Woken, Wakeup
<1>2. held'[StressC] = Range(local)
  BY <1>1 DEF CTidy
<1>. QED BY <1>2 DEF CTidy

LEMMA NoneWakes ==
  ASSUME Wakeup, pc[StressC] \notin {"sleep", "stale"}, pc'[StressC] # "sleep",
         \A c \in MemBlock : IsWake(c)' => IsWake(c),
         \A c \in MemBlock : InBox(delayed, c)' => InBox(delayed, c)
  PROVE  Wakeup' /\ Woken = {} /\ Woken' = {}
BY DEF Wakeup, Woken

\* What the steps of stress_c's program keep up.
CKeeps ==
    /\ Shaped' /\ Pointers' /\ Tags' /\ Wakeup' /\ CTidy' /\ OthersStay(StressC)
    /\ cmds' = cmds /\ damaged' = damaged
    /\ pc'[StressC] \in {"got", "request", "stale", "request2", "sleep", "yield",
                         "receive", "dequeue"}

CHolds ==
    /\ RtxIInv /\ Pointers /\ Shaped /\ Tags /\ Wakeup /\ CTidy
    /\ \A q \in Workers : Holding(q)

LEMMA ThirdIsProc ==
  /\ StressC \in Proc /\ StressC \in Workers /\ StressC # Crt /\ StressC # Kcd
  /\ StressC \notin Keepers
BY WorkersDiffer DEF Keepers, Client

LEMMA DequeueKeeps == ASSUME CHolds, CDequeues PROVE CKeeps
<1>0. StressC \in Proc /\ StressC # Crt /\ StressC \in Workers
  BY ThirdIsProc
<1>1. /\ local # <<>> /\ Tail(local) \in Seq(MemBlock) /\ IsInjective(Tail(local))
      /\ Head(local) \in MemBlock /\ Head(local) \in Range(local)
      /\ Range(Tail(local)) = Range(local) \ {Head(local)}
  BY TailRange DEF CDequeues, CHolds, CTidy
<1>2. /\ msg' = [msg EXCEPT ![StressC] = Head(local)] /\ pc' = [pc EXCEPT ![StressC] = "got"]
      /\ pc[StressC] = "dequeue" /\ local' = Tail(local)
      /\ UNCHANGED <<held, new, content, owner, available, delayed, hibernate, cmds, damaged>>
  BY DEF CDequeues, GoOn, rtxVars, dataVars, memVars, mailVars, Elsewhere
<1>3. Pointers'
  <2>1. pc' \in [Proc -> Stages]
    BY <1>0, <1>2, GoesOn DEF CHolds, Pointers, Stages
  <2>2. msg' \in [Proc -> BlockOrNone]
    BY <1>0, <1>1, <1>2, Points DEF CHolds, Pointers
  <2>. QED BY <1>2, <2>1, <2>2 DEF CHolds, Pointers
<1>4. /\ OthersStay(StressC) /\ pc'[StressC] = "got" /\ msg'[StressC] = Head(local)
      /\ held'[StressC] = held[StressC]
  BY <1>0, <1>2 DEF CHolds, Pointers, OthersStay
<1>5. AllMove(StressC)
  BY <1>2, NothingMoves DEF CHolds
<1>6. Tags'
  BY <1>0, <1>4, <1>5, MovesTags DEF CHolds
<1>7. Wakeup' /\ Woken = {} /\ Woken' = {}
  BY <1>2, <1>4, NoneWakes DEF CHolds, IsWake, InBox
<1>8. CTidy'
  <2>1. Named(StressC) = {} /\ Named(StressC)' = {Head(local)}
    BY <1>0, <1>2, <1>4 DEF Named
  <2>. QED BY <1>1, <1>2, <1>4, <1>7, <2>1 DEF CHolds, CTidy
<1>. QED BY <1>2, <1>3, <1>4, <1>5, <1>6, <1>7, <1>8 DEF CKeeps, AllMove

\* stress_c sends or releases a block, or only goes on.
LEMMA GoesOnKeeping ==
  ASSUME CHolds, NEW point \in Stages \ {"got", "reply", "fill", "fill2", "sleep", "start", "write"},
         pc[StressC] \notin {"sleep", "stale"},
         Parts(StressC, Named(StressC), point), AllMove(StressC),
         \A c \in MemBlock : IsWake(c)' => IsWake(c),
         UNCHANGED <<delayed, local, hibernate, cmds, damaged>>,
         point = "dequeue" => local # <<>>
  PROVE  CKeeps
<1>0. /\ StressC \in Proc /\ StressC # Crt /\ StressC \in Workers
      /\ held \in [Proc -> SUBSET MemBlock]
  BY ThirdIsProc DEF CHolds, RtxIInv, Accounts, DataTypeOK
<1>1. /\ Pointers' /\ OthersStay(StressC) /\ held'[StressC] = held[StressC] \ Named(StressC)
      /\ pc'[StressC] = point
  BY <1>0, PartsStay DEF CHolds
<1>2. Tags'
  BY <1>0, <1>1, MovesTags DEF CHolds
<1>3. Wakeup' /\ Woken = {} /\ Woken' = {}
  BY <1>1, NoneWakes DEF CHolds, InBox
<1>4. CTidy'
  <2>1. Named(StressC)' = {}
    BY <1>0, <1>1 DEF Named
  <2>. QED BY <1>1, <1>3, <2>1, CParts DEF CHolds, CTidy
<1>5. point \in {"request", "stale", "request2", "yield", "receive", "dequeue"}
  BY DEF Stages
<1>. QED BY <1>1, <1>2, <1>3, <1>4, <1>5 DEF CKeeps, AllMove

LEMMA TakeKeeps == ASSUME CHolds, CTakes PROVE CKeeps
<1>0. StressC \in Proc /\ StressC # Crt
  BY ThirdIsProc
<1>1. PICK point \in {"request", "stale"} :
         /\ pc[StressC] = "got" /\ Parts(StressC, {msg[StressC]}, point)
         /\ UNCHANGED <<delayed, local, hibernate, cmds, damaged>>
  BY DEF CTakes, Free, Release, GoOn, Parts, Elsewhere
<1>2. AllMove(StressC) /\ Tagged(msg[StressC], PLAIN, NullProc)
  BY FreeMoves DEF CTakes, CHolds
<1>3. Named(StressC) = {msg[StressC]}
  BY <1>0, <1>1 DEF Named
<1>4. \A c \in MemBlock : IsWake(c)' => IsWake(c)
  BY <1>2, TypesDiffer DEF Tagged, IsWake
<1>5. point \in Stages \ {"got", "reply", "fill", "fill2", "sleep", "start", "write"}
      /\ point # "dequeue"
  BY DEF Stages
<1>. QED BY <1>1, <1>2, <1>3, <1>4, <1>5, GoesOnKeeping

LEMMA AnnounceKeeps == ASSUME CHolds, CAnnounces PROVE CKeeps
<1>0. StressC \in Proc /\ StressC # Crt /\ StressC \in Workers /\ StressC # Kcd /\ StressC # StressB
  BY ThirdIsProc, ClientsDiffer, StressedDiffer
<1>1. /\ pc[StressC] = "fill" /\ Parts(StressC, {new[StressC]}, "request2")
      /\ UNCHANGED <<delayed, local, hibernate, cmds, damaged>>
  BY DEF CAnnounces, Mail, Send, Address, GoOn, Parts, Elsewhere, stressLocal
<1>2. content[new[StressC]].type = PLAIN
  BY <1>0, <1>1 DEF CHolds, Tags
<1>3. AllMove(StressC) /\ \A c \in MemBlock : IsWake(c)' => IsWake(c)
  <2>1. PICK t : /\ Send(StressC, new[StressC], Crt)
                 /\ content' = [content EXCEPT ![new[StressC]].text = t, ![new[StressC]].tx = StressC]
    BY MailText DEF CAnnounces, CHolds
  <2>2. AllMove(StressC) /\ content'[new[StressC]].type = content[new[StressC]].type
    BY <1>0, <1>2, <2>1, MailMoves DEF CHolds
  <2>3. \A c \in MemBlock \ {new[StressC]} : content'[c] = content[c]
    BY <2>1 DEF CHolds, Shaped
  <2>. QED BY <2>2, <2>3 DEF IsWake
<1>4. Named(StressC) = {new[StressC]}
  BY <1>0, <1>1 DEF Named
<1>5. "request2" \in Stages \ {"got", "reply", "fill", "fill2", "sleep", "start", "write"}
      /\ "request2" # "dequeue"
  BY DEF Stages
<1>. QED BY <1>1, <1>3, <1>4, <1>5, GoesOnKeeping

LEMMA YieldKeeps == ASSUME CHolds, CYields PROVE CKeeps
<1>0. StressC \in Proc /\ StressC # Crt
      /\ held \in [Proc -> SUBSET MemBlock]
  BY ThirdIsProc DEF CHolds, RtxIInv, Accounts, DataTypeOK
<1>1. PICK point \in {"receive", "dequeue"} :
         /\ pc[StressC] = "yield" /\ Parts(StressC, {}, point)
         /\ point = "dequeue" => local # <<>>
         /\ UNCHANGED <<content, owner, available, delayed, local, hibernate, cmds, damaged>>
  BY <1>0 DEF CYields, Yield, dataVars, memVars, mailVars, GoOn, Parts, Elsewhere, stressLocal
<1>2. AllMove(StressC)
  BY <1>1, NothingMoves DEF CHolds
<1>3. Named(StressC) = {}
  BY <1>0, <1>1 DEF Named
<1>4. \A c \in MemBlock : IsWake(c)' => IsWake(c)
  BY <1>1 DEF IsWake
<1>5. point \in Stages \ {"got", "reply", "fill", "fill2", "sleep", "start", "write"}
  BY DEF Stages
<1>. QED BY <1>1, <1>2, <1>3, <1>4, <1>5, GoesOnKeeping

LEMMA SleepKeeps == ASSUME CHolds, CSleeps PROVE CKeeps
<1>0. /\ StressC \in Proc /\ StressC # Crt /\ StressC \in Workers
      /\ held \in [Proc -> SUBSET MemBlock]
  BY ThirdIsProc DEF CHolds, RtxIInv, Accounts, DataTypeOK
<1>. DEFINE b == new[StressC]
<1>1. /\ pc[StressC] = "fill2" /\ Parts(StressC, {b}, "sleep")
      /\ DelayedSend(StressC, b, StressC, Sleep) /\ Sleep \in Nat
      /\ content' = [content EXCEPT ![b].type = WAKEUP10, ![b].tx = StressC]
      /\ delayed' = Put(delayed, b) /\ hibernate' = b
      /\ UNCHANGED <<local, cmds, damaged>>
  BY StressAssumption DEF CSleeps, DelayedSend, Address, GoOn, Parts, Elsewhere
<1>2. Named(StressC) = {b}
  BY <1>0, <1>1 DEF Named
<1>3. "sleep" \in Stages
  BY DEF Stages
<1>4. b \in MemBlock /\ b \in held[StressC]
  BY <1>1, DelayedSendCalls DEF CHolds
<1>. HIDE DEF b
<1>5. /\ Pointers' /\ OthersStay(StressC) /\ held'[StressC] = held[StressC] \ {b}
      /\ pc'[StressC] = "sleep"
  BY <1>0, <1>1, <1>3, PartsStay DEF CHolds
<1>6. Tagged(b, WAKEUP10, StressC)
  BY <1>1, <1>4, TypeTags DEF CHolds
<1>7. /\ AllMove(StressC) /\ content'[b].type = WAKEUP10 /\ owner'[b] = StressC
      /\ \A c \in MemBlock \ {b} : Same(c)
  BY <1>1, <1>6, TypeMoves DEF CHolds
<1>8. Tags'
  BY <1>0, <1>5, <1>7, MovesTags DEF CHolds
<1>9. /\ \A c \in MemBlock : ~IsWake(c) /\ ~InBox(delayed, c)
      /\ Woken = {}
  BY <1>1 DEF CHolds, Wakeup, Woken
<1>10. \A c \in MemBlock : InBox(delayed, c)' => c = b
  <2>1. \A c \in MemBlock : InBox(Put(delayed, b), c) <=> InBox(delayed, c) \/ c = b
    BY <1>4, <1>9, PutProperties DEF CHolds, RtxIInv, Accounts, DataTypeOK, Listed
  <2>2. \A c : InBox(delayed, c)' <=> InBox(Put(delayed, b), c)
    BY <1>1 DEF InBox
  <2>. QED BY <1>9, <2>1, <2>2
<1>11. \A c \in MemBlock : IsWake(c)' <=> c = b
  BY <1>7, <1>9 DEF Same, IsWake
<1>12. Wakeup'
  BY <1>1, <1>4, <1>5, <1>7, <1>10, <1>11 DEF Wakeup
<1>13. CTidy'
  <2>1. Named(StressC)' = {} /\ Woken' = {}
    BY <1>0, <1>5 DEF Named, Woken
  <2>2. hibernate' \in BlockOrNone \ Range(local)
    BY <1>1, <1>2, <1>4 DEF CHolds, CTidy, BlockOrNone
  <2>. QED BY <1>1, <1>2, <1>5, <1>9, <2>1, <2>2, CParts DEF CHolds
<1>. QED BY <1>1, <1>5, <1>7, <1>8, <1>12, <1>13 DEF CKeeps, AllMove

LEMMA SleepOnKeeps == ASSUME CHolds, CSleepsOn PROVE CKeeps
<1>1. /\ UNCHANGED <<content, owner, available, delayed, held, pc, msg, new, hibernate, local,
                     cmds, damaged>>
      /\ pc[StressC] = "sleep"
  BY DEF CSleepsOn, ReceiveFindsNone, ReceiveBlocks, memVars, mailVars, localVars, stressLocal
<1>2. Shaped' /\ Pointers' /\ Tags' /\ Wakeup' /\ CTidy' /\ OthersStay(StressC)
  BY <1>1 DEF CHolds, Shaped, Pointers, Tags, Wakeup, CTidy, OthersStay, IsFree, IsWake, InBox,
              Named, Woken
<1>. QED BY <1>1, <1>2 DEF CKeeps

LEMMA GetKeeps == ASSUME CHolds, CGets PROVE CKeeps
<1>0. /\ StressC \in Proc /\ StressC # Crt /\ StressC \in Workers
      /\ held \in [Proc -> SUBSET MemBlock]
  BY ThirdIsProc DEF CHolds, RtxIInv, Accounts, DataTypeOK
<1>1. PICK i \in FirstMail(StressC) :
         held' = [held EXCEPT ![StressC] = @ \cup {mailbox[i]}]
  BY DEF CGets, Receive
<1>. DEFINE b == mailbox[i]
<1>2. b \in MemBlock /\ \A q \in Proc : b \notin held[q]
  <2>1. i \in Slot /\ b \in MemBlock /\ InBox(mailbox, b)
    BY <1>1 DEF InBox, FirstMail, CHolds, RtxIInv, Accounts, DataTypeOK, Box
  <2>. QED BY <2>1, HeldProperties DEF CHolds, RtxIInv
<1>3. /\ held' = [held EXCEPT ![StressC] = @ \cup {b}] /\ pc[StressC] = "sleep"
      /\ UNCHANGED <<content, owner, available, delayed, msg, new, hibernate, cmds, damaged>>
      /\ \E c \in held'[StressC] \ held[StressC] :
            IF content[c].type = WAKEUP10
            THEN pc' = [pc EXCEPT ![StressC] = "stale"] /\ UNCHANGED local
            ELSE local' = Append(local, c) /\ UNCHANGED pc
  BY <1>1 DEF CGets, Receive, memVars, GoOn, Elsewhere
<1>. HIDE DEF b
<1>4. held'[StressC] = held[StressC] \cup {b} /\ \A q \in Proc \ {StressC} : held'[q] = held[q]
  BY <1>0, <1>3
<1>5. held'[StressC] \ held[StressC] = {b}
  BY <1>0, <1>2, <1>4
<1>6. IF IsWake(b)
      THEN pc' = [pc EXCEPT ![StressC] = "stale"] /\ local' = local
      ELSE local' = Append(local, b) /\ pc' = pc
  BY <1>3, <1>5 DEF IsWake
<1>7. AllMove(StressC)
  BY <1>3, NothingMoves DEF CHolds
<1>8. /\ pc' \in [Proc -> Stages] /\ pc'[StressC] = (IF IsWake(b) THEN "stale" ELSE "sleep")
      /\ OthersStay(StressC)
  <2>1. "stale" \in Stages
    BY DEF Stages
  <2>. QED BY <1>0, <1>3, <1>4, <1>6, <2>1 DEF CHolds, Pointers, OthersStay
<1>9. Pointers'
  BY <1>3, <1>8 DEF CHolds, Pointers
<1>10. Tags'
  BY <1>0, <1>7, <1>8, MovesTags DEF CHolds
<1>11. /\ \A c \in MemBlock : IsWake(c)' <=> IsWake(c)
       /\ \A c \in MemBlock : IsWake(c) <=> c = hibernate
       /\ hibernate \in MemBlock
  BY <1>3 DEF CHolds, Wakeup, IsWake
<1>12. Wakeup'
  BY <1>3, <1>8, <1>11 DEF CHolds, Wakeup, InBox
<1>13. CTidy'
  <2>1. Named(StressC) = {} /\ Named(StressC)' = {} /\ Woken = {}
    BY <1>0, <1>3, <1>8 DEF Named, Woken
  <2>2. CASE IsWake(b)
    <3>1. Woken' = {b} /\ local' = local
      BY <1>2, <1>6, <1>8, <1>11, <2>2 DEF Woken
    <3>. QED BY <1>2, <1>3, <1>4, <1>8, <2>1, <2>2, <3>1 DEF CHolds, CTidy
  <2>3. CASE ~IsWake(b)
    <3>1. Woken' = {} /\ local' = Append(local, b)
      BY <1>6, <1>8, <2>3 DEF Woken
    <3>2. b \notin Range(local) /\ b # hibernate
      BY <1>0, <1>2, <1>11, <2>3 DEF CHolds, CTidy
    <3>3. /\ local' \in Seq(MemBlock) /\ IsInjective(local') /\ local' # <<>>
          /\ Range(local') = Range(local) \cup {b}
      BY <1>2, <3>1, <3>2, AppendRange DEF CHolds, CTidy
    <3>. QED BY <1>3, <1>4, <2>1, <3>1, <3>2, <3>3 DEF CHolds, CTidy
  <2>. QED BY <2>2, <2>3
<1>. QED BY <1>3, <1>7, <1>8, <1>9, <1>10, <1>12, <1>13 DEF CKeeps, AllMove

\* hibernate is either the message that has woken stress_c, and released, or nothing
\* has woken it in this round, and then no block of that type is left.
LEMMA ReleaseKeeps == ASSUME CHolds, CReleases PROVE CKeeps
<1>0. /\ StressC \in Proc /\ StressC # Crt /\ StressC \in Workers
      /\ held \in [Proc -> SUBSET MemBlock]
  BY ThirdIsProc DEF CHolds, RtxIInv, Accounts, DataTypeOK
<1>. DEFINE b == hibernate
<1>1. /\ pc[StressC] = "stale" /\ pc' = [pc EXCEPT ![StressC] = "yield"]
      /\ UNCHANGED <<msg, new, local, hibernate, cmds, damaged>>
  BY DEF CReleases, GoOn, Elsewhere, stressLocal
<1>2. Named(StressC) = {}
  BY <1>0, <1>1 DEF Named
<1>3. "yield" \in Stages
  BY DEF Stages
<1>4. /\ AllMove(StressC) /\ (\A c \in MemBlock : ~IsWake(c)') /\ delayed' = delayed
      /\ Parts(StressC, Woken, "yield")
  <2>1. CASE MayRelease(StressC, b)
    <3>1. Free(StressC, b) /\ b \in held[StressC]
      BY <2>1 DEF CReleases
    <3>2. /\ AllMove(StressC) /\ b \in MemBlock /\ Tagged(b, PLAIN, NullProc)
      BY <3>1, FreeMoves DEF CHolds
    <3>3. \A c \in MemBlock : IsWake(c) => c = b
      BY DEF CHolds, Wakeup
    <3>4. \A c \in MemBlock : ~IsWake(c)'
      BY <3>2, <3>3, TypesDiffer DEF Tagged, IsWake
    <3>5. Woken = {b}
      <4>1. b \notin Range(local)
        BY DEF CHolds, CTidy
      <4>. QED BY <1>2, <3>1, <3>3, <4>1 DEF CHolds, CTidy, Woken
    <3>6. delayed' = delayed /\ held' = [held EXCEPT ![StressC] = @ \ {b}]
      BY <3>1 DEF Free, Release
    <3>. QED BY <1>1, <3>2, <3>4, <3>5, <3>6 DEF Parts
  <2>2. CASE ~MayRelease(StressC, b)
    <3>1. UNCHANGED <<content, owner, available, used, held, delayed>>
      BY <2>2 DEF CReleases, rtxVars, dataVars, memVars, mailVars
    <3>2. ASSUME NEW c \in MemBlock, IsWake(c) PROVE FALSE
      <4>1. c = b /\ owner[c] = StressC /\ c \in Woken
        BY <1>1, <3>2 DEF CHolds, Wakeup, Woken
      <4>2. c \in held[StressC]
        BY <4>1 DEF CHolds, CTidy
      <4>3. c \in used
        BY <1>0, <3>2, <4>2, HeldProperties DEF CHolds, RtxIInv, Accounts, Accounted, AccountedFor
      <4>. QED BY <2>2, <4>1, <4>3 DEF MayRelease
    <3>3. AllMove(StressC) /\ Woken = {}
      BY <3>1, <3>2, NothingMoves DEF CHolds, Woken
    <3>4. held' = [held EXCEPT ![StressC] = @ \ {}]
      BY <1>0, <3>1
    <3>. QED BY <1>1, <3>1, <3>2, <3>3, <3>4 DEF Parts, IsWake
  <2>. QED BY <2>1, <2>2
<1>5. /\ Pointers' /\ OthersStay(StressC) /\ held'[StressC] = held[StressC] \ Woken
      /\ pc'[StressC] = "yield"
  BY <1>0, <1>3, <1>4, PartsStay DEF CHolds
<1>6. Tags'
  BY <1>0, <1>4, <1>5, MovesTags DEF CHolds
<1>7. Wakeup'
  <2>1. \A c \in MemBlock : InBox(delayed, c)' => IsWake(c)
    BY <1>4 DEF CHolds, Wakeup, InBox
  <2>2. \A c \in MemBlock : ~InBox(delayed, c)
    <3>1. ASSUME NEW c \in MemBlock, InBox(delayed, c) PROVE FALSE
      <4>1. c \in Woken
        BY <1>1, <3>1 DEF CHolds, Wakeup, Woken
      <4>2. c \in held[StressC]
        BY <4>1 DEF CHolds, CTidy
      <4>. QED BY <1>0, <3>1, <4>2, HeldProperties DEF CHolds, RtxIInv
    <3>. QED BY <3>1
  <2>. QED BY <1>4, <1>5, <2>2 DEF Wakeup, InBox
<1>8. CTidy'
  <2>1. Named(StressC)' = {} /\ Woken' = {}
    BY <1>0, <1>5 DEF Named, Woken
  <2>2. hibernate' \in BlockOrNone \ Range(local)
    BY <1>1 DEF CHolds, CTidy
  <2>. QED BY <1>1, <1>2, <1>5, <2>1, <2>2, CParts DEF CHolds
<1>. QED BY <1>1, <1>4, <1>5, <1>6, <1>7, <1>8 DEF CKeeps, AllMove

-----------------------------------------------------------------------------
(* The first message for a process. *)

FirstFor(q) == {mailbox[i] : i \in FirstMail(q)}

\* A block that is in a mailbox is another's affair: it may change what it is for
\* only if it is not there.
MailBlocksStay == \A c \in MemBlock : InBox(mailbox, c) => rx'[c] = rx[c]

LEMMA FirstForIs ==
  ASSUME RtxIInv, NEW q, NEW b \in FirstFor(q)
  PROVE  b \in MemBlock /\ InBox(mailbox, b) /\ rx[b] = q
<1>1. PICK i \in FirstMail(q) : b = mailbox[i]
  BY DEF FirstFor
<1>2. i \in Slot /\ mailbox[i] # NoBlock /\ rx[mailbox[i]] = q
  BY <1>1 DEF FirstMail
<1>3. mailbox \in Box
  BY DEF RtxIInv, Accounts, DataTypeOK
<1>. QED BY <1>1, <1>2, <1>3 DEF Box, InBox

LEMMA BoxStays ==
  ASSUME RtxIInv, mailbox' = mailbox, MailBlocksStay, NEW q
  PROVE  FirstFor(q)' = FirstFor(q)
<1>1. \A i \in Slot : mailbox[i] # NoBlock => rx'[mailbox[i]] = rx[mailbox[i]]
  BY DEF RtxIInv, Accounts, DataTypeOK, Box, InBox, MailBlocksStay
<1>2. BlockCount \in Nat /\ Slot = 1..BlockCount
  BY BlockCountIsNat
<1>3. FirstMail(q)' = FirstMail(q)
  BY <1>1, <1>2 DEF FirstMail
<1>. QED BY <1>3 DEF FirstFor

\* A message that is put into the mailbox is the first for its receiver only if it is
\* the only one.
LEMMA PutFirst ==
  ASSUME RtxIInv, NEW b \in MemBlock, ~InBox(mailbox, b), mailbox' = Put(mailbox, b),
         MailBlocksStay, NEW q
  PROVE  FirstFor(q)' = IF rx'[b] = q /\ FirstFor(q) = {} THEN {b} ELSE FirstFor(q)
<1>1. BlockCount \in Nat /\ Slot = 1..BlockCount /\ b # NoBlock
  BY BlockCountIsNat, BlockAssumption
<1>2. mailbox \in Box /\ Single(mailbox) /\ Compact(mailbox)
  BY DEF RtxIInv, Accounts, DataTypeOK, Listed
<1>3. PICK f \in Slot : /\ mailbox[f] = NoBlock /\ mailbox' = [mailbox EXCEPT ![f] = b]
                        /\ \A j \in Slot : j < f <=> mailbox[j] # NoBlock
  BY <1>2, PutProperties
<1>4. /\ \A j \in Slot : mailbox'[j] = IF j = f THEN b ELSE mailbox[j]
      /\ \A j \in Slot : j < f <=> mailbox[j] # NoBlock
      /\ \A j \in Slot : mailbox[j] # NoBlock => rx'[mailbox[j]] = rx[mailbox[j]]
      /\ f \in Slot
  BY <1>2, <1>3 DEF Box, InBox, MailBlocksStay
<1>5. \A i \in Slot : \A j \in 1..(i - 1) : j \in Slot /\ j < i
  BY <1>1
<1>6. \A i \in Slot : i \in FirstMail(q) <=>
         i < f /\ rx[mailbox[i]] = q /\ \A j \in 1..(i - 1) : rx[mailbox[j]] # q
  BY <1>1, <1>4, <1>5 DEF FirstMail
<1>7. \A i \in Slot : i \in FirstMail(q)' <=>
         \/ i < f /\ rx[mailbox[i]] = q /\ \A j \in 1..(i - 1) : rx[mailbox[j]] # q
         \/ i = f /\ rx'[b] = q /\ \A j \in 1..(f - 1) : rx[mailbox[j]] # q
  <2>1. ASSUME NEW i \in Slot, i < f
        PROVE  i \in FirstMail(q)' <=>
                  rx[mailbox[i]] = q /\ \A j \in 1..(i - 1) : rx[mailbox[j]] # q
    <3>1. \A j \in 1..i : j \in Slot /\ j < f /\ mailbox'[j] = mailbox[j]
                          /\ mailbox[j] # NoBlock /\ rx'[mailbox[j]] = rx[mailbox[j]]
      BY <1>1, <1>4, <2>1
    <3>2. i \in 1..i /\ \A j \in 1..(i - 1) : j \in 1..i
      BY <1>1
    <3>. QED BY <3>1, <3>2 DEF FirstMail
  <2>2. f \in FirstMail(q)' <=> rx'[b] = q /\ \A j \in 1..(f - 1) : rx[mailbox[j]] # q
    <3>1. \A j \in 1..(f - 1) : j \in Slot /\ mailbox'[j] = mailbox[j]
                          /\ mailbox[j] # NoBlock /\ rx'[mailbox[j]] = rx[mailbox[j]]
      BY <1>1, <1>4, <1>5
    <3>. QED BY <1>1, <1>4, <3>1 DEF FirstMail
  <2>3. \A i \in Slot : i > f => i \notin FirstMail(q)'
    BY <1>1, <1>4 DEF FirstMail
  <2>. QED BY <1>1, <2>1, <2>2, <2>3
<1>8. FirstMail(q) \subseteq Slot /\ FirstMail(q)' \subseteq Slot
  BY DEF FirstMail
<1>9. ASSUME NEW i \in Slot, i \in FirstMail(q)
      PROVE  FirstMail(q)' = FirstMail(q)
  <2>1. f \notin FirstMail(q)'
    <3>1. i \in 1..(f - 1) /\ rx[mailbox[i]] = q
      BY <1>1, <1>6, <1>9
    <3>. QED BY <1>1, <1>7, <3>1
  <2>2. \A k \in Slot : k \in FirstMail(q)' <=> k \in FirstMail(q)
    BY <1>1, <1>6, <1>7, <2>1
  <2>. QED BY <1>8, <2>2
<1>10. ASSUME FirstMail(q) = {}
       PROVE  FirstMail(q)' = IF rx'[b] = q THEN {f} ELSE {}
  <2>1. \A i \in Slot : i < f => i \notin FirstMail(q)'
    BY <1>1, <1>6, <1>7, <1>10
  <2>2. \A j \in 1..(f - 1) : rx[mailbox[j]] # q
    <3>1. SUFFICES ASSUME \E j \in 1..(f - 1) : rx[mailbox[j]] = q PROVE FALSE
      OBVIOUS
    <3>. DEFINE T == {j \in 1..(f - 1) : rx[mailbox[j]] = q}
    <3>2. T \in SUBSET Nat /\ T # {}
      BY <1>1, <3>1
    <3>3. PICK k \in T : \A y \in T : k <= y
      <4>. HIDE DEF T
      <4>. QED BY <3>2, LeastNat
    <3>4. \A j \in 1..(k - 1) : rx[mailbox[j]] # q
      BY <1>1, <3>3
    <3>. QED BY <1>1, <1>6, <1>10, <3>3, <3>4
  <2>3. f \in FirstMail(q)' <=> rx'[b] = q
    BY <1>1, <1>7, <2>2
  <2>4. \A i \in Slot : i \in FirstMail(q)' <=> i = f /\ rx'[b] = q
    BY <1>1, <1>7, <2>1, <2>3
  <2>. QED BY <1>8, <2>4
<1>11. \A i \in Slot : i \in FirstMail(q) => mailbox'[i] = mailbox[i]
  BY <1>1, <1>4, <1>6
<1>12. FirstFor(q) = {} <=> FirstMail(q) = {}
  BY DEF FirstFor
<1>13. CASE FirstMail(q) = {}
  <2>1. mailbox'[f] = b
    BY <1>4
  <2>. QED BY <1>10, <1>12, <1>13, <2>1 DEF FirstFor
<1>14. CASE FirstMail(q) # {}
  <2>1. FirstMail(q)' = FirstMail(q)
    BY <1>8, <1>9, <1>14
  <2>. QED BY <1>8, <1>11, <1>12, <1>14, <2>1 DEF FirstFor
<1>. QED BY <1>13, <1>14

\* What somebody else receives leaves the order as it is.
LEMMA TakeFirst ==
  ASSUME RtxIInv, NEW r, NEW i \in FirstMail(r), mailbox' = Take(mailbox, i), rx' = rx,
         NEW q, q # r
  PROVE  FirstFor(q)' = FirstFor(q)
<1>1. BlockCount \in Nat /\ Slot = 1..BlockCount
  BY BlockCountIsNat
<1>2. mailbox \in Box /\ Single(mailbox) /\ Compact(mailbox)
  BY DEF RtxIInv, Accounts, DataTypeOK, Listed
<1>3. i \in Slot /\ mailbox[i] # NoBlock /\ rx[mailbox[i]] = r
  BY DEF FirstMail
<1>. DEFINE N == BlockCount
<1>4. \A j \in Slot : mailbox'[j] = IF j < i THEN mailbox[j]
                                    ELSE IF j + 1 \in Slot THEN mailbox[j + 1] ELSE NoBlock
  BY <1>2, <1>3, TakeProperties
<1>5. ASSUME NEW k \in FirstMail(q) PROVE mailbox[k] \in FirstFor(q)'
  <2>1. /\ k \in Slot /\ mailbox[k] # NoBlock /\ rx[mailbox[k]] = q
        /\ \A j \in 1..(k - 1) : mailbox[j] # NoBlock /\ rx[mailbox[j]] # q
    BY DEF FirstMail
  <2>2. CASE k < i
    <3>1. k \in FirstMail(q)'
      <4>1. \A j \in 1..k : j \in Slot /\ mailbox'[j] = mailbox[j]
        BY <1>1, <1>3, <1>4, <2>1, <2>2
      <4>. QED BY <1>1, <2>1, <4>1 DEF FirstMail
    <3>2. mailbox'[k] = mailbox[k]
      BY <1>4, <2>1, <2>2
    <3>. QED BY <3>1, <3>2 DEF FirstFor
  <2>3. CASE k > i
    <3>. DEFINE l == k - 1
    <3>1. /\ l \in Slot /\ mailbox'[l] = mailbox[k]
          /\ \A j \in 1..(l - 1) : \E m \in 1..(k - 1) : mailbox'[j] = mailbox[m]
      <4>1. l \in Slot /\ ~(l < i) /\ l + 1 = k
        BY <1>1, <1>3, <2>1, <2>3
      <4>2. ASSUME NEW j \in 1..(l - 1)
            PROVE  \E m \in 1..(k - 1) : mailbox'[j] = mailbox[m]
        <5>1. /\ j \in Slot /\ j \in 1..(k - 1) /\ j + 1 \in 1..(k - 1) /\ j + 1 \in Slot
          BY <1>1, <2>1, <4>1
        <5>. QED BY <1>4, <5>1
      <4>. QED BY <1>4, <2>1, <4>1, <4>2
    <3>. HIDE DEF l
    <3>2. l \in FirstMail(q)'
      BY <2>1, <3>1 DEF FirstMail
    <3>. QED BY <3>1, <3>2 DEF FirstFor
  <2>4. k # i
    BY <1>3, <2>1
  <2>. QED BY <1>1, <1>3, <2>1, <2>2, <2>3, <2>4
<1>6. ASSUME NEW k \in FirstMail(q)' PROVE mailbox'[k] \in FirstFor(q)
  <2>1. /\ k \in Slot /\ mailbox'[k] # NoBlock /\ rx[mailbox'[k]] = q
        /\ \A j \in 1..(k - 1) : mailbox'[j] # NoBlock /\ rx[mailbox'[j]] # q
    BY DEF FirstMail
  <2>2. CASE k < i
    <3>1. \A j \in 1..k : j \in Slot /\ mailbox'[j] = mailbox[j]
      BY <1>1, <1>3, <1>4, <2>1, <2>2
    <3>2. k \in FirstMail(q) /\ mailbox'[k] = mailbox[k]
      BY <1>1, <2>1, <3>1 DEF FirstMail
    <3>. QED BY <3>2 DEF FirstFor
  <2>3. CASE ~(k < i)
    <3>. DEFINE l == k + 1
    <3>1. l \in Slot /\ mailbox'[k] = mailbox[l]
      BY <1>4, <2>1, <2>3
    <3>2. ASSUME NEW j \in 1..(l - 1) PROVE mailbox[j] # NoBlock /\ rx[mailbox[j]] # q
      <4>1. CASE j < i
        <5>1. j \in Slot /\ j \in 1..(k - 1) /\ mailbox'[j] = mailbox[j]
          BY <1>1, <1>3, <1>4, <2>1, <2>3, <4>1
        <5>. QED BY <2>1, <5>1
      <4>2. CASE j > i
        <5>1. /\ j - 1 \in 1..(k - 1) /\ j - 1 \in Slot /\ ~(j - 1 < i)
              /\ (j - 1) + 1 = j /\ j \in Slot
          BY <1>1, <1>3, <2>1, <2>3, <4>2
        <5>2. mailbox'[j - 1] = mailbox[j]
          BY <1>4, <5>1
        <5>. QED BY <2>1, <5>1, <5>2
      <4>3. CASE j = i
        BY <1>3, <4>3
      <4>. QED BY <1>1, <1>3, <4>1, <4>2, <4>3
    <3>. HIDE DEF l
    <3>3. l \in FirstMail(q)
      BY <2>1, <3>1, <3>2 DEF FirstMail
    <3>. QED BY <3>1, <3>3 DEF FirstFor
  <2>. QED BY <2>2, <2>3
<1>. QED BY <1>5, <1>6 DEF FirstFor

LEMMA SendFirst ==
  ASSUME RtxIInv, NEW p, NEW b, NEW r, Send(p, b, r), NEW q
  PROVE  FirstFor(q)' = IF r = q /\ FirstFor(q) = {} THEN {b} ELSE FirstFor(q)
<1>1. /\ p \in Proc /\ b \in MemBlock /\ b \in held[p] /\ mailbox' = Put(mailbox, b)
      /\ rx' = [rx EXCEPT ![b] = r]
  BY SendCalls DEF Send, Address
<1>2. ~InBox(mailbox, b)
  BY <1>1, HeldProperties DEF RtxIInv
<1>3. MailBlocksStay /\ rx'[b] = r
  BY <1>1, <1>2 DEF MailBlocksStay, RtxIInv, Accounts, DataTypeOK
<1>. QED BY <1>1, <1>2, <1>3, PutFirst

LEMMA FreeFirst ==
  ASSUME RtxIInv, NEW p, NEW b, Free(p, b), NEW q
  PROVE  FirstFor(q)' = FirstFor(q)
<1>1. /\ p \in Proc /\ b \in MemBlock /\ b \in held[p] /\ mailbox' = mailbox
      /\ rx' = [rx EXCEPT ![b] = NullProc]
  BY ReleaseCalls DEF Free, Release
<1>2. ~InBox(mailbox, b)
  BY <1>1, HeldProperties DEF RtxIInv
<1>3. MailBlocksStay
  BY <1>1, <1>2 DEF MailBlocksStay, RtxIInv, Accounts, DataTypeOK
<1>. QED BY <1>1, <1>3, BoxStays

LEMMA QuietFirst ==
  ASSUME RtxIInv, UNCHANGED <<mailbox, rx>>, NEW q
  PROVE  FirstFor(q)' = FirstFor(q)
BY BoxStays DEF MailBlocksStay

LEMMA ClientFirst ==
  ASSUME RtxIInv, NEW p, ClientStep(p), NEW q, p # q \/ ~Gets(p)
  PROVE  FirstFor(q)' = FirstFor(q)
<1>1. CASE Waits(p) \/ Obtains(p)
  <2>1. UNCHANGED <<mailbox, rx>>
    BY <1>1 DEF Waits, Obtains, Request, ReceiveFindsNone, ReceiveBlocks, RequestFindsNone,
                RequestBlocks, SendUnblocks, ReleaseUnblocks, mailVars
  <2>. QED BY <2>1, QuietFirst
<1>2. CASE Gets(p) /\ p # q
  <2>1. PICK i \in FirstMail(p) : mailbox' = Take(mailbox, i) /\ rx' = rx
    BY <1>2 DEF Gets, Receive
  <2>. QED BY <1>2, <2>1, TakeFirst
<1>. QED BY <1>1, <1>2 DEF ClientStep

LEMMA TypesFirst ==
  ASSUME RtxIInv, SerialInterrupt, NEW q, q # Kcd
  PROVE  FirstFor(q)' = FirstFor(q)
<1>. DEFINE h == Head(available)
<1>1. mailbox' = Put(mailbox, h) /\ rx' = [rx EXCEPT ![h] = Kcd] /\ available # <<>>
  BY DEF SerialInterrupt
<1>2. h \in MemBlock /\ ~InBox(mailbox, h)
  <2>1. h \in MemBlock /\ IsFree(h)
    BY <1>1, HeadIsFree DEF RtxIInv
  <2>2. owner[h] = NoOwner /\ (InBox(mailbox, h) => owner[h] = rx[h]) /\ rx[h] \in Proc
    BY <2>1 DEF RtxIInv, Accounts, Accounted, AccountedFor, DataTypeOK
  <2>. QED BY <2>1, <2>2, ReceiverAssumption
<1>. HIDE DEF h
<1>3. MailBlocksStay /\ rx'[h] = Kcd
  BY <1>1, <1>2 DEF MailBlocksStay, RtxIInv, Accounts, DataTypeOK
<1>. QED BY <1>1, <1>2, <1>3, PutFirst

\* Who is registered with the decoder.
Known ==
    /\ cmds \in Seq(Range(cmds))
    /\ \A i \in DOMAIN cmds : cmds[i].pid \in {Kcd, Prio, StressA}

LEMMA RegisteredIsKnown ==
  ASSUME Known, NEW s, NEW p \in {Kcd, Prio, StressA}, cmds' = Registered(s, p)
  PROVE  Known'
<1>. DEFINE e == [cmd |-> StringAt(s, 1), pid |-> p]
            S == Range(cmds) \cup {e}
            n == Len(cmds)
<1>1. CASE cmds' = cmds
  BY <1>1 DEF Known
<1>2. CASE cmds' = Append(cmds, e)
  <2>1. cmds \in Seq(S) /\ e \in S
    <3>1. cmds \in Seq(Range(cmds)) /\ Range(cmds) \subseteq S
      BY DEF Known
    <3>. HIDE DEF S
    <3>2. cmds \in Seq(S)
      BY <3>1, SeqMonotonic
    <3>. QED BY <3>2 DEF S
  <2>2. e.pid = p
    OBVIOUS
  <2>. HIDE DEF e, S
  <2>3. /\ cmds' \in Seq(S) /\ DOMAIN cmds' = 1..(n + 1) /\ n \in Nat /\ DOMAIN cmds = 1..n
        /\ cmds'[n + 1] = e /\ \A i \in 1..n : cmds'[i] = cmds[i]
    BY <1>2, <2>1, AppendProperties
  <2>. HIDE DEF n
  <2>4. cmds' \in Seq(Range(cmds'))
    BY <2>3, SeqOfRange
  <2>5. ASSUME NEW i \in DOMAIN cmds' PROVE cmds'[i].pid \in {Kcd, Prio, StressA}
    <3>1. i \in 1..n \/ i = n + 1
      BY <2>3
    <3>. QED BY <2>2, <2>3, <3>1 DEF Known
  <2>. QED BY <2>4, <2>5 DEF Known
<1>. QED BY <1>1, <1>2 DEF Registered

LEMMA ConsoleKnows ==
  ASSUME RtxIInv, Pointers, Tags, Known, Tidy(Kcd), ConsoleStep
  PROVE  Known'
<1>0. Kcd \in Proc /\ held \in [Proc -> SUBSET MemBlock]
  BY ReceiverAssumption DEF RtxIInv, Accounts, DataTypeOK
<1>1. CASE KcdStarts
  BY <1>1, RegisteredIsKnown DEF KcdStarts
<1>2. CASE KcdRegisters
  <2>1. msg[Kcd] \in MemBlock /\ content[msg[Kcd]].type = REGISTER_CMD
    BY <1>0, <1>2 DEF KcdRegisters, Tidy, Named
  <2>2. content[msg[Kcd]].tx \in {Kcd, Prio, StressA}
    BY <2>1 DEF Tags
  <2>3. cmds' = Registered(Text(Kcd), content[msg[Kcd]].tx)
    BY <1>2 DEF KcdRegisters
  <2>. QED BY <2>2, <2>3, RegisteredIsKnown
<1>3. CASE cmds' = cmds
  BY <1>3 DEF Known
<1>4. cmds' = cmds \/ KcdStarts \/ KcdRegisters
  BY DEF ConsoleStep, ConsoleNext, Processor, Boot, localVars, ClientStep, Waits, Gets, Obtains,
         Decoder, KcdClears, KcdSendsClear, KcdEchoes, KcdSendsCommand, Output, CrtLoops,
         CrtSends, CrtReleases, UartTakes, UartWrites, Command, PrioRegisters, PrioComplains,
         PrioSets, PrioReplies, Types, TypesInVain, consoleVars
<1>. QED BY <1>1, <1>2, <1>3, <1>4

\* The console's processes send nothing to stress_b and stress_c.
LEMMA ConsoleFirst ==
  ASSUME RtxIInv, Known, ConsoleStep, NEW q \in {StressB, StressC}
  PROVE  FirstFor(q)' = FirstFor(q)
<1>0. q \notin Client /\ q \notin {Kcd, Crt, Uart, Prio, StressA}
  BY WorkersDiffer, ClientsDiffer, StressedDiffer DEF Client, Keepers
<1>1. ASSUME NEW p, NEW b, NEW x, Send(p, b, x), x # q
      PROVE  FirstFor(q)' = FirstFor(q)
  BY <1>1, SendFirst
<1>2. CASE \/ Boot /\ UNCHANGED <<localVars, userVars, historyVars>>
           \/ TypesInVain \/ UNCHANGED consoleVars
  <2>1. UNCHANGED <<mailbox, rx>>
    BY <1>2 DEF Boot, dataVars, mailVars, TypesInVain, rtxVars, consoleVars
  <2>. QED BY <2>1, QuietFirst
<1>3. CASE Types
  BY <1>0, <1>3, TypesFirst DEF Types
<1>4. ASSUME NEW p \in Client, ClientStep(p) PROVE FirstFor(q)' = FirstFor(q)
  BY <1>0, <1>4, ClientFirst
<1>5. CASE Decoder
  <2>1. CASE KcdStarts
    <3>1. UNCHANGED <<mailbox, rx>>
      BY <2>1 DEF KcdStarts, rtxVars, dataVars, mailVars
    <3>. QED BY <3>1, QuietFirst
  <2>2. CASE KcdRegisters \/ KcdClears
    BY <2>2, FreeFirst DEF KcdRegisters, KcdClears
  <2>3. CASE KcdSendsClear \/ KcdEchoes
    BY <1>0, <1>1, <2>3 DEF KcdSendsClear, KcdEchoes, Mail
  <2>4. CASE KcdSendsCommand
    <3>1. PICK i \in DOMAIN cmds : Send(Kcd, new[Kcd], cmds[i].pid)
      BY <2>4 DEF KcdSendsCommand, Mail, Match
    <3>2. cmds[i].pid # q
      BY <1>0 DEF Known
    <3>. QED BY <1>1, <3>1, <3>2
  <2>. QED BY <1>5, <2>1, <2>2, <2>3, <2>4 DEF Decoder
<1>6. CASE Output
  <2>1. CASE CrtLoops \/ UartWrites
    <3>1. UNCHANGED <<mailbox, rx>>
      BY <2>1 DEF CrtLoops, UartWrites, rtxVars, dataVars, mailVars
    <3>. QED BY <3>1, QuietFirst
  <2>2. CASE CrtReleases \/ UartTakes
    BY <2>2, FreeFirst DEF CrtReleases, UartTakes
  <2>3. CASE CrtSends
    BY <1>0, <1>1, <2>3 DEF CrtSends, Mail
  <2>. QED BY <1>6, <2>1, <2>2, <2>3 DEF Output
<1>7. CASE Command
  <2>1. CASE PrioSets
    <3>1. UNCHANGED <<mailbox, rx>>
      BY <2>1 DEF PrioSets, ChangePriority, rtxVars, dataVars, mailVars
    <3>. QED BY <3>1, QuietFirst
  <2>2. CASE PrioRegisters
    BY <1>0, <1>1, <2>2 DEF PrioRegisters, Register
  <2>3. CASE PrioComplains \/ PrioReplies
    BY <1>0, <1>1, <2>3 DEF PrioComplains, PrioReplies, Mail
  <2>. QED BY <1>7, <2>1, <2>2, <2>3 DEF Command
<1>. QED BY <1>2, <1>3, <1>4, <1>5, <1>6, <1>7 DEF ConsoleStep, ConsoleNext, Processor

-----------------------------------------------------------------------------
(* The first number. *)

IsZero(b) == content[b].type = COUNT_REPORT /\ number[b] = 0

FirstIsZero(q) == \A b \in FirstFor(q) : IsZero(b)

\* Until stress_c has slept for the first time, what reaches it first is stress_a's
\* first number, which makes it announce itself and sleep: it is with stress_c, or in
\* the mailbox, or with stress_b, or has yet to be counted.
ZeroComes ==
    \/ pc[StressB] = "got" /\ IsZero(msg[StressB])
    \/ /\ pc[StressB] = "receive" /\ FirstIsZero(StressB)
       /\ FirstFor(StressB) = {} => num \in {-1, 0}

Begun ==
    hibernate = NoBlock =>
        \/ pc[StressC] \in {"request", "fill", "request2", "fill2"}
        \/ pc[StressC] = "got" /\ IsZero(msg[StressC])
        \/ /\ pc[StressC] = "receive" /\ FirstIsZero(StressC)
           /\ FirstFor(StressC) = {} => ZeroComes

StressStages ==
    /\ pc[StressA] \in {"request", "fill", "receive", "got", "yield"}
    /\ pc[StressB] \in {"receive", "got"}
    /\ pc[StressC] \in {"receive", "got", "request", "fill", "request2", "fill2", "sleep",
                        "stale", "yield", "dequeue"}

\* Everything together.
StressOK ==
    /\ Pointers /\ Shaped /\ Tags /\ Wakeup /\ Known /\ StressStages
    /\ (\A p \in Keepers : Tidy(p)) /\ CTidy
    /\ number = [b \in MemBlock |-> number[b]]
    /\ Begun

\* The blocks that are on their way through stress_b to stress_c.
Underway == held[StressB] \cup held[StressC] \cup FirstFor(StressB) \cup FirstFor(StressC)

LEMMA InHand ==
  ASSUME StressOK
  PROVE  /\ pc[StressB] = "got" => msg[StressB] \in held[StressB]
         /\ pc[StressC] = "got" => msg[StressC] \in held[StressC]
BY WorkersDiffer DEF StressOK, Tidy, CTidy, Named, Keepers

LEMMA HeldForWork ==
  ASSUME StressOK
  PROVE  \A q \in Workers : Holding(q)
<1>1. ASSUME NEW q \in Workers PROVE Holding(q)
  <2>1. CASE q \in Keepers
    BY <2>1 DEF StressOK, Tidy, Named, Holding
  <2>2. CASE q = StressC
    BY <2>2 DEF StressOK, CTidy, Named, Holding
  <2>. QED BY <2>1, <2>2, WorkersDiffer
<1>. QED BY <1>1

LEMMA UnderwayIs ==
  ASSUME RtxIInv, NEW b \in Underway, NEW p \in Proc \ {StressB, StressC}
  PROVE  b \in MemBlock /\ ~IsFree(b) /\ b \notin held[p]
<1>0. StressB \in Proc /\ StressC \in Proc
  BY WorkersDiffer
<1>1. ASSUME NEW q \in {StressB, StressC}, b \in held[q]
      PROVE  b \in MemBlock /\ ~IsFree(b) /\ b \notin held[p]
  BY <1>0, <1>1, HeldProperties DEF RtxIInv
<1>2. ASSUME NEW q \in {StressB, StressC}, b \in FirstFor(q)
      PROVE  b \in MemBlock /\ ~IsFree(b) /\ b \notin held[p]
  <2>1. b \in MemBlock /\ InBox(mailbox, b) /\ rx[b] = q
    BY <1>2, FirstForIs
  <2>2. owner[b] = q /\ q \in Proc /\ q # NoOwner /\ b \notin held[p]
    BY <1>0, <2>1, ReceiverAssumption DEF RtxIInv, Accounts, Accounted, AccountedFor
  <2>. QED BY <2>1, <2>2 DEF RtxIInv, Accounts, Accounted, AccountedFor
<1>. QED BY <1>1, <1>2 DEF Underway

LEMMA BegunStays ==
  ASSUME StressOK, hibernate' = hibernate, num' \in {num, 0},
         pc'[StressB] = pc[StressB], pc'[StressC] = pc[StressC],
         msg'[StressB] = msg[StressB], msg'[StressC] = msg[StressC],
         FirstFor(StressB)' = FirstFor(StressB), FirstFor(StressC)' = FirstFor(StressC),
         \A b \in Underway : IsZero(b) => IsZero(b)'
  PROVE  Begun'
<1>1. /\ FirstIsZero(StressB) => FirstIsZero(StressB)'
      /\ FirstIsZero(StressC) => FirstIsZero(StressC)'
  BY DEF FirstIsZero, Underway
<1>2. /\ pc[StressB] = "got" /\ IsZero(msg[StressB]) => IsZero(msg[StressB])'
      /\ pc[StressC] = "got" /\ IsZero(msg[StressC]) => IsZero(msg[StressC])'
  <2>1. /\ pc[StressB] = "got" => msg[StressB] \in Underway
        /\ pc[StressC] = "got" => msg[StressC] \in Underway
    BY InHand DEF Underway
  <2>. QED BY <2>1 DEF IsZero
<1>3. ZeroComes => ZeroComes'
  BY <1>1, <1>2 DEF ZeroComes
<1>. QED BY <1>1, <1>2, <1>3 DEF StressOK, Begun

\* A step of somebody else.
LEMMA OthersBegun ==
  ASSUME RtxIInv, StressOK, NEW p \in Proc \ {StressB, StressC}, OthersStay(p),
         AllMove(p) \/ Takes, UNCHANGED <<number, hibernate>>, num' \in {num, 0},
         FirstFor(StressB)' = FirstFor(StressB), FirstFor(StressC)' = FirstFor(StressC)
  PROVE  Begun'
<1>1. \A c \in MemBlock : ~IsFree(c) /\ c \notin held[p] => content'[c].type = content[c].type
  BY DEF AllMove, Moves, Same, Writes, Takes
<1>2. \A b \in Underway : IsZero(b) => IsZero(b)'
  BY <1>1, UnderwayIs DEF IsZero
<1>3. StressB \in Proc \ {p} /\ StressC \in Proc \ {p}
  BY WorkersDiffer
<1>. QED BY <1>2, <1>3, BegunStays DEF OthersStay

LEMMA GetsFirst ==
  ASSUME RtxIInv, Pointers, NEW p \in Proc, Gets(p)
  PROVE  /\ msg'[p] \in FirstFor(p) /\ pc'[p] = "got" /\ pc[p] = "receive"
         /\ UNCHANGED content
<1>1. PICK b \in MemBlock :
         /\ \A q \in Proc : b \notin held[q]
         /\ held' = [held EXCEPT ![p] = @ \cup {b}]
         /\ msg' = [msg EXCEPT ![p] = b]
         /\ pc[p] = "receive" /\ pc' = [pc EXCEPT ![p] = "got"]
  BY GetsHolds
<1>2. PICK i \in FirstMail(p) : held' = [held EXCEPT ![p] = @ \cup {mailbox[i]}]
  BY DEF Gets, Receive
<1>3. mailbox[i] \in FirstFor(p)
  BY DEF FirstFor
<1>4. mailbox[i] \notin held[p]
  <2>1. InBox(mailbox, mailbox[i])
    BY <1>3, FirstForIs
  <2>. QED BY <2>1, HeldProperties DEF RtxIInv
<1>5. held'[p] = held[p] \cup {b} /\ held'[p] = held[p] \cup {mailbox[i]}
  BY <1>1, <1>2 DEF RtxIInv, Accounts, DataTypeOK
<1>6. b = mailbox[i]
  BY <1>1, <1>4, <1>5
<1>. QED BY <1>1, <1>3, <1>6 DEF Gets, Pointers

LEMMA ClientBegun ==
  ASSUME RtxIInv, StressOK, NEW p \in Stressed, ClientStep(p), UNCHANGED stressLocal
  PROVE  Begun'
<1>0. /\ StressA \in Proc /\ StressB \in Proc /\ StressC \in Proc /\ p \in Proc /\ p \in Workers
      /\ StressA # StressB /\ StressA # StressC /\ StressB # StressC
      /\ p \in {StressA, StressB, StressC}
  BY WorkersDiffer, ClientsDiffer, StressedDiffer DEF Workers, Stressed
<1>1. OthersStay(p) /\ UNCHANGED <<num, number, hibernate>>
  BY <1>0, ClientTidies DEF StressOK, stressLocal
<1>2. CASE p = StressA
  <2>1. Takes
    BY <1>0, <1>1, ClientTakes, HeldForWork DEF StressOK
  <2>2. FirstFor(StressB)' = FirstFor(StressB) /\ FirstFor(StressC)' = FirstFor(StressC)
    BY <1>0, <1>2, ClientFirst
  <2>. QED BY <1>0, <1>1, <1>2, <2>1, <2>2, OthersBegun
<1>3. CASE Waits(p)
  <2>1. UNCHANGED <<content, pc, msg, mailbox, rx>>
    BY <1>3 DEF Waits, localVars, ReceiveFindsNone, ReceiveBlocks, RequestFindsNone,
                RequestBlocks, SendUnblocks, ReleaseUnblocks, mailVars
  <2>2. FirstFor(StressB)' = FirstFor(StressB) /\ FirstFor(StressC)' = FirstFor(StressC)
    BY <2>1, QuietFirst
  <2>3. \A b \in Underway : IsZero(b) => IsZero(b)'
    BY <1>1, <2>1 DEF IsZero
  <2>. QED BY <1>1, <2>1, <2>2, <2>3, BegunStays
<1>4. CASE p = StressB /\ Gets(p)
  <2>1. /\ msg'[StressB] \in FirstFor(StressB) /\ pc'[StressB] = "got" /\ pc[StressB] = "receive"
        /\ UNCHANGED content
    BY <1>0, <1>4, GetsFirst DEF StressOK
  <2>2. FirstFor(StressC)' = FirstFor(StressC)
    BY <1>0, <1>4, ClientFirst DEF ClientStep
  <2>3. pc'[StressC] = pc[StressC] /\ msg'[StressC] = msg[StressC]
    BY <1>0, <1>1, <1>4 DEF OthersStay
  <2>4. ZeroComes => ZeroComes'
    BY <1>1, <2>1 DEF ZeroComes, FirstIsZero, IsZero
  <2>5. FirstIsZero(StressC) => FirstIsZero(StressC)'
    BY <1>1, <2>1, <2>2 DEF FirstIsZero, IsZero
  <2>. QED BY <1>1, <2>1, <2>2, <2>3, <2>4, <2>5 DEF StressOK, Begun, IsZero
<1>5. CASE p = StressC /\ Gets(p)
  <2>1. /\ msg'[StressC] \in FirstFor(StressC) /\ pc'[StressC] = "got" /\ pc[StressC] = "receive"
        /\ UNCHANGED content
    BY <1>0, <1>5, GetsFirst DEF StressOK
  <2>. QED BY <1>1, <2>1 DEF StressOK, Begun, FirstIsZero, IsZero
<1>6. CASE p # StressA /\ Obtains(p)
  <2>1. p = StressC /\ pc'[StressC] \in {"fill", "fill2"}
    <3>. pc \in [Proc -> Stages]
      BY DEF StressOK, Pointers
    <3>1. pc[p] \in {"request", "request2"} /\ pc'[p] \in {"fill", "fill2"}
      BY <1>0, <1>6 DEF Obtains, GoOn
    <3>2. p # StressB
      BY <3>1 DEF StressOK, StressStages
    <3>. QED BY <1>0, <1>6, <3>1, <3>2
  <2>. QED BY <2>1 DEF Begun
<1>. QED BY <1>0, <1>2, <1>3, <1>4, <1>5, <1>6 DEF ClientStep

\* What stress_a sends is the first number, if nothing is underway.
LEMMA FirstBegun ==
  ASSUME RtxIInv, StressOK, AActs
  PROVE  Begun'
<1>0. /\ StressA \in Proc /\ StressB \in Proc /\ StressC \in Proc /\ Kcd \notin {StressB, StressC}
      /\ StressA # StressB /\ StressA # StressC /\ StressB # StressC
      /\ StressA \in Proc \ {StressB, StressC}
  BY WorkersDiffer, ClientsDiffer, StressedDiffer DEF Client, Keepers
<1>1. /\ AllMove(StressA) /\ OthersStay(StressA) /\ UNCHANGED <<hibernate>>
  BY FirstActs DEF StressOK, WorkerActs
<1>2. CASE ARegisters
  <2>1. Send(StressA, new[StressA], Kcd) /\ UNCHANGED <<num, number>>
    BY <1>2 DEF ARegisters, Register, stressLocal
  <2>2. FirstFor(StressB)' = FirstFor(StressB) /\ FirstFor(StressC)' = FirstFor(StressC)
    BY <1>0, <2>1, SendFirst
  <2>. QED BY <1>0, <1>1, <2>1, <2>2, OthersBegun
<1>3. CASE AStarts
  <2>1. Free(StressA, msg[StressA]) /\ num' \in {num, 0} /\ number' = number
    BY <1>3 DEF AStarts
  <2>2. FirstFor(StressB)' = FirstFor(StressB) /\ FirstFor(StressC)' = FirstFor(StressC)
    BY <2>1, FreeFirst
  <2>. QED BY <1>0, <1>1, <2>1, <2>2, OthersBegun
<1>4. CASE AYields
  <2>1. UNCHANGED <<mailbox, rx, num, number>>
    BY <1>4 DEF AYields, Yield, dataVars, mailVars, stressLocal
  <2>2. FirstFor(StressB)' = FirstFor(StressB) /\ FirstFor(StressC)' = FirstFor(StressC)
    BY <2>1, QuietFirst
  <2>. QED BY <1>0, <1>1, <2>1, <2>2, OthersBegun
<1>5. CASE ACounts
  <2>1. PICK b \in MemBlock :
          /\ Send(StressA, b, StressB) /\ num # -1
          /\ number' = [number EXCEPT ![b] = num]
          /\ content' = [content EXCEPT ![b].type = COUNT_REPORT, ![b].tx = StressA]
    <3>1. new[StressA] \in MemBlock
      BY <1>5, SendCalls DEF ACounts
    <3>. QED BY <1>5, <3>1 DEF ACounts
  <2>2. b \in held[StressA]
    BY <2>1, SendCalls
  <2>3. number'[b] = num /\ \A c \in MemBlock \ {b} : number'[c] = number[c]
    BY <2>1, <2>2 DEF StressOK
  <2>4. content'[b].type = COUNT_REPORT /\ \A c \in MemBlock \ {b} : content'[c].type = content[c].type
    <3>1. Tagged(b, COUNT_REPORT, StressA)
      BY <2>1, <2>2, TypeTags DEF StressOK
    <3>. QED BY <3>1 DEF Tagged
  <2>5. \A c \in Underway : IsZero(c) => IsZero(c)'
    <3>1. \A c \in Underway : c \in MemBlock \ {b}
      BY <1>0, <2>2, UnderwayIs
    <3>. QED BY <2>3, <2>4, <3>1 DEF IsZero
  <2>6. num = 0 => IsZero(b)'
    BY <2>3, <2>4 DEF IsZero
  <2>7. /\ FirstFor(StressC)' = FirstFor(StressC)
        /\ FirstFor(StressB)' = IF FirstFor(StressB) = {} THEN {b} ELSE FirstFor(StressB)
    BY <1>0, <2>1, SendFirst
  <2>8. /\ pc'[StressB] = pc[StressB] /\ msg'[StressB] = msg[StressB]
        /\ pc'[StressC] = pc[StressC] /\ msg'[StressC] = msg[StressC]
    BY <1>0, <1>1 DEF OthersStay
  <2>9. /\ pc[StressB] = "got" => msg[StressB] \in Underway
        /\ pc[StressC] = "got" => msg[StressC] \in Underway
    BY InHand DEF Underway
  <2>10. ZeroComes => ZeroComes'
    <3>1. CASE pc[StressB] = "got" /\ IsZero(msg[StressB])
      BY <2>5, <2>8, <2>9, <3>1 DEF ZeroComes, IsZero
    <3>2. CASE /\ pc[StressB] = "receive" /\ FirstIsZero(StressB)
               /\ FirstFor(StressB) = {} => num \in {-1, 0}
      <4>1. FirstFor(StressB)' # {} /\ \A c \in FirstFor(StressB)' : IsZero(c)'
        BY <2>1, <2>5, <2>6, <2>7, <3>2 DEF FirstIsZero, Underway
      <4>. QED BY <2>8, <3>2, <4>1 DEF ZeroComes, FirstIsZero
    <3>. QED BY <3>1, <3>2 DEF ZeroComes
  <2>11. FirstIsZero(StressC) => FirstIsZero(StressC)'
    BY <2>5, <2>7 DEF FirstIsZero, Underway
  <2>. QED BY <1>1, <2>5, <2>7, <2>8, <2>9, <2>10, <2>11 DEF StressOK, Begun, IsZero
<1>. QED BY <1>2, <1>3, <1>4, <1>5 DEF AActs

LEMMA SecondBegun ==
  ASSUME RtxIInv, StressOK, BForwards
  PROVE  Begun'
<1>0. StressB \in Proc /\ StressC \in Proc /\ StressB # StressC /\ StressB # Kcd
  BY WorkersDiffer, ClientsDiffer, StressedDiffer DEF Client, Keepers
<1>1. /\ AllMove(StressB) /\ OthersStay(StressB) /\ UNCHANGED <<hibernate, number, num>>
  BY SecondActs DEF StressOK, WorkerActs, stressLocal
<1>. DEFINE b == msg[StressB]
<1>2. Mail(StressB, b, StressC, <<>>) /\ pc[StressB] = "got"
  BY DEF BForwards
<1>3. PICK t : /\ Send(StressB, b, StressC) /\ b \in MemBlock
               /\ content' = [content EXCEPT ![b].text = t, ![b].tx = StressB]
  BY <1>2, MailText DEF StressOK
<1>. HIDE DEF b
<1>4. \A c \in MemBlock : content'[c].type = content[c].type
  <2>1. Tagged(b, content[b].type, StressB)
    BY <1>3, TextTags DEF StressOK
  <2>. QED BY <2>1 DEF Tagged
<1>5. \A c \in MemBlock : IsZero(c) => IsZero(c)'
  BY <1>1, <1>4 DEF IsZero
<1>6. FirstFor(StressC)' = IF FirstFor(StressC) = {} THEN {b} ELSE FirstFor(StressC)
  BY <1>3, SendFirst
<1>7. pc'[StressC] = pc[StressC] /\ msg'[StressC] = msg[StressC]
  BY <1>0, <1>1 DEF OthersStay
<1>8. FirstFor(StressC)' # {} /\ FirstFor(StressC) \subseteq MemBlock
  BY <1>6, FirstForIs
<1>9. FirstIsZero(StressC) /\ (FirstFor(StressC) = {} => ZeroComes) => FirstIsZero(StressC)'
  BY <1>2, <1>3, <1>5, <1>6, <1>8 DEF FirstIsZero, ZeroComes, b
<1>10. pc[StressC] = "got" => msg[StressC] \in MemBlock
  BY <1>0, InHand DEF RtxIInv, Accounts, DataTypeOK
<1>. QED BY <1>1, <1>5, <1>7, <1>8, <1>9, <1>10 DEF StressOK, Begun

LEMMA ThirdBegun ==
  ASSUME RtxIInv, StressOK, CActs
  PROVE  Begun'
<1>0. StressC \in Proc
  BY WorkersDiffer
<1>1. CASE CTakes
  <2>1. /\ pc[StressC] = "got" /\ hibernate' = hibernate
        /\ IsZero(msg[StressC]) => pc' = [pc EXCEPT ![StressC] = "request"]
    BY <1>1 DEF CTakes, IsZero, GoOn
  <2>2. IsZero(msg[StressC]) => pc'[StressC] = "request"
    BY <1>0, <2>1 DEF StressOK, Pointers
  <2>. QED BY <2>1, <2>2 DEF StressOK, Begun
<1>2. CASE CAnnounces
  <2>1. pc' = [pc EXCEPT ![StressC] = "request2"]
    BY <1>2 DEF CAnnounces, GoOn
  <2>2. pc'[StressC] = "request2"
    BY <1>0, <2>1 DEF StressOK, Pointers
  <2>. QED BY <2>2 DEF Begun
<1>3. CASE CSleeps
  <2>1. hibernate' = new[StressC] /\ new[StressC] \in MemBlock
    BY <1>3, StressAssumption, DelayedSendCalls DEF CSleeps
  <2>. QED BY <2>1, BlockAssumption DEF Begun
<1>4. CASE CDequeues \/ CSleepsOn \/ CGets \/ CReleases \/ CYields
  <2>1. pc[StressC] \in {"dequeue", "sleep", "stale", "yield"} /\ hibernate' = hibernate
    BY <1>4 DEF CDequeues, CSleepsOn, CGets, CReleases, CYields, stressLocal
  <2>. QED BY <2>1 DEF StressOK, Begun
<1>. QED BY <1>1, <1>2, <1>3, <1>4 DEF CActs

\* A delayed message is stress_c's, which has slept then.
LEMMA TimerBegun ==
  ASSUME RtxIInv, StressOK, TimerActs
  PROVE  Begun'
<1>1. UNCHANGED <<content, pc, msg, rx, hibernate, num, number>>
  BY DEF TimerActs, StressTick, StressScan, Tick, TickSkips, TickEnds, TickDelivers,
         localVars, stressLocal, mailVars
<1>2. CASE mailbox' = mailbox
  <2>1. FirstFor(StressB)' = FirstFor(StressB) /\ FirstFor(StressC)' = FirstFor(StressC)
    BY <1>1, <1>2, QuietFirst
  <2>. QED BY <1>1, <2>1, BegunStays DEF IsZero
<1>3. ASSUME NEW b \in MemBlock, TickDelivers(b) PROVE Begun'
  <2>1. InBox(delayed, b)
    BY <1>3 DEF TickDelivers, InBox
  <2>2. b = hibernate /\ b # NoBlock
    BY <2>1, BlockAssumption DEF StressOK, Wakeup
  <2>. QED BY <1>1, <2>2 DEF Begun
<1>4. (\E b \in MemBlock : TickDelivers(b)) \/ mailbox' = mailbox
  BY DEF TimerActs, StressTick, StressScan, Tick, TickSkips, TickEnds, mailVars
<1>. QED BY <1>2, <1>3, <1>4

-----------------------------------------------------------------------------
(* The invariant of the stress test. *)

LEMMA OthersKeep ==
  ASSUME RtxIInv, StressOK, NEW p \in Keepers, OthersStay(p), Tidy(p)', Pointers',
         Takes \/ WorkerActs(p), UNCHANGED <<local, hibernate>>, Known',
         number' = [b \in MemBlock |-> number'[b]],
         p = StressA => pc'[p] \in {"request", "fill", "receive", "got", "yield"},
         p = StressB => pc'[p] \in {"receive", "got"},
         Begun'
  PROVE  StressOK'
<1>0. /\ p \in Proc /\ StressC \in Proc \ {p} /\ StressA \in Proc /\ StressB \in Proc
      /\ p \in Workers /\ Keepers \subseteq Proc
  BY WorkersDiffer
<1>1. Shaped' /\ Tags' /\ Wakeup' /\ \A c \in MemBlock : IsWake(c)' <=> IsWake(c)
  <2>1. CASE Takes
    BY <2>1, TakesTags DEF StressOK
  <2>2. CASE WorkerActs(p)
    <3>1. Tags'
      BY <1>0, <2>2, HeldForWork, MovesTags DEF WorkerActs, StressOK
    <3>2. Wakeup' /\ \A c \in MemBlock : IsWake(c)' <=> IsWake(c)
      BY <1>0, <2>2, MovesWakeup DEF WorkerActs, StressOK
    <3>. QED BY <2>2, <3>1, <3>2 DEF WorkerActs, AllMove
  <2>. QED BY <2>1, <2>2
<1>2. /\ held'[StressC] = held[StressC] /\ pc'[StressC] = pc[StressC]
      /\ msg'[StressC] = msg[StressC] /\ new'[StressC] = new[StressC]
  BY <1>0 DEF OthersStay
<1>3. CTidy'
  <2>1. Named(StressC)' = Named(StressC) /\ Woken' = Woken
    BY <1>1, <1>2 DEF Named, Woken
  <2>. QED BY <1>2, <2>1 DEF StressOK, CTidy
<1>4. \A q \in Keepers : Tidy(q)'
  BY <1>0, OthersStayTidy DEF StressOK
<1>5. StressStages'
  BY <1>0, <1>2 DEF StressOK, StressStages, OthersStay
<1>. QED BY <1>1, <1>3, <1>4, <1>5 DEF StressOK

LEMMA ConsoleKeepsStress ==
  ASSUME RtxIInv, StressOK, ConsoleStep
  PROVE  StressOK'
<1>0. /\ Client \subseteq Keepers /\ Kcd \in Client /\ StressA \notin Client /\ StressB \notin Client
      /\ Client \subseteq Proc \ {StressB, StressC}
  BY WorkersDiffer, ClientsAreProc, StressedAreProc DEF Keepers, Client
<1>1. PICK p \in Client : /\ OthersStay(p) /\ Tidy(p)' /\ (Takes \/ WorkerActs(p))
                          /\ Pointers' /\ UNCHANGED stressLocal
  BY <1>0, HeldForWork, ConsoleStepActs DEF StressOK
<1>2. Known'
  BY <1>0, ConsoleKnows DEF StressOK
<1>3. FirstFor(StressB)' = FirstFor(StressB) /\ FirstFor(StressC)' = FirstFor(StressC)
  BY ConsoleFirst DEF StressOK
<1>4. UNCHANGED <<num, number, local, hibernate>>
  BY <1>1 DEF stressLocal
<1>5. Begun'
  BY <1>0, <1>1, <1>3, <1>4, OthersBegun DEF WorkerActs
<1>6. number' = [b \in MemBlock |-> number'[b]]
  BY <1>4 DEF StressOK
<1>. QED BY <1>0, <1>1, <1>2, <1>4, <1>5, <1>6, OthersKeep

LEMMA TimerKeepsStress ==
  ASSUME RtxIInv, StressOK, TimerActs
  PROVE  StressOK'
<1>0. Kcd \in Keepers /\ StressA # Kcd /\ StressB # Kcd
  BY WorkersDiffer DEF Keepers, Client
<1>1. UNCHANGED <<held, pc, msg, new, local, hibernate, number, cmds>>
  BY DEF TimerActs, StressTick, StressScan, Tick, TickSkips, TickEnds, TickDelivers,
         localVars, stressLocal
<1>2. Takes
  BY HeldForWork, TimerTakes DEF StressOK
<1>3. Begun'
  BY TimerBegun
<1>4. OthersStay(Kcd) /\ Tidy(Kcd)' /\ Pointers' /\ Known'
  BY <1>0, <1>1 DEF OthersStay, StressOK, Tidy, Named, Pointers, Known
<1>5. number' = [b \in MemBlock |-> number'[b]]
  BY <1>1 DEF StressOK
<1>. QED BY <1>0, <1>1, <1>2, <1>3, <1>4, <1>5, OthersKeep

\* What receive_message and request_memory_block give stress_c is neither in its queue
\* nor anywhere else.
LEMMA ThirdReceives ==
  ASSUME RtxIInv, StressOK, ClientStep(StressC), UNCHANGED stressLocal
  PROVE  CTidy'
<1>0. /\ StressC \in Proc /\ StressC # Crt /\ held \in [Proc -> SUBSET MemBlock]
      /\ UNCHANGED <<local, hibernate>> /\ Pointers
  BY ThirdIsProc DEF RtxIInv, Accounts, DataTypeOK, stressLocal, StressOK
<1>1. CASE Waits(StressC)
  <2>1. UNCHANGED <<held, pc, msg, new, content>>
    BY <1>1 DEF Waits, localVars, ReceiveFindsNone, ReceiveBlocks, RequestFindsNone,
                RequestBlocks, SendUnblocks, ReleaseUnblocks
  <2>. QED BY <1>0, <2>1 DEF StressOK, CTidy, Named, Woken, IsWake
<1>2. CASE Gets(StressC) \/ Obtains(StressC)
  <2>1. PICK b \in MemBlock :
          /\ b \notin held[StressC] /\ held'[StressC] = held[StressC] \cup {b}
          /\ Named(StressC) = {} /\ Named(StressC)' = {b}
          /\ pc[StressC] \in {"receive", "request", "request2"}
          /\ pc'[StressC] \in {"got", "fill", "fill2"}
    <3>1. CASE Gets(StressC)
      <4>1. PICK b \in MemBlock :
              /\ b \notin held[StressC]
              /\ held' = [held EXCEPT ![StressC] = @ \cup {b}]
              /\ msg' = [msg EXCEPT ![StressC] = b]
              /\ pc[StressC] = "receive" /\ pc' = [pc EXCEPT ![StressC] = "got"]
        BY <1>0, <3>1, GetsHolds
      <4>2. /\ held'[StressC] = held[StressC] \cup {b} /\ msg'[StressC] = b
            /\ pc'[StressC] = "got"
        BY <1>0, <4>1 DEF Pointers
      <4>. QED BY <1>0, <4>1, <4>2 DEF Named
    <3>2. CASE Obtains(StressC)
      <4>1. PICK b \in MemBlock :
              /\ b \notin held[StressC]
              /\ held' = [held EXCEPT ![StressC] = @ \cup {b}]
              /\ new' = [new EXCEPT ![StressC] = b]
              /\ \/ pc[StressC] = "request" /\ pc' = [pc EXCEPT ![StressC] = "fill"]
                 \/ pc[StressC] = "request2" /\ pc' = [pc EXCEPT ![StressC] = "fill2"]
        BY <1>0, <3>2, ObtainsHolds
      <4>2. /\ held'[StressC] = held[StressC] \cup {b} /\ new'[StressC] = b
            /\ pc'[StressC] \in {"fill", "fill2"}
        BY <1>0, <4>1 DEF Pointers
      <4>. QED BY <1>0, <4>1, <4>2 DEF Named
    <3>. QED BY <1>2, <3>1, <3>2
  <2>2. Woken = {} /\ Woken' = {}
    BY <2>1 DEF Woken
  <2>3. b \notin Range(local)
    BY <2>1 DEF StressOK, CTidy
  <2>. QED BY <1>0, <2>1, <2>2, <2>3 DEF StressOK, CTidy
<1>. QED BY <1>1, <1>2 DEF ClientStep

LEMMA ClientKeepsStress ==
  ASSUME RtxIInv, StressOK, NEW p \in Stressed, ClientStep(p), UNCHANGED stressLocal
  PROVE  StressOK'
<1>0. /\ p \in Proc /\ p \in Workers /\ StressC \in Proc /\ Keepers \subseteq Proc
      /\ p \in {StressA, StressB, StressC} /\ StressA \in Keepers /\ StressB \in Keepers
      /\ StressA # StressB /\ StressC \notin Keepers
  BY WorkersDiffer, ClientsDiffer, StressedDiffer DEF Workers, Stressed, Keepers
<1>1. /\ Pointers' /\ OthersStay(p) /\ (Tidy(p) => Tidy(p)')
      /\ UNCHANGED <<number, local, hibernate, cmds>>
  BY <1>0, ClientTidies DEF StressOK, stressLocal, ClientStep, Waits, Gets, Obtains, localVars
<1>2. Takes
  BY <1>0, <1>1, ClientTakes, HeldForWork DEF StressOK
<1>3. Begun'
  BY ClientBegun
<1>4. Known' /\ number' = [b \in MemBlock |-> number'[b]]
  BY <1>1 DEF StressOK, Known
<1>5. <<pc[p], pc'[p]>> \in {<<"receive", "got">>, <<"request", "fill">>,
                             <<"request2", "fill2">>, <<pc[p], pc[p]>>}
  BY <1>0, ClientProceeds DEF StressOK
<1>6. CASE p \in Keepers
  <2>1. /\ p = StressA => pc'[p] \in {"request", "fill", "receive", "got", "yield"}
        /\ p = StressB => pc'[p] \in {"receive", "got"}
    BY <1>5 DEF StressOK, StressStages
  <2>2. Tidy(p)'
    BY <1>1, <1>6 DEF StressOK
  <2>. QED BY <1>1, <1>2, <1>3, <1>4, <1>6, <2>1, <2>2, OthersKeep
<1>7. CASE p = StressC
  <2>1. Shaped' /\ Tags' /\ Wakeup'
    BY <1>2, TakesTags DEF StressOK
  <2>2. CTidy'
    BY <1>7, ThirdReceives
  <2>3. \A q \in Keepers : Tidy(q)'
    BY <1>0, <1>1, <1>7, OthersStayTidy DEF StressOK
  <2>4. StressStages'
    BY <1>0, <1>1, <1>5, <1>7 DEF StressOK, StressStages, OthersStay
  <2>. QED BY <1>1, <1>3, <1>4, <2>1, <2>2, <2>3, <2>4 DEF StressOK
<1>. QED BY <1>0, <1>6, <1>7

LEMMA ThirdKeepsStress ==
  ASSUME RtxIInv, StressOK, CActs
  PROVE  StressOK'
<1>0. /\ StressC \in Proc /\ Keepers \subseteq Proc /\ StressC \notin Keepers
      /\ StressA \in Proc \ {StressC} /\ StressB \in Proc \ {StressC}
  BY WorkersDiffer, ClientsDiffer, StressedDiffer
<1>1. CKeeps
  <2>1. CHolds
    BY HeldForWork DEF StressOK, CHolds
  <2>. QED BY <2>1, DequeueKeeps, TakeKeeps, AnnounceKeeps, SleepKeeps, SleepOnKeeps, GetKeeps,
              ReleaseKeeps, YieldKeeps DEF CActs
<1>2. Begun'
  BY ThirdBegun
<1>3. number' = [b \in MemBlock |-> number'[b]]
  <2>1. number' = number \/ number' = [number EXCEPT ![msg[StressC]] = 0]
    BY DEF CActs, CDequeues, CTakes, CAnnounces, CSleeps, CSleepsOn, CGets, CReleases, CYields,
           stressLocal
  <2>. QED BY <2>1 DEF StressOK
<1>4. \A q \in Keepers : Tidy(q)'
  BY <1>0, <1>1, OthersStayTidy DEF StressOK, CKeeps
<1>5. StressStages'
  BY <1>0, <1>1 DEF StressOK, StressStages, OthersStay, CKeeps
<1>6. Known'
  BY <1>1 DEF StressOK, Known, CKeeps
<1>. QED BY <1>1, <1>2, <1>3, <1>4, <1>5, <1>6 DEF StressOK, CKeeps

LEMMA StepStressOK ==
  ASSUME RtxIInv, StressOK, [StressNext]_stressVars, ~damaged'
  PROVE  StressOK'
<1>0. StressA \in Keepers /\ StressB \in Keepers /\ StressA # StressB
  BY WorkersDiffer, ClientsDiffer, StressedDiffer
<1>1. CASE AActs
  <2>1. /\ Pointers' /\ WorkerActs(StressA) /\ Tidy(StressA)'
        /\ pc'[StressA] \in {"receive", "request", "yield"}
        /\ UNCHANGED <<local, hibernate, cmds>>
    BY <1>0, <1>1, FirstActs DEF StressOK
  <2>2. Begun'
    BY <1>1, FirstBegun
  <2>3. number' = [b \in MemBlock |-> number'[b]]
    <3>1. number' = number \/ number' = [number EXCEPT ![new[StressA]] = num]
      BY <1>1 DEF AActs, ARegisters, AStarts, ACounts, AYields, stressLocal
    <3>. QED BY <3>1 DEF StressOK
  <2>4. Known'
    BY <2>1 DEF StressOK, Known
  <2>. QED BY <1>0, <2>1, <2>2, <2>3, <2>4, OthersKeep DEF WorkerActs
<1>2. CASE BForwards
  <2>1. /\ Pointers' /\ WorkerActs(StressB) /\ Tidy(StressB)' /\ pc'[StressB] = "receive"
        /\ UNCHANGED <<local, hibernate, number, cmds>>
    BY <1>0, <1>2, SecondActs DEF StressOK, stressLocal
  <2>2. Begun'
    BY <1>2, SecondBegun
  <2>3. Known' /\ number' = [b \in MemBlock |-> number'[b]]
    BY <2>1 DEF StressOK, Known
  <2>. QED BY <1>0, <2>1, <2>2, <2>3, OthersKeep DEF WorkerActs
<1>3. ~CDamages
  BY DEF CDamages
<1>. QED BY <1>1, <1>2, <1>3, StressCases, ConsoleKeepsStress, TimerKeepsStress,
            ClientKeepsStress, ThirdKeepsStress

StressInv == KernelInv /\ (~damaged => StressOK)

LEMMA InitStressInv == StressInit => StressInv
<1>. SUFFICES ASSUME StressInit PROVE StressInv
  OBVIOUS
<1>0. /\ ProgramInit({Prio, StressA}) /\ Crt \notin {Prio, StressA}
      /\ Workers \subseteq Proc /\ Keepers \subseteq Workers /\ Keepers \subseteq Proc
      /\ StressA \in Proc /\ StressB \in Proc /\ StressC \in Proc
      /\ StressB \notin {Kcd, Prio, StressA} /\ StressC \notin {Kcd, Prio, StressA}
      /\ StressA # Kcd
  BY WorkersDiffer, ClientsDiffer, StressedDiffer DEF StressInit, Client, Keepers
<1>1. KernelInv
  BY <1>0, InitKernelInv DEF ProgramInit
<1>2. ASSUME NEW p \in Proc PROVE Pointers /\ Tidy(p)
  BY <1>0, InitHolds
<1>3. /\ pc[StressA] = "request" /\ pc[StressB] = "receive" /\ pc[StressC] = "receive"
      /\ \A p \in Workers : pc[p] \notin {"fill", "fill2"}
  BY <1>0 DEF ProgramInit
<1>4. content = [b \in MemBlock |-> Blank] /\ cmds = <<>> /\ num = -1
      /\ number = [b \in MemBlock |-> 0] /\ local = <<>> /\ hibernate = NoBlock
      /\ (\A i \in Slot : mailbox[i] = NoBlock /\ delayed[i] = NoBlock)
      /\ held = [p \in Proc |-> {}]
  BY <1>0 DEF StressInit, ProgramInit, RtxInit
<1>5. \A b \in MemBlock : content[b].type = PLAIN /\ ~InBox(delayed, b)
  BY <1>4, BlockAssumption DEF Blank, InBox
<1>6. Shaped
  <2>1. Blank = [type |-> Blank.type, tx |-> Blank.tx, text |-> Blank.text]
    BY DEF Blank
  <2>. QED BY <1>4, <2>1 DEF Shaped
<1>7. Tags /\ Wakeup
  BY <1>3, <1>5, TypesDiffer DEF Tags, Wakeup, IsWake
<1>8. Known
  <2>1. cmds \in Seq(Range(cmds))
    BY <1>4, EmptySeq
  <2>2. DOMAIN cmds = {}
    BY <1>4, EmptySeq
  <2>. QED BY <2>1, <2>2 DEF Known
<1>9. StressStages
  BY <1>3 DEF StressStages
<1>10. CTidy
  <2>1. Named(StressC) = {} /\ Woken = {} /\ held[StressC] = {}
    BY <1>0, <1>3, <1>4, ThirdIsProc DEF Named, Woken
  <2>2. local \in Seq(MemBlock) /\ Range(local) = {} /\ IsInjective(local)
    BY <1>4, EmptySeq DEF Range, IsInjective
  <2>. QED BY <1>3, <1>4, <2>1, <2>2 DEF CTidy, BlockOrNone
<1>11. number = [b \in MemBlock |-> number[b]]
  BY <1>4
<1>12. Begun
  <2>1. \A q : FirstFor(q) = {}
    BY <1>4 DEF FirstFor, FirstMail
  <2>. QED BY <1>3, <1>4, <2>1 DEF Begun, ZeroComes, FirstIsZero
<1>. QED BY <1>0, <1>1, <1>2, <1>6, <1>7, <1>8, <1>9, <1>10, <1>11, <1>12
         DEF StressInv, StressOK

LEMMA StepStressInv == StressInv /\ [StressNext]_stressVars => StressInv'
<1>. SUFFICES ASSUME StressInv, [StressNext]_stressVars PROVE StressInv'
  OBVIOUS
<1>1. RtxIInv /\ KernelInv /\ (~damaged => StressOK)
  BY DEF StressInv, KernelInv
<1>2. KernelInv'
  BY <1>1, StressCalls, StepRtxIInv, StepSleepers DEF KernelInv
<1>3. damaged => damaged'
  BY StressCases DEF ConsoleStep, stressLocal, CDamages
<1>. QED BY <1>1, <1>2, <1>3, StepStressOK DEF StressInv

\* Who holds which block and what kind of message is in it, where the three programs
\* are, and what reaches stress_c first.
THEOREM StressInductiveInvariant == StressSpec => []StressInv
BY InitStressInv, StepStressInv, PTL DEF StressSpec

\* As long as stress_c releases no block that is on its way to it, the three stress
\* processes and the console use what they hold and hold what they use, over any
\* number of rounds, whatever stress_c has put aside and whatever its old pointer
\* points to; and the pointer has been set before it is first used.
THEOREM StressHolds == StressSpec => []StressHoldsWhatItNames
<1>1. StressInv => StressHoldsWhatItNames
  <2>. SUFFICES ASSUME StressInv, ~damaged PROVE
          /\ \A p \in Client \cup {StressA, StressB} : held[p] = Named(p)
          /\ held[StressC] \ (IF pc[StressC] = "stale" THEN {hibernate} ELSE {})
                = Named(StressC) \cup Range(local)
          /\ pc[StressC] = "stale" => hibernate # NoBlock
    BY DEF StressHoldsWhatItNames
  <2>1. StressOK
    BY DEF StressInv
  <2>2. pc[StressC] = "stale" => Named(StressC) = {}
    BY ThirdIsProc DEF Named
  <2>3. Woken \subseteq IF pc[StressC] = "stale" THEN {hibernate} ELSE {}
    BY <2>1 DEF StressOK, Wakeup, Woken
  <2>4. held[StressC] \ (IF pc[StressC] = "stale" THEN {hibernate} ELSE {})
           = Named(StressC) \cup Range(local)
    BY <2>1, <2>2, <2>3 DEF StressOK, CTidy
  <2>5. pc[StressC] = "stale" => hibernate # NoBlock
    BY <2>1 DEF StressOK, Begun
  <2>. QED BY <2>1, <2>4, <2>5 DEF StressOK, Tidy, Keepers
<1>. QED BY <1>1, StressInductiveInvariant, PTL

-----------------------------------------------------------------------------
(* Numbers that start anew after each period. *)

LEMMA ModType ==
  ASSUME NEW P \in Nat \ {0}, NEW a \in Int
  PROVE  a % P \in 0..(P - 1) /\ a \div P \in Int /\ a = P * (a \div P) + (a % P)
OBVIOUS

LEMMA NoMultiple ==
  ASSUME NEW P \in Nat \ {0}, NEW k \in Int, P * k < P, P * k > -P
  PROVE  k = 0
<1>1. CASE k >= 1
  <2>1. P * k >= P
    BY <1>1
  <2>. QED BY <2>1
<1>2. CASE k <= -1
  <2>1. P * k <= -P
    BY <1>2
  <2>. QED BY <2>1
<1>. QED BY <1>1, <1>2

LEMMA ModUnique ==
  ASSUME NEW P \in Nat \ {0}, NEW q \in Int, NEW r \in 0..(P - 1)
  PROVE  (P * q + r) % P = r
<1>. DEFINE a == P * q + r
            x == a % P
            y == a \div P
            k == y - q
<1>0. P * q \in Int /\ a \in Int
  OBVIOUS
<1>1. x \in 0..(P - 1) /\ y \in Int /\ a = P * y + x
  BY <1>0, ModType
<1>. HIDE DEF x, y
<1>2. k \in Int
  BY <1>1
<1>3. P * k = P * y - P * q /\ P * y \in Int
  BY <1>1
<1>4. P * k = r - x
  BY <1>0, <1>1, <1>3
<1>5. P * k < P /\ P * k > -P
  BY <1>1, <1>4
<1>. HIDE DEF k
<1>6. k = 0
  BY <1>2, <1>5, NoMultiple
<1>. QED BY <1>1, <1>4, <1>6 DEF x

LEMMA ModSmall ==
  ASSUME NEW P \in Nat \ {0}, NEW r \in 0..(P - 1)
  PROVE  r % P = r
<1>1. (P * 0 + r) % P = r
  BY ModUnique
<1>. QED BY <1>1

\* To add is to add after the reduction.
LEMMA ModAdd ==
  ASSUME NEW P \in Nat \ {0}, NEW a \in Int, NEW k \in Int
  PROVE  ((a % P) + k) % P = (a + k) % P
<1>. DEFINE r == a % P
            q == a \div P
            s == (r + k) % P
            t == (r + k) \div P
<1>1. r \in Int /\ q \in Int /\ a = P * q + r
  BY ModType
<1>2. s \in 0..(P - 1) /\ t \in Int /\ r + k = P * t + s
  BY <1>1, ModType
<1>. HIDE DEF r, q, s, t
<1>3. P * (q + t) = P * q + P * t /\ q + t \in Int
  BY <1>1, <1>2
<1>4. a + k = P * (q + t) + s
  BY <1>1, <1>2, <1>3
<1>5. (P * (q + t) + s) % P = s
  BY <1>2, <1>3, ModUnique
<1>. QED BY <1>4, <1>5 DEF s, r

LEMMA MaxZero ==
  ASSUME NEW n \in Int
  PROVE  Max({n, 0}) = IF n < 0 THEN 0 ELSE n
BY DEF Max

-----------------------------------------------------------------------------
(* What is in a sequence of messages. *)

Numbering(c) == {b \in MemBlock : c[b].type = COUNT_REPORT}
Numbers(s, c, n) == Values(Among(s, Numbering(c)), n)

LEMMA NumbersType ==
  ASSUME NEW s \in Seq(MemBlock), NEW c, NEW n \in [MemBlock -> Nat]
  PROVE  Numbers(s, c, n) \in Seq(Nat)
<1>1. Among(s, Numbering(c)) \in Seq(MemBlock)
  BY AmongType
<1>. DEFINE u == Among(s, Numbering(c))
<1>2. u \in Seq(MemBlock)
  BY <1>1
<1>3. \A i \in DOMAIN u : n[u[i]] \in Nat
  <2>. HIDE DEF u
  <2>1. \A i \in 1..Len(u) : u[i] \in MemBlock
    BY <1>2, ElementOfSeq
  <2>2. DOMAIN u = 1..Len(u)
    BY <1>2, LenProperties
  <2>. QED BY <2>1, <2>2
<1>. HIDE DEF u
<1>4. Values(u, n) \in Seq(Nat)
  BY ONLY <1>2, <1>3, ValuesType
<1>. QED BY <1>4 DEF Numbers, u

LEMMA NumbersConcat ==
  ASSUME NEW s \in Seq(MemBlock), NEW t \in Seq(MemBlock), NEW c, NEW n
  PROVE  Numbers(s \o t, c, n) = Numbers(s, c, n) \o Numbers(t, c, n)
<1>. DEFINE S == Numbering(c)
            u == Among(s, S)
            v == Among(t, S)
<1>1. Among(s \o t, S) = u \o v
  BY AmongConcat
<1>2. u \in Seq(MemBlock) /\ v \in Seq(MemBlock)
  BY AmongType
<1>. HIDE DEF u, v
<1>3. \A f : Values(u \o v, f) = Values(u, f) \o Values(v, f)
  BY <1>2, ValuesConcat
<1>. QED BY <1>1, <1>3 DEF Numbers, u, v

LEMMA NumbersEmpty == \A c, n : Numbers(<<>>, c, n) = <<>>
BY AmongEmpty, ValuesEmpty DEF Numbers

LEMMA NumbersOne ==
  ASSUME NEW b \in MemBlock, NEW c, NEW n
  PROVE  Numbers(<<b>>, c, n) = IF c[b].type = COUNT_REPORT THEN <<n[b]>> ELSE <<>>
<1>1. Among(<<b>>, Numbering(c)) = IF c[b].type = COUNT_REPORT THEN <<b>> ELSE <<>>
  BY AmongOne DEF Numbering
<1>2. Values(<<b>>, n) = <<n[b]>>
  BY DEF Values
<1>. QED BY <1>1, <1>2, ValuesEmpty DEF Numbers


LEMMA NumbersSame ==
  ASSUME NEW s \in Seq(MemBlock), NEW c, NEW n, NEW d, NEW m,
         \A i \in DOMAIN s : /\ c[s[i]].type = COUNT_REPORT <=> d[s[i]].type = COUNT_REPORT
                             /\ d[s[i]].type = COUNT_REPORT => m[s[i]] = n[s[i]]
  PROVE  Numbers(s, d, m) = Numbers(s, c, n)
<1>1. DOMAIN s = 1..Len(s) /\ \A i \in DOMAIN s : s[i] \in MemBlock
  BY LenProperties, ElementOfSeq
<1>2. \A i \in 1..Len(s) : s[i] \in Numbering(d) <=> s[i] \in Numbering(c)
  BY <1>1 DEF Numbering
<1>3. Among(s, Numbering(d)) = Among(s, Numbering(c))
  <2>. DEFINE D == Numbering(d)
              C == Numbering(c)
  <2>1. \A i \in 1..Len(s) : s[i] \in D <=> s[i] \in C
    BY <1>2
  <2>. HIDE DEF D, C
  <2>2. Among(s, D) = Among(s, C)
    BY <2>1, AmongSame
  <2>. QED BY <2>2 DEF D, C
<1>. DEFINE u == Among(s, Numbering(d))
<1>4. \A i \in DOMAIN u : m[u[i]] = n[u[i]]
  <2>. DEFINE D == Numbering(d)
  <2>1. u \in Seq(MemBlock)
    BY AmongType
  <2>2. \A x : (\E i \in 1..Len(u) : u[i] = x) <=> x \in D /\ \E i \in 1..Len(s) : s[i] = x
    <3>1. SUFFICES ASSUME NEW x
                   PROVE  (\E i \in 1..Len(u) : u[i] = x) <=> x \in D /\ \E i \in 1..Len(s) : s[i] = x
      OBVIOUS
    <3>. QED BY AmongType
  <2>. HIDE DEF u, D
  <2>3. DOMAIN u = 1..Len(u)
    BY <2>1, LenProperties
  <2>4. SUFFICES ASSUME NEW i \in DOMAIN u PROVE m[u[i]] = n[u[i]]
    OBVIOUS
  <2>5. u[i] \in D /\ \E j \in 1..Len(s) : s[j] = u[i]
    BY <2>2, <2>3
  <2>. QED BY <1>1, <2>5 DEF D, Numbering
<1>. HIDE DEF u
<1>5. Values(u, m) = Values(u, n)
  BY <1>4, ValuesSame
<1>. QED BY <1>3, <1>5 DEF Numbers, u

-----------------------------------------------------------------------------
(* The messages on their way to stress_c. *)

WithThird == Handed(StressC) \o local
Route == WithThird \o Inbox[StressC] \o Coming(StressB)
Stream == Numbers(Route, content, number)

LEMMA RangeConcat ==
  ASSUME NEW T, NEW s \in Seq(T), NEW t \in Seq(T)
  PROVE  Range(s \o t) = Range(s) \cup Range(t)
<1>. DEFINE u == s \o t
<1>1. /\ Len(s) \in Nat /\ DOMAIN s = 1..Len(s) /\ Len(t) \in Nat /\ DOMAIN t = 1..Len(t)
  BY LenProperties
<1>2. /\ u \in Seq(T) /\ Len(u) = Len(s) + Len(t)
      /\ \A i \in 1..(Len(s) + Len(t)) : u[i] = IF i <= Len(s) THEN s[i] ELSE t[i - Len(s)]
  BY ConcatProperties
<1>3. DOMAIN u = 1..Len(u)
  BY <1>2, LenProperties
<1>. HIDE DEF u
<1>4. \A i \in DOMAIN s : i \in DOMAIN u /\ u[i] = s[i]
  BY <1>1, <1>2, <1>3
<1>5. \A i \in DOMAIN t : Len(s) + i \in DOMAIN u /\ u[Len(s) + i] = t[i]
  BY <1>1, <1>2, <1>3
<1>6. \A i \in DOMAIN u : \/ i \in DOMAIN s /\ u[i] = s[i]
                          \/ i - Len(s) \in DOMAIN t /\ u[i] = t[i - Len(s)]
  BY <1>1, <1>2, <1>3
<1>7. Range(u) = Range(s) \cup Range(t)
  BY <1>4, <1>5, <1>6 DEF Range
<1>. QED BY <1>7 DEF u

LEMMA RangeOne == \A x : Range(<<x>>) = {x} /\ Range(<<>>) = {}
BY DEF Range

\* Of stress_b and stress_c.
LEMMA BothAreProc ==
  /\ StressB \in Proc /\ StressC \in Proc /\ StressA \in Proc
  /\ StressA # StressB /\ StressA # StressC /\ StressB # StressC
  /\ StressB # Kcd /\ StressC # Kcd /\ StressA # Kcd
  /\ StressB \in Keepers /\ StressA \in Keepers /\ StressB # Crt /\ StressA \in Workers
BY WorkersDiffer, ClientsDiffer, StressedDiffer DEF Client, Keepers

LEMMA HandedIs ==
  ASSUME RtxIInv, StressOK, NEW p \in {StressB, StressC}
  PROVE  /\ Inbox[p] \in Seq(MemBlock) /\ Handed(p) \in Seq(MemBlock)
         /\ Coming(p) \in Seq(MemBlock)
         /\ pc[p] = "got" => /\ msg[p] \in MemBlock /\ msg[p] \in held[p]
                             /\ Handed(p) = <<msg[p]>> /\ Coming(p) = <<msg[p]>> \o Inbox[p]
         /\ pc[p] # "got" => Handed(p) = <<>> /\ Coming(p) = Inbox[p]
<1>0. p \in Proc
  BY BothAreProc
<1>1. Inbox[p] \in Seq(MemBlock)
  BY <1>0, InboxType DEF RtxIInv
<1>2. pc[p] = "got" => msg[p] \in held[p] /\ msg[p] \in MemBlock
  BY <1>0, InHand DEF RtxIInv, Accounts, DataTypeOK
<1>3. pc[p] = "got" => Handed(p) = <<msg[p]>> /\ <<msg[p]>> \in Seq(MemBlock)
  BY <1>2 DEF Handed
<1>4. pc[p] # "got" => Handed(p) = <<>> /\ <<>> \in Seq(MemBlock)
  BY DEF Handed
<1>5. Handed(p) \in Seq(MemBlock)
  BY <1>3, <1>4
<1>6. Coming(p) \in Seq(MemBlock)
  BY <1>1, <1>5, ConcatProperties DEF Coming
<1>7. <<>> \o Inbox[p] = Inbox[p]
  BY <1>1, ConcatEmptySeq
<1>. QED BY <1>1, <1>2, <1>3, <1>4, <1>5, <1>6, <1>7 DEF Coming

LEMMA RouteType ==
  ASSUME RtxIInv, StressOK
  PROVE  /\ local \in Seq(MemBlock) /\ WithThird \in Seq(MemBlock)
         /\ Inbox[StressC] \in Seq(MemBlock) /\ Coming(StressB) \in Seq(MemBlock)
         /\ Route \in Seq(MemBlock)
         /\ Range(Route) = Range(WithThird) \cup Range(Inbox[StressC]) \cup Range(Coming(StressB))
<1>1. local \in Seq(MemBlock)
  BY DEF StressOK, CTidy
<1>2. Handed(StressC) \in Seq(MemBlock) /\ Inbox[StressC] \in Seq(MemBlock)
      /\ Coming(StressB) \in Seq(MemBlock)
  BY HandedIs
<1>3. WithThird \in Seq(MemBlock)
  BY <1>1, <1>2, ConcatProperties DEF WithThird
<1>. DEFINE k == WithThird
            i == Inbox[StressC]
            c == Coming(StressB)
<1>4. k \in Seq(MemBlock) /\ i \in Seq(MemBlock) /\ c \in Seq(MemBlock)
  BY <1>2, <1>3
<1>5. Route = (k \o i) \o c
  BY DEF Route
<1>. HIDE DEF k, i, c
<1>6. k \o i \in Seq(MemBlock) /\ Range(k \o i) = Range(k) \cup Range(i)
  BY <1>4, ConcatProperties, RangeConcat
<1>. DEFINE ki == k \o i
<1>7. ki \in Seq(MemBlock)
  BY <1>6
<1>. HIDE DEF ki
<1>8. ki \o c \in Seq(MemBlock) /\ Range(ki \o c) = Range(ki) \cup Range(c)
  BY <1>4, <1>7, ConcatProperties, RangeConcat
<1>. QED BY <1>1, <1>2, <1>3, <1>5, <1>6, <1>8 DEF k, i, c, ki

\* What waits in a mailbox is in nobody's hands.
LEMMA WaitingIs ==
  ASSUME RtxIInv, NEW p \in Proc, NEW c \in Range(Inbox[p])
  PROVE  c \in MemBlock /\ ~IsFree(c) /\ InBox(mailbox, c) /\ \A q \in Proc : c \notin held[q]
<1>1. PICK i \in DOMAIN Inbox[p] : c = Inbox[p][i]
  BY DEF Range
<1>2. Inbox[p] \in Seq(MemBlock) /\ InBox(mailbox, c)
  BY <1>1, InboxType DEF RtxIInv
<1>3. c \in MemBlock
  <2>. DEFINE s == Inbox[p]
  <2>1. s \in Seq(MemBlock) /\ i \in DOMAIN s
    BY <1>1, <1>2
  <2>. HIDE DEF s
  <2>2. s[i] \in MemBlock
    BY <2>1
  <2>. QED BY <1>1, <2>2 DEF s
<1>4. \A q \in Proc : c \notin held[q]
  BY <1>2, <1>3, HeldProperties DEF RtxIInv
<1>5. ~IsFree(c)
  BY <1>2, <1>3, ReceiverAssumption DEF RtxIInv, Accounts, Accounted, AccountedFor, DataTypeOK
<1>. QED BY <1>2, <1>3, <1>4, <1>5

LEMMA RouteWhere ==
  ASSUME RtxIInv, StressOK, NEW c \in Range(Route)
  PROVE  /\ c \in MemBlock /\ ~IsFree(c)
         /\ \A p \in Proc \ {StressB, StressC} : c \notin held[p]
<1>0. StressB \in Proc /\ StressC \in Proc
  BY BothAreProc
<1>1. SUFFICES ASSUME c \in held[StressB] \cup held[StressC]
               PROVE  /\ c \in MemBlock /\ ~IsFree(c)
                      /\ \A p \in Proc \ {StressB, StressC} : c \notin held[p]
  <2>1. c \in Range(Inbox[StressC]) \/ c \in Range(Inbox[StressB]) \/ c \in Range(Handed(StressB))
        \/ c \in Range(Handed(StressC)) \/ c \in Range(local)
    <3>1. /\ Handed(StressB) \in Seq(MemBlock) /\ Inbox[StressB] \in Seq(MemBlock)
          /\ Handed(StressC) \in Seq(MemBlock) /\ local \in Seq(MemBlock)
      BY HandedIs, RouteType
    <3>2. Range(Coming(StressB)) = Range(Handed(StressB)) \cup Range(Inbox[StressB])
      BY <3>1, RangeConcat DEF Coming
    <3>3. Range(WithThird) = Range(Handed(StressC)) \cup Range(local)
      BY <3>1, RangeConcat DEF WithThird
    <3>. QED BY <3>2, <3>3, RouteType
  <2>2. \A p \in {StressB, StressC} : c \in Range(Handed(p)) => c \in held[p]
    BY HandedIs, RangeOne
  <2>3. c \in Range(local) => c \in held[StressC]
    BY DEF StressOK, CTidy
  <2>. QED BY <1>0, <1>1, <2>1, <2>2, <2>3, WaitingIs
<1>. QED BY <1>0, <1>1, HeldProperties DEF RtxIInv

\* Nothing that is on its way is written, or what is written has no number.
LEMMA StreamStays ==
  ASSUME RtxIInv, StressOK, Route' = Route,
         \A c \in Range(Route) :
            /\ content'[c].type = COUNT_REPORT <=> content[c].type = COUNT_REPORT
            /\ content'[c].type = COUNT_REPORT => number'[c] = number[c]
  PROVE  Stream' = Stream
<1>. DEFINE s == Route
<1>1. s \in Seq(MemBlock)
  BY RouteType
<1>2. Stream' = Numbers(s, content', number')
  BY DEF Stream
<1>3. \A i \in DOMAIN s :
         /\ content[s[i]].type = COUNT_REPORT <=> content'[s[i]].type = COUNT_REPORT
         /\ content'[s[i]].type = COUNT_REPORT => number'[s[i]] = number[s[i]]
  BY DEF Range
<1>. HIDE DEF s
<1>4. Numbers(s, content', number') = Numbers(s, content, number)
  BY ONLY <1>1, <1>3, NumbersSame
<1>. QED BY <1>2, <1>4 DEF Stream, s

\* The parts of the way that a step of somebody else leaves alone.
LEMMA RouteRests ==
  ASSUME Inbox'[StressB] = Inbox[StressB], Inbox'[StressC] = Inbox[StressC], local' = local,
         \A q \in {StressB, StressC} : /\ msg'[q] = msg[q] 
                                       /\ pc'[q] = "got" <=> pc[q] = "got"
  PROVE  Route' = Route
<1>1. Handed(StressC)' = Handed(StressC) /\ Handed(StressB)' = Handed(StressB)
  BY DEF Handed
<1>2. WithThird' = WithThird
  BY <1>1 DEF WithThird
<1>3. Coming(StressB)' = Coming(StressB)
  BY <1>1 DEF Coming
<1>. QED BY <1>2, <1>3 DEF Route

LEMMA OthersLeave ==
  ASSUME RtxIInv, StressOK, NEW p \in Proc \ {StressB, StressC}, OthersStay(p),
         AllMove(p) \/ Takes, UNCHANGED <<number, local>>,
         Inbox'[StressB] = Inbox[StressB], Inbox'[StressC] = Inbox[StressC]
  PROVE  Stream' = Stream
<1>1. Route' = Route
  BY BothAreProc, RouteRests DEF OthersStay
<1>2. \A c \in Range(Route) : content'[c].type = content[c].type
  BY RouteWhere DEF AllMove, Moves, Writes, Takes, Same
<1>. QED BY <1>1, <1>2, StreamStays

\* The console's processes send nothing to stress_b and stress_c.
LEMMA ConsoleInbox ==
  ASSUME RtxIInv, Known, ConsoleStep, NEW q \in {StressB, StressC}
  PROVE  Inbox'[q] = Inbox[q]
<1>0. q \notin Client /\ q \notin {Kcd, Crt, Uart, Prio, StressA} /\ q \in Proc
  BY WorkersDiffer, ClientsDiffer, StressedDiffer DEF Client, Keepers
<1>1. ASSUME NEW p, NEW b, NEW x, Send(p, b, x), x # q
      PROVE  Inbox'[q] = Inbox[q]
  BY <1>0, <1>1, SendsInbox
<1>2. ASSUME NEW p, NEW b, Free(p, b)
      PROVE  Inbox'[q] = Inbox[q]
  BY <1>2, FreesInbox
<1>3. UNCHANGED <<mailbox, rx>> => Inbox'[q] = Inbox[q]
  BY InboxRests DEF RtxIInv
<1>4. CASE \/ Boot /\ UNCHANGED <<localVars, userVars, historyVars>>
           \/ TypesInVain \/ UNCHANGED consoleVars
  BY <1>3, <1>4 DEF Boot, dataVars, mailVars, TypesInVain, rtxVars, consoleVars
<1>5. CASE Types
  <2>1. InboxGets(Head(available), Kcd)
    BY <1>5, InboxOfSerial DEF Types, RtxIInv
  <2>. QED BY <1>0, <2>1 DEF InboxGets
<1>6. ASSUME NEW p \in Client, ClientStep(p) PROVE Inbox'[q] = Inbox[q]
  <2>1. CASE Gets(p)
    <3>1. InboxGives(p)
      BY <1>0, <2>1, InboxOfReceive, ClientsAreProc DEF Gets, RtxIInv
    <3>. QED BY <1>0, <1>6, <3>1 DEF InboxGives
  <2>2. CASE Waits(p) \/ Obtains(p)
    <3>1. UNCHANGED <<mailbox, rx>>
      BY <2>2 DEF Waits, Obtains, Request, RequestFindsNone, RequestBlocks, ReleaseUnblocks, SendUnblocks,
                  ReceiveFindsNone, ReceiveBlocks, dataVars, mailVars
    <3>. QED BY <1>3, <3>1
  <2>. QED BY <1>6, <2>1, <2>2 DEF ClientStep
<1>7. CASE Decoder
  <2>1. CASE KcdStarts
    BY <1>3, <2>1 DEF KcdStarts, rtxVars, dataVars, mailVars
  <2>2. CASE KcdRegisters \/ KcdClears
    BY <1>2, <2>2 DEF KcdRegisters, KcdClears
  <2>3. CASE KcdSendsClear \/ KcdEchoes
    BY <1>0, <1>1, <2>3 DEF KcdSendsClear, KcdEchoes, Mail
  <2>4. CASE KcdSendsCommand
    <3>1. PICK i \in DOMAIN cmds : Send(Kcd, new[Kcd], cmds[i].pid)
      BY <2>4 DEF KcdSendsCommand, Mail, Match
    <3>2. cmds[i].pid # q
      BY <1>0 DEF Known
    <3>. QED BY <1>1, <3>1, <3>2
  <2>. QED BY <1>7, <2>1, <2>2, <2>3, <2>4 DEF Decoder
<1>8. CASE Output
  <2>1. CASE CrtLoops \/ UartWrites
    BY <1>3, <2>1 DEF CrtLoops, UartWrites, rtxVars, dataVars, mailVars
  <2>2. CASE CrtReleases \/ UartTakes
    BY <1>2, <2>2 DEF CrtReleases, UartTakes
  <2>3. CASE CrtSends
    BY <1>0, <1>1, <2>3 DEF CrtSends, Mail
  <2>. QED BY <1>8, <2>1, <2>2, <2>3 DEF Output
<1>9. CASE Command
  <2>1. CASE PrioSets
    BY <1>3, <2>1 DEF PrioSets, ChangePriority, rtxVars, dataVars, mailVars
  <2>2. CASE PrioRegisters
    BY <1>0, <1>1, <2>2 DEF PrioRegisters, Register
  <2>3. CASE PrioComplains \/ PrioReplies
    BY <1>0, <1>1, <2>3 DEF PrioComplains, PrioReplies, Mail
  <2>. QED BY <1>9, <2>1, <2>2, <2>3 DEF Command
<1>. QED BY <1>4, <1>5, <1>6, <1>7, <1>8, <1>9 DEF ConsoleStep, ConsoleNext, Processor

LEMMA ConsoleOrder ==
  ASSUME RtxIInv, StressOK, ConsoleStep
  PROVE  Stream' = Stream
<1>0. /\ Client \subseteq Keepers /\ Kcd \in Client
      /\ Client \subseteq Proc \ {StressB, StressC}
  BY WorkersDiffer, ClientsAreProc, StressedAreProc DEF Keepers, Client
<1>1. PICK p \in Client : /\ OthersStay(p) /\ (Takes \/ WorkerActs(p)) /\ UNCHANGED stressLocal
  BY <1>0, HeldForWork, ConsoleStepActs DEF StressOK
<1>2. Inbox'[StressB] = Inbox[StressB] /\ Inbox'[StressC] = Inbox[StressC]
  BY ConsoleInbox DEF StressOK
<1>3. UNCHANGED <<number, local>>
  BY <1>1 DEF stressLocal
<1>. QED BY <1>0, <1>1, <1>2, <1>3, OthersLeave DEF WorkerActs

\* A sequence that is passed on at the front goes on at the end.
LEMMA PassedOn ==
  ASSUME NEW T, NEW s \in Seq(T), NEW t \in Seq(T), NEW u \in Seq(T), NEW b \in T,
         t = <<b>> \o u
  PROVE  Append(s, b) \o u = s \o t
<1>. DEFINE one == <<b>>
<1>1. one \in Seq(T) /\ Append(s, b) = s \o one
  BY AppendIsConcat
<1>. HIDE DEF one
<1>2. (s \o one) \o u = s \o (one \o u)
  BY <1>1, ConcatAssociative
<1>. QED BY <1>1, <1>2 DEF one

\* A message that stress_c receives goes from its mailbox into its hands.
LEMMA RouteGets ==
  ASSUME RtxIInv, StressOK, NEW b \in MemBlock, NEW i \in Seq(MemBlock),
         Inbox'[StressC] = i, Inbox[StressC] = <<b>> \o i,
         WithThird' = Append(WithThird, b), Coming(StressB)' = Coming(StressB)
  PROVE  Route' = Route
<1>. DEFINE k == WithThird
            t == Inbox[StressC]
<1>1. k \in Seq(MemBlock) /\ t \in Seq(MemBlock) /\ t = <<b>> \o i
  BY RouteType
<1>2. Route' = (Append(k, b) \o i) \o Coming(StressB) /\ Route = (k \o t) \o Coming(StressB)
  BY DEF Route
<1>. HIDE DEF k, t
<1>3. Append(k, b) \o i = k \o t
  BY ONLY <1>1, PassedOn
<1>. QED BY <1>2, <1>3

LEMMA InboxWaits ==
  ASSUME RtxIInv, NEW p, Waits(p) \/ Obtains(p)
  PROVE  Inbox' = Inbox
<1>1. UNCHANGED <<mailbox, rx>>
  BY DEF Waits, Obtains, Request, RequestFindsNone, RequestBlocks, ReleaseUnblocks, SendUnblocks,
         ReceiveFindsNone, ReceiveBlocks, dataVars, mailVars
<1>. QED BY <1>1, InboxRests DEF RtxIInv

\* The message that a program receives is the first in its mailbox.
LEMMA GetsNext ==
  ASSUME RtxIInv, Pointers, NEW p \in Proc, Gets(p)
  PROVE  \E b \in MemBlock :
            /\ msg'[p] = b /\ pc[p] = "receive" /\ pc'[p] = "got"
            /\ Inbox[p] = <<b>> \o Inbox'[p]
            /\ \A q \in Proc \ {p} : Inbox'[q] = Inbox[q]
<1>1. PICK b \in MemBlock :
         /\ \A q \in Proc : b \notin held[q]
         /\ held' = [held EXCEPT ![p] = @ \cup {b}]
         /\ msg' = [msg EXCEPT ![p] = b]
         /\ pc[p] = "receive" /\ pc' = [pc EXCEPT ![p] = "got"]
  BY GetsHolds
<1>2. PICK c \in MemBlock :
         /\ held' = [held EXCEPT ![p] = @ \cup {c}]
         /\ Inbox[p] = <<c>> \o Inbox'[p]
         /\ \A q \in Proc \ {p} : Inbox'[q] = Inbox[q]
  BY InboxOfReceive DEF Gets, RtxIInv, InboxGives
<1>3. held[p] \cup {b} = held[p] \cup {c}
  BY <1>1, <1>2 DEF RtxIInv, Accounts, DataTypeOK
<1>4. b = c
  BY <1>1, <1>3
<1>. QED BY <1>1, <1>2, <1>4 DEF Pointers

LEMMA FirstGets ==
  ASSUME RtxIInv, StressOK, ClientStep(StressA), UNCHANGED stressLocal
  PROVE  Stream' = Stream
<1>0. StressA \in Proc \ {StressB, StressC} /\ StressB \in Proc \ {StressA}
      /\ StressC \in Proc \ {StressA} /\ StressA \in Workers
  BY BothAreProc
<1>1. OthersStay(StressA) /\ UNCHANGED <<number, local, hibernate>>
  BY <1>0, ClientTidies DEF StressOK, stressLocal
<1>2. Takes
  BY <1>0, <1>1, ClientTakes, HeldForWork DEF StressOK
<1>3. Inbox'[StressB] = Inbox[StressB] /\ Inbox'[StressC] = Inbox[StressC]
  BY <1>0, InboxWaits, GetsNext DEF ClientStep, StressOK
<1>. QED BY <1>0, <1>1, <1>2, <1>3, OthersLeave

\* The others keep to the order when they wait, receive a message or get a block.
LEMMA OwnGets ==
  ASSUME RtxIInv, RtxIInv', StressOK, NEW p \in {StressB, StressC}, ClientStep(p),
         UNCHANGED stressLocal, pc[StressC] = "receive" => local = <<>>
  PROVE  Stream' = Stream
<1>0. /\ StressB \in Proc /\ StressC \in Proc /\ p \in Proc /\ p \in Workers /\ StressB # StressC
      /\ Pointers
  BY BothAreProc, WorkersDiffer DEF StressOK
<1>1. OthersStay(p) /\ UNCHANGED <<number, local, hibernate>>
  BY <1>0, ClientTidies DEF StressOK, stressLocal
<1>2. Takes
  BY <1>0, <1>1, ClientTakes, HeldForWork DEF StressOK
<1>3. \A c \in Range(Route) : content'[c].type = content[c].type /\ number'[c] = number[c]
  BY <1>1, <1>2, RouteWhere DEF Takes
<1>4. SUFFICES Route' = Route
  BY <1>3, StreamStays
<1>5. CASE Waits(p) \/ Obtains(p)
  <2>1. Inbox' = Inbox
    BY <1>5, InboxWaits
  <2>2. msg' = msg /\ (pc'[p] = "got" <=> pc[p] = "got")
    BY <1>0, <1>5 DEF Waits, Obtains, GoOn, localVars, Pointers
  <2>3. \A q \in {StressB, StressC} : pc'[q] = "got" <=> pc[q] = "got"
    BY <1>0, <1>1, <2>2 DEF OthersStay
  <2>. QED BY <1>1, <2>1, <2>2, <2>3, RouteRests
<1>6. CASE Gets(p)
  <2>1. PICK b \in MemBlock :
            /\ msg'[p] = b /\ pc[p] = "receive" /\ pc'[p] = "got"
            /\ Inbox[p] = <<b>> \o Inbox'[p]
            /\ \A q \in Proc \ {p} : Inbox'[q] = Inbox[q]
    BY <1>0, <1>6, GetsNext
  <2>2. CASE p = StressB
    <3>1. Coming(StressB)' = <<b>> \o Inbox'[StressB]
      BY <2>1, <2>2 DEF Coming, Handed
    <3>2. Coming(StressB) = Inbox[StressB]
      BY <2>1, <2>2, HandedIs
    <3>3. Handed(StressC)' = Handed(StressC)
      BY <1>0, <1>1, <2>2 DEF Handed, OthersStay
    <3>4. Inbox'[StressC] = Inbox[StressC]
      BY <1>0, <2>1, <2>2
    <3>5. WithThird' = WithThird
      BY <1>1, <3>3 DEF WithThird
    <3>6. Coming(StressB)' = Coming(StressB)
      BY <2>1, <2>2, <3>1, <3>2
    <3>. QED BY <3>4, <3>5, <3>6 DEF Route
  <2>3. CASE p = StressC
    <3>1. local = <<>> /\ local' = <<>>
      BY <1>1, <2>1, <2>3
    <3>2. Handed(StressC) = <<>> /\ Handed(StressC)' = <<b>>
      BY <2>1, <2>3 DEF Handed
    <3>3. WithThird = <<>> \o <<>> /\ WithThird' = <<b>> \o <<>>
      BY <3>1, <3>2 DEF WithThird
    <3>4. WithThird' = Append(WithThird, b)
      BY <3>3
    <3>5. Inbox'[StressC] \in Seq(MemBlock)
      BY <1>0, InboxNext
    <3>6. Coming(StressB)' = Coming(StressB)
      BY <1>0, <1>1, <2>1, <2>3, ComingStays DEF OthersStay
    <3>. QED BY <2>1, <2>3, <3>4, <3>5, <3>6, RouteGets
  <2>. QED BY <2>2, <2>3
<1>. QED BY <1>5, <1>6 DEF ClientStep

\* stress_a's other steps concern nobody on the way; counting puts its number behind
\* all the others.
LEMMA FirstRests ==
  ASSUME RtxIInv, StressOK, ARegisters \/ AStarts \/ AYields
  PROVE  Stream' = Stream
<1>0. StressA \in Proc \ {StressB, StressC} /\ StressB \in Proc /\ StressC \in Proc
      /\ StressB # Kcd /\ StressC # Kcd
  BY BothAreProc
<1>1. AllMove(StressA) /\ OthersStay(StressA) /\ UNCHANGED local
  BY FirstActs DEF StressOK, WorkerActs, AActs
<1>2. number' = number
  BY DEF ARegisters, AStarts, AYields, stressLocal
<1>3. Inbox'[StressB] = Inbox[StressB] /\ Inbox'[StressC] = Inbox[StressC]
  <2>1. CASE ARegisters
    BY <1>0, <2>1, SendsInbox DEF ARegisters, Register
  <2>2. CASE AStarts
    BY <2>2, FreesInbox DEF AStarts
  <2>3. CASE AYields
    <3>1. UNCHANGED <<mailbox, rx>>
      BY <2>3 DEF AYields, Yield, dataVars, mailVars
    <3>. QED BY <3>1, InboxRests DEF RtxIInv
  <2>. QED BY <2>1, <2>2, <2>3
<1>. QED BY <1>0, <1>1, <1>2, <1>3, OthersLeave

LEMMA FirstCounts ==
  ASSUME RtxIInv, StressOK, ACounts, number \in [MemBlock -> Nat], num \in Nat
  PROVE  Stream' = Append(Stream, num) /\ number' \in [MemBlock -> Nat]
<1>0. StressA \in Proc \ {StressB, StressC} /\ StressB \in Proc \ {StressA} /\ StressC \in Proc \ {StressA}
      /\ StressB # StressC
  BY BothAreProc
<1>. DEFINE b == new[StressA]
<1>1. /\ Send(StressA, b, StressB)
      /\ content' = [content EXCEPT ![b].type = COUNT_REPORT, ![b].tx = StressA]
      /\ number' = [number EXCEPT ![b] = num] /\ local' = local
  BY DEF ACounts
<1>2. OthersStay(StressA)
  BY FirstActs DEF StressOK, WorkerActs, AActs
<1>. HIDE DEF b
<1>3. b \in MemBlock /\ b \in held[StressA]
  BY <1>1, SendCalls
<1>4. number' \in [MemBlock -> Nat] /\ number'[b] = num
      /\ \A c \in MemBlock \ {b} : number'[c] = number[c]
  BY <1>1, <1>3
<1>5. content'[b].type = COUNT_REPORT /\ \A c \in MemBlock \ {b} : content'[c].type = content[c].type
  <2>1. Tagged(b, COUNT_REPORT, StressA)
    BY <1>1, <1>3, TypeTags DEF StressOK
  <2>. QED BY <2>1 DEF Tagged
<1>6. Inbox'[StressC] = Inbox[StressC] /\ Inbox'[StressB] = Append(Inbox[StressB], b)
  BY <1>0, <1>1, SendsInbox DEF InboxGets
<1>. DEFINE h == Handed(StressB)
            s == Inbox[StressB]
            k == WithThird \o Inbox[StressC]
            w == Coming(StressB)
<1>7. h \in Seq(MemBlock) /\ s \in Seq(MemBlock) /\ w \in Seq(MemBlock) /\ w = h \o s
  BY HandedIs DEF Coming
<1>8. k \in Seq(MemBlock)
  BY RouteType, ConcatProperties
<1>9. WithThird' = WithThird /\ Handed(StressB)' = h
  BY <1>0, <1>1, <1>2 DEF WithThird, Handed, OthersStay
<1>10. Coming(StressB)' = h \o Append(s, b)
  BY <1>6, <1>9 DEF Coming
<1>11. Route' = k \o (h \o Append(s, b)) /\ Route = k \o w
  BY <1>6, <1>9, <1>10 DEF Route
<1>. HIDE DEF h, s, k, w
<1>12. h \o Append(s, b) = Append(w, b)
  BY <1>3, <1>7, ConcatAppend
<1>13. k \o Append(w, b) = Append(k \o w, b)
  BY <1>3, <1>7, <1>8, ConcatAppend
<1>. DEFINE r == Route
            one == <<b>>
<1>14. r \in Seq(MemBlock) /\ one \in Seq(MemBlock)
  BY <1>3, RouteType
<1>15. Append(r, b) = r \o one
  <2>. HIDE DEF r
  <2>. QED BY <1>3, <1>14, AppendIsConcat
<1>16. Route' = r \o one
  BY <1>11, <1>12, <1>13, <1>15
<1>17. Stream' = Numbers(r \o one, content', number')
  BY <1>16 DEF Stream
<1>18. \A i \in DOMAIN r :
          /\ content[r[i]].type = COUNT_REPORT <=> content'[r[i]].type = COUNT_REPORT
          /\ content'[r[i]].type = COUNT_REPORT => number'[r[i]] = number[r[i]]
  <2>1. \A c \in Range(Route) : c \in MemBlock \ {b}
    BY <1>0, <1>3, RouteWhere
  <2>. QED BY <1>4, <1>5, <2>1 DEF Range
<1>19. Numbers(one, content', number') = <<num>>
  BY <1>3, <1>4, <1>5, NumbersOne
<1>20. Stream = Numbers(r, content, number)
  BY DEF Stream
<1>21. Numbers(r, content, number) \in Seq(Nat)
  BY <1>14, NumbersType
<1>. HIDE DEF r, one
<1>22. Numbers(r, content', number') = Numbers(r, content, number)
  BY ONLY <1>14, <1>18, NumbersSame
<1>23. Numbers(r \o one, content', number')
          = Numbers(r, content', number') \o Numbers(one, content', number')
  BY ONLY <1>14, NumbersConcat
<1>24. Append(Numbers(r, content, number), num) = Numbers(r, content, number) \o <<num>>
  BY <1>21, AppendIsConcat
<1>. QED BY <1>4, <1>17, <1>19, <1>20, <1>22, <1>23, <1>24

\* stress_b passes its message on; it is then behind those that wait for stress_c.
LEMMA SecondOrder ==
  ASSUME RtxIInv, StressOK, BForwards
  PROVE  Stream' = Stream
<1>0. StressB \in Proc /\ StressC \in Proc /\ StressB # StressC
  BY BothAreProc
<1>1. OthersStay(StressB) /\ UNCHANGED <<number, local>> /\ pc'[StressB] = "receive"
  BY SecondActs DEF StressOK, WorkerActs, stressLocal
<1>. DEFINE b == msg[StressB]
<1>2. Mail(StressB, b, StressC, <<>>) /\ pc[StressB] = "got"
  BY DEF BForwards
<1>3. PICK t : /\ Send(StressB, b, StressC) /\ b \in MemBlock
               /\ content' = [content EXCEPT ![b].text = t, ![b].tx = StressB]
  BY <1>2, MailText DEF StressOK
<1>. HIDE DEF b
<1>4. \A c \in MemBlock : content'[c].type = content[c].type
  <2>1. Tagged(b, content[b].type, StressB)
    BY <1>3, TextTags DEF StressOK
  <2>. QED BY <2>1 DEF Tagged
<1>5. Inbox'[StressB] = Inbox[StressB] /\ Inbox'[StressC] = Append(Inbox[StressC], b)
  BY <1>0, <1>3, SendsInbox DEF InboxGets
<1>. DEFINE k == WithThird
            i == Inbox[StressC]
            s == Inbox[StressB]
            w == Coming(StressB)
<1>6. /\ k \in Seq(MemBlock) /\ i \in Seq(MemBlock) /\ s \in Seq(MemBlock) /\ w = <<b>> \o s
      /\ w \in Seq(MemBlock)
  BY <1>2, HandedIs, RouteType DEF b
<1>7. Coming(StressB)' = <<>> \o s
  BY <1>1, <1>5 DEF Coming, Handed
<1>8. WithThird' = k
  BY <1>0, <1>1 DEF WithThird, Handed, OthersStay
<1>9. Route' = (k \o Append(i, b)) \o (<<>> \o s) /\ Route = (k \o i) \o w
  BY <1>5, <1>7, <1>8 DEF Route
<1>. HIDE DEF k, i, s, w
<1>10. <<>> \o s = s
  BY <1>6, ConcatEmptySeq
<1>11. k \o Append(i, b) = Append(k \o i, b)
  BY <1>3, <1>6, ConcatAppend
<1>. DEFINE ki == k \o i
<1>12. ki \in Seq(MemBlock)
  BY <1>6, ConcatProperties
<1>. HIDE DEF ki
<1>13. Append(ki, b) \o s = ki \o w
  BY ONLY <1>3, <1>6, <1>12, PassedOn
<1>14. Route' = Route
  BY <1>9, <1>10, <1>11, <1>13 DEF ki
<1>15. \A c \in Range(Route) : content'[c].type = content[c].type /\ number'[c] = number[c]
  BY <1>1, <1>4, RouteWhere
<1>. QED BY <1>14, <1>15, StreamStays

\* A message without a number, put behind others or taken from them, is not seen.
LEMMA NumbersSkip ==
  ASSUME NEW s \in Seq(MemBlock), NEW b \in MemBlock, NEW c, NEW n \in [MemBlock -> Nat],
         c[b].type # COUNT_REPORT
  PROVE  /\ Numbers(Append(s, b), c, n) = Numbers(s, c, n)
         /\ Numbers(<<b>> \o s, c, n) = Numbers(s, c, n)
<1>. DEFINE one == <<b>>
<1>1. one \in Seq(MemBlock) /\ Append(s, b) = s \o one
  BY AppendIsConcat
<1>2. Numbers(one, c, n) = <<>>
  BY NumbersOne
<1>3. Numbers(s, c, n) \in Seq(Nat)
  BY NumbersType
<1>. HIDE DEF one
<1>4. /\ Numbers(s \o one, c, n) = Numbers(s, c, n) \o Numbers(one, c, n)
      /\ Numbers(one \o s, c, n) = Numbers(one, c, n) \o Numbers(s, c, n)
  BY ONLY <1>1, NumbersConcat
<1>. DEFINE v == Numbers(s, c, n)
<1>5. v \in Seq(Nat)
  BY <1>3
<1>. HIDE DEF v
<1>6. v \o <<>> = v /\ <<>> \o v = v
  BY <1>5, ConcatEmptySeq
<1>. QED BY <1>1, <1>2, <1>4, <1>6 DEF v, one

\* A message without a number at the end of a part keeps the part's numbers.
LEMMA SkipBehind ==
  ASSUME NEW s \in Seq(MemBlock), NEW b \in MemBlock, NEW c, NEW n \in [MemBlock -> Nat],
         c[b].type # COUNT_REPORT
  PROVE  Append(s, b) \in Seq(MemBlock) /\ Numbers(Append(s, b), c, n) = Numbers(s, c, n)
BY NumbersSkip, AppendProperties

\* Parts with the same numbers make ways with the same numbers.
LEMMA NumbersOfEqual ==
  \A s, t, x, y, c, n :
     /\ s \in Seq(MemBlock) /\ t \in Seq(MemBlock) /\ x \in Seq(MemBlock) /\ y \in Seq(MemBlock)
     /\ Numbers(s, c, n) = Numbers(t, c, n) /\ Numbers(x, c, n) = Numbers(y, c, n)
     => Numbers(s \o x, c, n) = Numbers(t \o y, c, n)
<1>1. TAKE s, t, x, y, c, n
<1>2. ASSUME s \in Seq(MemBlock), x \in Seq(MemBlock)
      PROVE  Numbers(s \o x, c, n) = Numbers(s, c, n) \o Numbers(x, c, n)
  BY ONLY <1>2, NumbersConcat
<1>3. ASSUME t \in Seq(MemBlock), y \in Seq(MemBlock)
      PROVE  Numbers(t \o y, c, n) = Numbers(t, c, n) \o Numbers(y, c, n)
  BY ONLY <1>3, NumbersConcat
<1>. QED BY ONLY <1>2, <1>3

LEMMA NumbersOfSame ==
  ASSUME NEW k \in Seq(MemBlock), NEW i \in Seq(MemBlock), NEW w \in Seq(MemBlock),
         NEW j \in Seq(MemBlock), NEW x \in Seq(MemBlock), NEW c, NEW n,
         Numbers(j, c, n) = Numbers(i, c, n), Numbers(x, c, n) = Numbers(w, c, n)
  PROVE  Numbers((k \o j) \o x, c, n) = Numbers((k \o i) \o w, c, n)
<1>. DEFINE ki == k \o i
            kj == k \o j
<1>1. ki \in Seq(MemBlock) /\ kj \in Seq(MemBlock)
  BY ConcatProperties
<1>2. Numbers(kj, c, n) = Numbers(ki, c, n)
  BY NumbersOfEqual
<1>. HIDE DEF ki, kj
<1>3. Numbers(kj \o x, c, n) = Numbers(ki \o w, c, n)
  BY <1>1, <1>2, NumbersOfEqual
<1>. QED BY <1>3 DEF ki, kj

\* The steps of stress_c that touch neither mailbox nor queue.
LEMMA ThirdStays ==
  ASSUME RtxIInv, StressOK, OthersStay(StressC), msg' = msg, local' = local, number' = number,
         pc[StressC] # "got", pc'[StressC] # "got",
         Inbox'[StressB] = Inbox[StressB], Inbox'[StressC] = Inbox[StressC],
         \A c \in Range(Route) : content'[c].type = COUNT_REPORT <=> content[c].type = COUNT_REPORT
  PROVE  Stream' = Stream
<1>1. Route' = Route
  BY BothAreProc, RouteRests DEF OthersStay
<1>. QED BY <1>1, StreamStays

\* What holds of every step of stress_c's.
LEMMA ThirdKeeps ==
  ASSUME RtxIInv, StressOK, CActs
  PROVE  OthersStay(StressC) /\ pc' \in [Proc -> Stages]
BY HeldForWork, DequeueKeeps, TakeKeeps, AnnounceKeeps, SleepKeeps, SleepOnKeeps, GetKeeps,
   ReleaseKeeps, YieldKeeps DEF CActs, CKeeps, CHolds, Pointers, StressOK

LEMMA ThirdDequeues ==
  ASSUME RtxIInv, StressOK, CDequeues
  PROVE  Stream' = Stream
<1>0. StressB \in Proc \ {StressC} /\ StressC \in Proc /\ Pointers
  BY BothAreProc DEF StressOK
<1>1. /\ pc[StressC] = "dequeue" /\ pc'[StressC] = "got" /\ msg'[StressC] = Head(local)
      /\ local' = Tail(local) /\ UNCHANGED <<rtxVars, content, number>>
  BY <1>0 DEF CDequeues, GoOn, Pointers
<1>2. OthersStay(StressC)
  BY ThirdKeeps DEF CActs
<1>3. local \in Seq(MemBlock) /\ local # <<>>
  BY <1>1 DEF StressOK, CTidy
<1>4. WithThird' = <<Head(local)>> \o Tail(local) /\ WithThird = <<>> \o local
  BY <1>1 DEF WithThird, Handed
<1>5. WithThird' = WithThird
  <2>1. <<>> \o local = local
    BY <1>3, ConcatEmptySeq
  <2>2. <<Head(local)>> \o Tail(local) = local
    BY <1>3
  <2>. QED BY <1>4, <2>1, <2>2
<1>6. Inbox' = Inbox
  BY <1>1, QuietInbox
<1>7. Coming(StressB)' = Coming(StressB)
  BY <1>0, <1>2, <1>6, ComingStays DEF OthersStay
<1>8. Route' = Route
  BY <1>5, <1>6, <1>7 DEF Route
<1>. QED BY <1>1, <1>8, StreamStays

LEMMA ThirdRests ==
  ASSUME RtxIInv, StressOK, CAnnounces \/ CSleeps \/ CSleepsOn \/ CReleases \/ CYields
  PROVE  Stream' = Stream /\ UNCHANGED <<num, number, local, seen>>
<1>0. StressB \in Proc \ {StressC} /\ StressC \in Proc /\ Pointers /\ pc \in [Proc -> Stages]
      /\ StressC # Crt /\ StressB # Crt
  BY BothAreProc, ThirdIsProc DEF StressOK, Pointers
<1>1. OthersStay(StressC) /\ UNCHANGED <<num, number, local, seen, msg>>
  BY ThirdKeeps DEF CActs, CAnnounces, CSleeps, CSleepsOn, CReleases, CYields, stressLocal, localVars
<1>2. SUFFICES /\ pc[StressC] # "got" /\ pc'[StressC] # "got"
               /\ Inbox'[StressB] = Inbox[StressB] /\ Inbox'[StressC] = Inbox[StressC]
               /\ \A c \in MemBlock :
                     content'[c].type = COUNT_REPORT <=> content[c].type = COUNT_REPORT
  BY <1>1, RouteWhere, ThirdStays
<1>3. CASE CAnnounces
  <2>1. pc[StressC] = "fill" /\ pc' = [pc EXCEPT ![StressC] = "request2"]
        /\ Mail(StressC, new[StressC], Crt, Announcement)
    BY <1>3 DEF CAnnounces, GoOn
  <2>2. PICK t : /\ Send(StressC, new[StressC], Crt) /\ new[StressC] \in MemBlock
                 /\ content' = [content EXCEPT ![new[StressC]].text = t, ![new[StressC]].tx = StressC]
    BY <2>1, MailText DEF StressOK
  <2>3. Tagged(new[StressC], content[new[StressC]].type, StressC)
    BY <2>2, TextTags DEF StressOK
  <2>4. Inbox'[StressB] = Inbox[StressB] /\ Inbox'[StressC] = Inbox[StressC]
    BY <1>0, <2>2, SendsInbox
  <2>. QED BY <1>0, <2>1, <2>3, <2>4 DEF Tagged
<1>4. CASE CSleeps
  <2>. DEFINE b == new[StressC]
  <2>1. /\ pc[StressC] = "fill2" /\ pc' = [pc EXCEPT ![StressC] = "sleep"]
        /\ DelayedSend(StressC, b, StressC, Sleep) /\ Sleep \in Nat
        /\ content' = [content EXCEPT ![b].type = WAKEUP10, ![b].tx = StressC]
    BY <1>4, StressAssumption DEF CSleeps, GoOn
  <2>2. b \in MemBlock /\ b \in held[StressC]
    BY <2>1, DelayedSendCalls
  <2>3. content[b].type = PLAIN
    BY <1>0, <2>1, ThirdIsProc DEF StressOK, Tags
  <2>4. Tagged(b, WAKEUP10, StressC)
    BY <2>1, <2>2, TypeTags DEF StressOK
  <2>5. mailbox' = mailbox /\ rx' = [rx EXCEPT ![b] = StressC] /\ ~InBox(mailbox, b)
    BY <1>0, <2>1, <2>2, HeldProperties DEF DelayedSend, Address, RtxIInv
  <2>. HIDE DEF b
  <2>6. Inbox' = Inbox
    BY <2>2, <2>5, InboxSame DEF RtxIInv, Accounts, DataTypeOK
  <2>. QED BY <1>0, <2>1, <2>3, <2>4, <2>6, TypesDiffer DEF Tagged
<1>5. CASE CSleepsOn
  <2>1. UNCHANGED <<mailbox, rx, content, pc>> /\ pc[StressC] = "sleep"
    BY <1>5 DEF CSleepsOn, ReceiveFindsNone, ReceiveBlocks, localVars, dataVars, mailVars
  <2>2. Inbox' = Inbox
    BY <2>1, InboxRests DEF RtxIInv
  <2>. QED BY <2>1, <2>2
<1>6. CASE CYields
  <2>1. UNCHANGED <<mailbox, rx, content>> /\ pc[StressC] = "yield"
        /\ \E point \in {"receive", "dequeue"} : pc' = [pc EXCEPT ![StressC] = point]
    BY <1>6 DEF CYields, Yield, dataVars, mailVars, GoOn
  <2>2. Inbox' = Inbox
    BY <2>1, InboxRests DEF RtxIInv
  <2>. QED BY <1>0, <2>1, <2>2
<1>7. CASE CReleases
  <2>1. pc[StressC] = "stale" /\ pc' = [pc EXCEPT ![StressC] = "yield"]
    BY <1>7 DEF CReleases, GoOn
  <2>2. CASE MayRelease(StressC, hibernate)
    <3>1. Free(StressC, hibernate) /\ hibernate \in held[StressC]
      BY <1>7, <2>2 DEF CReleases
    <3>2. hibernate \in MemBlock /\ Tagged(hibernate, PLAIN, NullProc)
      BY <3>1, FreeMoves DEF StressOK
    <3>3. IsWake(hibernate)
      <4>1. hibernate \notin Range(local) /\ Named(StressC) = {}
        BY <1>0, <2>1 DEF StressOK, CTidy, Named
      <4>. QED BY <3>1, <4>1 DEF StressOK, CTidy, Woken
    <3>4. Inbox' = Inbox
      BY <3>1, FreesInbox
    <3>. QED BY <1>0, <2>1, <3>2, <3>3, <3>4, TypesDiffer DEF Tagged, IsWake
  <2>3. CASE ~MayRelease(StressC, hibernate)
    <3>1. UNCHANGED <<rtxVars, content>>
      BY <1>7, <2>3 DEF CReleases
    <3>. QED BY <1>0, <2>1, <3>1, QuietInbox
  <2>. QED BY <2>2, <2>3
<1>. QED BY <1>3, <1>4, <1>5, <1>6, <1>7

\* stress_c takes the message in its hands: a number, if it has one, is the first.
LEMMA ThirdTakes ==
  ASSUME RtxIInv, StressOK, CTakes, number \in [MemBlock -> Nat]
  PROVE  /\ number' \in [MemBlock -> Nat] /\ Stream' \in Seq(Nat)
         /\ content[msg[StressC]].type = COUNT_REPORT =>
               Stream = <<number[msg[StressC]]>> \o Stream'
         /\ content[msg[StressC]].type # COUNT_REPORT => Stream = Stream'
<1>0. StressB \in Proc \ {StressC} /\ StressC \in Proc /\ Pointers /\ pc \in [Proc -> Stages]
      /\ StressC # Crt
  BY BothAreProc, ThirdIsProc DEF StressOK, Pointers
<1>. DEFINE m == msg[StressC]
<1>1. /\ pc[StressC] = "got" /\ Free(StressC, m) /\ number' = [number EXCEPT ![m] = 0]
      /\ local' = local /\ pc'[StressC] \in {"request", "stale"}
  BY <1>0 DEF CTakes, GoOn
<1>2. OthersStay(StressC)
  BY ThirdKeeps DEF CActs
<1>3. m \in MemBlock /\ m \in held[StressC] /\ Handed(StressC) = <<m>>
  BY <1>1, HandedIs
<1>4. Inbox' = Inbox
  BY <1>1, FreesInbox
<1>5. Tagged(m, PLAIN, NullProc)
  BY <1>1, FreeMoves DEF StressOK
<1>6. Coming(StressB)' = Coming(StressB)
  BY <1>0, <1>2, <1>4, ComingStays DEF OthersStay
<1>. DEFINE l == local
            i == Inbox[StressC]
            w == Coming(StressB)
            one == <<m>>
            s == (l \o i) \o w
<1>7. l \in Seq(MemBlock) /\ i \in Seq(MemBlock) /\ w \in Seq(MemBlock)
  BY RouteType
<1>8. one \in Seq(MemBlock)
  BY <1>3
<1>9. Route = ((one \o l) \o i) \o w
  BY <1>3 DEF Route, WithThird
<1>10. WithThird' = <<>> \o l
  BY <1>1 DEF WithThird, Handed
<1>11. <<>> \o l = l
  BY <1>7, ConcatEmptySeq
<1>12. Route' = s
  BY <1>4, <1>6, <1>10, <1>11 DEF Route
<1>13. m \notin Range(l) /\ m \notin Range(i) /\ m \notin Range(w)
  <2>1. m \notin Range(l)
    BY <1>0, <1>1 DEF StressOK, CTidy, Named
  <2>2. m \notin Range(Inbox[StressC]) /\ m \notin Range(Inbox[StressB])
    BY <1>0, <1>3, WaitingIs
  <2>3. m \notin Range(Handed(StressB))
    <3>1. pc[StressB] = "got" => msg[StressB] \in held[StressB]
      BY HandedIs
    <3>2. m \notin held[StressB]
      BY <1>0, <1>3, HeldProperties DEF RtxIInv
    <3>. QED BY <3>1, <3>2, RangeOne DEF Handed
  <2>4. Range(w) = Range(Handed(StressB)) \cup Range(Inbox[StressB])
    <3>1. Handed(StressB) \in Seq(MemBlock) /\ Inbox[StressB] \in Seq(MemBlock)
      BY HandedIs
    <3>. QED BY <3>1, RangeConcat DEF Coming
  <2>. QED BY <2>1, <2>2, <2>3, <2>4
<1>. HIDE DEF m, l, i, w, one
<1>14. l \o i \in Seq(MemBlock) /\ Range(l \o i) = Range(l) \cup Range(i)
  BY <1>7, ConcatProperties, RangeConcat
<1>. DEFINE li == l \o i
<1>15. li \in Seq(MemBlock)
  BY <1>14
<1>. HIDE DEF li
<1>16. li \o w \in Seq(MemBlock) /\ Range(li \o w) = Range(li) \cup Range(w)
  BY <1>7, <1>15, ConcatProperties, RangeConcat
<1>17. s \in Seq(MemBlock) /\ m \notin Range(s)
  BY <1>13, <1>14, <1>16 DEF li
<1>18. Route = one \o s
  <2>1. (one \o l) \o i = one \o li
    BY <1>7, <1>8, ConcatAssociative DEF li
  <2>2. w \in Seq(MemBlock)
    BY <1>7
  <2>3. (one \o li) \o w = one \o (li \o w)
    BY ONLY <2>2, <1>8, <1>15, ConcatAssociative
  <2>. QED BY <1>9, <2>1, <2>3 DEF li
<1>. HIDE DEF s
<1>19. \A j \in DOMAIN s :
          /\ content[s[j]].type = COUNT_REPORT <=> content'[s[j]].type = COUNT_REPORT
          /\ content'[s[j]].type = COUNT_REPORT => number'[s[j]] = number[s[j]]
  <2>1. SUFFICES ASSUME NEW j \in DOMAIN s
                 PROVE  content'[s[j]] = content[s[j]] /\ number'[s[j]] = number[s[j]]
    OBVIOUS
  <2>2. s[j] \in Range(s) /\ s[j] \in MemBlock
    <3>1. DOMAIN s = 1..Len(s)
      BY <1>17, LenProperties
    <3>. QED BY <1>17, <3>1, ElementOfSeq DEF Range
  <2>3. s[j] # m
    BY <1>17, <2>2
  <2>. QED BY <1>1, <1>5, <2>2, <2>3 DEF Tagged
<1>20. Numbers(s, content', number') = Numbers(s, content, number)
  BY ONLY <1>17, <1>19, NumbersSame
<1>21. Numbers(one \o s, content, number) = Numbers(one, content, number) \o Numbers(s, content, number)
  BY ONLY <1>8, <1>17, NumbersConcat
<1>22. Stream' = Numbers(s, content, number) /\ Stream = Numbers(one \o s, content, number)
  BY <1>12, <1>18, <1>20 DEF Stream
<1>23. Numbers(s, content, number) \in Seq(Nat)
  BY <1>17, NumbersType
<1>24. Numbers(one, content, number) = IF content[m].type = COUNT_REPORT THEN <<number[m]>> ELSE <<>>
  BY <1>3, NumbersOne DEF one
<1>25. number' \in [MemBlock -> Nat]
  BY <1>1, <1>3
<1>26. <<>> \o Stream' = Stream' /\ Stream' \in Seq(Nat)
  <2>. DEFINE v == Numbers(s, content, number)
  <2>1. v \in Seq(Nat) /\ Stream' = v
    BY <1>22, <1>23
  <2>. HIDE DEF v
  <2>. QED BY <2>1, ConcatEmptySeq
<1>. QED BY <1>21, <1>22, <1>24, <1>25, <1>26 DEF m

\* stress_c, asleep, puts a message aside, behind the others, or is woken by one
\* without a number.
LEMMA ThirdGets ==
  ASSUME RtxIInv, RtxIInv', StressOK, CGets, number \in [MemBlock -> Nat]
  PROVE  Stream' = Stream
<1>0. StressB \in Proc \ {StressC} /\ StressC \in Proc /\ Pointers /\ pc \in [Proc -> Stages]
  BY BothAreProc DEF StressOK, Pointers
<1>1. /\ pc[StressC] = "sleep" /\ Receive(StressC) /\ UNCHANGED <<content, number>>
      /\ \E b \in held'[StressC] \ held[StressC] :
            IF content[b].type = WAKEUP10
            THEN pc' = [pc EXCEPT ![StressC] = "stale"] /\ UNCHANGED local
            ELSE local' = Append(local, b) /\ UNCHANGED pc
  BY DEF CGets, GoOn
<1>2. OthersStay(StressC)
  BY ThirdKeeps DEF CActs
<1>3. PICK b \in MemBlock :
         /\ InBox(mailbox, b) /\ held' = [held EXCEPT ![StressC] = @ \cup {b}]
         /\ Inbox[StressC] = <<b>> \o Inbox'[StressC]
         /\ \A q \in Proc \ {StressC} : Inbox'[q] = Inbox[q]
  BY <1>0, <1>1, InboxOfReceive DEF RtxIInv, InboxGives
<1>4. held'[StressC] \ held[StressC] = {b}
  <2>1. b \notin held[StressC]
    BY <1>0, <1>3, HeldProperties DEF RtxIInv
  <2>. QED BY <1>0, <1>3, <2>1 DEF RtxIInv, Accounts, DataTypeOK
<1>5. IF IsWake(b)
      THEN pc'[StressC] = "stale" /\ local' = local
      ELSE pc'[StressC] = "sleep" /\ local' = Append(local, b)
  BY <1>0, <1>1, <1>4 DEF IsWake
<1>6. Coming(StressB)' = Coming(StressB)
  BY <1>0, <1>2, <1>3, ComingStays DEF OthersStay
<1>7. Handed(StressC) = <<>> /\ Handed(StressC)' = <<>>
  BY <1>1, <1>5 DEF Handed
<1>8. local \in Seq(MemBlock) /\ Append(local, b) \in Seq(MemBlock) /\ Inbox'[StressC] \in Seq(MemBlock)
  BY <1>0, <1>3, RouteType, InboxNext, AppendProperties
<1>9. WithThird = local /\ WithThird' = local'
  BY <1>5, <1>7, <1>8, ConcatEmptySeq DEF WithThird
<1>10. CASE ~IsWake(b)
  <2>1. WithThird' = Append(WithThird, b)
    BY <1>5, <1>9, <1>10
  <2>2. Route' = Route
    BY <1>3, <1>6, <1>8, <2>1, RouteGets
  <2>. QED BY <1>1, <2>2, StreamStays
<1>11. CASE IsWake(b)
  <2>. DEFINE k == WithThird
              i == Inbox'[StressC]
              t == Inbox[StressC]
              w == Coming(StressB)
  <2>1. /\ k \in Seq(MemBlock) /\ i \in Seq(MemBlock) /\ w \in Seq(MemBlock) /\ t \in Seq(MemBlock)
        /\ t = <<b>> \o i
    BY <1>3, <1>8, RouteType
  <2>2. WithThird' = k
    BY <1>5, <1>9, <1>11
  <2>3. Route' = (k \o i) \o w /\ Route = (k \o t) \o w
    BY <1>6, <2>2 DEF Route
  <2>4. content[b].type # COUNT_REPORT
    BY <1>11, TypesDiffer DEF IsWake
  <2>5. Stream' = Numbers((k \o i) \o w, content, number) /\ Stream = Numbers((k \o t) \o w, content, number)
    BY <1>1, <2>3 DEF Stream
  <2>. HIDE DEF k, i, t, w
  <2>6. Numbers(t, content, number) = Numbers(i, content, number)
    BY <2>1, <2>4, NumbersSkip
  <2>7. k \in Seq(MemBlock) /\ i \in Seq(MemBlock) /\ w \in Seq(MemBlock) /\ t \in Seq(MemBlock)
    BY <2>1
  <2>8. Numbers((k \o i) \o w, content, number) = Numbers((k \o t) \o w, content, number)
    BY ONLY <2>6, <2>7, NumbersOfSame
  <2>. QED BY <2>5, <2>8
<1>. QED BY <1>10, <1>11

\* What the timer delivers has no number.
LEMMA TimerOrder ==
  ASSUME RtxIInv, StressOK, TimerActs, number \in [MemBlock -> Nat]
  PROVE  Stream' = Stream
<1>0. StressB \in Proc /\ StressC \in Proc /\ StressB # StressC
  BY BothAreProc
<1>1. UNCHANGED <<content, pc, msg, rx, local, number>>
  BY DEF TimerActs, StressTick, StressScan, Tick, TickSkips, TickEnds, TickDelivers,
         localVars, stressLocal, mailVars
<1>2. CASE mailbox' = mailbox
  <2>1. Inbox' = Inbox
    BY <1>1, <1>2, InboxRests DEF RtxIInv
  <2>2. Route' = Route
    BY <1>1, <2>1, RouteRests
  <2>. QED BY <1>1, <2>2, StreamStays
<1>3. ASSUME NEW b \in MemBlock, TickDelivers(b) PROVE Stream' = Stream
  <2>1. InBox(delayed, b)
    BY <1>3 DEF TickDelivers, InBox
  <2>2. content[b].type # COUNT_REPORT
    BY <2>1, TypesDiffer DEF StressOK, Wakeup, IsWake
  <2>3. InboxGets(b, rx[b])
    BY <1>3, InboxOfTick DEF RtxIInv
  <2>. DEFINE k == WithThird
              i == Inbox[StressC]
              h == Handed(StressB)
              s == Inbox[StressB]
              w == Coming(StressB)
              i2 == Inbox'[StressC]
              s2 == Inbox'[StressB]
              w2 == Coming(StressB)'
  <2>4. /\ k \in Seq(MemBlock) /\ i \in Seq(MemBlock) /\ h \in Seq(MemBlock) /\ s \in Seq(MemBlock)
        /\ w \in Seq(MemBlock) /\ w = h \o s
    BY HandedIs, RouteType DEF Coming
  <2>5. (i2 = i \/ i2 = Append(i, b)) /\ (s2 = s \/ s2 = Append(s, b))
    BY <1>0, <2>3 DEF InboxGets
  <2>6. WithThird' = k /\ w2 = h \o s2
    BY <1>1 DEF WithThird, Handed, Coming
  <2>7. Route' = (k \o i2) \o w2 /\ Route = (k \o i) \o w
    BY <2>6 DEF Route
  <2>8. Stream' = Numbers((k \o i2) \o w2, content, number) /\ Stream = Numbers((k \o i) \o w, content, number)
    BY <1>1, <2>7 DEF Stream
  <2>. HIDE DEF k, i, h, s, w, i2, s2, w2
  <2>9. /\ k \in Seq(MemBlock) /\ i \in Seq(MemBlock) /\ h \in Seq(MemBlock)
        /\ s \in Seq(MemBlock) /\ w \in Seq(MemBlock)
    BY <2>4
  <2>10. /\ i2 \in Seq(MemBlock) /\ Numbers(i2, content, number) = Numbers(i, content, number)
    <3>1. CASE i2 = i
      BY <2>9, <3>1
    <3>2. CASE i2 = Append(i, b)
      BY <1>3, <2>2, <2>9, <3>2, SkipBehind
    <3>. QED BY <2>5, <3>1, <3>2
  <2>11. w2 = w \/ w2 = Append(w, b)
    <3>1. h \o Append(s, b) = Append(h \o s, b)
      BY ONLY <1>3, <2>9, ConcatAppend
    <3>. QED BY <2>4, <2>5, <2>6, <3>1
  <2>12. /\ w2 \in Seq(MemBlock) /\ Numbers(w2, content, number) = Numbers(w, content, number)
    <3>1. CASE w2 = w
      BY <2>9, <3>1
    <3>2. CASE w2 = Append(w, b)
      BY <1>3, <2>2, <2>9, <3>2, SkipBehind
    <3>. QED BY <2>11, <3>1, <3>2
  <2>13. Numbers((k \o i2) \o w2, content, number) = Numbers((k \o i) \o w, content, number)
    BY ONLY <2>9, <2>10, <2>12, NumbersOfSame
  <2>. QED BY <2>8, <2>13
<1>4. (\E b \in MemBlock : TickDelivers(b)) \/ mailbox' = mailbox
  BY DEF TimerActs, StressTick, StressScan, Tick, TickSkips, TickEnds, mailVars
<1>. QED BY <1>2, <1>3, <1>4

-----------------------------------------------------------------------------
(* The numbers in order. *)

Consecutive(v, from, upto) ==
    /\ \A i \in 1..Len(v) : v[i] = (from + i - 1) % Period
    /\ (from + Len(v)) % Period = upto

\* The number that stress_a is to send next.
NextNumber == IF num < 0 THEN 0 ELSE num

InOrder ==
    /\ num \in -1..(Period - 1) /\ seen \in 0..(Period - 1) /\ number \in [MemBlock -> Nat]
    /\ num # -1 => pc[StressA] \in {"request", "fill", "yield"}
    /\ pc[StressC] = "receive" => local = <<>>
    /\ Consecutive(Stream, seen, NextNumber)

LEMMA ConsecutiveBehind ==
  ASSUME NEW v \in Seq(Nat), NEW f \in 0..(Period - 1), NEW t \in 0..(Period - 1),
         Consecutive(v, f, t)
  PROVE  Consecutive(Append(v, t), f, (t + 1) % Period)
<1>0. Period \in Nat \ {0}
  BY StressAssumption
<1>. DEFINE u == Append(v, t)
            n == Len(v)
<1>1. /\ n \in Nat /\ Len(u) = n + 1 /\ u[n + 1] = t /\ \A i \in 1..n : u[i] = v[i]
  <2>1. t \in Nat
    BY <1>0
  <2>. QED BY <2>1, AppendProperties, LenProperties
<1>2. /\ \A i \in 1..n : v[i] = (f + i - 1) % Period
      /\ (f + n) % Period = t
  BY DEF Consecutive
<1>. HIDE DEF u, n
<1>3. f + (n + 1) - 1 = f + n /\ f + (n + 1) = (f + n) + 1
  BY <1>1
<1>4. (((f + n) % Period) + 1) % Period = ((f + n) + 1) % Period
  <2>1. f + n \in Int /\ 1 \in Int
    BY <1>0, <1>1
  <2>. QED BY ONLY <1>0, <2>1, ModAdd
<1>5. (f + (n + 1)) % Period = (t + 1) % Period
  BY <1>2, <1>3, <1>4
<1>6. ASSUME NEW i \in 1..(n + 1) PROVE u[i] = (f + i - 1) % Period
  <2>1. CASE i \in 1..n
    BY <1>1, <1>2, <2>1
  <2>2. CASE i = n + 1
    BY <1>1, <1>2, <1>3, <2>2
  <2>. QED BY <1>1, <2>1, <2>2
<1>7. Consecutive(u, f, (t + 1) % Period)
  BY <1>1, <1>5, <1>6 DEF Consecutive
<1>. QED BY <1>7 DEF u

LEMMA ConsecutiveFirst ==
  ASSUME NEW v \in Seq(Nat), NEW x \in Nat, NEW f \in 0..(Period - 1), NEW t,
         Consecutive(<<x>> \o v, f, t)
  PROVE  Consecutive(v, (f + 1) % Period, t)
<1>0. Period \in Nat \ {0}
  BY StressAssumption
<1>. DEFINE u == <<x>> \o v
            n == Len(v)
            g == (f + 1) % Period
<1>1. /\ n \in Nat /\ Len(u) = 1 + n /\ \A i \in 1..n : u[i + 1] = v[i]
  <2>1. <<x>> \in Seq(Nat) /\ Len(<<x>>) = 1 /\ n \in Nat
    BY LenProperties
  <2>2. /\ Len(u) = 1 + n
        /\ \A i \in 1..(1 + n) : u[i] = IF i <= 1 THEN <<x>>[i] ELSE v[i - 1]
    BY <2>1, ConcatProperties
  <2>. HIDE DEF u
  <2>3. ASSUME NEW i \in 1..n PROVE u[i + 1] = v[i]
    <3>1. i + 1 \in 1..(1 + n) /\ ~(i + 1 <= 1) /\ (i + 1) - 1 = i
      BY <2>1
    <3>. QED BY <2>2, <3>1
  <2>. QED BY <2>1, <2>2, <2>3
<1>2. /\ \A i \in 1..Len(u) : u[i] = (f + i - 1) % Period
      /\ (f + Len(u)) % Period = t
  BY DEF Consecutive
<1>. HIDE DEF u, n
<1>3. ASSUME NEW k \in Int PROVE (g + k) % Period = (f + 1 + k) % Period
  <2>1. f + 1 \in Int
    BY <1>0
  <2>. QED BY ONLY <1>0, <1>3, <2>1, ModAdd
<1>4. g \in Int
  <2>1. f + 1 \in Int
    BY <1>0
  <2>. QED BY <1>0, <2>1, ModType
<1>. HIDE DEF g
<1>5. (g + n) % Period = t
  <2>1. f + 1 + n = f + Len(u)
    BY <1>0, <1>1
  <2>. QED BY <1>1, <1>2, <1>3, <2>1
<1>6. ASSUME NEW i \in 1..n PROVE v[i] = (g + i - 1) % Period
  <2>1. /\ i + 1 \in 1..Len(u) /\ i - 1 \in Int /\ g + i - 1 = g + (i - 1)
        /\ f + (i + 1) - 1 = f + 1 + (i - 1)
    BY <1>0, <1>1, <1>4
  <2>. QED BY <1>1, <1>2, <1>3, <2>1
<1>7. Consecutive(v, g, t)
  BY <1>5, <1>6 DEF Consecutive, n
<1>. QED BY <1>7 DEF g

LEMMA StreamOfNumbers ==
  ASSUME RtxIInv, StressOK, number \in [MemBlock -> Nat]
  PROVE  Stream \in Seq(Nat)
BY RouteType, NumbersType DEF Stream

\* A step that leaves the stream and the counters alone.
LEMMA OrderStays ==
  ASSUME InOrder, Stream' = Stream, UNCHANGED <<num, number, seen>>,
         num # -1 => pc'[StressA] \in {"request", "fill", "yield"},
         pc'[StressC] = "receive" => local' = <<>>
  PROVE  InOrder'
BY DEF InOrder, NextNumber

LEMMA OthersOrder ==
  ASSUME InOrder, Stream' = Stream, UNCHANGED <<num, number, seen, local>>,
         pc'[StressA] = pc[StressA], pc'[StressC] = pc[StressC]
  PROVE  InOrder'
BY OrderStays DEF InOrder

LEMMA ConsoleKeepsOrder ==
  ASSUME RtxIInv, StressOK, InOrder, ConsoleStep
  PROVE  InOrder'
<1>0. /\ Client \subseteq Keepers /\ Kcd \in Client /\ StressA \notin Client
      /\ Client \subseteq Proc \ {StressB, StressC}
  BY WorkersDiffer, ClientsAreProc, StressedAreProc DEF Keepers, Client
<1>1. PICK p \in Client : OthersStay(p) /\ UNCHANGED stressLocal
  BY <1>0, HeldForWork, ConsoleStepActs DEF StressOK
<1>2. StressA \in Proc \ {p} /\ StressC \in Proc \ {p}
  BY <1>0, BothAreProc
<1>3. Stream' = Stream
  BY ConsoleOrder
<1>. QED BY <1>1, <1>2, <1>3, OthersOrder DEF OthersStay, stressLocal

LEMMA TimerKeepsOrder ==
  ASSUME RtxIInv, StressOK, InOrder, TimerActs
  PROVE  InOrder'
<1>1. UNCHANGED <<pc, num, number, seen, local>>
  BY DEF TimerActs, StressTick, StressScan, Tick, TickSkips, TickEnds, TickDelivers,
         localVars, stressLocal
<1>2. Stream' = Stream
  BY TimerOrder DEF InOrder
<1>. QED BY <1>1, <1>2, OthersOrder

LEMMA ClientKeepsOrder ==
  ASSUME RtxIInv, RtxIInv', StressOK, InOrder, NEW p \in Stressed, ClientStep(p),
         UNCHANGED stressLocal
  PROVE  InOrder'
<1>0. /\ p \in Proc /\ p \in {StressA, StressB, StressC} /\ pc \in [Proc -> Stages]
      /\ StressA \in Proc /\ StressC \in Proc /\ StressA # StressC
  BY BothAreProc, WorkersDiffer, StressedAreProc DEF Stressed, StressOK, Pointers
<1>1. UNCHANGED <<num, number, seen, local>>
  BY DEF stressLocal
<1>2. Stream' = Stream
  BY <1>0, FirstGets, OwnGets DEF InOrder
<1>3. \/ pc' = pc
      \/ pc[p] = "receive" /\ pc' = [pc EXCEPT ![p] = "got"]
      \/ pc[p] \in {"request", "request2"} /\ pc' = [pc EXCEPT ![p] = "fill"]
      \/ pc[p] = "request2" /\ pc' = [pc EXCEPT ![p] = "fill2"]
  BY DEF ClientStep, Waits, Gets, Obtains, GoOn, localVars
<1>4. num # -1 => pc'[StressA] \in {"request", "fill", "yield"}
  BY <1>0, <1>3 DEF InOrder
<1>5. pc'[StressC] = "receive" => local' = <<>>
  BY <1>0, <1>1, <1>3 DEF InOrder
<1>. QED BY <1>1, <1>2, <1>4, <1>5, OrderStays

\* stress_a begins with 0 and counts.
LEMMA FirstKeepsOrder ==
  ASSUME RtxIInv, StressOK, InOrder, AActs
  PROVE  InOrder'
<1>0. /\ StressA \in Proc /\ StressC \in Proc /\ StressA # StressC /\ pc \in [Proc -> Stages]
      /\ Period \in Nat \ {0}
  BY BothAreProc, StressAssumption DEF StressOK, Pointers
<1>1. CASE ARegisters
  <2>1. num = -1 /\ UNCHANGED <<num, number, seen, local>> /\ pc' = [pc EXCEPT ![StressA] = "receive"]
    BY <1>1 DEF ARegisters, GoOn, stressLocal
  <2>2. Stream' = Stream
    BY <1>1, FirstRests
  <2>. QED BY <1>0, <2>1, <2>2, OrderStays DEF InOrder
<1>2. CASE AStarts
  <2>1. /\ pc[StressA] = "got" /\ UNCHANGED <<number, seen, local>>
        /\ \/ num' = 0 /\ pc' = [pc EXCEPT ![StressA] = "request"]
           \/ num' = num /\ pc' = [pc EXCEPT ![StressA] = "receive"]
    BY <1>2 DEF AStarts, GoOn
  <2>2. num = -1
    BY <2>1 DEF InOrder
  <2>3. Stream' = Stream
    BY <1>2, FirstRests
  <2>4. NextNumber' = NextNumber /\ num' \in -1..(Period - 1)
    BY <1>0, <2>1, <2>2 DEF NextNumber
  <2>5. num' # -1 => pc'[StressA] \in {"request", "fill", "yield"}
    BY <1>0, <2>1, <2>2
  <2>6. pc'[StressC] = "receive" => local' = <<>>
    BY <1>0, <2>1 DEF InOrder
  <2>. QED BY <2>1, <2>3, <2>4, <2>5, <2>6 DEF InOrder
<1>3. CASE AYields
  <2>1. UNCHANGED <<num, number, seen, local>> /\ pc' = [pc EXCEPT ![StressA] = "request"]
    BY <1>3 DEF AYields, GoOn, stressLocal
  <2>2. Stream' = Stream
    BY <1>3, FirstRests
  <2>. QED BY <1>0, <2>1, <2>2, OrderStays DEF InOrder
<1>4. CASE ACounts
  <2>1. /\ num # -1 /\ num' = (num + 1) % Period /\ UNCHANGED <<seen, local>>
        /\ pc' = [pc EXCEPT ![StressA] = "yield"]
    BY <1>4 DEF ACounts, GoOn
  <2>2. num \in 0..(Period - 1) /\ num \in Nat /\ seen \in 0..(Period - 1) /\ NextNumber = num
    BY <1>0, <2>1 DEF InOrder, NextNumber
  <2>3. Stream' = Append(Stream, num) /\ number' \in [MemBlock -> Nat]
    BY <1>4, <2>2, FirstCounts DEF InOrder
  <2>4. Stream \in Seq(Nat) /\ Consecutive(Stream, seen, num)
    BY <2>2, StreamOfNumbers DEF InOrder
  <2>5. Consecutive(Append(Stream, num), seen, (num + 1) % Period)
    BY <2>2, <2>4, ConsecutiveBehind
  <2>6. num' \in 0..(Period - 1)
    BY <1>0, <2>1, <2>2, ModType
  <2>7. Consecutive(Stream', seen', num')
    BY <2>1, <2>3, <2>5
  <2>8. NextNumber' = num' /\ num' \in -1..(Period - 1)
    BY <1>0, <2>6 DEF NextNumber
  <2>9. (Consecutive(Stream, seen, NextNumber))'
    BY <2>7, <2>8 DEF Consecutive
  <2>10. pc'[StressA] = "yield" /\ (pc'[StressC] = "receive" => local' = <<>>)
    BY <1>0, <2>1 DEF InOrder
  <2>. QED BY <2>1, <2>2, <2>3, <2>8, <2>9, <2>10 DEF InOrder
<1>. QED BY <1>1, <1>2, <1>3, <1>4 DEF AActs

LEMMA SecondKeepsOrder ==
  ASSUME RtxIInv, StressOK, InOrder, BForwards
  PROVE  InOrder'
<1>0. /\ StressA \in Proc /\ StressB \in Proc /\ StressC \in Proc
      /\ StressA # StressB /\ StressB # StressC /\ pc \in [Proc -> Stages]
  BY BothAreProc DEF StressOK, Pointers
<1>1. UNCHANGED <<num, number, seen, local>> /\ pc' = [pc EXCEPT ![StressB] = "receive"]
  BY DEF BForwards, GoOn, stressLocal
<1>. QED BY <1>0, <1>1, SecondOrder, OthersOrder

\* stress_c sees one number after the other.
LEMMA ThirdKeepsOrder ==
  ASSUME RtxIInv, RtxIInv', StressOK, InOrder, CActs
  PROVE  InOrder'
<1>0. /\ StressA \in Proc /\ StressC \in Proc /\ StressA # StressC /\ pc \in [Proc -> Stages]
      /\ Period \in Nat \ {0}
  BY BothAreProc, StressAssumption DEF StressOK, Pointers
<1>1. pc'[StressA] = pc[StressA]
  BY <1>0, ThirdKeeps DEF OthersStay
<1>2. CASE CDequeues
  <2>1. UNCHANGED <<num, number, seen>> /\ pc' = [pc EXCEPT ![StressC] = "got"]
    BY <1>2 DEF CDequeues, GoOn
  <2>. QED BY <1>0, <1>1, <1>2, <2>1, ThirdDequeues, OrderStays DEF InOrder
<1>3. CASE CAnnounces \/ CSleeps \/ CSleepsOn \/ CReleases \/ CYields
  <2>1. Stream' = Stream /\ UNCHANGED <<num, number, local, seen>>
    BY <1>3, ThirdRests
  <2>2. pc'[StressC] = "receive" => local' = <<>>
    <3>1. CASE CYields
      BY <1>0, <2>1, <3>1 DEF CYields, GoOn
    <3>2. CASE CSleepsOn
      BY <3>2 DEF CSleepsOn, localVars
    <3>3. CASE CAnnounces \/ CSleeps \/ CReleases
      <4>1. pc'[StressC] \in {"request2", "sleep", "yield"}
        BY <1>0, <3>3 DEF CAnnounces, CSleeps, CReleases, GoOn
      <4>. QED BY <4>1
    <3>. QED BY <1>3, <3>1, <3>2, <3>3
  <2>. QED BY <1>1, <2>1, <2>2, OrderStays DEF InOrder
<1>4. CASE CGets
  <2>1. UNCHANGED <<num, number, seen>> /\ pc[StressC] = "sleep"
        /\ (pc' = [pc EXCEPT ![StressC] = "stale"] \/ pc' = pc)
    BY <1>4 DEF CGets, GoOn
  <2>2. Stream' = Stream
    BY <1>4, ThirdGets DEF InOrder
  <2>3. pc'[StressC] # "receive"
    BY <1>0, <2>1
  <2>. QED BY <1>1, <2>1, <2>2, <2>3, OrderStays DEF InOrder
<1>5. CASE CTakes
  <2>. DEFINE m == msg[StressC]
  <2>1. /\ num' = num /\ local' = local
        /\ seen' = IF content[m].type = COUNT_REPORT THEN (seen + 1) % Period ELSE seen
        /\ \E point \in {"request", "stale"} : pc' = [pc EXCEPT ![StressC] = point]
    BY <1>5 DEF CTakes, GoOn
  <2>2. /\ number' \in [MemBlock -> Nat] /\ Stream' \in Seq(Nat)
        /\ content[m].type = COUNT_REPORT => Stream = <<number[m]>> \o Stream'
        /\ content[m].type # COUNT_REPORT => Stream = Stream'
    BY <1>5, ThirdTakes DEF InOrder
  <2>3. pc'[StressC] # "receive"
    BY <1>0, <2>1
  <2>4. /\ seen \in 0..(Period - 1) /\ Consecutive(Stream, seen, NextNumber) /\ NextNumber' = NextNumber
        /\ number \in [MemBlock -> Nat] /\ num' \in -1..(Period - 1)
        /\ num' # -1 => pc'[StressA] \in {"request", "fill", "yield"}
    BY <1>1, <2>1 DEF InOrder, NextNumber
  <2>5. m \in MemBlock
    BY <1>5, HandedIs DEF CTakes
  <2>6. SUFFICES seen' \in 0..(Period - 1) /\ Consecutive(Stream', seen', NextNumber)
    <3>1. ASSUME Consecutive(Stream', seen', NextNumber) PROVE (Consecutive(Stream, seen, NextNumber))'
      BY <2>4, <3>1 DEF Consecutive
    <3>. QED BY <2>2, <2>3, <2>4, <3>1 DEF InOrder
  <2>. HIDE DEF m
  <2>7. CASE content[m].type = COUNT_REPORT
    <3>1. seen' = (seen + 1) % Period /\ Consecutive(<<number[m]>> \o Stream', seen, NextNumber)
      BY <2>1, <2>2, <2>4, <2>7
    <3>2. number[m] \in Nat
      BY <2>4, <2>5
    <3>3. Consecutive(Stream', (seen + 1) % Period, NextNumber)
      BY <2>2, <2>4, <3>1, <3>2, ConsecutiveFirst
    <3>4. (seen + 1) % Period \in 0..(Period - 1)
      BY <1>0, <2>4, ModType
    <3>. QED BY <3>1, <3>3, <3>4
  <2>8. CASE content[m].type # COUNT_REPORT
    BY <2>1, <2>2, <2>4, <2>8
  <2>. QED BY <2>7, <2>8
<1>. QED BY <1>2, <1>3, <1>4, <1>5 DEF CActs

-----------------------------------------------------------------------------
(* The invariant. *)

OrderInv == StressInv /\ (~damaged => InOrder)

LEMMA InitOrderInv == StressInit => OrderInv
<1>. SUFFICES ASSUME StressInit PROVE InOrder
  BY InitStressInv DEF OrderInv
<1>0. /\ StressB \in Proc /\ StressC \in Proc /\ StressB \notin {Kcd, Prio, StressA}
      /\ StressC \notin {Kcd, Prio, StressA} /\ Period \in Nat \ {0}
  BY WorkersDiffer, ClientsDiffer, StressedDiffer, StressAssumption DEF Client, Keepers
<1>1. /\ num = -1 /\ number = [b \in MemBlock |-> 0] /\ local = <<>> /\ seen = 0
      /\ RtxInit /\ ProgramInit({Prio, StressA})
  BY DEF StressInit, ProgramInit
<1>2. Inbox = [p \in Proc |-> <<>>]
  BY <1>1, InitPosts DEF Post!PostInit
<1>3. pc[StressB] # "got" /\ pc[StressC] # "got"
  BY <1>0, <1>1 DEF ProgramInit
<1>4. Route = ((<<>> \o <<>>) \o <<>>) \o (<<>> \o <<>>)
  BY <1>0, <1>1, <1>2, <1>3 DEF Route, WithThird, Coming, Handed
<1>5. <<>> \o <<>> = <<>>
  <2>1. <<>> \in Seq(MemBlock)
    OBVIOUS
  <2>. QED BY <2>1, ConcatEmptySeq
<1>6. Stream = <<>>
  BY <1>4, <1>5, NumbersEmpty DEF Stream
<1>7. 0 \in 0..(Period - 1) /\ -1 \in -1..(Period - 1) /\ 0 % Period = 0
  <2>1. 0 \in 0..(Period - 1)
    BY <1>0
  <2>2. 0 % Period = 0
    BY <1>0, <2>1, ModSmall
  <2>. QED BY <1>0, <2>1, <2>2
<1>8. Consecutive(Stream, seen, NextNumber)
  <2>1. NextNumber = 0
    BY <1>1 DEF NextNumber
  <2>2. Len(<<>>) = 0 /\ 1..0 = {} /\ 0 + 0 = 0
    OBVIOUS
  <2>. QED BY <1>1, <1>6, <1>7, <2>1, <2>2 DEF Consecutive
<1>. QED BY <1>1, <1>7, <1>8 DEF InOrder

LEMMA StepOrderInv == OrderInv /\ [StressNext]_stressVars => OrderInv'
<1>. SUFFICES ASSUME OrderInv, [StressNext]_stressVars PROVE OrderInv'
  OBVIOUS
<1>1. RtxIInv /\ StressInv /\ (~damaged => StressOK /\ InOrder)
  BY DEF OrderInv, StressInv, KernelInv
<1>2. StressInv'
  BY <1>1, StepStressInv
<1>3. RtxIInv'
  BY <1>2 DEF StressInv, KernelInv
<1>4. damaged => damaged'
  BY StressCases DEF ConsoleStep, stressLocal, CDamages
<1>5. ASSUME ~damaged' PROVE InOrder'
  <2>1. StressOK /\ InOrder
    BY <1>1, <1>4, <1>5
  <2>2. ~CDamages
    BY <1>5 DEF CDamages
  <2>3. CASE ConsoleStep
    BY <1>1, <2>1, <2>3, ConsoleKeepsOrder
  <2>4. CASE (\E p \in Stressed : ClientStep(p)) /\ UNCHANGED stressLocal
    BY <1>1, <1>3, <2>1, <2>4, ClientKeepsOrder
  <2>5. CASE AActs \/ BForwards \/ TimerActs
    BY <1>1, <2>1, <2>5, FirstKeepsOrder, SecondKeepsOrder, TimerKeepsOrder
  <2>6. CASE CActs
    BY <1>1, <1>3, <2>1, <2>6, ThirdKeepsOrder
  <2>. QED BY <2>2, <2>3, <2>4, <2>5, <2>6, StressCases
<1>. QED BY <1>2, <1>5 DEF OrderInv

\* What is on its way to stress_c carries the numbers from the one it is to see next to
\* the one before stress_a's next; stress_c waits for messages only when it has put none
\* aside.
THEOREM OrderInductiveInvariant == StressSpec => []OrderInv
BY InitOrderInv, StepOrderInv, PTL DEF StressSpec

\* Through two mailboxes and a queue of its own stress_c sees each of stress_a's numbers
\* once and in order, however many are on their way, whatever it puts aside while it
\* sleeps, and after however many messages it sleeps.
THEOREM NumbersArriveInOrder == StressSpec => []NumbersInOrder
<1>1. OrderInv => NumbersInOrder
  <2>. SUFFICES ASSUME OrderInv, ~damaged
                PROVE  /\ \A i \in DOMAIN Travelling : number[Travelling[i]] = (seen + i - 1) % Period
                       /\ (seen + Len(Travelling)) % Period = Max({num, 0})
    BY DEF NumbersInOrder
  <2>1. RtxIInv /\ StressOK /\ InOrder
    BY DEF OrderInv, StressInv, KernelInv
  <2>2. Travelling = Among(Route, Numbering(content))
    BY DEF Travelling, Route, WithThird, Numbering
  <2>3. Route \in Seq(MemBlock)
    BY <2>1, RouteType
  <2>. DEFINE t == Travelling
  <2>4. t \in Seq(MemBlock)
    BY <2>2, <2>3, AmongType
  <2>5. Stream = Values(t, number)
    BY <2>2 DEF Stream, Numbers
  <2>. HIDE DEF t
  <2>6. DOMAIN t = 1..Len(t)
    BY <2>4, LenProperties
  <2>7. Len(Stream) = Len(t) /\ \A i \in 1..Len(t) : Stream[i] = number[t[i]]
    BY <2>4, <2>5, ValuesOfSeq
  <2>8. Consecutive(Stream, seen, NextNumber) /\ num \in Int
    BY <2>1 DEF InOrder
  <2>9. Max({num, 0}) = NextNumber
    BY <2>8, MaxZero DEF NextNumber
  <2>10. \A i \in DOMAIN t : number[t[i]] = (seen + i - 1) % Period
    BY <2>6, <2>7, <2>8 DEF Consecutive
  <2>11. (seen + Len(t)) % Period = Max({num, 0})
    BY <2>7, <2>8, <2>9 DEF Consecutive
  <2>. QED BY <2>10, <2>11 DEF t
<1>. QED BY <1>1, OrderInductiveInvariant, PTL
=============================================================================
