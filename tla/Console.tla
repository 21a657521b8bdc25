------------------------------ MODULE Console ------------------------------
(***************************************************************************)
(* The console processes: the keyboard command decoder (io/kcd.c), the CRT *)
(* (io/crt.c), the uart process (io/uart.c) and the priority command       *)
(* (core/priority_switch.c), as programs over the primitives of module     *)
(* Rtx, with the contents of the messages they exchange.                   *)
(*                                                                         *)
(* pc is where in its program a process is:                                *)
(*                                                                         *)
(*   start    has not run yet                                              *)
(*   receive  in receive_message                                           *)
(*   got      has a message in "msg"                                       *)
(*   request  in request_memory_block                                      *)
(*   fill     has a block in "new"                                         *)
(*   request2, fill2     the same two, at another place of the program     *)
(*   write    the uart: about to write char_out to the port                *)
(*   reply    the priority command: about to answer                        *)
(*                                                                         *)
(* A process writes into its own block in the step that sends it.  The     *)
(* timer does nothing here: no message is delayed.                         *)
(***************************************************************************)
EXTENDS Rtx

CONSTANTS
    Crt, Uart, Prio,    \* the other console processes
    Pid,                \* their pids
    BufferSize,         \* KCD_BUFFER_SIZE
    Word,               \* 2^32: ascii_to_int wraps
    Reply,              \* the answers of the priority command
    Script,             \* what the user may type
    Ahead               \* bound: so many characters, the last ones, may come at any
                        \*   time, the others when the console has come to rest

Client == {Kcd, Crt, Uart, Prio}
ReplyKind == {"bad", "bad_pid", "bad_priority", "refused", "done"}

ASSUME ConsoleAssumption ==
    /\ Client \subseteq Proc \ {NullProc} /\ Cardinality(Client) = 4
    /\ Pid \in [Proc -> Nat] /\ IsInjective(Pid) /\ Pid[NullProc] = 0
    /\ BufferSize \in Nat \ {0, 1} /\ Word \in Nat \ {0, 1}
    /\ Reply \in [ReplyKind -> Seq(STRING)]
    /\ Script \subseteq Seq(STRING) /\ Ahead \in Nat

VARIABLES
    content,    \* of each block: type, tx and text
    pc,         \* where in its program each process is
    msg,        \* the message it has received last
    new,        \* the block it has requested last
    line,       \* kcd_buffer, as far as it is filled
    cmds,       \* the list of registered commands, from cmd_head on
    pos,        \* the CRT's i
    char_out,   \* the character the uart process writes next
    reply,      \* the priority command's answer
    keys,       \* what the user has still to type
    script,     \* history: what the user set out to type
    lost,       \* history: which of them found no block
    decoded,    \* history: the characters the decoder has taken, each with
                \*   the number of commands registered then
    ordered     \* history: the commands it has sent

localVars   == <<content, pc, msg, new, line, cmds, pos, char_out, reply>>
userVars    == <<keys, script, lost>>
historyVars == <<decoded, ordered>>
consoleVars == <<rtxVars, localVars, userVars, historyVars>>

NUL == "nul"
CR == "cr"
LF == "lf"
FF == "ff"
Digit == [c \in {"0", "1", "2", "3", "4", "5", "6", "7", "8", "9"} |->
            CASE c = "0" -> 0 [] c = "1" -> 1 [] c = "2" -> 2 [] c = "3" -> 3
              [] c = "4" -> 4 [] c = "5" -> 5 [] c = "6" -> 6 [] c = "7" -> 7
              [] c = "8" -> 8 [] c = "9" -> 9]

Clear == <<"%", "c", "l", "r">>
Switch == <<"%", "C">>

\* The answers are no longer than the line buffer; the zero is what ends them.
ASSUME ReplyAssumption ==
    \A kind \in ReplyKind :
        /\ Len(Reply[kind]) <= BufferSize
        /\ \A i \in DOMAIN Reply[kind] : Reply[kind][i] # NUL

PLAIN == 0
REGISTER_CMD == 3
Blank == [type |-> PLAIN, tx |-> NullProc, text |-> <<>>]

\* Whoever has a command to register begins by requesting a block.
ProgramInit(registering) ==
    /\ RtxInit
    /\ content = [b \in MemBlock |-> Blank]
    /\ pc = [p \in Proc |-> CASE p = Kcd -> "start" [] p \in registering -> "request"
                              [] OTHER -> "receive"]
    /\ msg = [p \in Proc |-> NoBlock]
    /\ new = [p \in Proc |-> NoBlock]
    /\ line = <<>> /\ cmds = <<>>
    /\ pos = 1 /\ char_out = NUL /\ reply = "done"
    /\ script \in Script /\ keys = script /\ lost = {}
    /\ decoded = <<>> /\ ordered = <<>>

ConsoleInit == ProgramInit({Prio})

-----------------------------------------------------------------------------
(* Strings: what follows the end of a text is zero. *)

CharAt(t, i) == IF i \in DOMAIN t THEN t[i] ELSE NUL

\* The first place from i on where one of the characters is.
FirstOf(t, i, chars) ==
    CHOOSE j \in i..(Len(t) + 1) :
        /\ j = Len(t) + 1 \/ t[j] \in chars
        /\ \A k \in i..(j - 1) : t[k] \notin chars

StringAt(t, i) ==
    IF i \in DOMAIN t THEN SubSeq(t, i, FirstOf(t, i, {NUL}) - 1) ELSE <<>>

\* str_copy does not copy the terminating zero.
Overwrite(t, s) ==
    s \o SubSeq(t, Len(s) + 1, Len(t))

Signed(n) == IF n % Word >= Word \div 2 THEN (n % Word) - Word ELSE n % Word

Number(s) ==
    LET value[i \in 0..Len(s)] == IF i = 0 THEN 0 ELSE 10 * value[i - 1] + Digit[s[i]]
    IN  value[Len(s)]

IsNumber(s) == s # <<>> /\ \A i \in DOMAIN s : s[i] \in DOMAIN Digit

\* Faulty: what follows a digit is not looked at.
AsciiToIntPrefix(s) ==
    IF s = <<>> \/ s[1] \notin DOMAIN Digit THEN -1 ELSE Digit[s[1]]

AsciiToInt(s) == IF IsNumber(s) THEN Signed(Number(s)) ELSE -1

-----------------------------------------------------------------------------
(* The primitives, as the programs use them. *)

GoOn(p, point) == pc' = [pc EXCEPT ![p] = point]

\* The steps in which a primitive waits, or wakes somebody before it returns.
Waits(p) ==
    /\ \/ pc[p] = "receive" /\ (ReceiveFindsNone(p) \/ ReceiveBlocks(p))
       \/ pc[p] \in {"request", "request2"} /\ (RequestFindsNone(p) \/ RequestBlocks(p))
       \/ SendUnblocks(p)
       \/ ReleaseUnblocks(p)
    /\ UNCHANGED <<localVars, userVars, historyVars>>

Gets(p) ==
    /\ pc[p] = "receive"
    /\ Receive(p)
    /\ msg' = [msg EXCEPT ![p] = CHOOSE b \in MemBlock : b \in held'[p] \ held[p]]
    /\ GoOn(p, "got")
    /\ UNCHANGED <<content, new, line, cmds, pos, char_out, reply, userVars, historyVars>>

Obtains(p) ==
    /\ pc[p] \in {"request", "request2"}
    /\ Request(p)
    /\ new' = [new EXCEPT ![p] = Head(available)]
    /\ GoOn(p, IF pc[p] = "request2" THEN "fill2" ELSE "fill")
    /\ UNCHANGED <<content, msg, line, cmds, pos, char_out, reply, userVars, historyVars>>

\* Faulty: zero_memory is left out.
FreeWithoutZeroing(p, b) ==
    /\ Release(p, b)
    /\ UNCHANGED content

Free(p, b) ==
    /\ Release(p, b)
    /\ content' = [content EXCEPT ![b] = Blank]

\* str_copy and send_message, which fills in the sender.
Mail(p, b, q, s) ==
    /\ Send(p, b, q)
    /\ content' = [content EXCEPT ![b].text = Overwrite(@, s), ![b].tx = p]

\* A command is registered: the type is set too.
Register(p, b, s) ==
    /\ Send(p, b, Kcd)
    /\ content' = [content EXCEPT ![b] =
                     [type |-> REGISTER_CMD, tx |-> p, text |-> Overwrite(@.text, s)]]

-----------------------------------------------------------------------------
(* The keyboard command decoder. *)

Text(p) == content[msg[p]].text

\* register_command: what does not begin with '%' is ignored.
Registered(s, p) ==
    IF CharAt(s, 1) = "%" THEN Append(cmds, [cmd |-> StringAt(s, 1), pid |-> p]) ELSE cmds

KcdStarts ==
    /\ pc[Kcd] = "start" /\ Running(Kcd, {"run"})
    /\ cmds' = Registered(Clear, Kcd)
    /\ GoOn(Kcd, "receive")
    /\ UNCHANGED <<rtxVars, content, msg, new, line, pos, char_out, reply,
                   userVars, historyVars>>

KcdRegisters ==
    /\ pc[Kcd] = "got" /\ content[msg[Kcd]].type = REGISTER_CMD
    /\ cmds' = Registered(Text(Kcd), content[msg[Kcd]].tx)
    /\ Free(Kcd, msg[Kcd])
    /\ GoOn(Kcd, "receive")
    /\ UNCHANGED <<msg, new, line, pos, char_out, reply, userVars, historyVars>>

IsClear(t) == \A i \in 2..4 : CharAt(t, i) = Clear[i]

\* Faulty: the command is not released.
KcdClearsKeeping ==
    /\ pc[Kcd] = "got" /\ content[msg[Kcd]].type # REGISTER_CMD /\ IsClear(Text(Kcd))
    /\ GoOn(Kcd, "request2")
    /\ UNCHANGED <<rtxVars, content, msg, new, line, cmds, pos, char_out, reply,
                   userVars, historyVars>>

KcdClears ==
    /\ pc[Kcd] = "got" /\ content[msg[Kcd]].type # REGISTER_CMD /\ IsClear(Text(Kcd))
    /\ Free(Kcd, msg[Kcd])
    /\ GoOn(Kcd, "request2")
    /\ UNCHANGED <<msg, new, line, cmds, pos, char_out, reply, userVars, historyVars>>

KcdSendsClear ==
    /\ pc[Kcd] = "fill2"
    /\ Mail(Kcd, new[Kcd], Crt, <<FF>>)
    /\ GoOn(Kcd, "receive")
    /\ UNCHANGED <<msg, new, line, cmds, pos, char_out, reply, userVars, historyVars>>

Matches(cmd, l) == IsPrefix(cmd, l) /\ CharAt(l, Len(cmd) + 1) \in {" ", NUL}

\* The first registered command that the line begins with, if any.
Match(l) ==
    {i \in DOMAIN cmds : /\ Matches(cmds[i].cmd, l)
                         /\ \A j \in 1..(i - 1) : ~Matches(cmds[j].cmd, l)}

\* Faulty: the buffer's size is not looked at.
BufferedUnbounded(c) ==
    IF c = "%" THEN <<c>>
    ELSE IF c = CR THEN (IF Match(line) = {} THEN <<>> ELSE line)
    ELSE IF line # <<>> THEN Append(line, c) ELSE line

\* Faulty: a '%' in the middle of a line is like any other character.
BufferedNoRestart(c) ==
    IF c = "%" /\ line = <<>> THEN <<c>>
    ELSE IF c = CR THEN (IF Match(line) = {} THEN <<>> ELSE line)
    ELSE IF line # <<>> /\ Len(line) < BufferSize THEN Append(line, c) ELSE line

\* The line buffer after a character; a command found stays until it is sent.
Buffered(c) ==
    IF c = "%" THEN <<c>>
    ELSE IF c = CR THEN (IF Match(line) = {} THEN <<>> ELSE line)
    ELSE IF line # <<>> /\ Len(line) < BufferSize THEN Append(line, c) ELSE line

KcdEchoes ==
    /\ pc[Kcd] = "got" /\ content[msg[Kcd]].type # REGISTER_CMD /\ ~IsClear(Text(Kcd))
    /\ LET c == CharAt(Text(Kcd), 1)
       IN  /\ Mail(Kcd, msg[Kcd], Crt, IF c = CR THEN <<CR, LF>> ELSE <<c>>)
           /\ line' = Buffered(c)
           /\ decoded' = Append(decoded, [char |-> c, known |-> Len(cmds)])
           /\ GoOn(Kcd, IF c = CR /\ Match(line) # {} THEN "request" ELSE "receive")
    /\ UNCHANGED <<msg, new, cmds, pos, char_out, reply, userVars, ordered>>

\* The line ends with a zero even if it fills the buffer: malloc has put the first
\* command behind it, which begins with the first byte of its pid (rtx_io.h:26).
KcdSendsCommand ==
    /\ pc[Kcd] = "fill"
    /\ \E i \in Match(line) :
          /\ Mail(Kcd, new[Kcd], cmds[i].pid, line)
          /\ ordered' = Append(ordered, [text |-> line, to |-> cmds[i].pid])
    /\ line' = <<>>
    /\ GoOn(Kcd, "receive")
    /\ UNCHANGED <<msg, new, cmds, pos, char_out, reply, userVars, decoded>>

Decoder == KcdStarts \/ KcdRegisters \/ KcdClears \/ KcdSendsClear \/ KcdEchoes
           \/ KcdSendsCommand

-----------------------------------------------------------------------------
(* The CRT and uart processes. *)

CrtLoops ==
    /\ pc[Crt] = "got" /\ CharAt(Text(Crt), pos) # NUL
    /\ Running(Crt, {"run"})
    /\ GoOn(Crt, "request")
    /\ UNCHANGED <<rtxVars, content, msg, new, line, cmds, pos, char_out, reply,
                   userVars, historyVars>>

CrtSends ==
    /\ pc[Crt] = "fill"
    /\ Mail(Crt, new[Crt], Uart, <<CharAt(Text(Crt), pos)>>)
    /\ pos' = pos + 1
    /\ GoOn(Crt, "got")
    /\ UNCHANGED <<msg, new, line, cmds, char_out, reply, userVars, historyVars>>

CrtReleases ==
    /\ pc[Crt] = "got" /\ CharAt(Text(Crt), pos) = NUL
    /\ Free(Crt, msg[Crt])
    /\ pos' = 1
    /\ GoOn(Crt, "receive")
    /\ UNCHANGED <<msg, new, line, cmds, char_out, reply, userVars, historyVars>>

\* Faulty: the character is read after the block has been released.
UartTakesLate ==
    /\ pc[Uart] = "got"
    /\ Free(Uart, msg[Uart])
    /\ char_out' = CharAt(content'[msg[Uart]].text, 1)
    /\ GoOn(Uart, "write")
    /\ UNCHANGED <<msg, new, line, cmds, pos, reply, userVars, historyVars>>

UartTakes ==
    /\ pc[Uart] = "got"
    /\ char_out' = CharAt(Text(Uart), 1)
    /\ Free(Uart, msg[Uart])
    /\ GoOn(Uart, "write")
    /\ UNCHANGED <<msg, new, line, cmds, pos, reply, userVars, historyVars>>

UartWrites ==
    /\ pc[Uart] = "write" /\ Running(Uart, {"run"})
    /\ GoOn(Uart, "receive")
    /\ UNCHANGED <<rtxVars, content, msg, new, line, cmds, pos, char_out, reply,
                   userVars, historyVars>>

Output == CrtLoops \/ CrtSends \/ CrtReleases \/ UartTakes \/ UartWrites

-----------------------------------------------------------------------------
(* The priority command. *)

PrioRegisters ==
    /\ pc[Prio] = "fill"
    /\ Register(Prio, new[Prio], Switch)
    /\ GoOn(Prio, "receive")
    /\ UNCHANGED <<msg, new, line, cmds, pos, char_out, reply, userVars, historyVars>>

\* The two numbers are divided by the first space, or by the end of the text.
Gap(t) == FirstOf(t, 4, {" ", NUL})
FirstArg(t) == SubSeq(t, 4, Gap(t) - 1)
SecondArg(t) == StringAt(t, Gap(t) + 1)

\* The text once a zero has been written over that space.
Divided(t) == IF Gap(t) \in DOMAIN t THEN [t EXCEPT ![Gap(t)] = NUL] ELSE t

\* What is wrong with the command, as far as its text tells.
Complaint(t) ==
    IF ~IsPrefix(Append(Switch, " "), t) THEN {"bad"}
    ELSE IF AsciiToInt(FirstArg(t)) = -1 THEN {"bad_pid"}
    ELSE IF AsciiToInt(SecondArg(t)) = -1 THEN {"bad_priority"}
    ELSE {}

PrioComplains ==
    /\ pc[Prio] = "got"
    /\ \E kind \in Complaint(Text(Prio)) :
          /\ Send(Prio, msg[Prio], Crt)
          /\ content' = [content EXCEPT
                ![msg[Prio]].text = Overwrite(IF kind = "bad" THEN @ ELSE Divided(@),
                                              Reply[kind]),
                ![msg[Prio]].tx = Prio]
    /\ GoOn(Prio, "receive")
    /\ UNCHANGED <<msg, new, line, cmds, pos, char_out, reply, userVars, historyVars>>

\* The process meant; pid 0 is refused like every pid <= 0.
Target(n) == {q \in Proc \ {NullProc} : Pid[q] = n /\ IsPidValid(kernel, q)}

PrioSets ==
    /\ pc[Prio] = "got" /\ Complaint(Text(Prio)) = {}
    /\ Running(Prio, {"run"})
    /\ LET n == AsciiToInt(SecondArg(Text(Prio)))
           target == Target(AsciiToInt(FirstArg(Text(Prio))))
       IN  /\ IF target = {} THEN UNCHANGED rtxVars
              ELSE \E q \in target : ChangePriority(Prio, q, n)
           /\ reply' = IF target # {} /\ n \in 0..3 THEN "done" ELSE "refused"
    /\ content' = [content EXCEPT ![msg[Prio]].text = Divided(@)]
    /\ GoOn(Prio, "reply")
    /\ UNCHANGED <<msg, new, line, cmds, pos, char_out, userVars, historyVars>>

PrioReplies ==
    /\ pc[Prio] = "reply"
    /\ Mail(Prio, msg[Prio], Crt, Reply[reply])
    /\ GoOn(Prio, "receive")
    /\ UNCHANGED <<msg, new, line, cmds, pos, char_out, reply, userVars, historyVars>>

Command == PrioRegisters \/ PrioComplains \/ PrioSets \/ PrioReplies

-----------------------------------------------------------------------------
(* The user, through uart_handler. *)

Typing == keys # <<>> /\ (Len(keys) <= Ahead \/ kernel.running = NullProc)

Types ==
    /\ Typing
    /\ SerialInterrupt
    /\ content' = [content EXCEPT ![Head(available)].text = Overwrite(@, <<Head(keys)>>),
                                  ![Head(available)].tx = kernel.running]
    /\ keys' = Tail(keys)
    /\ UNCHANGED <<pc, msg, new, line, cmds, pos, char_out, reply, script, lost, historyVars>>

\* There is no block to send the character in.
TypesInVain ==
    /\ Typing /\ Booted /\ isr = Idle /\ available = <<>>
    /\ keys' = Tail(keys)
    /\ lost' = lost \cup {Len(script) - Len(keys) + 1}
    /\ UNCHANGED <<rtxVars, localVars, script, historyVars>>

-----------------------------------------------------------------------------
ClientStep(p) == Waits(p) \/ Gets(p) \/ Obtains(p)

Processor ==
    \/ Boot /\ UNCHANGED <<localVars, userVars, historyVars>>
    \/ \E p \in Client : ClientStep(p)
    \/ Decoder \/ Output \/ Command

ConsoleNext == Processor \/ Types \/ TypesInVain

ConsoleSpec == ConsoleInit /\ [][ConsoleNext]_consoleVars

\* The processor runs; the user need not type.
ConsoleFairSpec == ConsoleSpec /\ WF_consoleVars(Processor)

-----------------------------------------------------------------------------
(* Properties. *)

Printed == {CR, LF, FF} \cup UNION {Range(s) : s \in Script}

\* Every variable keeps its type; no text is longer than the line buffer.
ConsoleTypeOK ==
    /\ RtxTypeOK
    /\ \A b \in MemBlock :
          /\ content[b].type \in {PLAIN, REGISTER_CMD}
          /\ content[b].tx \in Proc \cup {Main, NoProc}
          /\ Len(content[b].text) <= BufferSize
    /\ pc \in [Proc -> {"start", "receive", "got", "request", "fill", "request2",
                        "fill2", "write", "reply"}]
    /\ msg \in [Proc -> MemBlock \cup {NoBlock}]
    /\ new \in [Proc -> MemBlock \cup {NoBlock}]
    /\ line \in Seq(Printed) /\ Len(line) <= BufferSize
    /\ pos \in 1..(BufferSize + 1) /\ reply \in ReplyKind
    /\ lost \subseteq DOMAIN script

\* The blocks a process has a pointer to that it will use again.
Named(p) ==
    (IF pc[p] \in {"got", "reply"} \/ (p = Crt /\ pc[p] \in {"request", "fill"})
     THEN {msg[p]} ELSE {})
    \cup (IF pc[p] \in {"fill", "fill2"} THEN {new[p]} ELSE {})

\* The kernel does not check that a process holds the block it sends
\* (messaging.c:113) or writes into.  The programs see to it: each has exactly
\* the blocks it will still send or release - it never uses one it has given
\* away, and forgets none.
HoldsWhatItNames == \A p \in Client : held[p] = Named(p)

\* The message a process has received, as long as its program is at it.
Handed(p) == IF pc[p] = "got" THEN <<msg[p]>> ELSE <<>>

\* The messages a process has still to deal with, next one first.
Coming(p) == Handed(p) \o Inbox[p]

\* The texts of the messages in the mailbox for p, oldest first.
TextsFor(p) == [i \in DOMAIN Inbox[p] |-> StringAt(content[Inbox[p][i]].text, 1)]

\* The characters on their way to the line: the first ones of the uart's messages.
Sending ==
    [i \in DOMAIN Coming(Uart) |-> CharAt(content[Coming(Uart)[i]].text, 1)]

\* What has been printed and is not yet on the line, next character first.
Pending ==
    (IF pc[Uart] = "write" THEN <<char_out>> ELSE <<>>)
    \o Sending
    \o (IF pc[Crt] \in {"got", "request", "fill"}
        THEN StringAt(Text(Crt), pos) ELSE <<>>)
    \o FlattenSeq(TextsFor(Crt))

\* An echo, or an answer with what it has left of the command under it.
IsPrinted(t) ==
    \/ t \in {<<c>> : c \in Printed} \/ t = <<CR, LF>>
    \/ \E kind \in ReplyKind :
          /\ IsPrefix(Reply[kind], t)
          /\ t = Reply[kind] \/ Len(t) <= BufferSize

\* What the decoder and the priority command send to the CRT comes out
\* character by character, in the order they sent it, nothing twice and nothing
\* left out, although each character is a message of its own and its block is
\* zeroed and used again before the character is written (uart.c:165).
Terminal == INSTANCE Terminal WITH pending <- Pending, IsText <- IsPrinted
ImplementsTerminal == Terminal!TerminalSpec

\* The members of a subset of 1..n, in order.
Ascending(S, n) == Among([i \in 1..n |-> i], S)

\* The characters on their way to the decoder, next one first: its messages of one.
Arriving ==
    LET mail == Among(Coming(Kcd), {b \in MemBlock : Len(content[b].text) = 1})
    IN  [i \in DOMAIN mail |-> content[mail[i]].text[1]]

Taken == [i \in DOMAIN decoded |-> decoded[i].char]
Typed == Taken \o Arriving \o keys

\* A character typed is lost if there was no block for it (uart.c:81), and only
\* then; all others reach the decoder once, in order, whatever it waits for.
LostForWantOfBlocksOnly ==
    Typed = LET kept == Ascending(DOMAIN script \ lost, Len(script))
            IN  [i \in DOMAIN kept |-> script[kept[i]]]

\* Where the decoder took a CR that ends a line with a '%' in it, and where the
\* command in that line begins.
LineEnds == {k \in DOMAIN decoded : decoded[k].char = CR}
LineStarts(k) ==
    {j \in 1..(k - 1) : /\ decoded[j].char = "%"
                        /\ \A i \in (j + 1)..(k - 1) : decoded[i].char \notin {"%", CR}}

\* The line, as much of it as fits the buffer.
LineFrom(j, k) ==
    [i \in 1..Min({k - j, BufferSize}) |-> decoded[j + i - 1].char]

\* A zero ends a word, too.
FirstWord(l) == SubSeq(l, 1, FirstOf(l, 1, {" ", NUL}) - 1)

\* The process that registered its first word first, among those known then.
Owner(l, known) ==
    LET named == {i \in 1..known : cmds[i].cmd = FirstWord(l)}
    IN  {cmds[i].pid : i \in {n \in named : \A m \in named : n <= m}}

Orders(k) ==
    {o \in {[text |-> LineFrom(j, k), to |-> p] : j \in LineStarts(k), p \in Proc} :
        o.to \in Owner(o.text, decoded[k].known)}

Expected ==
    LET ends == Ascending({k \in LineEnds : Orders(k) # {}}, Len(decoded))
    IN  [i \in DOMAIN ends |-> CHOOSE o \in Orders(ends[i]) : TRUE]

\* The commands the decoder sends are the lines typed, from the last '%' on, each
\* to the process that registered its first word, in order and once; at most the
\* last is still to be sent, while the decoder waits for a block.
CommandsAreLines ==
    ordered = IF pc[Kcd] \in {"request", "fill"} THEN Front(Expected) ELSE Expected

\* Every entry of the command list was asked for, by the process it names, and
\* once: whatever else reaches the decoder, in whatever block, registers nothing.
RegisteredOnlyAsAsked ==
    /\ Range(cmds) \subseteq {[cmd |-> Clear, pid |-> Kcd], [cmd |-> Switch, pid |-> Prio]}
    /\ IsInjective(cmds)

\* A priority changes only as a command asks, that of the process with the pid
\* typed to the number typed - except for numbers that do not fit in a word,
\* which ascii_to_int takes modulo 2^32.
AsTyped(s, n) == IsNumber(s) /\ (Number(s) = n \/ Number(s) >= Word)
ChangedAsTyped ==
    [][\A q \in Proc : kernel'.priority[q] # kernel.priority[q] =>
          \E i \in DOMAIN ordered :
             LET t == ordered[i].text
             IN  /\ ordered[i].to = Prio
                 /\ AsTyped(FirstArg(t), Pid[q])
                 /\ AsTyped(SecondArg(t), kernel'.priority[q])]_consoleVars

\* Everybody waits for a message, and there is none.
AtRest ==
    /\ \A p \in Client : kernel.state[p] = "blocked_msg"
    /\ \A i \in Slot : mailbox[i] = NoBlock

\* Everybody waits, somebody for a block, and there is none: nobody will ever
\* release one.
Jammed ==
    /\ kernel.running = NullProc /\ available = <<>>
    /\ \E p \in Client : kernel.state[p] = "blocked_mem"

\* The CRT keeps a message while it requests a block for each of its characters
\* (crt.c:47).
CrtJams == Jammed /\ kernel.state[Crt] = "blocked_mem" /\ held[Crt] # {}

\* The console jams only because the CRT does, or because every block is in the
\* mailbox of somebody who has overslept it, or of the decoder, which waits for a
\* block itself (kcd.c:133).  Nobody else is ever what the others wait for, and no
\* block has got lost.
JamsAsKnownOnly ==
    Jammed =>
        \/ CrtJams
        \/ \A b \in MemBlock :
              /\ InBox(mailbox, b)
              /\ \/ Overslept(rx[b])
                 \/ rx[b] = Kcd /\ kernel.state[Kcd] = "blocked_mem"

\* The console does what there is to do and comes to rest, unless it jams, or a
\* message comes in the gap of receive_message: a character on its way to the
\* decoder, which will see it with the next one, or a message to a process that
\* has been put below the decoder.
ComesToRest ==
    <>[](\/ AtRest \/ Jammed
         \/ \E p \in Client :
               /\ Overslept(p)
               /\ p = Kcd \/ kernel.priority[p] > kernel.priority[Kcd])
=============================================================================
