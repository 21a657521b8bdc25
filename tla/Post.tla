-------------------------------- MODULE Post --------------------------------
(***************************************************************************)
(* What the messaging of the RTX promises, without mailbox arrays, queues  *)
(* or interrupts: every process has an inbox, messages are taken from it   *)
(* in the order they arrived, none is lost and none is received twice.     *)
(* Module Rtx implements it.                                               *)
(***************************************************************************)
EXTENDS Sequences, SequencesExt

CONSTANTS
    Proc,           \* senders and receivers
    MemBlock        \* memory blocks, used as envelopes

VARIABLES
    inbox,          \* the messages each process has not received yet
    later           \* the receiver of each message sent with a delay

postVars == <<inbox, later>>

InTransit(b) == b \in DOMAIN later \/ \E p \in Proc : Contains(inbox[p], b)

PostInit ==
    /\ inbox = [p \in Proc |-> <<>>]
    /\ later = << >>

PostSend(b, p) ==
    /\ inbox' = [inbox EXCEPT ![p] = Append(@, b)]
    /\ UNCHANGED later
    /\ ~InTransit(b)

PostDelayedSend(b, p) ==
    /\ later' = [c \in DOMAIN later \cup {b} |-> IF c = b THEN p ELSE later[c]]
    /\ UNCHANGED inbox
    /\ ~InTransit(b)

\* The delay is over.
PostArrive(b) ==
    /\ b \in DOMAIN later
    /\ inbox' = [inbox EXCEPT ![later[b]] = Append(@, b)]
    /\ later' = [c \in DOMAIN later \ {b} |-> later[c]]

PostReceive(p) ==
    /\ inbox[p] # <<>>
    /\ inbox' = [inbox EXCEPT ![p] = Tail(@)]
    /\ UNCHANGED later

PostNext ==
    \/ \E b \in MemBlock, p \in Proc : PostSend(b, p) \/ PostDelayedSend(b, p)
    \/ \E b \in MemBlock : PostArrive(b)
    \/ \E p \in Proc : PostReceive(p)

PostSpec == PostInit /\ [][PostNext]_postVars
=============================================================================
