------------------------------ MODULE Terminal ------------------------------
(***************************************************************************)
(* What the CRT and uart processes promise: the texts they are sent come   *)
(* out character by character, in order, each text whole.                  *)
(***************************************************************************)
EXTENDS Sequences, SequencesExt

CONSTANT IsText(_)      \* what may be printed

VARIABLE pending        \* printed and not yet on the line

Init == pending = <<>>

Display(old, now) ==
    /\ IsPrefix(old, now)
    /\ IsText(SubSeq(now, Len(old) + 1, Len(now)))

Transmit(old, now) == old # <<>> /\ now = Tail(old)

Next ==
    \E old \in {pending}, now \in {pending'} : Display(old, now) \/ Transmit(old, now)

TerminalSpec == Init /\ [][Next]_pending
=============================================================================
