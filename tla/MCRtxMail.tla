------------------------------- MODULE MCRtxMail -------------------------------
(* Three processes, two of them at one level, that compete for three blocks *)
(* and send them to two receivers, whose messages interleave in a mailbox   *)
(* of three entries in every way.  Apart from the initial order of the free *)
(* list nothing tells blocks apart.                                         *)
EXTENDS Rtx

CONSTANTS null, kcd, a, b, m1, m2, m3

MCProc == {null, kcd, a, b}
MCInitPriority == [p \in MCProc |-> CASE p = null -> 4 [] p = kcd -> 1 [] OTHER -> 2]
MCPibs == <<null, kcd, a, b>>
MCMemBlock == {m1, m2, m3}
MCBlockOrder == <<m1, m2, m3>>
MCReceivers == {kcd, b}
MCSymmetry == Permutations(MCMemBlock)
=============================================================================
