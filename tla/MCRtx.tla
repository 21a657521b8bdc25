------------------------------- MODULE MCRtx -------------------------------
(* The null process, the keyboard command decoder and a process below it, *)
(* which two blocks are enough to starve.                                 *)
EXTENDS Rtx

CONSTANTS null, kcd, a, m1, m2

MCProc == {null, kcd, a}
MCInitPriority == [p \in MCProc |-> CASE p = null -> 4 [] p = kcd -> 1 [] OTHER -> 2]
MCPibs == <<null, kcd, a>>
MCMemBlock == {m1, m2}
MCBlockOrder == <<m1, m2>>
MCReceivers == {kcd, a}
=============================================================================
