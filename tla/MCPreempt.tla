----------------------------- MODULE MCPreempt -----------------------------
(* The null process, the keyboard command decoder and two clients below.    *)
(* Apart from the initial order of the free list nothing tells blocks apart. *)
EXTENDS Preempt

CONSTANTS null, kcd, a, b, m1, m2

MCProc == {null, kcd, a, b}
MCInitPriority == [p \in MCProc |-> CASE p = null -> 4 [] p = kcd -> 0 [] OTHER -> 2]
MCPibs == <<null, kcd, a, b>>
OneBlock == <<m1>>
TwoBlocks == <<m1, m2>>
MCSymmetry == Permutations({m1, m2})
=============================================================================
