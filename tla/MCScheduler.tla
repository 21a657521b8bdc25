---------------------------- MODULE MCScheduler ----------------------------
(* The null process and three others: two that start at the same level and *)
(* one above them.                                                         *)
EXTENDS Scheduler

CONSTANTS null, a, b, c

MCProc == {null, a, b, c}
MCInitPriority == [p \in MCProc |-> CASE p = null -> 4 [] p = c -> 1 [] OTHER -> 2]
MCPibs == <<null, a, b, c>>
MCPriorityArg == {-1, 0, 2, 4}
=============================================================================
