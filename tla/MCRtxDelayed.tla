------------------------------- MODULE MCRtxDelayed -------------------------------
(* One process that sends itself delayed messages, and three blocks: the   *)
(* fewest with which the scan of the delayed mailbox goes back.            *)
EXTENDS Rtx

CONSTANTS null, kcd, m1, m2, m3

MCProc == {null, kcd}
MCInitPriority == [p \in MCProc |-> CASE p = null -> 4 [] p = kcd -> 1 [] OTHER -> 2]
MCPibs == <<null, kcd>>
MCMemBlock == {m1, m2, m3}
MCBlockOrder == <<m1, m2, m3>>
MCReceivers == {kcd}
=============================================================================
