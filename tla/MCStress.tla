----------------------------- MODULE MCStress -----------------------------
(* The console and stress processes, three blocks.  The test is started; the *)
(* user puts stress_c or stress_b on a level with stress_a before, or starts *)
(* it again or presses a key afterwards.                                     *)
EXTENDS Stress

CONSTANTS null, kcd, crt, uart, prio, sa, sb, sc, m1, m2, m3

MCProc == {null, kcd, crt, uart, prio, sa, sb, sc}
MCInitPriority == [p \in MCProc |->
    CASE p = null -> 4 [] p = sa -> 3 [] p = sb -> 2 [] p = sc -> 1 [] OTHER -> 0]
MCPibs == <<null, sa, sb, sc, kcd, crt, uart, prio>>
MCMemBlock == {m1, m2, m3}
MCBlockOrder == <<m1, m2, m3>>
MCPid == [p \in MCProc |->
    CASE p = null -> 0 [] p = kcd -> 1 [] p = crt -> 2 [] p = uart -> 3
      [] p = prio -> 4 [] p = sa -> 7 [] p = sb -> 8 [] p = sc -> 9]
MCReply == [kind \in ReplyKind |-> <<"R">>]
MCAnnouncement == <<"P">>
MCScript == {
    <<"%", "Z", CR, "x">>,
    <<"%", "Z", CR, "%", "Z", CR>>,
    <<"%", "C", " ", "9", " ", "3", CR, "%", "Z", CR>>,
    <<"%", "C", " ", "8", " ", "3", CR, "%", "Z", CR>>}
=============================================================================
