----------------------------- MODULE MCConsole -----------------------------
(* The console processes alone, three blocks, and lines that contain every *)
(* kind of command, whole, broken off, too long and too large.             *)
EXTENDS Console

CONSTANTS null, kcd, crt, uart, prio, m1, m2, m3

MCProc == {null, kcd, crt, uart, prio}
MCInitPriority == [p \in MCProc |-> IF p = null THEN 4 ELSE 0]
MCPibs == <<null, kcd, crt, uart, prio>>
MCMemBlock == {m1, m2, m3}
MCBlockOrder == <<m1, m2, m3>>
MCPid == [p \in MCProc |-> CASE p = null -> 0 [] p = kcd -> 1 [] p = crt -> 2
                             [] p = uart -> 3 [] p = prio -> 4]
MCReply == [bad |-> <<"B", "b">>, bad_pid |-> <<"I", "i">>, bad_priority |-> <<"P", "p">>,
            refused |-> <<"R", "r">>, done |-> <<"D", "d">>]
MCScript == {
    <<"%", "C", " ", "1", " ", "3", CR>>,
    <<"%", "C", " ", "2", " ", "1", CR, "x", "y">>,
    <<"%", "C", " ", "2", " ", "1", CR, "%", "C", CR>>,
    <<"%", "C", " ", "x", CR, "%">>,
    <<"%", "C", " ", "1", CR>>,
    <<"%", "C", " ", "4", " ", "0", "0", "3", "1", CR>>,
    <<"%", "C", " ", "1", "5", " ", "3", CR>>,
    <<"%", "C", " ", "1", "7", " ", "3", CR>>,
    <<"%", "C", " ", "9", " ", "1", CR>>,
    <<"x", "%", "C", CR>>,
    <<"%", "C", "C", CR>>,
    <<"%", "x", "%", "c", "l", "r", " ", "x", CR>>,
    <<"%", "c", "l", "r", CR, "x", "y", "z">>,
    <<"%", "C", " ", "1", " ", "3", CR, "%", "c", "l", "r", CR, "x", "y", "z">>,
    <<CR, CR, CR, CR>>,
    <<CR, CR, CR>>}
=============================================================================
