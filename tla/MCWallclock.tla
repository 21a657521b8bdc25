----------------------------- MODULE MCWallclock -----------------------------
(* A time just before midnight, another, two that are refused. *)
EXTENDS Wallclock

T(h, m, s) == [hour |-> h, min |-> m, sec |-> s]
MCTimes == {T(23, 59, 59), T(9, 0, 0), T(24, 0, 0), T(9, 60, 0), Malformed}
RestartTimes == {T(9, 0, 0)}
=============================================================================
