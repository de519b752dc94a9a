------------------------------ MODULE MCCosts ------------------------------
(***************************************************************************)
(* CostLedger for TLC.  A day has two hours; the clock goes forward in the *)
(* second hour of the run, or does not change.                             *)
(***************************************************************************)
EXTENDS CostLedger

CONSTANTS v1, v2, p1, p2, none, maker

OneVm         == {v1}
TwoVms        == {v1, v2}
NoFreeVm      == {}
TwoRefreshers == {p1, p2}

Winter == [t \in 0..MaxNow |-> t]
Spring == [t \in 0..MaxNow |-> IF t < 1 THEN t ELSE t + 1]

Staggered == {<<v1, 1>>, <<v1, 2>>, <<v2, 0>>}
Anytime   == {v1} \X (0..MaxNow)

Broken == {<<v1, "error">>}

=============================================================================
