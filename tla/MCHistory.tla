----------------------------- MODULE MCHistory -----------------------------
(* Instances of History: one shop, which the cron monitors and customers    *)
(* ask for.                                                                 *)
EXTENDS HistoryAudit, MCSights

TwoSights == {Clean, Failing}
JustOne   == <<"shop">>
=============================================================================
