---------------------------- MODULE MCAlertIntake ----------------------------
EXTENDS AlertIntake

Firing(k, s)   == [key |-> k, start |-> s, status |-> "firing"]
Resolved(k, s) == [key |-> k, start |-> s, status |-> "resolved"]

(* Two batches that name the same two keys in opposite orders, alerts that *)
(* come alone, and one that is over.                                       *)
MCBatches == {<<Firing("k1", 1), Firing("k2", 1)>>, <<Firing("k2", 1), Firing("k1", 1)>>,
              <<Firing("k1", 2)>>, <<Resolved("k1", 1)>>}

=============================================================================
