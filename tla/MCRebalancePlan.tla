-------------------------- MODULE MCRebalancePlan --------------------------
(* Four masters and twelve slots: avgSlot = 3, so a master with 5 or more   *)
(* slots exports and one with 1 or fewer imports; two exporters and two     *)
(* importers can occur together.                                            *)
EXTENDS RebalancePlan

CONSTANTS m1, m2, m3, m4

MCMasters == {m1, m2, m3, m4}
=============================================================================
