----------------------------- MODULE MCFailover -----------------------------
(* Three nodes.  OneSet: n1 is the master of n2 and n3; the consensus       *)
(* leader is set per run.                                                   *)
EXTENDS Failover

CONSTANTS n1, n2, n3

MCNodes == {n1, n2, n3}
OneSet == n1 :> << n2, n3 >>
=============================================================================
