------------------------------ MODULE MCRename ------------------------------
(* Three nodes, so the coordinator can be the source owner, the target     *)
(* owner or a third node; two values so an overwrite is visible.           *)
EXTENDS Rename

CONSTANTS n1, n2, n3, a, b

MCNodes == {n1, n2, n3}
MCVals == {a, b}
=============================================================================
