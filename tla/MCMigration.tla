---------------------------- MODULE MCMigration ----------------------------
(* The leader and the two nodes of the task are distinct model values.    *)
EXTENDS Migration
=============================================================================
