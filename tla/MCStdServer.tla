----------------------------- MODULE MCStdServer -----------------------------
(* Two accepted connections, each sending at most one command.             *)
EXTENDS StdServer

CONSTANTS c1, c2

MCClients == {c1, c2}
=============================================================================
