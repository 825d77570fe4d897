----------------------------- MODULE MCPeerPool -----------------------------
(* Two tasks borrowing one client each from a peer whose pool allows one   *)
(* active connection.                                                      *)
EXTENDS PeerPool

CONSTANTS t1, t2

MCTasks == {t1, t2}
=============================================================================
