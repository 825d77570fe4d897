------------------------------ MODULE StdServer ------------------------------
(***************************************************************************)
(* The standalone RESP front end, redis/server/std/server.go.             *)
(*                                                                         *)
(* The TCP listener runs one Handle goroutine per accepted connection.    *)
(* Handle refuses the connection if the handler is closing, otherwise it  *)
(* stores the client in activeConn and serves the payloads the parser     *)
(* reads from the socket until the connection ends.  Close, run once when *)
(* the server shuts down, sets closing, closes every client it finds in   *)
(* activeConn and closes the database.                                    *)
(*                                                                         *)
(* Each Handle goroutine is a program counter over the lines of Handle;   *)
(* the goroutines of the connections accepted before shutdown start at    *)
(* the closing check.  The parser, the listener and the database are not  *)
(* under redis/server/std: a payload is abstracted to its kind, and       *)
(* db.Exec and db.AfterClientClose to the steps that call them.           *)
(***************************************************************************)
EXTENDS Naturals

CONSTANTS
    Clients,      \* accepted connections, one Handle goroutine each
    MaxRequests   \* model bound: commands a client sends

ASSUME MaxRequests \in Nat

VARIABLES
    closing,   \* Handler.closing
    active,    \* the keys of Handler.activeConn
    hpc,       \* client -> where its Handle goroutine is
    sock,      \* client -> "open" or "closed" by the server
    hungup,    \* client -> the peer has closed its end
    reqs,      \* client -> commands executed for it
    cpc,       \* where Close is: "idle", "range", "db", "done"
    dbClosed   \* db.Close has run

vars == <<closing, active, hpc, sock, hungup, reqs, cpc, dbClosed>>

\* MakeHandler: closing is false and activeConn is empty.
Init ==
    /\ closing = FALSE
    /\ active = {}
    /\ hpc = [c \in Clients |-> "check"]
    /\ sock = [c \in Clients |-> "open"]
    /\ hungup = [c \in Clients |-> FALSE]
    /\ reqs = [c \in Clients |-> 0]
    /\ cpc = "idle"
    /\ dbClosed = FALSE

\* closeClient: client.Close, db.AfterClientClose, activeConn.Delete; the
\* Handle goroutine then returns.
CloseClient(c) ==
    /\ sock' = [sock EXCEPT ![c] = "closed"]
    /\ active' = active \ {c}
    /\ hpc' = [hpc EXCEPT ![c] = "done"]

\* Handle, first lines: a closing handler closes the new connection and
\* returns; otherwise the goroutine goes on to store the client.
CheckClosing(c) ==
    /\ hpc[c] = "check"
    /\ IF closing
       THEN /\ sock' = [sock EXCEPT ![c] = "closed"]
            /\ hpc' = [hpc EXCEPT ![c] = "done"]
       ELSE /\ hpc' = [hpc EXCEPT ![c] = "store"]
            /\ UNCHANGED sock
    /\ UNCHANGED <<closing, active, hungup, reqs, cpc, dbClosed>>

\* connection.NewConn, activeConn.Store, then the parser starts reading.
StoreClient(c) ==
    /\ hpc[c] = "store"
    /\ active' = active \cup {c}
    /\ hpc' = [hpc EXCEPT ![c] = "serve"]
    /\ UNCHANGED <<closing, sock, hungup, reqs, cpc, dbClosed>>

\* A multibulk payload: db.Exec and the reply written back; a write error
\* is ignored.  The parser only reads it while the socket is open.  Empty
\* and non-multibulk payloads are logged and skipped, which changes nothing.
ExecRequest(c) ==
    /\ hpc[c] = "serve"
    /\ sock[c] = "open" /\ ~hungup[c]
    /\ reqs[c] < MaxRequests
    /\ reqs' = [reqs EXCEPT ![c] = @ + 1]
    /\ UNCHANGED <<closing, active, hpc, sock, hungup, cpc, dbClosed>>

\* A protocol error: the error reply is written; if the write fails the
\* client is closed and Handle returns, else the loop continues.
ProtocolError(c) ==
    /\ hpc[c] = "serve"
    /\ sock[c] = "open"
    /\ \/ /\ hungup[c]
          /\ CloseClient(c)
          /\ UNCHANGED <<closing, hungup, reqs, cpc, dbClosed>>
       \/ /\ ~hungup[c]
          /\ UNCHANGED vars

\* io.EOF, io.ErrUnexpectedEOF or "use of closed network connection": the
\* peer hung up or Close closed the socket; closeClient and return.
ConnectionClosed(c) ==
    /\ hpc[c] = "serve"
    /\ hungup[c] \/ sock[c] = "closed"
    /\ CloseClient(c)
    /\ UNCHANGED <<closing, hungup, reqs, cpc, dbClosed>>

\* The peer closes its end of the connection.
HangUp(c) ==
    /\ ~hungup[c]
    /\ hungup' = [hungup EXCEPT ![c] = TRUE]
    /\ UNCHANGED <<closing, active, hpc, sock, reqs, cpc, dbClosed>>

\* Close, first step: closing.Set(true).
BeginClose ==
    /\ cpc = "idle"
    /\ closing' = TRUE
    /\ cpc' = "range"
    /\ UNCHANGED <<active, hpc, sock, hungup, reqs, dbClosed>>

\* activeConn.Range closes every client stored so far; nothing waits for
\* the Handle goroutines ("TODO: concurrent wait").
CloseActive ==
    /\ cpc = "range"
    /\ sock' = [c \in Clients |-> IF c \in active THEN "closed" ELSE sock[c]]
    /\ cpc' = "db"
    /\ UNCHANGED <<closing, active, hpc, hungup, reqs, dbClosed>>

\* db.Close, and Close returns.
CloseDB ==
    /\ cpc = "db"
    /\ dbClosed' = TRUE
    /\ cpc' = "done"
    /\ UNCHANGED <<closing, active, hpc, sock, hungup, reqs>>

Next ==
    \/ BeginClose \/ CloseActive \/ CloseDB
    \/ \E c \in Clients :
          \/ CheckClosing(c) \/ StoreClient(c) \/ ExecRequest(c)
          \/ ProtocolError(c) \/ ConnectionClosed(c) \/ HangUp(c)

Spec == Init /\ [][Next]_vars

-----------------------------------------------------------------------------
TypeOK ==
    /\ closing \in BOOLEAN
    /\ active \subseteq Clients
    /\ hpc \in [Clients -> {"check", "store", "serve", "done"}]
    /\ sock \in [Clients -> {"open", "closed"}]
    /\ hungup \in [Clients -> BOOLEAN]
    /\ reqs \in [Clients -> 0..MaxRequests]
    /\ cpc \in {"idle", "range", "db", "done"}
    /\ dbClosed \in BOOLEAN

\* closing "refuses new client and new request": once Close has returned,
\* no client is still registered in activeConn with its connection open,
\* so no Handle goroutine goes on executing commands against the closed
\* database.
ShutdownClosesClients ==
    cpc = "done" => \A c \in active : sock[c] = "closed"
=============================================================================
