------------------------------ MODULE PeerPool ------------------------------
(***************************************************************************)
(* The peer connection manager, cluster/core/connection.go, for one peer   *)
(* address borrowed by several concurrent tasks (relays, heartbeats,       *)
(* migration calls).                                                       *)
(*                                                                         *)
(* defaultClientFactory keeps nodeConnections: peer address -> pool.       *)
(* BorrowPeerClient looks the address up and, when it is missing, creates *)
(* a pool and puts it: two separate dict operations.  ReturnPeerClient     *)
(* looks the address up again and puts the client into whatever pool is   *)
(* registered then.  The pool itself (lib/pool) is not under src/ and is   *)
(* modelled from spec section 2: Get hands out an idle client, creates one *)
(* while fewer than MaxActive are active and blocks otherwise; Put keeps   *)
(* up to MaxIdle idle clients and finalizes the rest, or every client     *)
(* once the pool is closed.  The finalizer BorrowPeerClient gives the pool *)
(* never closes a connection (see Finalize).  The dict is the concurrent   *)
(* one: each Get or Put is atomic.                                         *)
(***************************************************************************)
EXTENDS Integers, Sequences, FiniteSets, FiniteSetsExt

CONSTANTS
    Tasks,       \* goroutines borrowing a client to the peer
    MaxActive,   \* connectionPoolConfig.MaxActive
    MaxIdle,     \* connectionPoolConfig.MaxIdle
    MaxBorrows,  \* model bound: borrows per task
    RequirePass, \* config.Properties.RequirePass is set
    NoPool       \* model value: the address has no pool in nodeConnections

ASSUME MaxActive \in Nat \ {0} /\ MaxIdle \in Nat /\ MaxBorrows \in Nat \ {0}
ASSUME RequirePass \in BOOLEAN

VARIABLES
    reg,      \* nodeConnections[peerAddr]: a pool index or NoPool
    pools,    \* pool index -> [active, idle, closed]
    conns,    \* connection index -> "open" or "closed"
    pc,       \* each task's place in Borrow / use / Return
    tp,       \* each task's local connectionPool
    tc,       \* each task's borrowed client (0: none)
    borrows,  \* borrows each task has started
    closed    \* factory.Close has run

vars == <<reg, pools, conns, pc, tp, tc, borrows, closed>>

Pool == [active : Int, idle : SUBSET Nat, closed : BOOLEAN]

OpenConns == {c \in DOMAIN conns : conns[c] = "open"}

\* newDefaultClientFactory: an empty concurrent dict, no pool yet.
Init ==
    /\ reg = NoPool
    /\ pools = << >>
    /\ conns = << >>
    /\ pc = [t \in Tasks |-> "idle"]
    /\ tp = [t \in Tasks |-> NoPool]
    /\ tc = [t \in Tasks |-> 0]
    /\ borrows = [t \in Tasks |-> 0]
    /\ closed = FALSE

-----------------------------------------------------------------------------
(* BorrowPeerClient                                                        *)

\* nodeConnections.Get(peerAddr): the registered pool, or a miss.
Lookup(t) ==
    /\ pc[t] = "idle" /\ borrows[t] < MaxBorrows
    /\ borrows' = [borrows EXCEPT ![t] = @ + 1]
    /\ IF reg = NoPool
       THEN pc' = [pc EXCEPT ![t] = "create"] /\ UNCHANGED tp
       ELSE pc' = [pc EXCEPT ![t] = "get"] /\ tp' = [tp EXCEPT ![t] = reg]
    /\ UNCHANGED <<reg, pools, conns, tc, closed>>

\* On a miss: pool.New, then nodeConnections.Put(peerAddr, pool), which
\* replaces whatever another task put since the lookup.
CreatePool(t) ==
    /\ pc[t] = "create"
    /\ pools' = Append(pools, [active |-> 0, idle |-> {}, closed |-> FALSE])
    /\ reg' = Len(pools) + 1
    /\ tp' = [tp EXCEPT ![t] = Len(pools) + 1]
    /\ pc' = [pc EXCEPT ![t] = "get"]
    /\ UNCHANGED <<conns, tc, borrows, closed>>

\* NewPeerClient, the pool's creator: MakeClient may fail to dial (no
\* connection); otherwise the client is started and, with a password
\* configured, a refused AUTH returns the error and leaves the started
\* client open, in no pool.
NewPeerClient ==
    {"ok", "dial_failed"} \cup (IF RequirePass THEN {"auth_failed"} ELSE {})

\* connectionPool.Get(): an idle client, or a new one while the pool has
\* fewer than MaxActive (the creator's error is returned), blocked
\* otherwise; a closed pool returns an error.
PoolGet(t) ==
    LET p == tp[t] IN
    /\ pc[t] = "get"
    /\ \/ /\ pools[p].closed
          /\ pc' = [pc EXCEPT ![t] = "idle"]
          /\ UNCHANGED <<pools, conns, tc>>
       \/ /\ ~pools[p].closed /\ pools[p].idle # {}
          /\ \E c \in pools[p].idle :
                /\ pools' = [pools EXCEPT ![p].idle = @ \ {c}]
                /\ tc' = [tc EXCEPT ![t] = c]
          /\ pc' = [pc EXCEPT ![t] = "use"]
          /\ UNCHANGED conns
       \/ /\ ~pools[p].closed /\ pools[p].idle = {}
          /\ pools[p].active < MaxActive
          /\ \E o \in NewPeerClient :
                /\ conns' = IF o = "dial_failed" THEN conns ELSE Append(conns, "open")
                /\ IF o = "ok"
                   THEN /\ pools' = [pools EXCEPT ![p].active = @ + 1]
                        /\ tc' = [tc EXCEPT ![t] = Len(conns) + 1]
                        /\ pc' = [pc EXCEPT ![t] = "use"]
                   ELSE /\ pc' = [pc EXCEPT ![t] = "idle"]
                        /\ UNCHANGED <<pools, tc>>
    /\ UNCHANGED <<reg, tp, borrows, closed>>

-----------------------------------------------------------------------------
\* The pool's finalizer: x.(client.Client) fails on the *client.Client the
\* pool holds, so it returns before cli.Close() and the connection stays
\* open, uncounted by any pool.
Finalize(cs, c) == cs

(* ReturnPeerClient: the deferred return after the call                    *)

\* nodeConnections.Get(RemoteAddress()), then pool.Put(client) into the
\* pool registered now.
Return(t) ==
    LET c == tc[t]
        p == reg
    IN
    /\ pc[t] = "use"
    /\ p # NoPool
    /\ \/ /\ ~pools[p].closed /\ Cardinality(pools[p].idle) < MaxIdle
          /\ pools' = [pools EXCEPT ![p].idle = @ \cup {c}]
          /\ UNCHANGED conns
       \/ /\ ~pools[p].closed /\ Cardinality(pools[p].idle) >= MaxIdle
          /\ pools' = [pools EXCEPT ![p].active = @ - 1]
          /\ conns' = Finalize(conns, c)
       \/ /\ pools[p].closed
          /\ conns' = Finalize(conns, c)
          /\ UNCHANGED pools
    /\ pc' = [pc EXCEPT ![t] = "idle"]
    /\ tc' = [tc EXCEPT ![t] = 0]
    /\ UNCHANGED <<reg, tp, borrows, closed>>

\* factory.Close: ForEach registered pool, pool.Close(), which empties
\* the idle list through the finalizer.
Close ==
    /\ ~closed
    /\ closed' = TRUE
    /\ IF reg = NoPool
       THEN UNCHANGED <<pools, conns>>
       ELSE /\ pools' = [pools EXCEPT ![reg].closed = TRUE, ![reg].idle = {}]
            /\ conns' = FoldSet(LAMBDA c, cs : Finalize(cs, c), conns, pools[reg].idle)
    /\ UNCHANGED <<reg, pc, tp, tc, borrows>>

Next ==
    \/ \E t \in Tasks : Lookup(t) \/ CreatePool(t) \/ PoolGet(t) \/ Return(t)
    \/ Close

Spec == Init /\ [][Next]_vars

-----------------------------------------------------------------------------
(* Properties                                                              *)

TypeOK ==
    /\ reg \in {NoPool} \cup DOMAIN pools
    /\ pools \in Seq(Pool)
    /\ conns \in Seq({"open", "closed"})
    /\ pc \in [Tasks -> {"idle", "create", "get", "use"}]
    /\ tc \in [Tasks -> {0} \cup DOMAIN conns]
    /\ borrows \in [Tasks -> 0..MaxBorrows]
    /\ closed \in BOOLEAN

\* At most MaxActive connections to the peer are ever open: the factory
\* creates one bounded pool per address on first use (spec section 2) and
\* BorrowPeerClient is called concurrently by relays, heartbeats and
\* migration calls.
ConnectionsBounded ==
    Cardinality(OpenConns) <= MaxActive
=============================================================================
