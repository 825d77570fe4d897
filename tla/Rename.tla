------------------------------- MODULE Rename -------------------------------
(***************************************************************************)
(* RENAME and RENAMENX in cluster mode, cluster/commands/rename.go, run     *)
(* by the coordinator node that received the client command.               *)
(*                                                                         *)
(* If the source key and the destination key live on one node the command *)
(* is relayed there as one local "rename".  Otherwise the coordinator runs *)
(* a try/confirm/cancel exchange: Prepare RenameFrom at the source node,   *)
(* Prepare RenameTo / RenameNxTo at the target node carrying the dumped    *)
(* value, then commit to every node of the route map, and on any error     *)
(* rollback to the nodes requestRollback is given.  Every exchange is a    *)
(* cluster.Relay: executed in place when the node is the coordinator,     *)
(* otherwise a request/reply over a pooled connection whose request or     *)
(* reply may be lost (the caller then sees an error reply).                *)
(*                                                                         *)
(* The participant side of prepare/commit/rollback (the transaction table  *)
(* of cluster/core) is not under src/; it is modelled from spec section    *)
(* 4.3: prepare stages, commit applies, rollback reverts whatever was      *)
(* staged or applied and is a no-op on a node that never prepared.         *)
(***************************************************************************)
EXTENDS Naturals, FiniteSets

CONSTANTS
    Nodes,      \* cluster nodes
    Vals,       \* values (with their TTL) a key may hold
    None,       \* model value: key absent / no value
    Src, Dst,   \* the source and destination keys of the command
    Faults      \* relay kinds whose remote request or reply may be lost,
                \* a subset of {"prepare", "commit", "rollback"}

ASSUME None \notin Vals /\ Src # Dst
ASSUME Faults \subseteq {"prepare", "commit", "rollback"}

Keys == {Src, Dst}
Value == Vals \cup {None}
\* replies: status "OK", integer replies ":1" / ":0", an error reply "err"
Success == {"OK", ":1"}

VARIABLES
    store,      \* key -> value, each key held by its owner node
    before,     \* the store when the command arrived (history)
    owner,      \* PickNode(GetSlot(key)) for both keys
    coord,      \* the node executing execRename / execRenameNx
    cmd,        \* "rename" or "renamenx"
    part,       \* node -> participant record of this transaction
    pc,         \* coordinator position
    dump,       \* value returned by the source's Prepare RenameFrom
    toCommit,   \* route-map nodes not yet committed
    toRollback, \* nodes requestRollback has still to send rollback to
    result      \* reply returned to the client

vars == <<store, before, owner, coord, cmd, part, pc, dump, toCommit, toRollback, result>>

NoTx == [st |-> "none", key |-> None, val |-> None, undo |-> None]
Participant == [st : {"none", "prepared", "committed", "rolledback"},
                key : Keys \cup {None}, val : Value, undo : Value]

\* srcNode and targetNode: PickNode(GetSlot(key)); RouteNodes is the key
\* set of routeMap, the nodes that commit and roll back.
SrcNode == owner[Src]
TargetNode == owner[Dst]
RouteNodes == {SrcNode, TargetNode}

\* cluster.Relay(node, ...): what can happen to one request.
\* "delivered": executed and the reply seen; "lost_request": never
\* executed, an error reply; "lost_reply": executed, an error reply.
Outcomes(n, kind) ==
    IF n # coord /\ kind \in Faults
    THEN {"delivered", "lost_request", "lost_reply"}
    ELSE {"delivered"}

Executed(o) == o # "lost_request"

\* prepareRenameFrom: Exists(key) = 0 answers "ERR no such key", otherwise
\* the key is dumped under the lock.
RenameFromOK(st) == st[Src] # None

\* prepareRenameNxTo: an existing destination answers "key exists"; the
\* plain rename's target prepare accepts (spec, section 4.3).
RenameToOK(st) == cmd = "rename" \/ st[Dst] = None

-----------------------------------------------------------------------------
Init ==
    /\ before \in [Keys -> Value]
    /\ store = before
    /\ owner \in [Keys -> Nodes]
    /\ coord \in Nodes
    /\ cmd \in {"rename", "renamenx"}
    /\ part = [n \in Nodes |-> NoTx]
    /\ pc = "start"
    /\ dump = None
    /\ toCommit = {}
    /\ toRollback = {}
    /\ result = None

\* requestRollback(cluster, c, txID, m): send rollback to every node of m.
RequestRollback(nodes, res) ==
    /\ pc' = "rollback"
    /\ toRollback' = nodes
    /\ result' = res

\* srcNode == targetNode: cmdLine[0] is set to "rename" (by execRenameNx as
\* well) and relayed to the owner, which runs the local rename atomically.
ExecLocal ==
    /\ pc = "start"
    /\ SrcNode = TargetNode
    /\ IF store[Src] = None
       THEN /\ result' = "err"
            /\ UNCHANGED store
       ELSE /\ store' = [store EXCEPT ![Dst] = store[Src], ![Src] = None]
            /\ result' = "OK"
    /\ pc' = "done"
    /\ UNCHANGED <<before, owner, coord, cmd, part, dump, toCommit, toRollback>>

\* Prepare RenameFrom at the source: prepareRenameFrom fails with "no such
\* key" unless the key exists, else stages the delete and returns DumpKey.
PrepareFrom ==
    /\ pc = "start"
    /\ SrcNode # TargetNode
    /\ \E o \in Outcomes(SrcNode, "prepare") :
          LET ok == RenameFromOK(store)
          IN  /\ part' = IF Executed(o) /\ ok
                         THEN [part EXCEPT ![SrcNode] =
                                 [st |-> "prepared", key |-> Src, val |-> None, undo |-> None]]
                         ELSE part
              /\ IF o = "delivered" /\ ok
                 THEN /\ pc' = "prepare_to"
                      /\ dump' = store[Src]
                      /\ UNCHANGED <<toRollback, result>>
                 ELSE /\ RequestRollback({SrcNode}, "err")
                      /\ UNCHANGED dump
    /\ UNCHANGED <<store, before, owner, coord, cmd, toCommit>>

\* mutant: on a failed target prepare only the source is rolled back
PrepareToRollbackSrc ==
    /\ pc = "prepare_to"
    /\ \E o \in Outcomes(TargetNode, "prepare") :
          LET ok == RenameToOK(store)
          IN  /\ part' = IF Executed(o) /\ ok
                         THEN [part EXCEPT ![TargetNode] =
                                 [st |-> "prepared", key |-> Dst, val |-> dump, undo |-> None]]
                         ELSE part
              /\ IF o = "delivered" /\ ok
                 THEN /\ pc' = "commit"
                      /\ toCommit' = RouteNodes
                      /\ UNCHANGED <<toRollback, result>>
                 ELSE /\ RequestRollback({SrcNode},
                            IF o = "delivered" THEN ":0" ELSE "err")
                      /\ UNCHANGED toCommit
    /\ UNCHANGED <<store, before, owner, coord, cmd, dump>>

\* mutant: the "key exists" error reply is returned as is
PrepareToRawReply ==
    /\ pc = "prepare_to"
    /\ \E o \in Outcomes(TargetNode, "prepare") :
          LET ok == RenameToOK(store)
          IN  /\ part' = IF Executed(o) /\ ok
                         THEN [part EXCEPT ![TargetNode] =
                                 [st |-> "prepared", key |-> Dst, val |-> dump, undo |-> None]]
                         ELSE part
              /\ IF o = "delivered" /\ ok
                 THEN /\ pc' = "commit"
                      /\ toCommit' = RouteNodes
                      /\ UNCHANGED <<toRollback, result>>
                 ELSE /\ RequestRollback(RouteNodes,
                            IF o = "delivered" THEN "key exists" ELSE "err")
                      /\ UNCHANGED toCommit
    /\ UNCHANGED <<store, before, owner, coord, cmd, dump>>

\* execRenameNx's reply to a failed target prepare, after the rollback:
\* the "key exists" error becomes 0, any other error is returned as is.
TargetPrepareReply(o) == IF o = "delivered" THEN ":0" ELSE "err"

\* Prepare RenameTo / RenameNxTo at the target with the dumped value; on an
\* error reply the whole route map is rolled back.  Only prepareRenameNxTo
\* can refuse a delivered prepare ("key exists").
PrepareTo ==
    /\ pc = "prepare_to"
    /\ \E o \in Outcomes(TargetNode, "prepare") :
          LET ok == RenameToOK(store)
          IN  /\ part' = IF Executed(o) /\ ok
                         THEN [part EXCEPT ![TargetNode] =
                                 [st |-> "prepared", key |-> Dst, val |-> dump, undo |-> None]]
                         ELSE part
              /\ IF o = "delivered" /\ ok
                 THEN /\ pc' = "commit"
                      /\ toCommit' = RouteNodes
                      /\ UNCHANGED <<toRollback, result>>
                 ELSE /\ RequestRollback(RouteNodes, TargetPrepareReply(o))
                      /\ UNCHANGED toCommit
    /\ UNCHANGED <<store, before, owner, coord, cmd, dump>>

\* mutant: a failed commit relay is ignored and the loop goes on
CommitIgnoreError(n) ==
    /\ pc = "commit"
    /\ n \in toCommit
    /\ \E o \in Outcomes(n, "commit") :
          LET p == part[n]
              ok == p.st = "prepared"
          IN  /\ IF Executed(o) /\ ok
                 THEN /\ store' = [store EXCEPT ![p.key] = p.val]
                      /\ part' = [part EXCEPT ![n] = [p EXCEPT !.st = "committed",
                                                              !.undo = store[p.key]]]
                 ELSE UNCHANGED <<store, part>>
              /\ toCommit' = toCommit \ {n}
              /\ IF toCommit' = {}
                 THEN pc' = "done" /\ result' = IF cmd = "rename" THEN "OK" ELSE ":1"
                 ELSE UNCHANGED <<pc, result>>
              /\ UNCHANGED toRollback
    /\ UNCHANGED <<before, owner, coord, cmd, dump>>

\* One iteration of the commit loop "for node := range routeMap" (Go map
\* order: any remaining node).  A participant commits only a prepared
\* transaction; an error reply requests rollback of the whole route map.
Commit(n) ==
    /\ pc = "commit"
    /\ n \in toCommit
    /\ \E o \in Outcomes(n, "commit") :
          LET p == part[n]
              ok == p.st = "prepared"
          IN  /\ IF Executed(o) /\ ok
                 THEN /\ store' = [store EXCEPT ![p.key] = p.val]
                      /\ part' = [part EXCEPT ![n] = [p EXCEPT !.st = "committed",
                                                              !.undo = store[p.key]]]
                 ELSE UNCHANGED <<store, part>>
              /\ IF o = "delivered" /\ ok
                 THEN /\ toCommit' = toCommit \ {n}
                      /\ IF toCommit' = {}
                         THEN pc' = "done" /\ result' = IF cmd = "rename" THEN "OK" ELSE ":1"
                         ELSE UNCHANGED <<pc, result>>
                      /\ UNCHANGED toRollback
                 ELSE /\ RequestRollback(RouteNodes, "err")
                      /\ UNCHANGED toCommit
    /\ UNCHANGED <<before, owner, coord, cmd, dump>>

\* One rollback relay of requestRollback; its reply is ignored.  The
\* participant discards a staged transaction, reverts an applied one, and
\* does nothing if it never prepared.
Rollback(n) ==
    /\ pc = "rollback"
    /\ n \in toRollback
    /\ \E o \in Outcomes(n, "rollback") :
          LET p == part[n]
          IN  IF Executed(o) /\ p.st \in {"prepared", "committed"}
              THEN /\ store' = IF p.st = "committed"
                               THEN [store EXCEPT ![p.key] = p.undo]
                               ELSE store
                   /\ part' = [part EXCEPT ![n].st = "rolledback"]
              ELSE UNCHANGED <<store, part>>
    /\ toRollback' = toRollback \ {n}
    /\ pc' = IF toRollback' = {} THEN "done" ELSE pc
    /\ UNCHANGED <<before, owner, coord, cmd, dump, toCommit, result>>

Next ==
    \/ ExecLocal
    \/ PrepareFrom
    \/ PrepareTo
    \/ \E n \in Nodes : Commit(n) \/ Rollback(n)

\* execRename / execRenameNx is one goroutine that runs to its return: each
\* relay comes back (a lost message surfaces as an error reply), so the
\* coordinator keeps taking its next step.
Spec == Init /\ [][Next]_vars

-----------------------------------------------------------------------------
(* Properties                                                              *)

TypeOK ==
    /\ store \in [Keys -> Value] /\ before \in [Keys -> Value]
    /\ owner \in [Keys -> Nodes] /\ coord \in Nodes
    /\ cmd \in {"rename", "renamenx"}
    /\ part \in [Nodes -> Participant]
    /\ pc \in {"start", "prepare_to", "commit", "rollback", "done"}
    /\ dump \in Value
    /\ toCommit \subseteq Nodes /\ toRollback \subseteq Nodes
    /\ result \in {None, "OK", "err", ":0", ":1"}

\* The refinement mapping: the client observes the keys and the reply only
\* once the coordinator has answered; until then it sees the keys as they
\* were.  The same-node path is a single relayed local command, not the
\* exchange, and maps to stuttering (RenameNxNoOverwrite is about it).
CrossNode == SrcNode # TargetNode

Atomic == INSTANCE AtomicRename WITH
              kv <- IF pc = "done" /\ CrossNode THEN store ELSE before,
              answer <- IF pc = "done" /\ CrossNode THEN result ELSE None,
              op <- cmd

\* The TCC exchange of execRename / execRenameNx implements an atomic
\* rename: whatever prepare and commit relays are lost, the answer and the
\* keys the client then sees are those of one all-or-nothing step (spec,
\* sections 4.3 and 8): a success moved the value, ":0" only for a taken
\* destination, any error left both keys as they were.
AtomicRenameRefined == Atomic!Spec

\* Once the coordinator has answered, no participant still holds a staged
\* (prepared) transaction, and participants agree with the answer: all
\* route-map nodes committed on success, none kept a commit otherwise.
NoStagedTxLeft ==
    pc = "done" =>
        \A n \in Nodes :
            /\ part[n].st # "prepared"
            /\ result \notin Success => part[n].st # "committed"

\* RENAMENX against an existing destination changes neither key and
\* answers 0, not an error (spec, section 8).
RenameNxNoOverwrite ==
    (pc = "done" /\ cmd = "renamenx" /\ before[Dst] # None) =>
        /\ store = before
        /\ result = ":0"
=============================================================================
