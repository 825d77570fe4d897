# TLA+ models of the cluster coordination layer

These modules model the cluster layer of the Redis clone in `src/cluster/`.
That layer covers four things: the leader's slot rebalance planner, master
failure detection and promotion, migration's route change, and the cross-node RENAME / RENAMENX built
on a try/confirm/cancel (TCC) exchange. It also has the per-peer connection
pool.

Each module is translated from the Go source. Some collaborators are not
under `src/`: the Raft FSM (`Node2Slot`, `MasterSlaves`, the migrating-task
table), the TCC participant's transaction table, `Cluster.Relay`, and the
migration import/export. These are modelled from `spec.md` and marked
`spec_modelled` in `PROJECT.json`.

`AtomicRename` is an abstract specification of what a RENAME / RENAMENX
promises its client: a single all-or-nothing step. `Rename` is checked to
implement it.

`StdServer` models the standalone front end's `Handler`
(`redis/server/std/server.go`): its connection handlers and its shutdown.

## The system and how its parts interact

| Part | Source | Role |
|---|---|---|
| Rebalance planner | `cluster/core/node_manager.go` | The leader computes a plan of migrating tasks from the committed `Node2Slot` and proposes `EventStartMigrate` for each task. |
| Migration route change | `node_manager.go` `execMigrationChangeRoute`, `waitCommitted` | The leader proposes `EventFinishMigrate` and polls source and target until both have applied it. |
| Failover manager | `cluster/core/replica_manager.go` | Nodes heartbeat to the leader. The leader times out masters, promotes `Slaves[0]` and proposes `EventFinishFailover`. Every node's callback reparents it. |
| TCC rename | `cluster/commands/rename.go`, `tcc_utils.go` | The coordinator relays Prepare RenameFrom, Prepare RenameTo/RenameNxTo, then commit to each node. It sends rollback on any error. |
| Peer connections | `cluster/core/connection.go` | Keeps one pool per peer address in a dict. Borrow, return, streams. |
| Std front end | `redis/server/std/server.go` | One `Handle` goroutine per connection stores the client in `activeConn` and executes its commands on the database. `Close` sets `closing`, closes the stored clients and closes the database. |
| gnet front end, config, dict, pubsub | `redis/server/gnet`, `config`, `datastruct/dict`, `pubsub` | An event loop with an atomic connection counter, file parsing, sequential containers. |

The parts interact through the consensus log. Every topology change (join,
migration finish, failover finish) is an entry that each node's FSM applies
in log order. Apart from the log they interact through relayed commands over
pooled connections, which can fail or lose a reply.

## Modules

### `RebalancePlan` (with `MCRebalancePlan`)

| State | Code |
|---|---|
| `node2slot` | `fsm.Node2Slot` |
| `pending` | Tasks whose `EventStartMigrate` was proposed and that have not finished. |
| `lastPlan` | The last plan, with the table it was computed from. |
| `passes` | Counts the passes that started a task (a model bound). |

- `MakeRebalancePlan(n2s, order)` and the RECURSIVE `PlanLoop` translate
  `makeRebalancePlan` line by line: `exportIndex`/`importIndex`, the
  `exportSlots` refill (`ExportSlots`) and both branches of the pairing.
- `order` is the iteration order of the Go map `fsm.MasterSlaves`, taken over
  all permutations (`SetToSeqs`).
- `DoRebalance` is `doRebalance` together with `triggerMigrationTask`. Every
  Propose may fail, and a failure drops that task.
- `FinishMigrate` is the FSM applying `EventFinishMigrate` (spec-modelled).
- `Init` is every distribution of the slots in contiguous ranges.

### `Rename` (with `MCRename`)

This module covers one RENAME or RENAMENX.

| State | Meaning |
|---|---|
| `store` | The keys' values. |
| `before` | The keys' values when the command arrived. |
| `owner` | `PickNode(GetSlot(key))`. |
| `coord` | The node running the command. |
| `part` | Each participant's transaction record. |
| `pc` | The coordinator's position in `execRename`/`execRenameNx`. |
| `toCommit` | The state of the `range routeMap` commit loop. |
| `toRollback` | The state of the `requestRollback` loop. |

The actions are `ExecLocal`, `PrepareFrom`, `PrepareTo`, `Commit(n)` and
`Rollback(n)`. `TargetPrepareReply` is `execRenameNx`'s conversion of the
target's "key exists" error into `0`.

`Outcomes(n, kind)` models `Cluster.Relay` and has three outcomes:
- delivered;
- request lost, so nothing executed and the caller sees an error;
- reply lost, so the request executed and the caller sees an error.

A relay to the coordinator itself is always delivered, and `Faults` says which
relay kinds may fail. The participant semantics (prepare stages, commit
applies, rollback reverts whatever was staged or applied and is a no-op
elsewhere) follow spec section 4.3.

**Refinement.** `Atomic == INSTANCE AtomicRename WITH ...` maps the
exchange onto the abstract command:
- the client sees `store` and `result` once the coordinator is at `done`;
- before that it sees `before` and no answer;
- the same-node path is one relayed local command and maps to stuttering.

The run checks `AtomicRenameRefined == Atomic!Spec` as a temporal property.
It fails if any reachable behaviour answers success without moving the
value, answers `:0` for a free destination, or answers an error with a key
changed.

### `Migration` (with `MCMigration`)

This module covers one migrating task from `Src` to `Tgt`, with `Leader` as the consensus leader.

| State | Meaning |
|---|---|
| `log` | The committed `EventStartMigrate`/`EventFinishMigrate` entries of this task. |
| `applied` | How many of those entries each node's FSM has applied. |
| `trig` | The progress of `triggerMigrationTask`. |
| `tgt`, `src` | The target's import and the source's export (spec-modelled, section 4.4). |
| `h` | The leader's `execMigrationChangeRoute`: program counter, wait index and loop count of `waitCommitted`. |
| `reply` | What the source got back. |
| `down` | The source or target if it crashed. |
| `fwd` | Whether the changeroute call was forwarded by a follower. |
| `members` | The raft group (`AddToRaft`). |
| `j`, `jreply` | The leader's `execJoin` for one joining node, and its reply. |

The actions:
- `ProposeStart` and `SendStart`: `triggerMigrationTask`. The Propose may fail, and the start command may be lost.
- `BeginExport`: the target opens `NewStream` to the source (from the code).
  The dial, the AUTH or the write of the command may fail, and the import
  then fails. The source serves the export only once its FSM holds the task.
- `RequestChangeRoute`: the source calls the cluster. `Routes` gives how the
  call reaches the leader's handler. Either the leader receives it, or a
  follower's `BorrowLeaderClient` succeeds and it forwards the call, or the
  borrow fails and the follower answers the error itself. A forwarded reply
  may be lost (`Answer`).
- `LookupTask`: the task lookup in the leader's FSM.
- `ProposeFinish`: may fail.
- `WaitCommitted`: one iteration of the polling loop. The borrow fails at once; a peer that answers below the index or errors is polled again, up to `MaxPolls`, then "wait committed timeout".
- `RequestJoin`, `JoinAddToRaft` and `JoinPropose` are `execJoin`. It is
  received by the leader or forwarded the same way. Then come `AddToRaft`
  and the Propose of `EventJoin`, which share the log with the migration.
  A failed Propose answers an error and leaves the joiner in `members`
  (the code's "todo: remove the node from raft").
- `Apply(n)` and `Crash(n)`.

### `PeerPool` (with `MCPeerPool`)

This module covers one peer address borrowed by concurrent tasks (`Tasks`).

| State | Meaning |
|---|---|
| `reg` | `nodeConnections[peerAddr]`. |
| `pools` | Every pool ever created, with its active count, idle clients and closed flag. |
| `conns` | Every connection ever opened, open or closed. |
| `pc`, `tp`, `tc` | Each task's place in the call, its local `connectionPool` and its client. |
| `closed` | Whether `factory.Close` has run. |

The actions:
- `Init` is `newDefaultClientFactory`: no pool registered.
- `Lookup`, `CreatePool` and `PoolGet` are the three steps of `BorrowPeerClient`. The dict Get, then on a miss `pool.New` and the dict Put, then `connectionPool.Get`.
- `Return` is `ReturnPeerClient`. It looks the pool up again and Puts into it.
- `Close` is `factory.Close`.

The pool is not under `src/` and is modelled from spec section 2:
- Get: idle first, then a new connection below `MaxActive`, and otherwise
  blocked. The connection comes from `NewPeerClient` (from the code). The
  dial may fail. With `RequirePass`, a refused AUTH returns the error and
  leaves the started client open and in no pool.
- Put: idle up to `MaxIdle`, otherwise finalized.
- Close: finalizes idle clients.

The finalizer is the one `BorrowPeerClient` passes to `pool.New`
(connection.go:78-85). `Finalize` models what it really does. It asserts
`client.Client`, but the pool holds `*client.Client` (line 95), so the
assertion fails and it returns before `cli.Close()`. A finalized client
therefore stays connected, and no pool counts it.

The dict is taken to be the concurrent one, with atomic Get and Put.

### `Failover` (with `MCFailover`)

| State | Meaning |
|---|---|
| `alive` | Which nodes are up. |
| `leader` | The consensus leader. |
| `hb` | Each node's own `masterHeartbeats`, as an age in ticks (capped at `Timeout+1`) and whether `Second()==0`. |
| `log` | The committed `EventFinishFailover` entries. |
| `applied` | Each node's applied index. |
| `role` | `"master"` or the node this node replicates. |
| `fo` | The leader's failover job, in `timeoutMasters` order. |
| `crashed` | History: the nodes that have crashed at least once. |

The actions:
- `Heartbeat(n)`: `sendHearbeat` together with `execHeartbeat`.
- `Tick`: time passes.
- `DoFailoverCheck`: includes the `Second()==0` reset under the read lock.
- `PromoteSlave`: `slaveof no one` to `Slaves[0]`. With `LossyRelay`, the
  send can fail before the command runs, or lose its reply after it ran
  (`SendOutcomes`). Both give an error reply and `triggerFailover`
  returns.
- `ProposeFailover`: it commits only at the live current leader.
- `ApplyEntry(n)`: the FSM applies an entry and the `registerOnFailover`
  callback runs.
- `Crash(n)`, `Restart(n)` and `ElectLeader(n)` model the environment.
  With `ElectOnLeaderCrash` a new leader is elected only when the leader
  is down (Raft on a healthy network). Without it, leadership can also
  move off a live leader, as a partition does.

`MasterSlavesAt(k)` is the FSM table after `k` entries (spec-modelled).
`Init` is `newReplicaManager` on every node, so no heartbeat is recorded
yet.

### `StdServer` (with `MCStdServer`)

| State | Meaning |
|---|---|
| `closing` | `Handler.closing`. |
| `active` | The clients stored in `activeConn`. |
| `hpc` | Where each connection's `Handle` goroutine is: the closing check, the `Store`, the payload loop, returned. |
| `sock` | Whether the server has closed the connection. |
| `hungup` | Whether the peer has closed its end. |
| `reqs` | Commands executed per client (bounded by `MaxRequests`). |
| `cpc`, `dbClosed` | Where `Close` is, and whether `db.Close` has run. |

The actions:
- `CheckClosing(c)`: lines 65-69. A closing handler closes the connection
  and returns.
- `StoreClient(c)`: `NewConn` and `activeConn.Store`.
- `ExecRequest(c)`: a multibulk payload runs `db.Exec` and the reply is
  written. Empty and non-multibulk payloads are skipped and change nothing.
- `ProtocolError(c)`: the error reply is written. A failed write (the peer
  is gone) runs `closeClient` and returns.
- `ConnectionClosed(c)`: EOF or "use of closed network connection" runs
  `closeClient` (`CloseClient(c)`: close, `AfterClientClose`, `Delete`).
- `HangUp(c)`: the peer closes its end (environment).
- `BeginClose`, `CloseActive`, `CloseDB`: the three steps of `Close`.

Every connection's goroutine starts at the closing check, as for a
connection accepted just before shutdown. The parser, the listener and the
database are not under `redis/server/std`. A payload is reduced to its
kind, and the database to the calls the handler makes.

## Runs and what they show

| Run | Expect | Shows |
|---|---|---|
| `rebalance` | pass | Over all 12-slot distributions on 4 masters and all map orders, planned tasks are never empty. |
| `rebalance_duplicate_slots` | violation | When an importer consumes `exportSlots` exactly, the refill re-takes the same exporter's first slots. A slot is then planned to two importers. |
| `rebalance_overfill` | violation | After a partial task the importer's deficit is recomputed from its old size. It receives too much (0 → 5 with avg 3), against spec section 8's ±1. |
| `migration` | pass | Propose failures, a lost start command, forwarding by a follower with lost replies, a concurrent join and a crash of source or target are all allowed. The route change is answered OK only after both source and target have applied `EventFinishMigrate`, and every changeroute call returns. |
| `rename` | pass | Prepare and commit relays may be lost, and rollback relays are delivered. Under these faults the cross-node exchange refines `AtomicRename`, and no participant stays staged. |
| `renamenx_same_node` | violation | A same-node RENAMENX is relayed as plain `rename` (rename.go:93) and overwrites the destination. |
| `rename_lost_rollback` | violation | `requestRollback` ignores replies and never retries. After RENAMENX gets "key exists", a lost rollback leaves the source participant prepared, against spec section 8. |
| `peerpool_bound` | violation | Two first borrows race between the dict Get and the Put. Each registers its own pool, so two connections are open to one peer with `MaxActive = 1` (connection.go:73-87). |
| `failover` | pass | Checks one replica set with one crash and heartbeats on time. If the crash hits the leader, another node is elected. Replication always agrees with the committed topology once a node has applied the log, including after restarts. A dead master the leader has heard from is eventually replaced. |
| `failover_reelect` | violation | A node regaining leadership uses its stale heartbeat map and fails over a live master. |
| `std_shutdown` | violation | A `Handle` goroutine reads `closing` as false. `Close` then sets it, ranges over `activeConn` and closes the database before the goroutine stores its client. `Close` returns with that client registered and its connection open, and the client keeps executing commands. This contradicts the field comment "refusing new client and new request" (server.go:34). |
| `failover_orphan` | violation | With `LossyRelay`, the reply to `slaveof no one` is lost after the slave ran it. `triggerFailover` returns without a Propose, and the promoted slave stays a master the topology does not list. A leader change before the Propose ends the same way. |

`PROJECT.json` lists a mutant for every property of every passing run. Each
mutant is a plausible bug in the mapped code, and the property catches it. The
list, with the mutation for each:

| Property | Mutation |
|---|---|
| `TasksNonEmpty` | Importer threshold `<= avg`. |
| `ChangeRouteConfirmed` | The loop ends with `return nil` after `MaxPolls`. |
| `ChangeRouteReturns` | The loop without its bound. |
| `AtomicRenameRefined` | The commit error is ignored. |
| `NoStagedTxLeft` | Rollback only the source after a failed target prepare. |
| `ReplicationFollowsTopology` | The callback without the `!= SelfID` test. |
| `HeardMasterReplaced` | `lastTime.After(ddl)` in place of `Before`. |
| `TypeOK` | Off-by-one slot numbering, the wait index one past the proposal, the raw "key exists" reply, and "no one" taken as a host. |

## Bounds

- **Rebalance.** 4 masters and 12 slots give avg 3, which is the smallest
  setting where both planner bugs appear (6,6,0,0 and 0,…). One pass may
  start tasks (`MaxPasses = 1`); passes whose Proposes all fail are
  unbounded. Two starting passes take more than five minutes.
- **Rename.** 3 nodes, so the coordinator can be neither participant. 2
  values, and every placement of the two keys.
- **Failover.** 3 nodes, `Timeout = 1` tick in the passing run and 2 in the
  violation runs, at most 1 crash, at most 2 failover entries, and 1–2
  elections depending on the run. The passing run elects only after a
  leader crash. `Timeout = 2` there gives four times the states (each
  live and dead leader's heartbeat map ages on its own), which takes more
  than five minutes.
  `SyncHeartbeats` forbids time passing while a live node's entry at the
  leader is about to expire. That is the "network is healthy" assumption
  under which `NoLiveMasterFailedOver` is meant to hold; `failover_reelect`
  shows it failing anyway. `LossyRelay` is off in the passing run, so that
  its liveness property does not rest on promotion eventually succeeding.

- **PeerPool.** 2 tasks, one borrow each, and `MaxActive = MaxIdle = 1`.
  This is the smallest setting in which the race shows. The run stops after
  the borrows, so it does not check deadlock.
- **StdServer.** 2 connections with at most 1 command each. One connection
  is enough for the shutdown race. The second lets a refused connection
  and a served one occur in one behaviour. The server stops after `Close`,
  so the run does not check deadlock.
- **Migration.** 3 nodes, `MaxPolls = 2` (the code has 50; two iterations
  are enough for a poll that fails and a poll that times out), and at most
  one crash. There is one joining node, so a join's entry can land before
  or after the migration's entries.

## Fairness

`Rename`: no fairness. Its properties are safety properties, and the
refinement is of `AtomicRename`, which has none either. Termination of the
coordinator would hold by construction: every relay is abstracted to an
outcome that returns. So no property asks for it.

`Migration`: weak fairness on every FSM's `Apply` and on the handler's own
steps (`LookupTask`, `ProposeFinish`, `WaitCommitted`, `JoinAddToRaft`,
`JoinPropose`). An RPC handler runs to its return once called. The source's export and the crash are not fair.

`Failover`:
- Weak fairness covers `Heartbeat(n)`, `Tick` and `DoFailoverCheck`, which
  are timer jobs in the code.
- It covers `PromoteSlave` and `ProposeFailover`, because `triggerFailover`
  runs to completion once called.
- It covers `ApplyEntry(n)`, because the FSM applies every committed entry.
- It covers electing a replacement when the leader is down (Raft).
- Crashes, restarts and other elections are not fair.

## Not modelled (yet)

- **Properties that would hold by construction.** Three properties are not
  checked, because the model makes each of them hold whatever the code does:
  - that a rename command is always answered;
  - that a logged join is always a raft member;
  - that an exporter keeps `avgSlot`.
  The hazards they would speak to have the properties that do catch them,
  or a note saying why none does. For the same reason, the passing
  `failover` run does not check `NoLiveMasterFailedOver`: with heartbeats
  on time and no return to an earlier leader it only restates the strict
  deadline. `failover_reelect` checks it where it can fail.
- **`NewStream`'s error paths.** Dial, AUTH and write errors are merged into
  one failed outcome. The connection they leak is not counted, because
  nothing else in the model reads it.

- **Overlapping rebalance passes.** A composition of `Migration` with
  `RebalancePlan` is not modelled. It would cover several tasks in flight
  when a second pass plans.
- **Peer pool follow-ups.** Two hazards share the registry race's root
  cause. A replaced pool is never closed by `Close`. A waiter in a replaced
  pool is never woken. Both are listed as hazards with the property that
  would catch each. The `peerpool_bound` run uses the default empty
  password, so the AUTH leak of `NewPeerClient` is modelled but no run
  exercises it. `NewStream` (connection.go:130-164) is used only by the
  import side of migration, which is not under `src/`. Its leak on a failed
  AUTH is listed as a hazard.
- **A leader change around a master's death.** If a master and the leader
  both crash, or leadership moves off a live leader, `HeardMasterReplaced`
  fails: a new leader never heard the dead master, so
  it never times it out (masterHeartbeats lives only in the leader's memory).
  This is listed as a hazard. No run covers it, because TLC reports one
  counterexample per run and the runs go to distinct questions.
- **A dead first slave.** With two crashes, `HeardMasterReplaced` fails
  because `triggerFailover` always picks `Slaves[0]`. Spec section 4.5
  prescribes that choice, so it is listed as a hazard, not a run.
- **The callback across replica sets.** With two replica sets, the
  `registerOnFailover` callback as modelled makes the master of the other set
  a slave of the new master (ReplicationFollowsTopology fails). Which nodes
  the FSM calls it on is decided outside `src/`, so no run asserts this; it
  is listed as a hazard.
- **The std server's parser read-ahead.** `StdServer` executes a command
  only while the connection is open. The parser (`redis/parser`) is not
  under `src/`, so a command it read before `Close` closed the socket is
  not modelled. The command run on the closed database by a client that
  escaped `Close` is in the `std_shutdown` trace.
- **Configuration parsing, the simple dict, the gnet front end and the
  pub/sub constructor.** These are I/O, a connection counter, or sequential
  containers, with nothing for TLC to check.
