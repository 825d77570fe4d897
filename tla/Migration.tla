------------------------------ MODULE Migration ------------------------------
(***************************************************************************)
(* One migrating task from Src to Tgt, cluster/core/node_manager.go.       *)
(*                                                                         *)
(* The leader's triggerMigrationTask proposes EventStartMigrate and sends  *)
(* the start command to the target.  The import/export between target and *)
(* source is not under src/ and is modelled from spec section 4.4: the     *)
(* source can export only once its FSM holds the task, and after the dirty *)
(* keys it asks the leader to change the route.  The leader's              *)
(* execMigrationChangeRoute looks the task up in its FSM, proposes         *)
(* EventFinishMigrate and runs waitCommitted for the source, then for the  *)
(* target: each a bounded loop polling the peer's applied log index, whose *)
(* reply may be an error.  Every node's FSM applies the committed log in   *)
(* order, at its own pace.                                                 *)
(*                                                                         *)
(* execJoin, the other leader handler of this file, shares the log: the    *)
(* joining node is added to the raft group, then EventJoin is proposed.    *)
(* Both handlers, called at a node that is not the leader, forward the     *)
(* command to the leader over a borrowed connection, whose borrow may fail *)
(* and whose reply may be lost.                                            *)
(***************************************************************************)
EXTENDS Naturals, Sequences, SequencesExt

CONSTANTS
    Leader, Src, Tgt,  \* the consensus leader, the task's source and target
    Joiner,            \* a node asking to join the cluster
    MaxPolls,          \* waitCommitted's loop bound (50 in the code)
    None               \* model value: no reply

ASSUME MaxPolls \in Nat \ {0}

Nodes == {Leader, Src, Tgt}
Entry == {"start", "finish", "join"}

VARIABLES
    log,       \* committed entries of this task, in log order
    applied,   \* node -> number of entries its FSM has applied
    trig,      \* triggerMigrationTask progress at the leader
    tgt,       \* the target's import: "idle", "importing", "failed"
    src,       \* the source: "idle", "exporting", "waiting", "done", "failed"
    h,         \* the leader's changeroute handler: [pc, idx, polls]
    reply,     \* the reply the source got from changeroute
    down,      \* source or target nodes that have crashed
    members,   \* the raft group
    j,         \* the leader's execJoin: [pc, fwd]
    jreply,    \* the reply the joining node got
    fwd        \* the changeroute call reached the leader forwarded

vars == <<log, applied, trig, tgt, src, h, reply, down, members, j, jreply, fwd>>
jvars == <<members, j, jreply>>

\* the entries n's FSM has applied
AppliedAt(n) == Range(SubSeq(log, 1, applied[n]))

\* FSM.GetMigratingTask on n: created by EventStartMigrate, destroyed by
\* EventFinishMigrate (spec, section 3)
HasTask(n) == "start" \in AppliedAt(n) /\ "finish" \notin AppliedAt(n)

-----------------------------------------------------------------------------
Init ==
    /\ log = << >>
    /\ applied = [n \in Nodes |-> 0]
    /\ trig = "idle"
    /\ tgt = "idle"
    /\ src = "idle"
    /\ h = [pc |-> "idle", idx |-> 0, polls |-> 0]
    /\ reply = None
    /\ down = {}
    /\ members = Nodes
    /\ j = [pc |-> "idle", fwd |-> FALSE]
    /\ jreply = None
    /\ fwd = FALSE

\* raftNode.Propose: committed and applied by the leader's FSM on success.
Propose(e) ==
    /\ log' = Append(log, e)
    /\ applied' = [applied EXCEPT ![Leader] = Len(log) + 1]

\* triggerMigrationTask, the Propose of EventStartMigrate: an error returns.
ProposeStart ==
    /\ trig = "idle"
    /\ \/ Propose("start") /\ trig' = "proposed"
       \/ trig' = "failed" /\ UNCHANGED <<log, applied>>
    /\ UNCHANGED <<tgt, src, h, reply, down, jvars, fwd>>

\* triggerMigrationTask, the start command to the target: if the request
\* is lost the target never imports; the returned error is only logged.
SendStart ==
    /\ trig = "proposed"
    /\ trig' = "sent"
    /\ tgt' \in IF Tgt \in down THEN {tgt} ELSE {"importing", tgt}
    /\ UNCHANGED <<log, applied, src, h, reply, down, jvars, fwd>>

\* NewStream(source, export command) at the target: net.Dial, the AUTH
\* exchange when a password is configured, or the write of the command
\* may fail, and the error is returned to the import.
NewStream == {"ok", "error"}

\* The target's export request reaches the source (spec-modelled): the
\* source serves it only if its FSM already holds the task.
BeginExport ==
    /\ tgt = "importing" /\ src = "idle"
    /\ Src \notin down
    /\ \E s \in NewStream :
          \/ s = "error" /\ tgt' = "failed" /\ UNCHANGED src
          \/ s = "ok" /\ HasTask(Src) /\ src' = "exporting" /\ UNCHANGED tgt
          \/ s = "ok" /\ ~HasTask(Src) /\ tgt' = "failed" /\ UNCHANGED src
    /\ UNCHANGED <<log, applied, trig, h, reply, down, jvars, fwd>>

\* How a leader-only command reaches the leader's handler: it is received
\* by the leader, or a follower's BorrowLeaderClient (GetLeaderRedisAddress,
\* BorrowPeerClient) succeeds and it is forwarded with Send, or the borrow
\* fails and the follower answers the error itself.
Routes == {"leader", "forwarded", "borrow_failed"}

\* After the dump and the dirty keys the source sends
\* cluster.migration.changeroute and waits for the reply.
RequestChangeRoute ==
    /\ src = "exporting" /\ h.pc = "idle"
    /\ Src \notin down
    /\ \E r \in Routes :
          IF r = "borrow_failed"
          THEN reply' = "ERR" /\ src' = "failed" /\ UNCHANGED <<h, fwd>>
          ELSE /\ fwd' = (r = "forwarded")
               /\ src' = "waiting"
               /\ h' = [h EXCEPT !.pc = "lookup"]
               /\ UNCHANGED reply
    /\ UNCHANGED <<log, applied, trig, tgt, down, jvars>>

\* The handler answers and returns; a forwarded reply may be lost on its
\* way back, and the source then sees an error.
Answer(r) ==
    /\ reply' \in IF fwd THEN {r, "ERR"} ELSE {r}
    /\ src' = IF reply' = "OK" THEN "done" ELSE "failed"
    /\ h' = [pc |-> "idle", idx |-> 0, polls |-> 0]

\* execMigrationChangeRoute: task == nil answers "ERR task not found".
LookupTask ==
    /\ h.pc = "lookup"
    /\ IF HasTask(Leader)
       THEN h' = [h EXCEPT !.pc = "propose"] /\ UNCHANGED <<reply, src>>
       ELSE Answer("ERR")
    /\ UNCHANGED <<log, applied, trig, tgt, down, jvars, fwd>>

\* mutant: the wait index taken one past the proposal's log index
ProposeFinishIndexOff ==
    /\ h.pc = "propose"
    /\ \/ /\ Propose("finish")
          /\ h' = [pc |-> "wait_src", idx |-> Len(log) + 2, polls |-> 0]
          /\ UNCHANGED <<reply, src>>
       \/ Answer("ERR") /\ UNCHANGED <<log, applied>>
    /\ UNCHANGED <<trig, tgt, down, jvars, fwd>>

\* Propose(EventFinishMigrate): an error answers "ERR ...".
ProposeFinish ==
    /\ h.pc = "propose"
    /\ \/ /\ Propose("finish")
          /\ h' = [pc |-> "wait_src", idx |-> Len(log) + 1, polls |-> 0]
          /\ UNCHANGED <<reply, src>>
       \/ Answer("ERR") /\ UNCHANGED <<log, applied>>
    /\ UNCHANGED <<trig, tgt, down, jvars, fwd>>

\* mutant: the loop ends with "return nil" instead of the timeout error
PollResultTimeoutOK(peer, next) ==
    \/ /\ peer \notin down /\ applied[peer] >= h.idx
       /\ IF next = "reply" THEN Answer("OK")
          ELSE h' = [h EXCEPT !.pc = next, !.polls = 0] /\ UNCHANGED <<reply, src>>
    \/ /\ h.polls + 1 < MaxPolls
       /\ h' = [h EXCEPT !.polls = @ + 1]
       /\ UNCHANGED <<reply, src>>
    \/ /\ h.polls + 1 = MaxPolls
       /\ IF next = "reply" THEN Answer("OK")
          ELSE h' = [h EXCEPT !.pc = next, !.polls = 0] /\ UNCHANGED <<reply, src>>

\* mutant: the loop polls until the peer answers, without a bound
PollResultUnbounded(peer, next) ==
    \/ /\ peer \notin down /\ applied[peer] >= h.idx
       /\ IF next = "reply" THEN Answer("OK")
          ELSE h' = [h EXCEPT !.pc = next, !.polls = 0] /\ UNCHANGED <<reply, src>>
    \/ /\ h.polls + 1 < MaxPolls
       /\ h' = [h EXCEPT !.polls = @ + 1]
       /\ UNCHANGED <<reply, src>>

\* One iteration of waitCommitted's loop: the reply is the peer's applied
\* index, or an error, always so from a crashed peer.  After MaxPolls
\* iterations it gives up with "wait committed timeout".
PollResult(peer, next) ==
    \/ /\ peer \notin down /\ applied[peer] >= h.idx
       /\ IF next = "reply" THEN Answer("OK")
          ELSE h' = [h EXCEPT !.pc = next, !.polls = 0] /\ UNCHANGED <<reply, src>>
    \/ /\ h.polls + 1 < MaxPolls
       /\ h' = [h EXCEPT !.polls = @ + 1]
       /\ UNCHANGED <<reply, src>>
    \/ /\ h.polls + 1 = MaxPolls
       /\ Answer("ERR")

\* waitCommitted(peer) before its loop: BorrowPeerClient failing answers
\* the error at once.
BorrowFailed ==
    h.polls = 0 /\ Answer("ERR")

\* execMigrationChangeRoute confirms the source, then the target, and
\* answers OK; any waitCommitted error is answered as "ERR ...".
WaitCommitted ==
    /\ \/ h.pc = "wait_src" /\ PollResult(Src, "wait_tgt")
       \/ h.pc = "wait_tgt" /\ PollResult(Tgt, "reply")
       \/ h.pc \in {"wait_src", "wait_tgt"} /\ BorrowFailed
    /\ UNCHANGED <<log, applied, trig, tgt, down, jvars, fwd>>

-----------------------------------------------------------------------------
(* execJoin                                                                *)

\* The leader answers the joining node; a forwarded reply may be lost.
JoinAnswer(r) ==
    /\ jreply' \in IF j.fwd THEN {r, "ERR"} ELSE {r}
    /\ j' = [j EXCEPT !.pc = "done"]

\* A joining node sends cluster.join to a node of the cluster.
RequestJoin ==
    /\ j.pc = "idle"
    /\ \E r \in Routes :
          IF r = "borrow_failed"
          THEN jreply' = "ERR" /\ j' = [j EXCEPT !.pc = "done"]
          ELSE j' = [pc |-> "add", fwd |-> r = "forwarded"] /\ UNCHANGED jreply
    /\ UNCHANGED <<log, applied, trig, tgt, src, h, reply, down, members, fwd>>

\* raftNode.AddToRaft: an error is answered.
JoinAddToRaft ==
    /\ j.pc = "add"
    /\ \/ members' = members \cup {Joiner} /\ j' = [j EXCEPT !.pc = "propose"]
          /\ UNCHANGED jreply
       \/ JoinAnswer("ERR") /\ UNCHANGED members
    /\ UNCHANGED <<log, applied, trig, tgt, src, h, reply, down, fwd>>

\* Propose(EventJoin): an error is answered and the node stays in the raft
\* group ("todo: remove the node from raft").
JoinPropose ==
    /\ j.pc = "propose"
    /\ \/ Propose("join") /\ JoinAnswer("OK")
       \/ JoinAnswer("ERR") /\ UNCHANGED <<log, applied>>
    /\ UNCHANGED <<trig, tgt, src, h, reply, down, members, fwd>>

\* n's FSM applies the next committed entry.
Apply(n) ==
    /\ n \notin down
    /\ applied[n] < Len(log)
    /\ applied' = [applied EXCEPT ![n] = @ + 1]
    /\ UNCHANGED <<log, trig, tgt, src, h, reply, down, jvars, fwd>>

\* The source or the target process stops (at most one of them).
Crash(n) ==
    /\ down = {}
    /\ down' = {n}
    /\ UNCHANGED <<log, applied, trig, tgt, src, h, reply, jvars, fwd>>

Next ==
    \/ ProposeStart \/ SendStart \/ BeginExport \/ RequestChangeRoute
    \/ LookupTask \/ ProposeFinish \/ WaitCommitted
    \/ RequestJoin \/ JoinAddToRaft \/ JoinPropose
    \/ \E n \in Nodes : Apply(n)
    \/ \E n \in {Src, Tgt} : Crash(n)

\* Every FSM applies what is committed, and the handler, once called, runs
\* to its reply.
Fairness ==
    /\ \A n \in Nodes : WF_vars(Apply(n))
    /\ WF_vars(LookupTask) /\ WF_vars(ProposeFinish) /\ WF_vars(WaitCommitted)
    /\ WF_vars(JoinAddToRaft) /\ WF_vars(JoinPropose)

Spec == Init /\ [][Next]_vars /\ Fairness
-----------------------------------------------------------------------------
(* Properties                                                              *)

TypeOK ==
    /\ log \in Seq(Entry) /\ Len(log) <= 3
    /\ applied \in [Nodes -> 0..Len(log)]
    /\ trig \in {"idle", "proposed", "failed", "sent"}
    /\ tgt \in {"idle", "importing", "failed"}
    /\ src \in {"idle", "exporting", "waiting", "done", "failed"}
    /\ h \in [pc : {"idle", "lookup", "propose", "wait_src", "wait_tgt"},
             idx : 0..3, polls : 0..MaxPolls]
    /\ reply \in {None, "OK", "ERR"}
    /\ down \subseteq {Src, Tgt}
    /\ members \subseteq Nodes \cup {Joiner}
    /\ j \in [pc : {"idle", "add", "propose", "done"}, fwd : BOOLEAN]
    /\ jreply \in {None, "OK", "ERR"}
    /\ fwd \in BOOLEAN

\* The route change is reported done only once both the source's and the
\* target's FSM have applied EventFinishMigrate: the leader's waitCommitted
\* confirmation that the source relies on before it drops the slots.
ChangeRouteConfirmed ==
    reply = "OK" => \A n \in {Src, Tgt} : "finish" \in AppliedAt(n)

\* Every changeroute call returns, even when the source or the target
\* stops answering: waitCommitted's loop is bounded.
ChangeRouteReturns ==
    h.pc # "idle" ~> h.pc = "idle"
=============================================================================
