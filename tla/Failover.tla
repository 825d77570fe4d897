------------------------------ MODULE Failover ------------------------------
(***************************************************************************)
(* Master failure detection and promotion, cluster/core/replica_manager.go *)
(*                                                                         *)
(* Every node periodically sends "cluster.heartbeat <SelfID>" to the       *)
(* consensus leader, whose execHeartbeat records the time in its own       *)
(* replicaManager.masterHeartbeats.  The leader's doFailoverCheck collects *)
(* the masters not heard from for followerTimeout that have slaves, and    *)
(* triggerFailover sends "slaveof no one" to the first slave, then         *)
(* proposes EventFinishFailover.  Every node applies committed entries in  *)
(* log order and runs the callback of registerOnFailover, which makes the *)
(* node "slaveof" the new master unless it is the new master.              *)
(*                                                                         *)
(* Time is abstracted to the age of each heartbeat entry in ticks, capped  *)
(* at Timeout + 1, and to whether the entry's time.Second() is 0.  The     *)
(* consensus log and the FSM's MasterSlaves table are not under src/ and   *)
(* are modelled from spec sections 4.5 and 6.                              *)
(***************************************************************************)
EXTENDS Naturals, Sequences, SequencesExt, FiniteSets

CONSTANTS
    Nodes,
    InitMasterSlaves,  \* initial MasterSlaves: master id -> ordered slave ids
    InitLeader,        \* the consensus leader at start
    Timeout,           \* followerTimeout, in ticks
    MaxCrashes,        \* model bound: node crashes in a behaviour
    MaxFailovers,      \* model bound: committed failover entries
    MaxElections,      \* model bound: leader changes in a behaviour
    SyncHeartbeats,    \* heartbeats of live nodes always arrive within Timeout
    ElectOnLeaderCrash,\* consensus replaces only a leader that is down
    LossyRelay,        \* a relay to a live node can fail or lose its reply
    Never              \* model value: no heartbeat recorded

ASSUME Timeout \in Nat \ {0} /\ InitLeader \in Nodes
ASSUME MaxElections \in Nat /\ SyncHeartbeats \in BOOLEAN /\ ElectOnLeaderCrash \in BOOLEAN
ASSUME LossyRelay \in BOOLEAN

VARIABLES
    alive,       \* node -> process is up
    leader,      \* current consensus leader
    hb,          \* node -> its replicaManager.masterHeartbeats
    log,         \* committed EventFinishFailover entries, in log order
    applied,     \* node -> number of entries applied by its FSM
    role,        \* node -> "master" or the node it replicates (slaveof)
    fo,          \* the leader's failover job: queued [old, new] pairs
    crashes,     \* crashes so far
    crashed,     \* nodes that have crashed at least once (history)
    elections    \* leader changes so far

vars == <<alive, leader, hb, log, applied, role, fo, crashes, crashed, elections>>

Age == 0..(Timeout + 1)
Stamp == [age : Age, zero : BOOLEAN]   \* zero: time.Second() = 0

-----------------------------------------------------------------------------
(* FSM (spec_modelled): MasterSlaves after the first k entries.            *)

\* EventFinishFailover: the new master takes over the old master's slaves
\* other than itself, and the old master becomes its last slave.
ApplyFailover(ms, e) ==
    IF e.old \notin DOMAIN ms THEN ms
    ELSE [x \in (DOMAIN ms \ {e.old}) \cup {e.new} |->
            IF x = e.new
            THEN SelectSeq(ms[e.old], LAMBDA s : s # e.new) \o << e.old >>
            ELSE ms[x]]

RECURSIVE MasterSlavesAt(_)
MasterSlavesAt(k) ==
    IF k = 0 THEN InitMasterSlaves ELSE ApplyFailover(MasterSlavesAt(k - 1), log[k])

\* raftNode.GetSlaves(masterId) on the leader's FSM
GetSlaves(m) ==
    LET ms == MasterSlavesAt(applied[leader])
    IN  IF m \in DOMAIN ms THEN ms[m] ELSE << >>

\* the master of the replica set that n belongs to in table ms
MasterOf(ms, n) == CHOOSE m \in DOMAIN ms : m = n \/ n \in Range(ms[m])

-----------------------------------------------------------------------------
\* Every node starts with newReplicaManager: no heartbeat recorded (Never).
Init ==
    /\ alive = [n \in Nodes |-> TRUE]
    /\ leader = InitLeader
    /\ hb = [n \in Nodes |-> [m \in Nodes |-> Never]]
    /\ log = << >>
    /\ applied = [n \in Nodes |-> 0]
    /\ role = [n \in Nodes |-> IF n \in DOMAIN InitMasterSlaves THEN "master"
                               ELSE MasterOf(InitMasterSlaves, n)]
    /\ fo = << >>
    /\ crashes = 0
    /\ crashed = {}
    /\ elections = 0

\* sendHearbeat at n + execHeartbeat at the leader:
\* masterHeartbeats[SelfID] = time.Now()
Heartbeat(n) ==
    /\ alive[n] /\ alive[leader]
    /\ \E z \in BOOLEAN : hb' = [hb EXCEPT ![leader][n] = [age |-> 0, zero |-> z]]
    /\ UNCHANGED <<alive, leader, log, applied, role, fo, crashes, crashed, elections>>

\* Time passes: every recorded heartbeat ages by one tick.  With
\* SyncHeartbeats a live node's entry at the leader never outlives Timeout.
Tick ==
    /\ SyncHeartbeats =>
          \A n \in Nodes : alive[n] /\ hb[leader][n] # Never => hb[leader][n].age < Timeout
    /\ hb' = [x \in Nodes |-> [m \in Nodes |->
                IF hb[x][m] = Never THEN Never
                ELSE [hb[x][m] EXCEPT !.age = IF @ > Timeout THEN @ ELSE @ + 1]]]
    /\ UNCHANGED <<alive, leader, log, applied, role, fo, crashes, crashed, elections>>

\* Whether time.Now() can again have Second() = 0, when the stamp being
\* replaced had Second() = 0 and is age ticks old: less than a minute has
\* passed unless the age is past the timeout (the cap hides how much).
SecondZeroAfter(age, z) == age > Timeout /\ z

\* mutant: lastTime.After(ddl) in place of lastTime.Before(ddl)
BeforeDeadlineAfter(lastTime) == lastTime # Never /\ lastTime.age < Timeout

\* lastTime.Before(ddl), ddl = time.Now().Add(-followerTimeout)
BeforeDeadline(lastTime) == lastTime # Never /\ lastTime.age > Timeout

\* doFailoverCheck on the leader: under the read lock, reset every entry
\* whose lastTime.Second() == 0 to now, and collect the masters whose
\* lastTime (read before the reset) is before the deadline and that have
\* slaves; then the failover job handles them one after the other.
DoFailoverCheck ==
    /\ alive[leader]
    /\ fo = << >>
    /\ Len(log) < MaxFailovers
    /\ LET mine == hb[leader]
           timedOut == {m \in Nodes : BeforeDeadline(mine[m]) /\ GetSlaves(m) # << >>}
       IN  /\ \E z \in BOOLEAN :
                 hb' = [hb EXCEPT ![leader] = [m \in Nodes |->
                          IF mine[m] # Never /\ mine[m].zero /\ mine[m].age > 0
                          THEN [age |-> 0, zero |-> SecondZeroAfter(mine[m].age, z)]
                          ELSE mine[m]]]
           \* timeoutMasters is filled in Go map order
           /\ \E order \in SetToSeqs(timedOut) :
                 fo' = [q \in DOMAIN order |->
                          [old |-> order[q], new |-> GetSlaves(order[q])[1],
                           by |-> leader, sent |-> FALSE]]
    /\ UNCHANGED <<alive, leader, log, applied, role, crashes, crashed, elections>>

\* The reply to conn.Send("slaveof no one"): the command ran and OK came
\* back; or, with LossyRelay, the connection failed before it ran, or it
\* ran and the reply was lost (both an error reply).
SendOutcomes ==
    {"ok"} \cup (IF LossyRelay THEN {"not_sent", "reply_lost"} ELSE {})

\* mutant: "slaveof no one" taken as replicating a host named "no one"
PromoteSlaveNoOneAsHost ==
    /\ fo # << >>
    /\ ~Head(fo).sent
    /\ IF alive[Head(fo).new]
       THEN /\ role' = [role EXCEPT ![Head(fo).new] = "no one"]
            /\ fo' = [fo EXCEPT ![1].sent = TRUE]
       ELSE /\ fo' = Tail(fo)
            /\ UNCHANGED role
    /\ UNCHANGED <<alive, leader, hb, log, applied, crashes, crashed, elections>>

\* triggerFailover, first half: borrow a client to failed.Slaves[0] and
\* send "slaveof no one".  A failed borrow (the slave is down) or an error
\* reply returns from triggerFailover; the command may have run anyway.
PromoteSlave ==
    /\ fo # << >>
    /\ ~Head(fo).sent
    /\ IF alive[Head(fo).new]
       THEN \E o \in SendOutcomes :
              /\ role' = IF o = "not_sent" THEN role
                         ELSE [role EXCEPT ![Head(fo).new] = "master"]
              /\ fo' = IF o = "ok" THEN [fo EXCEPT ![1].sent = TRUE] ELSE Tail(fo)
       ELSE /\ fo' = Tail(fo)
            /\ UNCHANGED role
    /\ UNCHANGED <<alive, leader, hb, log, applied, crashes, crashed, elections>>

\* triggerFailover, second half: Propose(EventFinishFailover).  Only the
\* current, live leader can commit; it applies the entry before Propose
\* returns.
ProposeFailover ==
    /\ fo # << >>
    /\ Head(fo).sent
    /\ IF Head(fo).by = leader /\ alive[leader]
       THEN /\ log' = Append(log, [old |-> Head(fo).old, new |-> Head(fo).new])
            /\ applied' = [applied EXCEPT ![leader] = Len(log')]
            /\ role' = IF Head(fo).new # leader
                       THEN [role EXCEPT ![leader] = Head(fo).new] ELSE role
       ELSE UNCHANGED <<log, applied, role>>
    /\ fo' = Tail(fo)
    /\ UNCHANGED <<alive, leader, hb, crashes, crashed, elections>>

\* mutant: the callback without the newMaster != SelfID test
ApplyEntryNoSelfCheck(n) ==
    /\ alive[n]
    /\ applied[n] < Len(log)
    /\ role' = [role EXCEPT ![n] = log[applied[n] + 1].new]
    /\ applied' = [applied EXCEPT ![n] = @ + 1]
    /\ UNCHANGED <<alive, leader, hb, log, fo, crashes, crashed, elections>>

\* A node's FSM applies the next committed entry and the failover callback
\* runs: if newMaster != SelfID, Exec("slaveof", newMaster).
ApplyEntry(n) ==
    /\ alive[n]
    /\ applied[n] < Len(log)
    /\ LET e == log[applied[n] + 1]
       IN  role' = IF e.new # n THEN [role EXCEPT ![n] = e.new] ELSE role
    /\ applied' = [applied EXCEPT ![n] = @ + 1]
    /\ UNCHANGED <<alive, leader, hb, log, fo, crashes, crashed, elections>>

\* A node process stops; its role and its applied log survive a restart.
Crash(n) ==
    /\ alive[n]
    /\ crashes < MaxCrashes
    /\ n = leader => elections < MaxElections   \* someone can replace it
    /\ alive' = [alive EXCEPT ![n] = FALSE]
    /\ crashes' = crashes + 1
    /\ crashed' = crashed \cup {n}
    /\ UNCHANGED <<leader, hb, log, applied, role, fo, elections>>

Restart(n) ==
    /\ ~alive[n]
    /\ alive' = [alive EXCEPT ![n] = TRUE]
    /\ UNCHANGED <<leader, hb, log, applied, role, fo, crashes, crashed, elections>>

\* Consensus elects another live node; it starts from its own (possibly
\* empty) masterHeartbeats and has the whole committed log.  Without
\* ElectOnLeaderCrash a partition can also move leadership off a live leader.
ElectLeader(n) ==
    /\ elections < MaxElections
    /\ ElectOnLeaderCrash => ~alive[leader]
    /\ alive[n] /\ n # leader
    /\ leader' = n
    /\ elections' = elections + 1
    /\ UNCHANGED <<alive, hb, log, applied, role, fo, crashes, crashed>>

Next ==
    \/ Tick \/ DoFailoverCheck \/ PromoteSlave \/ ProposeFailover
    \/ \E n \in Nodes :
          Heartbeat(n) \/ ApplyEntry(n) \/ Crash(n) \/ Restart(n) \/ ElectLeader(n)

\* Heartbeats, the failover timer, the failover job and log application are
\* periodic or run to completion in the code, and consensus replaces a
\* leader that is down; crashes, restarts and other elections are not
\* promised to happen.
Fairness ==
    /\ WF_vars(Tick) /\ WF_vars(DoFailoverCheck)
    /\ WF_vars(PromoteSlave) /\ WF_vars(ProposeFailover)
    /\ \A n \in Nodes : WF_vars(Heartbeat(n)) /\ WF_vars(ApplyEntry(n))
    /\ WF_vars(~alive[leader] /\ \E n \in Nodes : ElectLeader(n))

Spec == Init /\ [][Next]_vars /\ Fairness

-----------------------------------------------------------------------------
(* Properties                                                              *)

TypeOK ==
    /\ alive \in [Nodes -> BOOLEAN]
    /\ leader \in Nodes
    /\ hb \in [Nodes -> [Nodes -> Stamp \cup {Never}]]
    /\ log \in Seq([old : Nodes, new : Nodes])
    /\ applied \in [Nodes -> 0..Len(log)]
    /\ role \in [Nodes -> Nodes \cup {"master"}]
    /\ fo \in Seq([old : Nodes, new : Nodes, by : Nodes, sent : BOOLEAN])
    /\ crashes \in 0..MaxCrashes
    /\ crashed \subseteq Nodes
    /\ elections \in 0..MaxElections

Committed == MasterSlavesAt(Len(log))

\* A live node that has applied the whole log, while no failover job is in
\* flight, replicates exactly as the committed MasterSlaves table says: a
\* master of a replica set runs as master, every slave replicates its
\* set's master.  The failover callback is what keeps the two in step.
ReplicationFollowsTopology ==
    fo = << >> =>
        \A n \in Nodes :
            (alive[n] /\ applied[n] = Len(log)) =>
                role[n] = IF n \in DOMAIN Committed THEN "master"
                          ELSE MasterOf(Committed, n)

\* A master that the current leader has heard from and that stops, while
\* its replica set has a live slave, is eventually replaced as long as that
\* leader stays: the committed master of its replica set is a live node
\* again (spec, section 8), unless leadership moves first.  A new leader
\* never heard the dead master (masterHeartbeats is the leader's memory),
\* which is the hazard this form leaves out.
HeardMasterReplaced ==
    \A m, l \in Nodes :
        (/\ leader = l
         /\ ~alive[m]
         /\ m \in DOMAIN Committed
         /\ hb[l][m] # Never
         /\ \E s \in Range(Committed[m]) : alive[s])
        ~> (alive[MasterOf(Committed, m)] \/ leader # l)

\* With heartbeats arriving within the timeout, the leader never fails over
\* a master that has kept running: every failover entry committed names an
\* old master that crashed at some point, whatever leader changes happened
\* between its heartbeats and the check.
NoLiveMasterFailedOver ==
    [][Len(log') > Len(log) => log'[Len(log')].old \in crashed]_<<log, crashed>>
=============================================================================
