--------------------------- MODULE RebalancePlan ---------------------------
(***************************************************************************)
(* The leader's rebalance planner, cluster/core/node_manager.go.           *)
(*                                                                         *)
(* doRebalance takes the rebalance mutex, computes a plan with             *)
(* makeRebalancePlan from the committed Node2Slot table, and triggers      *)
(* every task of the plan.  A triggered task stays pending until its       *)
(* EventFinishMigrate entry is applied, which moves its slots from the     *)
(* source to the target.  The planner itself is the pure operator          *)
(* MakeRebalancePlan below, a translation of the Go loop.                  *)
(***************************************************************************)
EXTENDS Naturals, Sequences, SequencesExt, FiniteSets

CONSTANTS
    Masters,          \* ids of the master nodes (the keys of fsm.MasterSlaves)
    SlotCount,        \* SlotCount: number of hash slots
    MaxPasses         \* model bound: doRebalance passes that start a task

ASSUME Masters # {} /\ SlotCount \in Nat \ {0} /\ MaxPasses \in Nat

Slots == 0..(SlotCount - 1)

VARIABLES
    node2slot,   \* fsm.Node2Slot: master id -> ordered slot list
    pending,     \* migrating tasks triggered by doRebalance, not yet finished
    lastPlan,    \* the last plan computed and the table it was computed from
    passes       \* doRebalance passes so far that started a task

vars == <<node2slot, pending, lastPlan, passes>>

Task == [src : Masters, target : Masters, slots : Seq(Slots)]

-----------------------------------------------------------------------------
(* makeRebalancePlan                                                       *)

\* avgSlot := int(math.Ceil(float64(SlotCount) / float64(len(fsm.MasterSlaves))))
AvgSlot == (SlotCount + Cardinality(Masters) - 1) \div Cardinality(Masters)

IsExporting(n2s, n) == Len(n2s[n]) > AvgSlot + 1

\* mutant: the importer threshold loosened to "at most avgSlot"
IsImportingLoose(n2s, n) == Len(n2s[n]) <= AvgSlot

IsImporting(n2s, n) == Len(n2s[n]) < AvgSlot - 1

\* exportSlots = exportNodeSlots[0:exportCount], exportCount = len - avgSlot
ExportSlots(n2s, n) == SubSeq(n2s[n], 1, Len(n2s[n]) - AvgSlot)

\* The pairing loop: one iteration per recursive call; ei and ii are
\* exportIndex and importIndex (1-based), es is exportSlots.
RECURSIVE PlanLoop(_, _, _, _, _, _)
PlanLoop(n2s, exporting, importing, ei, ii, es) ==
    IF ii > Len(importing) \/ ei > Len(exporting)
    THEN << >>
    ELSE LET exportNode == exporting[ei]
             slots == IF es = << >> THEN ExportSlots(n2s, exportNode) ELSE es
             importNode == importing[ii]
             requirements == AvgSlot - Len(n2s[importNode])
         IN IF requirements <= Len(slots)
            THEN << [src |-> exportNode, target |-> importNode,
                     slots |-> SubSeq(slots, 1, requirements)] >>
                 \o PlanLoop(n2s, exporting, importing, ei, ii + 1,
                             SubSeq(slots, requirements + 1, Len(slots)))
            ELSE << [src |-> exportNode, target |-> importNode, slots |-> slots] >>
                 \o PlanLoop(n2s, exporting, importing, ei + 1, ii, << >>)

\* order is the iteration order of the Go map fsm.MasterSlaves, which the
\* runtime randomises; both node lists are built in that order.
MakeRebalancePlan(n2s, order) ==
    PlanLoop(n2s,
             SelectSeq(order, LAMBDA n : IsExporting(n2s, n)),
             SelectSeq(order, LAMBDA n : IsImporting(n2s, n)),
             1, 1, << >>)

-----------------------------------------------------------------------------
(* Initial topology: any distribution of the slots over the masters, each  *)
(* master owning a contiguous range.                                       *)

MasterSeq == SetToSeq(Masters)

\* mutant: slots numbered from 1
RangeOfOneBased(counts, i) ==
    LET before == FoldLeft(+, 0, [j \in 1..(i - 1) |-> counts[MasterSeq[j]]])
    IN  [k \in 1..counts[MasterSeq[i]] |-> before + k]

\* the slot list of the i-th master when master j owns counts[MasterSeq[j]] slots
RangeOf(counts, i) ==
    LET before == FoldLeft(+, 0, [j \in 1..(i - 1) |-> counts[MasterSeq[j]]])
    IN  [k \in 1..counts[MasterSeq[i]] |-> before + k - 1]

Init ==
    /\ \E counts \in [Masters -> 0..SlotCount] :
          /\ FoldFunction(+, 0, counts) = SlotCount
          /\ node2slot = [n \in Masters |->
                            RangeOf(counts, CHOOSE i \in 1..Len(MasterSeq) : MasterSeq[i] = n)]
    /\ pending = << >>
    /\ lastPlan = [base |-> node2slot, plan |-> << >>]
    /\ passes = 0

\* triggerMigrationTask for each task of the plan, errors only logged: the
\* tasks in proposed are those whose EventStartMigrate Propose succeeded.
\* Whether the start command then reaches the target is left to the
\* migration itself: a task whose target never starts is one that stays
\* pending, which the model already allows.
TriggerMigrationTasks(plan, proposed) ==
    SelectSeq(plan, LAMBDA t : t \in proposed)

\* doRebalance: plan under the mutex from the committed table, then trigger
\* every task.  Nothing in makeRebalancePlan consults the tasks in flight.
DoRebalance ==
    /\ \E order \in SetToSeqs(Masters) :
          LET plan == MakeRebalancePlan(node2slot, order)
          IN  /\ \E proposed \in SUBSET Range(plan) :
                    \* the bound counts the passes that start a task
                    /\ proposed # {} => passes < MaxPasses
                    /\ pending' = pending \o TriggerMigrationTasks(plan, proposed)
                    /\ passes' = IF proposed = {} THEN passes ELSE passes + 1
              /\ lastPlan' = [base |-> node2slot, plan |-> plan]
    /\ UNCHANGED node2slot

\* EventFinishMigrate applied by the FSM: the task's slots leave the source
\* and join the target.
FinishMigrate ==
    \E i \in 1..Len(pending) :
       LET t == pending[i]
           moved == Range(t.slots)
       IN  /\ node2slot' = [node2slot EXCEPT
                 ![t.src] = SelectSeq(@, LAMBDA s : s \notin moved),
                 ![t.target] = @ \o SelectSeq(t.slots, LAMBDA s : s \notin Range(node2slot[t.target]))]
           /\ pending' = RemoveAt(pending, i)
           /\ UNCHANGED <<lastPlan, passes>>

Next == DoRebalance \/ FinishMigrate

Spec == Init /\ [][Next]_vars

-----------------------------------------------------------------------------
(* Properties                                                              *)

TypeOK ==
    /\ node2slot \in [Masters -> Seq(Slots)]
    /\ pending \in Seq(Task)
    /\ lastPlan.plan \in Seq(Task)
    /\ passes \in 0..MaxPasses

\* makeRebalancePlan never produces a task with an empty slot list (spec,
\* section 8): every pairing step of the loop moves at least one slot.
TasksNonEmpty ==
    \A i \in 1..Len(lastPlan.plan) : lastPlan.plan[i].slots # << >>

\* Each slot appears in at most one task of a plan: two tasks of one pass
\* never migrate the same slot to two targets.
NoSlotPlannedTwice ==
    \A i, j \in 1..Len(lastPlan.plan) :
        i # j => Range(lastPlan.plan[i].slots) \cap Range(lastPlan.plan[j].slots) = {}

\* No importer is planned to receive more than it lacks: after the plan,
\* every master that receives slots holds at most avgSlot + 1 (spec, section 8:
\* every master within +-1 of avgSlot).
ImporterNotOverfilled ==
    \A m \in Masters :
        LET received == {k \in 1..Len(lastPlan.plan) : lastPlan.plan[k].target = m}
        IN  received # {} =>
              Len(lastPlan.base[m])
                + MapThenSumSet(LAMBDA k : Len(lastPlan.plan[k].slots), received)
              <= AvgSlot + 1
=============================================================================
