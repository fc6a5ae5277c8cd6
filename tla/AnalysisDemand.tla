--------------------------- MODULE AnalysisDemand ---------------------------
(***************************************************************************)
(* The automatic analysis of one dump: its demand (analysis_demands.py),   *)
(* the planner that freezes a target and adopts a run                      *)
(* (automatic_analysis.py, frozen_runs.py), its execution slot             *)
(* (analysis_scheduler.py), the worker's transactions on the run and the   *)
(* demand (analyze_frozen_run in processor.py) and the recovery of runs    *)
(* whose worker or whose message is gone (analysis_recovery.py).           *)
(*                                                                         *)
(* One step is one committed transaction, the passing of a deadline or a   *)
(* failure.  A planner works between its transactions on what it read      *)
(* before.  The claim of a run is the fenced grant that TaskHandoff shows  *)
(* the hand-off to provide, so one worker at most acts on a run.           *)
(***************************************************************************)
EXTENDS Naturals, Sequences, FiniteSets

CONSTANTS Planners,     \* planner processes
          NoPlanner,    \* a slot without an owner
          Evidence,     \* fingerprints that planning the dump's modules may yield
          NoEvidence,   \* no target yet
          MaxAttempts,  \* settings.analysis_max_attempts
          EventKinds,   \* what a run lets happen to the catalog and the dump
          MaxEvents,    \* bound: how many such events
          MaxFaults     \* bound: lapsed leases and planner crashes

ASSUME DemandAssumption == /\ NoPlanner \notin Planners
                           /\ NoEvidence \notin Evidence
                           /\ Evidence # {}
                           /\ MaxAttempts \in Nat \ {0}
                           /\ MaxEvents \in Nat
                           /\ MaxFaults \in Nat

VARIABLES demand,       \* the auto_analysis_demands row
          target,       \* the frozen target of demand.generation
          runs,         \* the analysis_runs rows of the demand, oldest first
          current,      \* occurrence.current_run_id: an index of runs, 0 for none
          slot,         \* the analysis_execution_slots row of the demand
          plan,         \* plan[p]: what planner p has read
          evidence,     \* what planning against the catalog yields now
          revision,     \* catalog revision: its committed changes
          affecting,    \* the revisions that concern a module of the dump
          cursor,       \* revision up to which changes have been fanned out
          policy,       \* the workspace's module role version
          policy_cursor,\* role version up to which changes have been fanned out
          live,         \* _live(blob): accepted, not deleted, not expired
          events,       \* events left to happen
          faults        \* failures left to happen

catalog == <<evidence, revision, affecting, policy>>
cursors == <<cursor, policy_cursor>>
budgets == <<events, faults>>
vars == <<demand, target, runs, current, slot, plan, catalog, cursors, live, budgets>>

-----------------------------------------------------------------------------
States == {"preparing", "coalescing", "queued", "running", "updated", "retained",
           "needs_review", "retry_wait", "retry_exhausted", "cannot_recompute"}
AtRest == {"updated", "retained", "needs_review", "retry_exhausted", "cannot_recompute"}
Causes == {"initial", "symbol_refresh", "role_change", "manual"}

\* demand.reason: a word, and the cause a retry reason has inside it.
ReasonKinds == {"new_dump", "dump_restored", "manual", "symbol_refresh", "role_change",
                "analysis_running", "planning_retry", "execution_retry", "comparison_retry",
                "settled"}
Reasons == [kind : ReasonKinds, cause : Causes]
Because(kind) == [kind |-> kind, cause |-> "initial"]

DemandRow == [state : States, reason : Reasons, generation : Nat, retry_attempt : Nat,
              change_sequence : Nat, planned_sequence : Nat, index_revision : Nat,
              inspection : {"none", "registered"}, first_event : {"none", "noted"},
              not_before : {"none", "future", "due"}]

Targets == [evidence : Evidence \cup {NoEvidence}, policy : Nat, cause : Causes]

ActiveStates == {"QUEUED", "ANALYZING"}
\* COMPLETE stands for PARTIAL too, FAILED for the other FAILURE_STATES.
RunStates == ActiveStates \cup {"COMPLETE", "FAILED"}

\* The run's intent and execution: published and not claimed yet (overdue once
\* the delivery timeout has passed), running with a live or a lapsed lease.  A
\* delivery for a run that has ended writes its execution row and no other:
\* it is not followed here.
Tasks == {"unpublished", "published", "overdue", "running", "lapsed", "ended"}
RunRow == [generation : Nat, retry_attempt : Nat, cause : Causes, status : RunStates,
           task : Tasks]

SlotRow == [state : {"none", "planning", "executing"}, owner : Planners \cup {NoPlanner},
            lease : {"none", "live", "lapsed"}, run : Nat]
NoSlot == [state |-> "none", owner |-> NoPlanner, lease |-> "none", run |-> 0]

PlanState == [pc : {"idle", "claimed", "failed", "planned"}, sequence : Nat, revision : Nat,
              target : Targets]
NoTarget == [evidence |-> NoEvidence, policy |-> 0, cause |-> "initial"]
IdlePlan == [pc |-> "idle", sequence |-> 0, revision |-> 0, target |-> NoTarget]

TypeOK == /\ demand \in DemandRow
          /\ target \in Targets
          /\ runs \in Seq(RunRow)
          /\ current \in Nat
          /\ slot \in SlotRow
          /\ plan \in [Planners -> PlanState]
          /\ evidence \in Evidence
          /\ revision \in Nat
          /\ affecting \subseteq Nat
          /\ cursor \in Nat
          /\ policy \in Nat
          /\ policy_cursor \in Nat
          /\ live \in BOOLEAN
          /\ events \in Nat
          /\ faults \in Nat

\* ensure_demand's row for a dump that was just accepted.
NewDemand == [state |-> "preparing", reason |-> Because("new_dump"), generation |-> 0,
              retry_attempt |-> 0, change_sequence |-> 1, planned_sequence |-> 0,
              index_revision |-> 0, inspection |-> "none", first_event |-> "none",
              not_before |-> "due"]

Init == /\ demand = NewDemand
        /\ target = NoTarget
        /\ runs = <<>>
        /\ current = 0
        /\ slot = NoSlot
        /\ plan = [p \in Planners |-> IdlePlan]
        /\ evidence \in Evidence
        /\ revision = 0 /\ affecting = {} /\ cursor = 0
        /\ policy = 0 /\ policy_cursor = 0
        /\ live = TRUE
        /\ events = MaxEvents
        /\ faults = MaxFaults

-----------------------------------------------------------------------------
(* What the transactions write to the demand.                              *)

Unavailable(row) == [row EXCEPT !.state = "cannot_recompute", !.reason = Because("settled"),
                                !.not_before = "none"]

\* _note_change.  The delay is at most the 60 seconds of coalescing; that it is
\* shorter for a later event of one window only moves NotBeforePasses forward.
NoteChange(row, cause) ==
    LET noted == [row EXCEPT !.change_sequence = @ + 1]
    IN  IF ~live THEN Unavailable(noted)
        ELSE IF row.generation = 0 THEN [noted EXCEPT !.first_event = "noted"]
        ELSE [noted EXCEPT !.first_event = "noted",
                           !.not_before = "future",
                           !.state = IF @ = "running" THEN @ ELSE "coalescing",
                           !.reason = Because(cause)]

Settled(row, state) == [row EXCEPT !.state = state, !.reason = Because("settled"),
                                   !.not_before = "none"]

RetryOrExhaust(row, kind, cause) ==
    IF row.retry_attempt + 1 >= MaxAttempts THEN Settled(row, "retry_exhausted")
    ELSE [row EXCEPT !.state = "retry_wait", !.retry_attempt = @ + 1, !.not_before = "future",
                     !.reason = [kind |-> kind, cause |-> cause]]

\* _settle_runtime_failure
RuntimeFailure(row, kind, cause, retryable) ==
    IF ~live THEN Unavailable(row)
    ELSE IF ~retryable THEN Settled(row, "needs_review")
    ELSE RetryOrExhaust(row, kind, cause)

\* Mutant: the settlement of a run forgets what arrived while it was running.
RestorePending_Never(before, after) == after

\* _pending_change and _restore_pending_change
RestorePending(before, after) ==
    IF /\ before.generation > 0
       /\ before.change_sequence > before.planned_sequence
       /\ before.first_event = "noted"
       /\ live
    THEN [after EXCEPT !.state = "coalescing", !.reason = before.reason,
                       !.not_before = IF before.not_before = "none" THEN "due"
                                      ELSE before.not_before]
    ELSE after

\* settle_demand_after_execution_failure
ExecutionFailure(cause, retryable) ==
    RestorePending(demand, RuntimeFailure(demand, "execution_retry", cause, retryable))

\* The decisions of compare_evidence that the demand can tell apart; retry is
\* retry_recommended.  A run that replaces no Current or was caused by a new
\* symbol or by hand may win; others need a review.
Decisions(cause) ==
    LET free == current = 0 \/ cause \in {"symbol_refresh", "manual"}
    IN  [verdict : {"retain", "incomparable"}, retry : {FALSE}]
        \cup (IF free THEN [verdict : {"promote"}, retry : BOOLEAN] ELSE {})
        \cup (IF free /\ current # 0 THEN {[verdict |-> "retain", retry |-> TRUE]} ELSE {})

\* settle_demand_after_comparison
ComparisonSettled(d) ==
    RestorePending(demand,
        IF d.retry
        THEN IF ~live THEN Unavailable(demand)
             ELSE RetryOrExhaust(demand, "comparison_retry", "initial")
        ELSE Settled(demand, CASE d.verdict = "promote" -> "updated"
                               [] d.verdict = "incomparable" -> "needs_review"
                               [] d.verdict = "retain" -> "retained"))

-----------------------------------------------------------------------------
(* The catalog, the workspace's roles and the dump change.                 *)

Event(kind) == kind \in EventKinds /\ events > 0 /\ events' = events - 1

\* _emit: a committed catalog change.  One that concerns a module of the dump
\* may leave the outcome of planning as it is, another cannot change it.
CatalogChanges == 
    /\ Event("catalog")
    /\ revision' = revision + 1
    /\ \/ affecting' = affecting \cup {revision + 1} /\ evidence' \in Evidence
       \/ UNCHANGED <<affecting, evidence>>
    /\ UNCHANGED <<demand, target, runs, current, slot, plan, policy, cursors, live, faults>>

\* declare_workspace_module_role, of a module the dump has
DeclareWorkspaceModuleRole ==
    /\ Event("role")
    /\ policy' = policy + 1
    /\ UNCHANGED <<demand, target, runs, current, slot, plan, evidence, revision, affecting,
                   cursors, live, faults>>

DumpExpires ==
    /\ Event("expiry")
    /\ live
    /\ live' = FALSE
    /\ UNCHANGED <<demand, target, runs, current, slot, plan, catalog, cursors, faults>>

\* An upload of the same bytes: _accept_dump and ensure_demand.
DumpRestored ==
    /\ ~live
    /\ live' = TRUE
    /\ demand' = IF demand.state = "cannot_recompute"
                 THEN [demand EXCEPT !.change_sequence = @ + 1, !.state = "preparing",
                                     !.reason = Because("dump_restored"), !.not_before = "due",
                                     !.first_event = "none"]
                 ELSE demand
    /\ UNCHANGED <<target, runs, current, slot, plan, catalog, cursors, budgets>>

RestartExhaustedDemand ==
    /\ Event("restart")
    /\ demand.state = "retry_exhausted"
    /\ live
    /\ demand' = [demand EXCEPT !.change_sequence = @ + 1, !.state = "preparing",
                                !.reason = Because("manual"), !.not_before = "due",
                                !.first_event = "none"]
    /\ UNCHANGED <<target, runs, current, slot, plan, catalog, cursors, live, faults>>

\* fanout_next, one event: demands planned against a later catalog are skipped.
FanoutNext ==
    /\ cursor < revision
    /\ cursor' = cursor + 1
    /\ demand' = IF /\ cursor' \in affecting
                    /\ demand.inspection = "registered"
                    /\ demand.index_revision < cursor'
                 THEN NoteChange(demand, "symbol_refresh") ELSE demand
    /\ UNCHANGED <<target, runs, current, slot, plan, catalog, policy_cursor, live, budgets>>

FanoutWorkspaceRoleNext ==
    /\ policy_cursor < policy
    /\ policy_cursor' = policy_cursor + 1
    /\ demand' = IF demand.inspection = "registered"
                 THEN NoteChange(demand, "role_change") ELSE demand
    /\ UNCHANGED <<target, runs, current, slot, plan, catalog, cursor, live, budgets>>

-----------------------------------------------------------------------------
(* The planner.                                                            *)

Fault == faults > 0 /\ faults' = faults - 1

Active(i) == runs[i].status \in ActiveStates

\* Mutant: a slot bound to a run that no worker has claimed yet counts as free.
SlotIsFree_Queued ==
    \/ slot.state = "none"
    \/ slot.state = "planning" /\ slot.lease = "lapsed"
    \/ slot.state = "executing" /\ runs[slot.run].status # "ANALYZING"

\* The slots that _reconcile_slots deletes.
SlotIsFree == \/ slot.state = "none"
              \/ slot.state = "planning" /\ slot.lease = "lapsed"
              \/ slot.state = "executing" /\ ~Active(slot.run)

\* claim_execution_slots, for a planner that has finished its page.  The claim
\* token is new in every claim, and a planner has one claim per demand: its
\* name stands for the token.
ClaimExecutionSlot(p) ==
    /\ plan[p].pc = "idle"
    /\ SlotIsFree
    /\ demand.state \in {"preparing", "coalescing", "retry_wait"}
    /\ demand.not_before = "due"
    /\ slot' = [state |-> "planning", owner |-> p, lease |-> "live", run |-> 0]
    /\ plan' = [plan EXCEPT ![p].pc = "claimed"]
    /\ UNCHANGED <<demand, target, runs, current, catalog, cursors, live, budgets>>

\* claim_execution_slots, when the demand is not ready.
ReconcileSlots ==
    /\ slot.state # "none" /\ SlotIsFree
    /\ ~(demand.state \in {"preparing", "coalescing", "retry_wait"} /\ demand.not_before = "due")
    /\ slot' = NoSlot
    /\ UNCHANGED <<demand, target, runs, current, plan, catalog, cursors, live, budgets>>

HoldsSlot(p) == slot.state = "planning" /\ slot.owner = p

\* _ensure_inspection.  Without a dump the planner goes on to fail for want of
\* an inspection.
RegisterInspection(p) ==
    /\ plan[p].pc = "claimed"
    /\ HoldsSlot(p) /\ slot.lease = "live"
    /\ demand.inspection = "none"
    /\ \/ /\ live
          /\ demand' = [demand EXCEPT !.inspection = "registered", !.index_revision = revision,
                                      !.change_sequence = @ + 1, !.state = "preparing",
                                      !.not_before = "due"]
          /\ UNCHANGED plan
       \/ /\ ~live
          /\ demand' = [demand EXCEPT !.state = "cannot_recompute", !.reason = Because("settled")]
          /\ plan' = [plan EXCEPT ![p].pc = "failed"]
    /\ UNCHANGED <<target, runs, current, slot, catalog, cursors, live, budgets>>

\* _cause
Cause == IF demand.state = "retry_wait"
         THEN IF demand.reason.kind \in {"planning_retry", "execution_retry"}
              THEN demand.reason.cause ELSE target.cause
         ELSE IF demand.reason.kind \in Causes THEN demand.reason.kind ELSE "initial"

\* _snapshot, with snapshot_resolution and snapshot_workspace_policies, after
\* which prepare_resolution and the rest only read objects.
Snapshot(p) ==
    /\ plan[p].pc = "claimed"
    /\ HoldsSlot(p) /\ slot.lease = "live"
    /\ demand.inspection = "registered"
    /\ plan' = [plan EXCEPT ![p] =
                   [pc |-> "planned", sequence |-> demand.change_sequence, revision |-> revision,
                    target |-> [evidence |-> evidence, policy |-> policy, cause |-> Cause]]]
    /\ UNCHANGED <<demand, target, runs, current, slot, catalog, cursors, live, budgets>>

\* What makes adopt_frozen_run, freeze_target and bind_execution_slot refuse a
\* plan, in the order in which they look.
Refusal(p) ==
    IF demand.state = "retry_wait" /\ demand.not_before # "due" THEN "RETRY_NOT_DUE"
    ELSE IF demand.change_sequence # plan[p].sequence THEN "STALE_DEMAND_PLAN"
    ELSE IF policy # plan[p].target.policy THEN "STALE_WORKSPACE_POLICY"
    ELSE IF ~live THEN "DUMP_UNAVAILABLE"
    ELSE IF revision # plan[p].revision THEN "CATALOG_SNAPSHOT_CHANGED"
    ELSE IF ~(HoldsSlot(p) /\ slot.lease = "live") THEN "ANALYSIS_SLOT_LOST"
    ELSE "none"

StalePlanErrors == {"ANALYSIS_SLOT_LOST", "CATALOG_SNAPSHOT_CHANGED", "STALE_DEMAND_PLAN",
                    "STALE_WORKSPACE_POLICY"}

\* freeze_target: a target is the same if its evidence, its policies and its
\* cause are, and a restart by hand wants a new one in any case.
TargetIsNew(p) ==
    \/ plan[p].target.cause = "manual" /\ plan[p].sequence > demand.planned_sequence
    \/ demand.generation = 0
    \/ target # plan[p].target

\* Mutant: a new target inherits the attempts of the old one.
FreezeTarget_KeepsAttempt(p) ==
    LET row == IF TargetIsNew(p) THEN [demand EXCEPT !.generation = @ + 1] ELSE demand
    IN  [row EXCEPT !.planned_sequence = plan[p].sequence, !.index_revision = revision,
                    !.first_event = "none", !.not_before = "due"]

FreezeTarget(p) ==
    LET row == IF TargetIsNew(p)
               THEN [demand EXCEPT !.generation = @ + 1, !.retry_attempt = 0,
                                   !.state = IF @ = "running" THEN @ ELSE "preparing"]
               ELSE demand
    IN  [row EXCEPT !.planned_sequence = plan[p].sequence, !.index_revision = revision,
                    !.first_event = "none", !.not_before = "due"]

RunsOf(row) == {i \in 1..Len(runs) : /\ runs[i].generation = row.generation
                                     /\ runs[i].retry_attempt = row.retry_attempt}

\* bind_execution_slot's write
Bound(i) == [state |-> "executing", owner |-> slot.owner, lease |-> "none", run |-> i]

\* adopt_frozen_run and bind_execution_slot: target, run, intent and slot in
\* one transaction.
AdoptNewRun(p) ==
    /\ plan[p].pc = "planned"
    /\ Refusal(p) = "none"
    /\ RunsOf(FreezeTarget(p)) = {}
    /\ target' = plan[p].target
    /\ runs' = Append(runs, [generation |-> FreezeTarget(p).generation,
                             retry_attempt |-> FreezeTarget(p).retry_attempt,
                             cause |-> plan[p].target.cause,
                             status |-> "QUEUED", task |-> "unpublished"])
    /\ demand' = [FreezeTarget(p) EXCEPT !.state = "queued"]
    /\ slot' = Bound(Len(runs) + 1)
    /\ plan' = [plan EXCEPT ![p] = IdlePlan]
    /\ UNCHANGED <<current, catalog, cursors, live, budgets>>

\* The same for a plan whose run exists: adopt_frozen_run returns it, whatever
\* its status, and leaves demand.state alone.
AdoptExistingRun(p) ==
    /\ plan[p].pc = "planned"
    /\ Refusal(p) = "none"
    /\ \E i \in RunsOf(FreezeTarget(p)) : slot' = Bound(i)
    /\ demand' = FreezeTarget(p)
    /\ plan' = [plan EXCEPT ![p] = IdlePlan]
    /\ UNCHANGED <<target, runs, current, catalog, cursors, live, budgets>>

\* _process_claim's handler: a planner that still has the slot gives it back,
\* and settles the demand unless its plan was only stale.
GiveUp(p, error) ==
    /\ slot' = IF HoldsSlot(p) THEN NoSlot ELSE slot
    /\ demand' = IF HoldsSlot(p) /\ error \notin StalePlanErrors
                 THEN RuntimeFailure(demand, "planning_retry", Cause, TRUE) ELSE demand
    /\ plan' = [plan EXCEPT ![p] = IdlePlan]
    /\ UNCHANGED <<target, runs, current, catalog, cursors, live, budgets>>

AdoptionRefused(p) == /\ plan[p].pc = "planned"
                      /\ Refusal(p) # "none"
                      /\ GiveUp(p, Refusal(p))

SlotLost(p) == /\ plan[p].pc \in {"claimed", "failed"}
               /\ ~(HoldsSlot(p) /\ slot.lease = "live")
               /\ GiveUp(p, "ANALYSIS_SLOT_LOST")

\* The core, the object store or the database fails the planner.
PlanningFails(p) == /\ plan[p].pc # "idle"
                    /\ GiveUp(p, "CORE_FAILED")

PlannerCrashes(p) == /\ Fault
                     /\ plan[p].pc # "idle"
                     /\ plan' = [plan EXCEPT ![p] = IdlePlan]
                     /\ UNCHANGED <<demand, target, runs, current, slot, catalog, cursors, live,
                                    events>>

\* The planning lease passes its deadline: at once if its owner is gone, by a
\* fault (a stalled planner) if it is not.
PlanningLeaseLapses ==
    /\ slot.state = "planning" /\ slot.lease = "live"
    /\ slot' = [slot EXCEPT !.lease = "lapsed"]
    /\ IF plan[slot.owner].pc = "idle" THEN UNCHANGED faults ELSE Fault
    /\ UNCHANGED <<demand, target, runs, current, plan, catalog, cursors, live, events>>

\* demand.not_before passes.
NotBeforePasses == /\ demand.not_before = "future"
                   /\ demand' = [demand EXCEPT !.not_before = "due"]
                   /\ UNCHANGED <<target, runs, current, slot, plan, catalog, cursors, live,
                                  budgets>>

-----------------------------------------------------------------------------
(* The run.                                                                *)

Matches(i) == /\ demand.generation = runs[i].generation
              /\ demand.retry_attempt = runs[i].retry_attempt

\* release_execution_slot_for_run
Released(i) == IF slot.state = "executing" /\ slot.run = i THEN NoSlot ELSE slot

RunMoves(i, status, task) ==
    runs' = [runs EXCEPT ![i] = [@ EXCEPT !.status = status, !.task = task]]

\* The relay publishes the run's message (outbox_relay.py), the delivery
\* timeout of recover_expired_frozen_runs passes, the worker's lease runs out.
IsPublished(i) == /\ runs[i].task = "unpublished"
                  /\ RunMoves(i, runs[i].status, "published")
                  /\ UNCHANGED <<demand, target, current, slot, plan, catalog, cursors, live,
                                 budgets>>

DeliveryTimesOut(i) == /\ runs[i].task = "published"
                       /\ RunMoves(i, runs[i].status, "overdue")
                       /\ UNCHANGED <<demand, target, current, slot, plan, catalog, cursors, live,
                                      budgets>>

RunLeaseLapses(i) == /\ Fault
                     /\ runs[i].task = "running"
                     /\ RunMoves(i, runs[i].status, "lapsed")
                     /\ UNCHANGED <<demand, target, current, slot, plan, catalog, cursors, live,
                                    events>>

\* analyze_frozen_run, first transaction
ClaimRun(i) ==
    /\ runs[i].task \in {"published", "overdue", "lapsed"}
    /\ Active(i)
    /\ RunMoves(i, "ANALYZING", "running")
    /\ demand' = IF Matches(i)
                 THEN [demand EXCEPT !.state = "running", !.reason = Because("analysis_running"),
                                     !.not_before = "none"]
                 ELSE demand
    /\ UNCHANGED <<target, current, slot, plan, catalog, cursors, live, budgets>>

\* claim_is_current and the status test of the final transactions.  None of
\* them looks at the lease.
MayFinish(i) == runs[i].task \in {"running", "lapsed"} /\ runs[i].status = "ANALYZING"

\* analyze_frozen_run, last transaction
CompleteRun(i) ==
    /\ MayFinish(i)
    /\ RunMoves(i, "COMPLETE", "ended")
    /\ slot' = Released(i)
    /\ \E d \in Decisions(runs[i].cause) :
          /\ current' = IF d.verdict = "promote" THEN i ELSE current
          /\ demand' = IF Matches(i) THEN ComparisonSettled(d) ELSE demand
    /\ UNCHANGED <<target, plan, catalog, cursors, live, budgets>>

\* _fail_run; what is retryable depends on the error code (_frozen_failure_retryable).
FailRun(i) ==
    /\ MayFinish(i)
    /\ RunMoves(i, "FAILED", "ended")
    /\ \E retryable \in BOOLEAN :
          demand' = IF Matches(i) THEN ExecutionFailure(runs[i].cause, retryable) ELSE demand
    /\ slot' = Released(i)
    /\ UNCHANGED <<target, current, plan, catalog, cursors, live, budgets>>

\* Mutant: recovery looks for expired leases only.
Abandoned_LeaseOnly(i) == runs[i].task = "lapsed" /\ runs[i].status = "ANALYZING"

Abandoned(i) == \/ runs[i].task = "lapsed" /\ runs[i].status = "ANALYZING"
                \/ runs[i].task = "overdue" /\ runs[i].status = "QUEUED"

\* recover_expired_frozen_runs
RecoverRun(i) ==
    /\ Abandoned(i)
    /\ RunMoves(i, "FAILED", "ended")
    /\ demand' = IF Matches(i) THEN ExecutionFailure(runs[i].cause, TRUE) ELSE demand
    /\ slot' = Released(i)
    /\ UNCHANGED <<target, current, plan, catalog, cursors, live, budgets>>

\* A review promotes a newer run over Current (apply_result_review).
ReviewPromotes(i) ==
    /\ Event("review")
    /\ runs[i].status = "COMPLETE"
    /\ current # 0 /\ current < i
    /\ current' = i
    /\ demand' = IF demand.generation = runs[i].generation /\ demand.state = "needs_review"
                 THEN Settled(demand, "updated") ELSE demand
    /\ UNCHANGED <<target, runs, slot, plan, catalog, cursors, live, faults>>

-----------------------------------------------------------------------------
Environment == \/ CatalogChanges \/ DeclareWorkspaceModuleRole
               \/ DumpExpires \/ DumpRestored \/ RestartExhaustedDemand
Fanout == FanoutNext \/ FanoutWorkspaceRoleNext
PlannerStep(p) == \/ RegisterInspection(p) \/ Snapshot(p)
                  \/ AdoptNewRun(p) \/ AdoptExistingRun(p)
                  \/ AdoptionRefused(p) \/ SlotLost(p) \/ PlanningFails(p)
Scheduling == ReconcileSlots \/ PlanningLeaseLapses \/ NotBeforePasses
Delivery(i) == IsPublished(i) \/ DeliveryTimesOut(i)
WorkerStep(i) == ClaimRun(i) \/ RunLeaseLapses(i)
Ending(i) == CompleteRun(i) \/ FailRun(i)

Next == \/ Environment \/ Fanout \/ Scheduling
        \/ \E p \in Planners : ClaimExecutionSlot(p) \/ PlannerStep(p) \/ PlannerCrashes(p)
        \/ \E i \in 1..Len(runs) : \/ Delivery(i) \/ WorkerStep(i) \/ Ending(i)
                                   \/ RecoverRun(i) \/ ReviewPromotes(i)

Spec == Init /\ [][Next]_vars

\* The loop of automatic_main.py takes its steps, the clock runs, the relay
\* publishes, and a worker whose lease is live ends its run.  That a message
\* reaches a worker at all is not assumed.
Fairness ==
    /\ WF_vars(FanoutNext) /\ WF_vars(FanoutWorkspaceRoleNext)
    /\ WF_vars(ReconcileSlots)
    /\ WF_vars(PlanningLeaseLapses /\ UNCHANGED faults)
    /\ WF_vars(NotBeforePasses)
    /\ \A p \in Planners : WF_vars(ClaimExecutionSlot(p)) /\ WF_vars(PlannerStep(p))
    /\ WF_vars(\E i \in 1..Len(runs) : IsPublished(i))
    /\ WF_vars(\E i \in 1..Len(runs) : DeliveryTimesOut(i))
    /\ WF_vars(\E i \in 1..Len(runs) : runs[i].task = "running" /\ Ending(i))
    /\ WF_vars(\E i \in 1..Len(runs) : RecoverRun(i))

FairSpec == Spec /\ Fairness

-----------------------------------------------------------------------------
(* Properties.                                                             *)

\* A run in progress is the only one, it has the demand's slot, and it is the
\* run of the demand's generation and attempt.  The slot is what keeps a
\* planner from freezing a new target under a running analysis: nothing else
\* in freeze_target or adopt_frozen_run looks at the runs in progress.
ActiveRunHoldsTheSlot ==
    \A i \in 1..Len(runs) : Active(i) => /\ slot.state = "executing" /\ slot.run = i
                                         /\ Matches(i)

\* A generation has at most MaxAttempts runs: the attempts that planning, a
\* run, a comparison and a recovery use up come from one budget.
RetryBudget ==
    \A i \in 1..Len(runs) :
        Cardinality({j \in 1..Len(runs) : runs[j].generation = runs[i].generation})
            <= MaxAttempts

\* However planners, runs, recoveries and lapsed leases interleave: rows keep to
\* their check constraints, the slot excludes, and the attempts stay in budget.
SlotAndBudget == TypeOK /\ ActiveRunHoldsTheSlot /\ RetryBudget

\* A demand that has been decided was decided on what the catalog and the
\* workspace's roles offer now, once the changes have been fanned out: no change
\* is lost between the cursor, index_revision, the plan and the settlement.
Decided == demand.state \in {"updated", "retained", "needs_review"}
FannedOut == cursor = revision /\ policy_cursor = policy
FreshWhenDecided ==
    Decided /\ FannedOut /\ live => target.evidence = evidence /\ target.policy = policy

\* The runs of the demand climb a ladder: growing generations, growing attempts
\* below the budget, one at a time.
Newest == runs[Len(runs)]
Ladder == INSTANCE RunLadder WITH
              generation <- IF runs = <<>> THEN 0 ELSE Newest.generation,
              attempt <- IF runs = <<>> THEN 0 ELSE Newest.retry_attempt,
              active <- runs # <<>> /\ Newest.status \in ActiveStates
OneRunAtATime == Ladder!Spec

\* Whatever fails, the demand comes to rest again and again, or its plan found
\* a run that exists: recovery, the retry budget and the leases leave no run
\* and no slot behind.
Replayed == slot.state = "executing" /\ ~Active(slot.run)
RestsOrReplays == []<>(demand.state \in AtRest \/ Replayed)
=============================================================================
