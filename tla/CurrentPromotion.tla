-------------------------- MODULE CurrentPromotion --------------------------
(***************************************************************************)
(* How the runs of one occurrence become its Current: the worker that      *)
(* compares its report with the Current it has read, outside any lock, and *)
(* decides in the final transaction (analyze_frozen_run in processor.py,   *)
(* current_decisions.py); the reviews that promote a report by hand        *)
(* (result_reviews.py); and the provider reviews of the catalog pairs that *)
(* both rest on.                                                           *)
(*                                                                         *)
(* A demand has one run at a time that is not terminal (ExecutionSlots)    *)
(* and a run one worker whose claim is current (TaskHandoff).  The demand  *)
(* keeps here what its settlement reads and writes; how it waits, is       *)
(* planned and expires is in AnalysisDemand.                               *)
(***************************************************************************)
EXTENDS EvidenceComparison

CONSTANTS Results,         \* what the core may find in the dump
          Report(_, _, _), \* the report of a result, for a cause and a role policy
          Reviewers,       \* requests that post a result review
          Pairs,           \* catalog pairs that modules of the dump may select
          Identity,        \* Identity[p]: the module identity of pair p
          FirstPairs,      \* FirstPairs[p]: the pair's row when the dump is uploaded
          Causes,          \* reasons of a run: initial, symbol_refresh, ...
          MaxRuns,         \* bound: runs of the occurrence
          MaxComparisons,  \* the eight attempts of the final transaction
          MaxAttempts,     \* settings.analysis_max_attempts
          MaxChanges,      \* bound: changes that ask for a new generation
          MaxPairEvents,   \* bound: pairs made, withdrawn and reinstated
          MaxFaults        \* bound: workers lost and analyses that fail

ASSUME PromotionAssumption ==
    /\ Nothing \notin Results
    /\ FirstPairs \in [Pairs -> [state : {"absent", "active", "withdrawn"}, version : Nat]]
    /\ Identity \in [Pairs -> STRING]
    /\ "initial" \in Causes
    /\ MaxRuns \in Nat /\ MaxComparisons \in Nat \ {0} /\ MaxAttempts \in Nat \ {0}
    /\ MaxChanges \in Nat /\ MaxPairEvents \in Nat /\ MaxFaults \in Nat

\* The reports that reach the final transaction: records, each of a run that succeeded,
\* whose frames are a sequence.
AllReports == {Report(k, cause, p) : k \in Results, cause \in Causes, p \in 0..MaxChanges}
ASSUME ReportsAreOfSuccess ==
    /\ Nothing \notin AllReports
    /\ \A n \in AllReports : /\ {"dump", "status", "provenance", "usable", "complete",
                                 "fault", "modules", "frames"} \subseteq DOMAIN n
                             /\ n.status \in TerminalSuccess
                             /\ n.frames \in Seq({n.frames[k] : k \in DOMAIN n.frames})

VARIABLES run,       \* run[r]: the analysis_runs row with the r-th oldest id
          current,   \* occurrence.current_run_id, 0 for none
          demand,    \* the auto_analysis_demands row
          worker,    \* what the worker of the run that is not terminal has read
          policy,    \* the workspace's module role version
          pair,      \* pair[p]: the catalog_pairs row
          prepared,  \* prepared[v]: the review that v has prepared, or Nothing
          budget     \* changes, pair events and faults left to happen

vars == <<run, current, demand, worker, policy, pair, prepared, budget>>

Runs == 1..MaxRuns
-----------------------------------------------------------------------------
(* Rows                                                                    *)

\* What the frozen spec selects for a module: no pair, one, or a conflict of several.
Selections == [selection : {"none", "unique", "conflict"}, pair : Pairs \cup {Nothing}]

RunRow == [status : {"absent", "ANALYZING", "COMPLETE", "PARTIAL", "FAILED"},
           result : Results \cup {Nothing},  \* result_object_key
           decided : BOOLEAN,                \* there is a current_decisions row
          reviewed : BOOLEAN,               \* and a result_reviews row that promotes it
           generation : Nat, retry_attempt : Nat, reason : Causes, policy : Nat,
           selected : [{Identity[p] : p \in Pairs} -> Selections]]
NoRun == [status |-> "absent", result |-> Nothing, decided |-> FALSE, reviewed |-> FALSE,
          generation |-> 0,
          retry_attempt |-> 0, reason |-> "initial", policy |-> 0,
          selected |-> [i \in {Identity[p] : p \in Pairs} |->
                          [selection |-> "none", pair |-> Nothing]]]

DemandRow == [state : {"preparing", "running", "updated", "retained", "needs_review",
                       "retry_wait", "retry_exhausted"},
              generation : Nat, retry_attempt : Nat, cause : Causes, pending : BOOLEAN]

\* "idle": nothing computed yet; "computed": the report is uploaded; "read": and
\* the evidence of the Current is read.
WorkerState == [phase : {"idle", "computed", "read"}, result : Results \cup {Nothing},
                observed : Runs \cup {0}, comparisons : 0..MaxComparisons]
IdleWorker == [phase |-> "idle", result |-> Nothing, observed |-> 0, comparisons |-> 0]

PairRow == [state : {"absent", "active", "withdrawn"}, version : Nat]

\* PreparedResultReview; basis is what the cited provider reviews say.
Review == [current : Runs, candidate : Runs,
           cause : {"role_change", "evidence_correction"},
           basis : SUBSET [pair : Pairs, version : Nat, state : {"active", "withdrawn"}]]

Init == /\ run = [r \in Runs |-> NoRun]
        /\ current = 0
        /\ demand = [state |-> "preparing", generation |-> 0, retry_attempt |-> 0,
                     cause |-> "initial", pending |-> FALSE]
        /\ worker = IdleWorker
        /\ policy = 0
        /\ pair = FirstPairs
        /\ prepared = [v \in Reviewers |-> Nothing]
        /\ budget = [changes |-> MaxChanges, pairs |-> MaxPairEvents, faults |-> MaxFaults]

-----------------------------------------------------------------------------
(* What there is around a run.                                             *)

Terminal(r) == run[r].status \in {"COMPLETE", "PARTIAL", "FAILED"}
Active(r) == run[r].status = "ANALYZING"
ActivePairs(identity) == {p \in Pairs : Identity[p] = identity /\ pair[p].state = "active"}
\* prepare_resolution selects the pair that is the only active one.
Selection(identity) ==
    LET found == ActivePairs(identity) IN
    CASE found = {} -> [selection |-> "none", pair |-> Nothing]
      [] Cardinality(found) = 1 -> [selection |-> "unique", pair |-> CHOOSE p \in found : TRUE]
      [] OTHER -> [selection |-> "conflict", pair |-> Nothing]

\* A planner freezes the target and adopts a run for it: for a new generation, or
\* for another attempt at this one.  The delivery of its task starts it.
StartRun(r) ==
    /\ ~ \E q \in Runs : Active(q)
    /\ run[r].status = "absent"
    /\ \A q \in 1..r - 1 : run[q].status # "absent"
    /\ \E again \in BOOLEAN :
          /\ demand.state = IF again THEN "retry_wait" ELSE "preparing"
          /\ demand' = [demand EXCEPT
                          !.state = "running",
                          !.pending = FALSE,
                          !.generation = IF again THEN @ ELSE @ + 1,
                          !.retry_attempt = IF again THEN @ ELSE 0]
    /\ run' = [run EXCEPT ![r] = [NoRun EXCEPT
                  !.status = "ANALYZING", !.reason = demand.cause, !.policy = policy,
                  !.generation = demand'.generation, !.retry_attempt = demand'.retry_attempt,
                  !.selected = [i \in DOMAIN NoRun.selected |-> Selection(i)]]]
    /\ worker' = IdleWorker
    /\ UNCHANGED <<current, policy, pair, prepared, budget>>

\* _note_change for a change that concerns the dump.  A run in progress is settled
\* first, and a cause that comes before the worker's claim is lost (AnalysisDemand).
Change(cause) ==
    /\ budget.changes > 0
    /\ cause # "initial" /\ demand.generation > 0
    /\ \E kept \in {cause} \cup (IF demand.state = "running" THEN {"initial"} ELSE {}) :
          demand' = [demand EXCEPT !.cause = kept,
                                   !.state = IF @ = "running" THEN @ ELSE "preparing",
                                   !.pending = demand.state = "running"]
    /\ policy' = IF cause = "role_change" THEN policy + 1 ELSE policy
    /\ budget' = [budget EXCEPT !.changes = @ - 1]
    /\ UNCHANGED <<run, current, worker, pair, prepared>>

\* _accept_file pairs two files; review_pair withdraws the pair or reinstates it.
PairEvent(p) ==
    /\ budget.pairs > 0
    /\ pair' = [pair EXCEPT ![p] =
                  [state |-> IF @.state = "active" THEN "withdrawn" ELSE "active",
                   version |-> @.version + 1]]
    /\ budget' = [budget EXCEPT !.pairs = @ - 1]
    /\ UNCHANGED <<run, current, demand, worker, policy, prepared>>

-----------------------------------------------------------------------------
(* The worker of a run                                                     *)

\* What the core may make of a frozen run: its selections are the frozen ones.
Frozen(r, n) ==
    \A i \in DOMAIN n.modules :
        n.modules[i].identity \in DOMAIN run[r].selected
          => [selection |-> n.modules[i].selection, pair |-> n.modules[i].pair]
                = run[r].selected[n.modules[i].identity]

Compute(r) ==
    /\ Active(r) /\ worker.phase = "idle"
    /\ \E k \in Results :
          /\ Frozen(r, Report(k, run[r].reason, run[r].policy))
          /\ worker' = [worker EXCEPT !.phase = "computed", !.result = k]
    /\ UNCHANGED <<run, current, demand, policy, pair, prepared, budget>>

\* _prepare_current_evidence, in a transaction of its own and from object storage.
ReadCurrent(r) ==
    /\ Active(r) /\ worker.phase = "computed"
    /\ worker.comparisons < MaxComparisons
    /\ worker' = [worker EXCEPT !.phase = "read", !.observed = current,
                                !.comparisons = @ + 1]
    /\ UNCHANGED <<run, current, demand, policy, pair, prepared, budget>>

WorkersReport(r) == Report(worker.result, run[r].reason, run[r].policy)
ReportOf(c) == IF c = 0 THEN Nothing ELSE Report(run[c].result, run[c].reason, run[c].policy)

Retried(d) == IF d.retry_attempt + 1 >= MaxAttempts
              THEN [d EXCEPT !.state = "retry_exhausted"]
              ELSE [d EXCEPT !.state = "retry_wait", !.retry_attempt = @ + 1]
\* _restore_pending_change: what came while the run was going on has the last word.
Settled(d) == IF d.pending THEN [d EXCEPT !.state = "preparing"] ELSE d
SettledBy(verdict) ==
    Settled(IF verdict.retry THEN Retried(demand)
            ELSE [demand EXCEPT !.state = CASE Promotes(verdict) -> "updated"
                                            [] verdict.decision = "incomparable" -> "needs_review"
                                            [] OTHER -> "retained"])

\* A run answers for the generation and the attempt it was started for.
SettlesDemand(r) == /\ demand.generation = run[r].generation
                    /\ demand.retry_attempt = run[r].retry_attempt

\* Mutant: the Current that the comparison used is not compared with the one there.
Finalize_Unchecked(r) ==
    /\ Active(r) /\ worker.phase = "read"
    /\ \E verdict \in {Compare(ReportOf(worker.observed), WorkersReport(r), FALSE, FALSE)} :
          /\ run' = [run EXCEPT ![r] = [run[r] EXCEPT !.status = WorkersReport(r).status,
                                                      !.result = worker.result,
                                                      !.decided = TRUE]]
          /\ current' = IF Promotes(verdict) THEN r ELSE current
          /\ demand' = IF SettlesDemand(r) THEN SettledBy(verdict) ELSE demand
    /\ worker' = IdleWorker
    /\ UNCHANGED <<policy, pair, prepared, budget>>

\* Mutant: only a report that becomes Current ends its run.
Finalize_Undecided(r) ==
    /\ Active(r) /\ worker.phase = "read"
    /\ current = worker.observed
    /\ \E verdict \in {Compare(ReportOf(current), WorkersReport(r), FALSE, FALSE)} :
          /\ run' = IF Promotes(verdict)
                    THEN [run EXCEPT ![r] = [run[r] EXCEPT !.status = WorkersReport(r).status,
                                                           !.result = worker.result,
                                                           !.decided = TRUE]]
                    ELSE run
          /\ current' = IF Promotes(verdict) THEN r ELSE current
          /\ demand' = IF SettlesDemand(r) THEN SettledBy(verdict) ELSE demand
    /\ worker' = IdleWorker
    /\ UNCHANGED <<policy, pair, prepared, budget>>

\* The final transaction, with promote_current_by_evidence, select_current_run and
\* the settlement of the demand; the projections are in CurrentProjections.
Finalize(r) ==
    /\ Active(r) /\ worker.phase = "read"
    /\ current = worker.observed
    /\ \E verdict \in {Compare(ReportOf(current), WorkersReport(r), FALSE, FALSE)} :
          /\ run' = [run EXCEPT ![r] = [run[r] EXCEPT !.status = WorkersReport(r).status,
                                                      !.result = worker.result,
                                                      !.decided = TRUE]]
          /\ current' = IF Promotes(verdict) THEN r ELSE current
          /\ demand' = IF SettlesDemand(r) THEN SettledBy(verdict) ELSE demand
    /\ worker' = IdleWorker
    /\ UNCHANGED <<policy, pair, prepared, budget>>

\* Current changed since: the transaction is rolled back and the loop goes round.
Recompare(r) ==
    /\ Active(r) /\ worker.phase = "read"
    /\ current # worker.observed
    /\ worker' = [worker EXCEPT !.phase = "computed"]
    /\ UNCHANGED <<run, current, demand, policy, pair, prepared, budget>>

\* _fail_run after an error of the core or the storage, which may come back or not,
\* after the last comparison too, and analysis_recovery for a run nobody works on.
FailRun(r) ==
    /\ Active(r)
    /\ run' = [run EXCEPT ![r].status = "FAILED"]
    /\ \E retryable \in BOOLEAN :
          demand' = IF ~ SettlesDemand(r) THEN demand
                    ELSE Settled(IF retryable THEN Retried(demand)
                                 ELSE [demand EXCEPT !.state = "needs_review"])
    /\ worker' = IdleWorker
    /\ UNCHANGED <<current, policy, pair, prepared>>

ComparedTooOften(r) == /\ worker.phase = "computed"
                       /\ worker.comparisons = MaxComparisons
                       /\ FailRun(r)
                       /\ UNCHANGED budget
AnalysisFails(r) == /\ budget.faults > 0
                    /\ FailRun(r)
                    /\ budget' = [budget EXCEPT !.faults = @ - 1]

\* The claim lapses or the process dies; the next delivery starts from the inputs.
LoseWorker(r) ==
    /\ Active(r) /\ worker.phase # "idle"
    /\ budget.faults > 0
    /\ worker' = IdleWorker
    /\ budget' = [budget EXCEPT !.faults = @ - 1]
    /\ UNCHANGED <<run, current, demand, policy, pair, prepared>>

-----------------------------------------------------------------------------
(* Reviews                                                                 *)

PairsOf(n) == {n.modules[i].pair : i \in DOMAIN n.modules} \ {Nothing}

\* snapshot_provider_review_basis: the pair's present review, if it bears on the
\* difference between the two reports.  A pair's first version has no review.
CurrentReviews(c, n) ==
    {[pair |-> p, version |-> pair[p].version, state |-> pair[p].state] :
        p \in {q \in Pairs :
                 /\ pair[q].version > 1
                 /\ \/ /\ pair[q].state = "withdrawn"
                       /\ q \in PairsOf(ReportOf(c)) \ PairsOf(ReportOf(n))
                    \/ /\ pair[q].state = "active"
                       /\ q \in PairsOf(ReportOf(n)) \ PairsOf(ReportOf(c))}}

\* bind_result_review_request
Binds(w) ==
    /\ w.candidate > w.current
    /\ run[w.candidate].status \in TerminalSuccess
    /\ ReportOf(w.candidate).complete /\ ReportOf(w.candidate).usable
    /\ w.cause = "role_change" => /\ run[w.candidate].reason = "role_change"
                                  /\ run[w.candidate].policy # run[w.current].policy
    /\ w.cause = "evidence_correction" => w.basis # {}

PrepareReview(v) ==
    /\ prepared[v] = Nothing
    /\ current # 0
    /\ \E n \in {r \in Runs : run[r].decided}, cause \in {"role_change", "evidence_correction"} :
       \E basis \in SUBSET CurrentReviews(current, n) :
          LET w == [current |-> current, candidate |-> n, cause |-> cause, basis |-> basis] IN
          /\ Binds(w)
          /\ prepared' = [prepared EXCEPT ![v] = w]
    /\ UNCHANGED <<run, current, demand, worker, policy, pair, budget>>

\* Each pair of the candidate is still the only active one of its identity.
StillEligible(n) ==
    \A i \in DOMAIN n.modules :
        n.modules[i].pair # Nothing => ActivePairs(n.modules[i].identity) = {n.modules[i].pair}

\* Mutant: the demand is settled whatever its generation.
ReviewSettles_AnyGeneration(r) == demand.state = "needs_review"
ReviewSettles(r) == /\ demand.state = "needs_review"
                    /\ demand.generation = run[r].generation

\* Mutant: the candidate's pairs are those it had when the review was prepared.
Acceptable_StalePairs(w) ==
    /\ current = w.current
    /\ Binds(w)
    /\ w.basis \subseteq CurrentReviews(w.current, w.candidate)

\* The checks of commit_result_review under the locks of catalog and occurrence.
Acceptable(w) ==
    /\ current = w.current
    /\ Binds(w)
    /\ w.basis \subseteq CurrentReviews(w.current, w.candidate)
    /\ StillEligible(ReportOf(w.candidate))

\* The transaction of a review; posting the same request once more finds its row
\* and changes nothing.
CommitReview(v) ==
    /\ prepared[v] # Nothing
    /\ prepared' = [prepared EXCEPT ![v] = Nothing]
    /\ LET w == prepared[v]
           verdict == Compare(ReportOf(w.current),
                              [ReportOf(w.candidate) EXCEPT !.reason = w.cause], FALSE, TRUE)
       IN IF Acceptable(w) /\ Promotes(verdict)
          THEN /\ current' = w.candidate
               /\ run' = [run EXCEPT ![w.candidate].reviewed = TRUE]
               /\ demand' = IF ReviewSettles(w.candidate)
                            THEN [demand EXCEPT !.state = "updated"] ELSE demand
          ELSE UNCHANGED <<run, current, demand>>
    /\ UNCHANGED <<worker, policy, pair, budget>>

-----------------------------------------------------------------------------
Reads(r) == Compute(r) \/ ReadCurrent(r) \/ Recompare(r) \/ ComparedTooOften(r)
Next == \/ \E r \in Runs : Reads(r) \/ Finalize(r)
        \/ \E r \in Runs : StartRun(r) \/ AnalysisFails(r) \/ LoseWorker(r)
        \/ \E cause \in Causes : Change(cause)
        \/ \E p \in Pairs : PairEvent(p)
        \/ \E v \in Reviewers : PrepareReview(v) \/ CommitReview(v)

\* The worker of the one run that is not terminal goes on; nobody has to start a run
\* or to review.  Decides is weak fairness of Finalize, without an ENABLED that
\* compares reports.
Decides == \/ []<>(~ \E r \in Runs : /\ Active(r) /\ worker.phase = "read"
                                      /\ current = worker.observed)
           \/ []<><<run' # run>>_vars
Spec == Init /\ [][Next]_vars /\ WF_vars(\E r \in Runs : Reads(r)) /\ Decides

-----------------------------------------------------------------------------
TypeOK == /\ run \in [Runs -> RunRow]
          /\ current \in Runs \cup {0}
          /\ demand \in DemandRow
          /\ worker \in WorkerState
          /\ policy \in Nat
          /\ pair \in [Pairs -> PairRow]
          /\ prepared \in [Reviewers -> {Nothing} \cup Review]

\* What made the Current what it is.
MadeBy == IF current = 0 THEN "nobody" ELSE IF run[current].reviewed THEN "review" ELSE "rule"

\* Every replacement of the Current is one that the rule allows for the report that
\* it replaces, not for one that a worker or a reviewer has seen before.
Promised == INSTANCE CurrentReport
                   WITH report <- ReportOf(current), Reports <- AllReports,
                        Allowed <- Allows, Reviewable <- AllowsReviewed,
                        by <- MadeBy
Promise == Promised!ReportSpec

\* A demand that says its report is up to date speaks of the generation it is at:
\* neither a late review nor an older run answers for a newer one.
UpdatedIsCurrent == demand.state = "updated" => /\ current # 0
                                                /\ run[current].generation = demand.generation

\* Runs, demand, pairs and reviews keep their types, and what the demand says of
\* its Current is so, whatever promotions, reviews and retries pass each other.
DecisionsAreSound == TypeOK /\ UpdatedIsCurrent

\* A review makes no report Current that rests on a pair which is withdrawn, or not
\* the only one, at that time.
ReviewedPairsHold ==
    [][\A r \in Runs : (current' = r /\ current # r /\ run[r].decided)
          => StillEligible(ReportOf(r))]_vars

\* An analysis that is running ends, with a decision or a failure, also if Current
\* changes under it and workers are lost.
EveryRunEnds == \A r \in Runs : Active(r) ~> Terminal(r)
=============================================================================
