----------------------- MODULE CurrentPromotionProofs -----------------------
(***************************************************************************)
(* CurrentPromotion: the decisions and their demand are sound, reviews     *)
(* rest on pairs that hold, and the workers and reviewers together         *)
(* implement CurrentReport.  Up to there nothing is used of the rule       *)
(* evidence-v1 but that a review's cause has no part in its verdict.  Then *)
(* the rule is unfolded: what it promotes keeps the business facts of the  *)
(* Current, what it loses is excused, and it is an order: no report that a *)
(* better one has replaced comes back (ReportHistory).                     *)
(***************************************************************************)
EXTENDS CurrentPromotion, ReportHistory, FiniteSetTheorems, SequenceTheorems,
        WellFoundedInduction, TLAPS

-----------------------------------------------------------------------------
(* The inductive invariant                                                 *)

\* Runs are made in the order of their ids, for growing generations.
RunsAreInOrder ==
    \A q, r \in Runs : q < r /\ run[r].status # "absent"
                         => /\ run[q].status # "absent"
                            /\ run[q].generation <= run[r].generation
RunsAreOfTheDemand ==
    \A r \in Runs :
        /\ run[r].status # "absent" => run[r].generation <= demand.generation
        /\ Active(r) => /\ demand.state = "running"
                        /\ SettlesDemand(r)
OneActive == \A q, r \in Runs : Active(q) /\ Active(r) => q = r
\* Only a run that has ended with a result is decided on, and only it is reviewed.
DecidedIsOver ==
    \A r \in Runs :
        /\ run[r].decided => run[r].status \in TerminalSuccess /\ run[r].result \in Results
        /\ run[r].reviewed => run[r].decided
DecidedIsKept ==
    /\ current # 0 => run[current].decided
    /\ \A v \in Reviewers : prepared[v] # Nothing => run[prepared[v].candidate].decided
\* What a worker computed, and the policy versions that reports speak of.
WorkKnown == /\ worker.phase # "idle" => worker.result \in Results
             /\ budget \in [changes : Nat, pairs : Nat, faults : Nat]
             /\ policy + budget.changes <= MaxChanges
             /\ \A r \in Runs : run[r].policy <= policy

IInv == /\ TypeOK /\ UpdatedIsCurrent
        /\ RunsAreInOrder /\ RunsAreOfTheDemand /\ OneActive
        /\ DecidedIsOver /\ DecidedIsKept /\ WorkKnown
-----------------------------------------------------------------------------
(* What the actions write                                                  *)

LEMMA SelectionTyped == ASSUME NEW i PROVE Selection(i) \in Selections
  <1> DEFINE found == ActivePairs(i)
  <1>1. found \subseteq Pairs  BY DEF ActivePairs
  <1>2. CASE found = {}  BY <1>2, FS_EmptySet DEF Selection, Selections
  <1>3. CASE found # {} /\ Cardinality(found) = 1
    <2>1. (CHOOSE p \in found : TRUE) \in Pairs  BY <1>1, <1>3
    <2> QED  BY <1>3, <2>1 DEF Selection, Selections
  <1>4. CASE found # {} /\ Cardinality(found) # 1  BY <1>4 DEF Selection, Selections
  <1> QED  BY <1>2, <1>3, <1>4

LEMMA NoRunTyped == NoRun \in RunRow
  <1> DEFINE ids == {Identity[p] : p \in Pairs}
             none == [selection |-> "none", pair |-> Nothing]
  <1>1. [i \in ids |-> none] \in [ids -> Selections]
    <2>1. none \in Selections  BY DEF Selections
    <2> QED  BY <2>1
  <1> HIDE DEF ids, none
  <1> QED  BY <1>1, PromotionAssumption DEF NoRun, RunRow, ids, none

\* The settlement of a demand changes neither its generation nor its cause.
LEMMA SettlesTyped ==
    ASSUME NEW d \in DemandRow
    PROVE  /\ Settled(d) \in DemandRow /\ Settled(d).generation = d.generation
           /\ Settled(d).state \in {d.state, "preparing"}
           /\ Retried(d) \in DemandRow /\ Retried(d).generation = d.generation
           /\ Retried(d).state \in {"retry_wait", "retry_exhausted"}
  <1>1. \A s \in {"preparing", "retry_wait", "retry_exhausted"} :
           LET e == [d EXCEPT !.state = s]
           IN  e \in DemandRow /\ e.generation = d.generation /\ e.state = s
    BY DEF DemandRow
  <1>2. LET e == [d EXCEPT !.state = "retry_wait", !.retry_attempt = @ + 1]
        IN  e \in DemandRow /\ e.generation = d.generation /\ e.state = "retry_wait"
    <2>1. d.retry_attempt + 1 \in Nat  BY DEF DemandRow
    <2>2. ASSUME NEW n \in Nat
          PROVE  LET e == [d EXCEPT !.state = "retry_wait", !.retry_attempt = n]
                 IN  e \in DemandRow /\ e.generation = d.generation /\ e.state = "retry_wait"
      BY DEF DemandRow
    <2> QED  BY <2>1, <2>2
  <1> QED  BY <1>1, <1>2 DEF Settled, Retried

LEMMA SettledByTyped ==
    ASSUME demand \in DemandRow, NEW verdict
    PROVE  /\ SettledBy(verdict) \in DemandRow
           /\ SettledBy(verdict).generation = demand.generation
           /\ SettledBy(verdict).state # "running"
           /\ SettledBy(verdict).state = "updated" => Promotes(verdict)
  <1>1. CASE verdict.retry
    BY <1>1, SettlesTyped DEF SettledBy
  <1>2. CASE ~ verdict.retry
    <2> DEFINE d == [demand EXCEPT !.state = CASE Promotes(verdict) -> "updated"
                                            [] verdict.decision = "incomparable" -> "needs_review"
                                            [] OTHER -> "retained"]
    <2>1. /\ d \in DemandRow /\ d.generation = demand.generation
          /\ d.state \in {"updated", "needs_review", "retained"}
          /\ d.state = "updated" => Promotes(verdict)
      BY DEF DemandRow, Promotes
    <2> QED  BY <1>2, <2>1, SettlesTyped DEF SettledBy
  <1> QED  BY <1>1, <1>2
-----------------------------------------------------------------------------
(* Steps that leave the runs, the Current and the demand alone             *)

Stays == UNCHANGED <<run, current, demand>>

LEMMA StaysKeeps ==
    ASSUME IInv, Stays,
           worker' \in WorkerState, pair' \in [Pairs -> PairRow],
           prepared' \in [Reviewers -> {Nothing} \cup Review],
           \A v \in Reviewers : prepared'[v] \notin {Nothing, prepared[v]}
                                  => run[prepared'[v].candidate].decided,
           WorkKnown', UNCHANGED policy
    PROVE  IInv'
  <1>1. TypeOK'  BY DEF IInv, TypeOK, Stays
  <1>2. /\ UpdatedIsCurrent' /\ RunsAreInOrder' /\ RunsAreOfTheDemand'
        /\ OneActive' /\ DecidedIsOver'
    BY DEF IInv, Stays, UpdatedIsCurrent, RunsAreInOrder, RunsAreOfTheDemand, OneActive,
           DecidedIsOver, Active, SettlesDemand
  <1>3. DecidedIsKept'  BY DEF IInv, Stays, DecidedIsKept
  <1> QED  BY <1>1, <1>2, <1>3 DEF IInv

LEMMA ReadsKeep ==
    ASSUME IInv, NEW r \in Runs, Compute(r) \/ ReadCurrent(r) \/ Recompare(r) \/ LoseWorker(r)
    PROVE  IInv'
  <1> USE DEF IInv
  <1>1. UNCHANGED <<run, current, demand, policy, pair, prepared>>
    BY DEF Compute, ReadCurrent, Recompare, LoseWorker
  <1>2. worker' \in WorkerState /\ (worker'.phase # "idle" => worker'.result \in Results)
    <2>1. worker \in WorkerState /\ current \in Runs \cup {0}
          /\ MaxComparisons \in Nat /\ (worker.phase # "idle" => worker.result \in Results)
      BY PromotionAssumption DEF TypeOK, WorkKnown
    <2>2. CASE Compute(r)  BY <2>1, <2>2 DEF Compute, WorkerState
    <2>3. CASE ReadCurrent(r)
      <3>1. worker.comparisons + 1 \in 0..MaxComparisons
        BY <2>1, <2>3 DEF ReadCurrent, WorkerState
      <3>2. ASSUME NEW n \in 0..MaxComparisons, NEW c \in Runs \cup {0},
                   worker' = [worker EXCEPT !.phase = "read", !.observed = c, !.comparisons = n]
            PROVE  worker' \in WorkerState /\ worker'.result = worker.result
        BY <2>1, <3>2 DEF WorkerState
      <3>3. worker' = [worker EXCEPT !.phase = "read", !.observed = current,
                                     !.comparisons = worker.comparisons + 1]
        BY <2>3 DEF ReadCurrent
      <3>4. worker' \in WorkerState /\ worker'.result = worker.result
        BY <2>1, <3>1, <3>2, <3>3
      <3>5. worker.phase = "computed"  BY <2>3 DEF ReadCurrent
      <3> QED  BY <2>1, <3>4, <3>5
    <2>4. CASE Recompare(r)  BY <2>1, <2>4 DEF Recompare, WorkerState
    <2>5. CASE LoseWorker(r)  BY <2>1, <2>5 DEF LoseWorker, WorkerState, IdleWorker
    <2> QED  BY <2>2, <2>3, <2>4, <2>5
  <1>3. budget' \in [changes : Nat, pairs : Nat, faults : Nat] /\ budget'.changes = budget.changes
    <2>1. budget' = budget \/ (budget.faults > 0 /\ budget' = [budget EXCEPT !.faults = @ - 1])
      BY DEF Compute, ReadCurrent, Recompare, LoseWorker
    <2> QED  BY <2>1 DEF WorkKnown
  <1>4. WorkKnown'  BY <1>1, <1>2, <1>3 DEF WorkKnown
  <1>5. pair' \in [Pairs -> PairRow] /\ prepared' \in [Reviewers -> {Nothing} \cup Review]
    BY <1>1 DEF TypeOK
  <1> HIDE DEF IInv
  <1> QED  BY <1>1, <1>2, <1>4, <1>5, StaysKeeps DEF Stays

LEMMA PairEventKeeps == ASSUME IInv, NEW p \in Pairs, PairEvent(p) PROVE IInv'
  <1>1. UNCHANGED <<run, current, demand, worker, policy, prepared>>  BY DEF PairEvent
  <1>2. pair' \in [Pairs -> PairRow]  BY DEF PairEvent, IInv, TypeOK, PairRow
  <1>3. budget' \in [changes : Nat, pairs : Nat, faults : Nat] /\ budget'.changes = budget.changes
    BY DEF PairEvent, IInv, WorkKnown
  <1>4. WorkKnown'  BY <1>1, <1>3 DEF IInv, WorkKnown
  <1>5. worker' \in WorkerState /\ prepared' \in [Reviewers -> {Nothing} \cup Review]
    BY <1>1 DEF IInv, TypeOK
  <1> QED  BY <1>1, <1>2, <1>4, <1>5, StaysKeeps DEF Stays

LEMMA CurrentReviewsTyped ==
    ASSUME NEW c, NEW n, pair \in [Pairs -> PairRow]
    PROVE  CurrentReviews(c, n)
             \subseteq [pair : Pairs, version : Nat, state : {"active", "withdrawn"}]
  BY DEF CurrentReviews, PairRow

LEMMA PrepareReviewKeeps == ASSUME IInv, NEW v \in Reviewers, PrepareReview(v) PROVE IInv'
  <1> USE DEF IInv
  <1>1. UNCHANGED <<run, current, demand, worker, policy, pair, budget>>
        /\ current # 0
    BY DEF PrepareReview
  <1>a. PICK n \in {r \in Runs : run[r].decided},
             cause \in {"role_change", "evidence_correction"} :
           \E basis \in SUBSET CurrentReviews(current, n) :
             prepared' = [prepared EXCEPT ![v] = [current |-> current, candidate |-> n,
                                                  cause |-> cause, basis |-> basis]]
    BY DEF PrepareReview
  <1>2. PICK basis \in SUBSET CurrentReviews(current, n) :
          prepared' = [prepared EXCEPT ![v] = [current |-> current, candidate |-> n,
                                               cause |-> cause, basis |-> basis]]
    BY <1>a
  <1>3. basis \subseteq [pair : Pairs, version : Nat, state : {"active", "withdrawn"}]
    BY CurrentReviewsTyped DEF TypeOK
  <1> DEFINE w == [current |-> current, candidate |-> n, cause |-> cause, basis |-> basis]
  <1>4. w \in Review  BY <1>1, <1>3 DEF Review, TypeOK
  <1>b. prepared' \in [Reviewers -> {Nothing} \cup Review]  BY <1>2, <1>4 DEF TypeOK
  <1>5. \A u \in Reviewers : prepared'[u] \notin {Nothing, prepared[u]}
                               => run[prepared'[u].candidate].decided
    <2> SUFFICES ASSUME NEW u \in Reviewers, prepared'[u] # prepared[u]
                 PROVE  run[prepared'[u].candidate].decided
      OBVIOUS
    <2>1. prepared'[u] = w  BY <1>2 DEF TypeOK
    <2>2. w.candidate = n  OBVIOUS
    <2> QED  BY <1>2, <1>4, <2>1, <2>2
  <1>6. WorkKnown' /\ worker' \in WorkerState /\ pair' \in [Pairs -> PairRow]
    BY <1>1 DEF WorkKnown, TypeOK
  <1> HIDE DEF IInv
  <1> QED  BY <1>1, <1>b, <1>5, <1>6, StaysKeeps DEF Stays
-----------------------------------------------------------------------------
(* Steps that change the demand or a run                                   *)

LEMMA Generations ==
    ASSUME IInv
    PROVE  /\ \A q \in Runs : q \in Nat /\ run[q] \in RunRow /\ run[q].generation \in Nat
           /\ demand.generation \in Nat
  <1>1. Runs \subseteq Nat  BY PromotionAssumption DEF Runs
  <1>2. \A q \in Runs : run[q] \in RunRow  BY DEF IInv, TypeOK
  <1>3. demand \in DemandRow  BY DEF IInv, TypeOK
  <1>4. demand.generation \in Nat  BY <1>3 DEF DemandRow
  <1>5. \A n \in RunRow : n.generation \in Nat  BY DEF RunRow
  <1> QED  BY <1>1, <1>2, <1>4, <1>5

LEMMA ChangeKeeps == ASSUME IInv, NEW cause \in Causes, Change(cause) PROVE IInv'
  <1>1. UNCHANGED <<run, current, worker, pair, prepared>>  BY DEF Change
  <1>2. /\ demand' \in DemandRow /\ demand'.generation = demand.generation
        /\ demand'.retry_attempt = demand.retry_attempt
        /\ demand'.state = IF demand.state = "running" THEN "running" ELSE "preparing"
    <2>1. ASSUME NEW k \in Causes, NEW b \in BOOLEAN,
                 NEW s \in {"running", "preparing"},
                 demand' = [demand EXCEPT !.cause = k, !.state = s, !.pending = b]
          PROVE  demand' \in DemandRow /\ demand'.generation = demand.generation
                 /\ demand'.retry_attempt = demand.retry_attempt /\ demand'.state = s
      BY <2>1 DEF IInv, TypeOK, DemandRow
    <2>2. PICK k \in Causes :
            demand' = [demand EXCEPT !.cause = k,
                                     !.state = IF demand.state = "running" THEN demand.state
                                               ELSE "preparing",
                                     !.pending = demand.state = "running"]
      BY PromotionAssumption DEF Change
    <2> QED  BY <2>1, <2>2
  <1>3. /\ policy' \in Nat /\ policy' \in {policy, policy + 1}
        /\ budget' \in [changes : Nat, pairs : Nat, faults : Nat]
        /\ budget'.changes = budget.changes - 1
    BY DEF Change, IInv, TypeOK, WorkKnown
  <1>4. TypeOK'  BY <1>1, <1>2, <1>3 DEF IInv, TypeOK
  <1>5. UpdatedIsCurrent'  BY <1>2 DEF UpdatedIsCurrent
  <1>6. RunsAreInOrder' /\ OneActive' /\ DecidedIsOver' /\ DecidedIsKept'
    BY <1>1 DEF IInv, RunsAreInOrder, OneActive, Active, DecidedIsOver, DecidedIsKept
  <1>7. RunsAreOfTheDemand'
    BY <1>1, <1>2 DEF IInv, RunsAreOfTheDemand, SettlesDemand, Active
  <1>8. WorkKnown'
    <2>1. \A r \in Runs : run[r].policy \in Nat  BY DEF IInv, TypeOK, RunRow
    <2>2. policy \in Nat /\ MaxChanges \in Nat /\ budget.changes \in Nat
      BY PromotionAssumption DEF IInv, TypeOK, WorkKnown
    <2> QED  BY <1>1, <1>3, <2>1, <2>2 DEF IInv, WorkKnown
  <1> QED  BY <1>4, <1>5, <1>6, <1>7, <1>8 DEF IInv

LEMMA StartRunKeeps == ASSUME IInv, NEW r \in Runs, StartRun(r) PROVE IInv'
  <1> DEFINE ids == {Identity[p] : p \in Pairs}
             Row(c, p, g, a, s) == [NoRun EXCEPT
                                      !.status = "ANALYZING", !.reason = c, !.policy = p,
                                      !.generation = g, !.retry_attempt = a, !.selected = s]
             chosen == [i \in DOMAIN NoRun.selected |-> Selection(i)]
             row == Row(demand.cause, policy, demand'.generation, demand'.retry_attempt, chosen)
  <1>1. /\ UNCHANGED <<current, policy, pair, prepared, budget>>
        /\ worker' = IdleWorker
        /\ run' = [run EXCEPT ![r] = row]
        /\ run[r].status = "absent" /\ demand.state \in {"retry_wait", "preparing"}
        /\ \A q \in Runs : ~ Active(q)
        /\ \A q \in 1..r - 1 : run[q].status # "absent"
    BY DEF StartRun
  <1>2. /\ demand' \in DemandRow /\ demand'.state = "running"
        /\ demand'.generation \in {demand.generation, demand.generation + 1}
    <2>1. PICK again \in BOOLEAN :
             demand' = [demand EXCEPT
                          !.state = "running", !.pending = FALSE,
                          !.generation = IF again THEN demand.generation
                                         ELSE demand.generation + 1,
                          !.retry_attempt = IF again THEN demand.retry_attempt ELSE 0]
      BY DEF StartRun
    <2>2. demand \in DemandRow /\ demand.generation \in Nat /\ demand.retry_attempt \in Nat
      BY DEF IInv, TypeOK, DemandRow
    <2>3. ASSUME NEW g \in Nat, NEW a \in Nat,
                 demand' = [demand EXCEPT !.state = "running", !.pending = FALSE,
                                          !.generation = g, !.retry_attempt = a]
          PROVE  demand' \in DemandRow /\ demand'.state = "running" /\ demand'.generation = g
      BY <2>2, <2>3 DEF DemandRow
    <2>4. demand.generation + 1 \in Nat  BY <2>2
    <2> QED  BY <2>1, <2>2, <2>3, <2>4
  <1>3. /\ row \in RunRow /\ row.status = "ANALYZING" /\ ~ row.decided /\ ~ row.reviewed
        /\ row.generation = demand'.generation /\ row.policy = policy
        /\ row.retry_attempt = demand'.retry_attempt
    <2>1. NoRun \in RunRow /\ ~ NoRun.decided /\ ~ NoRun.reviewed /\ DOMAIN NoRun.selected = ids
      BY NoRunTyped DEF NoRun
    <2>2. chosen \in [ids -> Selections]  BY <2>1, SelectionTyped
    <2>3. /\ demand.cause \in Causes /\ policy \in Nat
          /\ demand'.generation \in Nat /\ demand'.retry_attempt \in Nat
      BY <1>2 DEF IInv, TypeOK, DemandRow
    <2>4. ASSUME NEW c \in Causes, NEW p \in Nat, NEW g \in Nat, NEW a \in Nat,
                 NEW s \in [ids -> Selections]
          PROVE  LET n == Row(c, p, g, a, s)
                 IN  /\ n \in RunRow /\ n.status = "ANALYZING" /\ ~ n.decided /\ ~ n.reviewed
                     /\ n.generation = g /\ n.policy = p /\ n.retry_attempt = a
      BY <2>1 DEF RunRow
    <2> HIDE DEF ids, Row, chosen
    <2> QED  BY <2>2, <2>3, <2>4, SMTT(30)
  <1> HIDE DEF row, ids, Row, chosen
  <1>4. /\ run' \in [Runs -> RunRow] /\ run'[r] = row
        /\ \A q \in Runs : q # r => run'[q] = run[q]
    BY <1>1, <1>3 DEF IInv, TypeOK
  <1>5. TypeOK'
    <2>1. worker' \in WorkerState
      BY <1>1, PromotionAssumption DEF WorkerState, IdleWorker
    <2> QED  BY <1>1, <1>2, <1>4, <2>1 DEF IInv, TypeOK
  <1>6. UpdatedIsCurrent'  BY <1>2 DEF UpdatedIsCurrent
  <1>7. /\ r \in Nat /\ demand.generation \in Nat
        /\ \A q \in Runs : q \in Nat /\ run[q].generation \in Nat
        /\ \A q \in Runs : run[q].status # "absent" => run[q].generation <= demand.generation
    BY Generations DEF IInv, RunsAreOfTheDemand
  <1>8. RunsAreInOrder'
    <2> SUFFICES ASSUME NEW p \in Runs, NEW q \in Runs, p < q, run'[q].status # "absent"
                 PROVE  run'[p].status # "absent" /\ run'[p].generation <= run'[q].generation
      BY DEF RunsAreInOrder
    <2>1. CASE q = r
      <3>1. p \in 1..r - 1 /\ p # r  BY <1>7, <2>1 DEF Runs
      <3> QED  BY <1>1, <1>2, <1>3, <1>4, <1>7, <2>1, <3>1
    <2>2. CASE q # r
      <3>1. p # r  BY <1>1, <1>4, <2>2 DEF IInv, RunsAreInOrder
      <3> QED  BY <1>4, <2>2, <3>1 DEF IInv, RunsAreInOrder
    <2> QED  BY <2>1, <2>2
  <1>9. RunsAreOfTheDemand'
    <2> SUFFICES ASSUME NEW q \in Runs
                 PROVE  /\ run'[q].status # "absent" => run'[q].generation <= demand'.generation
                        /\ run'[q].status = "ANALYZING"
                             => /\ demand'.state = "running"
                                /\ run'[q].generation = demand'.generation
                                /\ run'[q].retry_attempt = demand'.retry_attempt
      BY DEF RunsAreOfTheDemand, SettlesDemand, Active
    <2>1. CASE q = r  BY <1>2, <1>3, <1>4, <1>7, <2>1
    <2>2. CASE q # r  BY <1>1, <1>2, <1>4, <1>7, <2>2 DEF Active
    <2> QED  BY <2>1, <2>2
  <1>10. DecidedIsOver'  BY <1>3, <1>4 DEF IInv, DecidedIsOver
  <1>11. ~ run[r].decided  BY <1>1 DEF IInv, DecidedIsOver, TerminalSuccess
  <1>12. DecidedIsKept'
    <2>1. current \in Runs \cup {0}
          /\ \A v \in Reviewers : prepared[v] # Nothing => prepared[v].candidate \in Runs
      BY DEF IInv, TypeOK, Review
    <2> QED  BY <1>1, <1>4, <1>11, <2>1 DEF IInv, DecidedIsKept
  <1>13. WorkKnown'
    <2>1. worker'.phase = "idle" /\ policy \in Nat  BY <1>1 DEF IdleWorker, IInv, TypeOK
    <2> QED  BY <1>1, <1>3, <1>4, <2>1 DEF IInv, WorkKnown
  <1>14. OneActive'  BY <1>1, <1>4 DEF OneActive, Active
  <1> QED  BY <1>5, <1>6, <1>8, <1>9, <1>10, <1>12, <1>13, <1>14 DEF IInv

\* A run that ends, decided on or not.
LEMMA RunEndsKeeps ==
    ASSUME IInv, NEW r \in Runs, Active(r),
           NEW n \in RunRow, run' = [run EXCEPT ![r] = n],
           n.generation = run[r].generation, n.policy = run[r].policy, ~ n.reviewed,
           n.status \in {"COMPLETE", "PARTIAL", "FAILED"},
           n.decided => n.status \in TerminalSuccess /\ n.result \in Results,
           current' = current \/ (current' = r /\ n.decided),
           demand' \in DemandRow, demand'.generation = demand.generation,
           demand'.state # "running", demand'.state = "updated" => current' = r,
           worker' = IdleWorker,
           budget' \in [changes : Nat, pairs : Nat, faults : Nat],
           budget'.changes = budget.changes,
           UNCHANGED <<policy, pair, prepared>>
    PROVE  IInv'
  <1>1. run[r].status = "ANALYZING"  BY DEF Active
  <1>2. /\ run' \in [Runs -> RunRow] /\ run'[r] = n
        /\ \A q \in Runs : q # r => run'[q] = run[q]
    BY DEF IInv, TypeOK
  <1>3. run[r].generation = demand.generation /\ \A q \in Runs : q # r => ~ Active(q)
    <2>1. ASSUME NEW q \in Runs, q # r, Active(q) PROVE FALSE
      BY <1>1, <2>1 DEF Active, IInv, OneActive
    <2> QED  BY <2>1 DEF IInv, RunsAreOfTheDemand, SettlesDemand
  <1>4. TypeOK'
    <2>1. worker' \in WorkerState
      BY PromotionAssumption DEF WorkerState, IdleWorker
    <2>2. current' \in Runs \cup {0}  BY DEF IInv, TypeOK
    <2> QED  BY <1>2, <2>1, <2>2 DEF IInv, TypeOK
  <1>5. UpdatedIsCurrent'
    <2>1. r # 0  BY PromotionAssumption DEF Runs
    <2> QED  BY <1>2, <1>3, <2>1 DEF UpdatedIsCurrent
  <1>6. RunsAreInOrder'
    <2> SUFFICES ASSUME NEW p \in Runs, NEW q \in Runs, p < q, run'[q].status # "absent"
                 PROVE  run'[p].status # "absent" /\ run'[p].generation <= run'[q].generation
      BY DEF RunsAreInOrder
    <2>1. \A s \in Runs : /\ run'[s].generation = run[s].generation
                          /\ run'[s].status = "absent" <=> run[s].status = "absent"
      BY <1>1, <1>2
    <2> QED  BY <2>1 DEF IInv, RunsAreInOrder
  <1>7. RunsAreOfTheDemand'
    <2> SUFFICES ASSUME NEW q \in Runs
                 PROVE  /\ run'[q].status # "absent" => run'[q].generation <= demand.generation
                        /\ run'[q].status # "ANALYZING"
      BY DEF RunsAreOfTheDemand, Active
    <2>1. CASE q = r  BY <1>1, <1>2, <1>3, <2>1, Generations
    <2>2. CASE q # r  BY <1>2, <1>3, <2>2 DEF IInv, RunsAreOfTheDemand, Active
    <2> QED  BY <2>1, <2>2
  <1>8. DecidedIsOver'  BY <1>2 DEF IInv, DecidedIsOver
  <1>9. ~ run[r].decided  BY <1>1 DEF IInv, DecidedIsOver, TerminalSuccess
  <1>10. DecidedIsKept'
    <2>1. current \in Runs \cup {0}
          /\ \A v \in Reviewers : prepared[v] # Nothing => prepared[v].candidate \in Runs
      BY DEF IInv, TypeOK, Review
    <2> QED  BY <1>2, <1>9, <2>1 DEF IInv, DecidedIsKept
  <1>11. WorkKnown'
    <2>1. worker'.phase = "idle"  BY DEF IdleWorker
    <2> QED  BY <1>2, <2>1 DEF IInv, WorkKnown
  <1>12. OneActive'
    <2>1. \A q \in Runs : run'[q].status # "ANALYZING"  BY <1>2, <1>3 DEF Active
    <2> QED  BY <2>1 DEF OneActive, Active
  <1> QED  BY <1>4, <1>5, <1>6, <1>7, <1>8, <1>10, <1>11, <1>12 DEF IInv

LEMMA FailRunKeeps ==
    ASSUME IInv, NEW r \in Runs, ComparedTooOften(r) \/ AnalysisFails(r) PROVE IInv'
  <1> DEFINE n == [run[r] EXCEPT !.status = "FAILED"]
  <1>1. /\ Active(r) /\ FailRun(r) /\ run' = [run EXCEPT ![r] = n] /\ worker' = IdleWorker
        /\ UNCHANGED <<current, policy, pair, prepared>>
    BY DEF ComparedTooOften, AnalysisFails, FailRun
  <1>2. /\ n \in RunRow /\ n.status = "FAILED" /\ n.generation = run[r].generation
        /\ n.policy = run[r].policy /\ n.decided = run[r].decided
        /\ n.reviewed = run[r].reviewed
    <2>1. run[r] \in RunRow  BY Generations
    <2> QED  BY <2>1 DEF RunRow
  <1>3. ~ run[r].decided /\ ~ run[r].reviewed
    BY <1>1 DEF IInv, DecidedIsOver, TerminalSuccess, Active
  <1>4. budget' \in [changes : Nat, pairs : Nat, faults : Nat] /\ budget'.changes = budget.changes
    <2>1. budget' = budget \/ (budget.faults > 0 /\ budget' = [budget EXCEPT !.faults = @ - 1])
      BY DEF ComparedTooOften, AnalysisFails
    <2> QED  BY <2>1 DEF IInv, WorkKnown
  <1>5. SettlesDemand(r)  BY <1>1 DEF IInv, RunsAreOfTheDemand, SettlesDemand
  <1>6. /\ demand' \in DemandRow /\ demand'.generation = demand.generation
        /\ demand'.state \notin {"running", "updated"}
    <2>1. demand \in DemandRow  BY DEF IInv, TypeOK
    <2>2. PICK retryable \in BOOLEAN :
            demand' = Settled(IF retryable THEN Retried(demand)
                              ELSE [demand EXCEPT !.state = "needs_review"])
      BY <1>1, <1>5 DEF FailRun
    <2>3. LET d == [demand EXCEPT !.state = "needs_review"]
          IN  d \in DemandRow /\ d.generation = demand.generation /\ d.state = "needs_review"
      BY <2>1 DEF DemandRow
    <2> QED  BY <2>1, <2>2, <2>3, SettlesTyped
  <1> HIDE DEF n
  <1> QED  BY <1>1, <1>2, <1>3, <1>4, <1>6, RunEndsKeeps DEF TerminalSuccess

LEMMA WorkersReportKnown ==
    ASSUME IInv, NEW r \in Runs, Active(r), worker.phase = "read"
    PROVE  WorkersReport(r) \in AllReports
  <1>1. worker.result \in Results  BY DEF IInv, WorkKnown
  <1>2. run[r].reason \in Causes /\ run[r].policy \in Nat
    <2>1. run[r] \in RunRow  BY Generations
    <2> QED  BY <2>1 DEF RunRow
  <1>3. run[r].policy \in 0..MaxChanges
    <2>1. policy \in Nat /\ MaxChanges \in Nat /\ budget.changes \in Nat
      BY PromotionAssumption DEF IInv, TypeOK, WorkKnown
    <2> QED  BY <1>2, <2>1 DEF IInv, WorkKnown
  <1> QED  BY <1>1, <1>2, <1>3 DEF AllReports, WorkersReport

LEMMA FinalizeKeeps == ASSUME IInv, NEW r \in Runs, Finalize(r) PROVE IInv'
  <1> DEFINE verdict == Compare(ReportOf(current), WorkersReport(r), FALSE, FALSE)
             Row(s, k) == [run[r] EXCEPT !.status = s, !.result = k, !.decided = TRUE]
             n == Row(WorkersReport(r).status, worker.result)
  <1>1. /\ Active(r) /\ worker.phase = "read" /\ worker' = IdleWorker
        /\ run' = [run EXCEPT ![r] = n]
        /\ current' = IF Promotes(verdict) THEN r ELSE current
        /\ demand' = IF SettlesDemand(r) THEN SettledBy(verdict) ELSE demand
        /\ UNCHANGED <<policy, pair, prepared, budget>>
    BY DEF Finalize
  <1>2. WorkersReport(r).status \in TerminalSuccess
    BY <1>1, WorkersReportKnown, ReportsAreOfSuccess
  <1>3. worker.result \in Results /\ budget \in [changes : Nat, pairs : Nat, faults : Nat]
    BY <1>1 DEF IInv, WorkKnown
  <1>4. /\ n \in RunRow /\ n.status \in TerminalSuccess /\ n.result \in Results /\ n.decided
        /\ n.generation = run[r].generation /\ n.policy = run[r].policy
        /\ n.reviewed = run[r].reviewed
    <2>1. run[r] \in RunRow  BY Generations
    <2>2. ASSUME NEW s \in TerminalSuccess, NEW k \in Results
          PROVE  LET m == Row(s, k)
                 IN  /\ m \in RunRow /\ m.status = s /\ m.result = k /\ m.decided
                     /\ m.generation = run[r].generation /\ m.policy = run[r].policy
                     /\ m.reviewed = run[r].reviewed
      BY <2>1 DEF RunRow, TerminalSuccess
    <2> HIDE DEF Row
    <2> QED  BY <1>2, <1>3, <2>2
  <1>5. ~ run[r].reviewed
    BY <1>1 DEF IInv, DecidedIsOver, TerminalSuccess, Active
  <1>6. /\ demand' \in DemandRow /\ demand'.generation = demand.generation
        /\ demand'.state # "running"
        /\ demand'.state = "updated" => current' = r
    <2>1. SettlesDemand(r)  BY <1>1 DEF IInv, RunsAreOfTheDemand
    <2>2. demand \in DemandRow  BY DEF IInv, TypeOK
    <2> HIDE DEF verdict
    <2> QED  BY <1>1, <2>1, <2>2, SettledByTyped
  <1> HIDE DEF n, Row, verdict
  <1>7. current' = current \/ (current' = r /\ n.decided)  BY <1>1, <1>4
  <1> QED  BY <1>1, <1>3, <1>4, <1>5, <1>6, <1>7, RunEndsKeeps DEF TerminalSuccess

\* What a review that is accepted does.
Accepts(w) ==
    /\ w \in Review /\ Acceptable(w) /\ run[w.candidate].decided
    /\ current' = w.candidate
    /\ run' = [run EXCEPT ![w.candidate].reviewed = TRUE]
    /\ demand' = IF ReviewSettles(w.candidate) THEN [demand EXCEPT !.state = "updated"]
                 ELSE demand

LEMMA CommitReviewCases ==
    ASSUME IInv, NEW v \in Reviewers, CommitReview(v)
    PROVE  /\ prepared[v] \in Review
           /\ prepared' \in [Reviewers -> {Nothing} \cup Review]
           /\ \A u \in Reviewers : prepared'[u] \in {Nothing, prepared[u]}
           /\ UNCHANGED <<worker, policy, pair, budget>>
           /\ \/ Stays
              \/ /\ Accepts(prepared[v])
                 /\ Promotes(Compare(ReportOf(prepared[v].current),
                                     [ReportOf(prepared[v].candidate)
                                        EXCEPT !.reason = prepared[v].cause], FALSE, TRUE))
  <1>1. prepared \in [Reviewers -> {Nothing} \cup Review]  BY DEF IInv, TypeOK
  <1>2. prepared[v] # Nothing /\ prepared' = [prepared EXCEPT ![v] = Nothing]
    BY DEF CommitReview
  <1>3. prepared[v] \in Review /\ run[prepared[v].candidate].decided
    BY <1>1, <1>2 DEF IInv, DecidedIsKept
  <1>4. /\ UNCHANGED <<worker, policy, pair, budget>>
        /\ \/ Stays
           \/ /\ Acceptable(prepared[v])
              /\ Promotes(Compare(ReportOf(prepared[v].current),
                                  [ReportOf(prepared[v].candidate)
                                     EXCEPT !.reason = prepared[v].cause], FALSE, TRUE))
              /\ current' = prepared[v].candidate
              /\ run' = [run EXCEPT ![prepared[v].candidate].reviewed = TRUE]
              /\ demand' = IF ReviewSettles(prepared[v].candidate)
                           THEN [demand EXCEPT !.state = "updated"] ELSE demand
    BY DEF CommitReview, Stays
  <1> QED  BY <1>1, <1>2, <1>3, <1>4 DEF Accepts

LEMMA AcceptsKeeps ==
    ASSUME IInv, NEW w, Accepts(w),
           prepared' \in [Reviewers -> {Nothing} \cup Review],
           \A u \in Reviewers : prepared'[u] \in {Nothing, prepared[u]},
           UNCHANGED <<worker, policy, pair, budget>>
    PROVE  IInv'
  <1> DEFINE n == w.candidate
             row == [run[n] EXCEPT !.reviewed = TRUE]
  <1>1. /\ n \in Runs /\ w.current \in Runs /\ current = w.current /\ current < n
        /\ run[n].status \in TerminalSuccess /\ run[n].decided
        /\ run[n].result \in Results
    <2>1. n \in Runs /\ w.current \in Runs  BY DEF Accepts, Review
    <2>2. current = w.current /\ n > w.current /\ run[n].status \in TerminalSuccess
      BY DEF Accepts, Acceptable, Binds
    <2>3. current < n  BY <2>1, <2>2, Generations
    <2> QED  BY <2>1, <2>2, <2>3 DEF Accepts, IInv, DecidedIsOver
  <1>2. /\ row \in RunRow /\ row.status = run[n].status /\ row.result = run[n].result
        /\ row.generation = run[n].generation /\ row.policy = run[n].policy
        /\ row.retry_attempt = run[n].retry_attempt /\ row.decided = run[n].decided
    <2>1. run[n] \in RunRow  BY <1>1, Generations
    <2> QED  BY <2>1 DEF RunRow
  <1>3. run' = [run EXCEPT ![n] = row] /\ current' = n  BY DEF Accepts
  <1> HIDE DEF row
  <1>4. /\ run' \in [Runs -> RunRow]
        /\ \A q \in Runs : /\ run'[q].status = run[q].status
                           /\ run'[q].result = run[q].result
                           /\ run'[q].generation = run[q].generation
                           /\ run'[q].policy = run[q].policy
                           /\ run'[q].retry_attempt = run[q].retry_attempt
                           /\ run'[q].decided = run[q].decided
                           /\ q # n => run'[q] = run[q]
    BY <1>1, <1>2, <1>3 DEF IInv, TypeOK
  <1> HIDE DEF n
  <1>5. /\ demand' \in DemandRow /\ demand'.generation = demand.generation
        /\ \/ demand' = demand
           \/ /\ demand.state = "needs_review" /\ demand'.state = "updated"
              /\ demand.generation = run[n].generation
    BY DEF Accepts, ReviewSettles, IInv, TypeOK, DemandRow, n
  <1>6. TypeOK'  BY <1>1, <1>3, <1>4, <1>5 DEF IInv, TypeOK
  <1>7. UpdatedIsCurrent'
    <2> SUFFICES ASSUME demand'.state = "updated" PROVE run[n].generation = demand.generation
      <3>1. n # 0  BY <1>1, PromotionAssumption DEF Runs
      <3> QED  BY <1>1, <1>3, <1>4, <1>5, <3>1 DEF UpdatedIsCurrent
    <2>1. CASE demand' = demand
      <3>1. run[current].generation = demand.generation
        BY <2>1 DEF IInv, UpdatedIsCurrent
      <3>2. run[n].status # "absent"  BY <1>1 DEF TerminalSuccess
      <3>3. run[current].generation <= run[n].generation
        BY <1>1, <3>2 DEF IInv, RunsAreInOrder
      <3>4. run[n].generation <= demand.generation
        BY <1>1, <3>2 DEF IInv, RunsAreOfTheDemand
      <3> QED  BY <1>1, <3>1, <3>3, <3>4, Generations
    <2>2. CASE demand' # demand  BY <1>5, <2>2
    <2> QED  BY <2>1, <2>2
  <1>8. RunsAreInOrder' /\ OneActive'
    BY <1>4 DEF IInv, RunsAreInOrder, OneActive, Active
  <1>9. RunsAreOfTheDemand'
    <2> SUFFICES ASSUME NEW q \in Runs
                 PROVE  /\ run[q].status # "absent" => run[q].generation <= demand'.generation
                        /\ Active(q) => /\ demand'.state = "running"
                                        /\ demand'.generation = run[q].generation
                                        /\ demand'.retry_attempt = run[q].retry_attempt
      BY <1>4 DEF RunsAreOfTheDemand, SettlesDemand, Active
    <2>1. CASE Active(q)
      <3>1. demand' = demand  BY <1>5, <2>1 DEF IInv, RunsAreOfTheDemand
      <3> QED  BY <2>1, <3>1 DEF IInv, RunsAreOfTheDemand, SettlesDemand
    <2>2. CASE ~ Active(q)  BY <1>5, <2>2 DEF IInv, RunsAreOfTheDemand
    <2> QED  BY <2>1, <2>2
  <1>10. DecidedIsOver'
    <2> SUFFICES ASSUME NEW q \in Runs PROVE
             /\ run[q].decided => run[q].status \in TerminalSuccess /\ run[q].result \in Results
             /\ run'[q].reviewed => run[q].decided
      BY <1>4 DEF DecidedIsOver
    <2> QED  BY <1>1, <1>4 DEF IInv, DecidedIsOver
  <1>11. DecidedIsKept'
    <2>1. run'[current'].decided  BY <1>1, <1>3, <1>4
    <2>2. \A v \in Reviewers : prepared[v] # Nothing => prepared[v].candidate \in Runs
      BY DEF IInv, TypeOK, Review
    <2> QED  BY <1>4, <2>1, <2>2 DEF IInv, DecidedIsKept
  <1>12. WorkKnown'  BY <1>4 DEF IInv, WorkKnown
  <1> QED  BY <1>6, <1>7, <1>8, <1>9, <1>10, <1>11, <1>12 DEF IInv

LEMMA CommitReviewKeeps == ASSUME IInv, NEW v \in Reviewers, CommitReview(v) PROVE IInv'
  <1>1. CASE Stays
    <2>1. WorkKnown' /\ worker' \in WorkerState /\ pair' \in [Pairs -> PairRow]
      BY <1>1, CommitReviewCases DEF Stays, IInv, WorkKnown, TypeOK
    <2> QED  BY <1>1, <2>1, CommitReviewCases, StaysKeeps
  <1>2. CASE Accepts(prepared[v])  BY <1>2, CommitReviewCases, AcceptsKeeps
  <1> QED  BY <1>1, <1>2, CommitReviewCases
-----------------------------------------------------------------------------
LEMMA InitHolds == Init => IInv
  <1> SUFFICES ASSUME Init PROVE IInv  OBVIOUS
  <1>1. /\ \A r \in Runs : run[r] = NoRun
        /\ current = 0 /\ worker = IdleWorker /\ policy = 0
        /\ pair = FirstPairs /\ prepared = [v \in Reviewers |-> Nothing]
        /\ budget = [changes |-> MaxChanges, pairs |-> MaxPairEvents, faults |-> MaxFaults]
    BY DEF Init
  <1>2. /\ NoRun.status = "absent" /\ ~ NoRun.decided /\ ~ NoRun.reviewed
        /\ NoRun.policy = 0
    BY DEF NoRun
  <1>3. TypeOK
    <2>1. run \in [Runs -> RunRow]  BY NoRunTyped DEF Init
    <2>2. demand \in DemandRow  BY PromotionAssumption DEF Init, DemandRow
    <2>3. worker \in WorkerState  BY <1>1, PromotionAssumption DEF WorkerState, IdleWorker
    <2>4. pair \in [Pairs -> PairRow]  BY <1>1, PromotionAssumption DEF PairRow
    <2> QED  BY <1>1, <2>1, <2>2, <2>3, <2>4 DEF TypeOK
  <1>4. UpdatedIsCurrent  BY DEF Init, UpdatedIsCurrent
  <1>5. /\ RunsAreInOrder /\ RunsAreOfTheDemand /\ OneActive /\ DecidedIsOver /\ DecidedIsKept
    BY <1>1, <1>2 DEF RunsAreInOrder, RunsAreOfTheDemand, OneActive, Active, DecidedIsOver,
                      DecidedIsKept
  <1>6. WorkKnown
    BY <1>1, <1>2, PromotionAssumption DEF WorkKnown, IdleWorker
  <1> QED  BY <1>3, <1>4, <1>5, <1>6 DEF IInv

LEMMA Inductive == IInv /\ [Next]_vars => IInv'
  <1> SUFFICES ASSUME IInv, [Next]_vars PROVE IInv'  OBVIOUS
  <1>1. ASSUME NEW r \in Runs, Reads(r) PROVE IInv'
    BY <1>1, ReadsKeep, FailRunKeeps DEF Reads
  <1>2. ASSUME NEW r \in Runs, Finalize(r) PROVE IInv'  BY <1>2, FinalizeKeeps
  <1>3. ASSUME NEW r \in Runs, StartRun(r) \/ AnalysisFails(r) \/ LoseWorker(r) PROVE IInv'
    BY <1>3, StartRunKeeps, FailRunKeeps, ReadsKeep
  <1>4. ASSUME NEW cause \in Causes, Change(cause) PROVE IInv'  BY <1>4, ChangeKeeps
  <1>5. ASSUME NEW p \in Pairs, PairEvent(p) PROVE IInv'  BY <1>5, PairEventKeeps
  <1>6. ASSUME NEW v \in Reviewers, PrepareReview(v) \/ CommitReview(v) PROVE IInv'
    BY <1>6, PrepareReviewKeeps, CommitReviewKeeps
  <1>7. CASE UNCHANGED vars
    <2>1. UNCHANGED <<run, current, demand, worker, policy, pair, prepared, budget>>
      BY <1>7 DEF vars
    <2>2. WorkKnown' /\ worker' \in WorkerState /\ pair' \in [Pairs -> PairRow]
          /\ prepared' \in [Reviewers -> {Nothing} \cup Review]
      BY <2>1 DEF IInv, WorkKnown, TypeOK
    <2> QED  BY <2>1, <2>2, StaysKeeps DEF Stays
  <1> QED  BY <1>1, <1>2, <1>3, <1>4, <1>5, <1>6, <1>7 DEF Next
-----------------------------------------------------------------------------
(* The rule, as far as reviews need it                                     *)

\* When a review may promote a complete report: its cause has no part in it.
ReviewPasses(o, n) ==
    /\ n.status \in TerminalSuccess /\ n.usable
    /\ n.provenance \in {"native_2.0", "verified_raw_mapping"}
    /\ ShapeValid(n)
    /\ o # Nothing => o.dump = n.dump

LEMMA ReviewVerdict ==
    ASSUME NEW o, NEW n, n.complete
    PROVE  AllowsReviewed(o, n) <=> ReviewPasses(o, n)
  BY DEF AllowsReviewed, ReviewPasses, Compare, Verdict, Promotes

LEMMA ReviewIgnoresCause ==
    ASSUME NEW o, NEW n \in AllReports, n.complete, NEW c
    PROVE  AllowsReviewed(o, [n EXCEPT !.reason = c]) <=> AllowsReviewed(o, n)
  <1> DEFINE m == [n EXCEPT !.reason = c]
  <1>1. /\ m.status = n.status /\ m.usable = n.usable /\ m.provenance = n.provenance
        /\ m.modules = n.modules /\ m.frames = n.frames /\ m.dump = n.dump
        /\ m.complete = n.complete
    BY ReportsAreOfSuccess
  <1>2. ShapeValid(m) <=> ShapeValid(n)  BY <1>1 DEF ShapeValid
  <1> HIDE DEF m
  <1>3. ReviewPasses(o, m) <=> ReviewPasses(o, n)  BY <1>1, <1>2 DEF ReviewPasses
  <1> QED  BY <1>1, <1>3, ReviewVerdict DEF m
-----------------------------------------------------------------------------
(* What a step does to the Current                                         *)

LEMMA DecidedReport ==
    ASSUME IInv, NEW r \in Runs, run[r].decided
    PROVE  ReportOf(r) \in AllReports /\ r # 0
  <1>1. run[r].result \in Results  BY DEF IInv, DecidedIsOver
  <1>2. run[r].reason \in Causes /\ run[r].policy \in Nat
    <2>1. run[r] \in RunRow  BY Generations
    <2> QED  BY <2>1 DEF RunRow
  <1>3. run[r].policy \in 0..MaxChanges
    <2>1. policy \in Nat /\ MaxChanges \in Nat /\ budget.changes \in Nat
      BY PromotionAssumption DEF IInv, TypeOK, WorkKnown
    <2> QED  BY <1>2, <2>1 DEF IInv, WorkKnown
  <1>4. r # 0  BY PromotionAssumption DEF Runs
  <1> QED  BY <1>1, <1>2, <1>3, <1>4 DEF AllReports, ReportOf

\* The Current and its run stay as they are.
CurrentStays == current' = current /\ (current # 0 => run'[current] = run[current])

LEMMA SameReport ==
    ASSUME CurrentStays
    PROVE  UNCHANGED <<ReportOf(current), MadeBy>>
  BY DEF CurrentStays, ReportOf, MadeBy

LEMMA RunStepStays ==
    ASSUME IInv, NEW r \in Runs, run[r].status \notin TerminalSuccess,
           current' = current, NEW n, run' = [run EXCEPT ![r] = n]
    PROVE  CurrentStays
  <1>1. current # 0 => current # r /\ current \in Runs
    BY DEF IInv, TypeOK, DecidedIsKept, DecidedIsOver
  <1> QED  BY <1>1 DEF CurrentStays, IInv, TypeOK

\* The Current changes hands in two ways only.
LEMMA HandsOfCurrent ==
    ASSUME IInv, [Next]_vars
    PROVE  \/ CurrentStays
           \/ \E r \in Runs :
                 /\ Active(r) /\ WorkersReport(r) \in AllReports
                 /\ Allows(ReportOf(current), WorkersReport(r))
                 /\ current' = r /\ ReportOf(current)' = WorkersReport(r)
                 /\ MadeBy' = "rule"
           \/ \E r \in Runs :
                 /\ run[r].decided /\ ReportOf(r) \in AllReports
                 /\ AllowsReviewed(ReportOf(current), ReportOf(r))
                 /\ current # 0 /\ ReportOf(current) \in AllReports
                 /\ StillEligible(ReportOf(r))
                 /\ current' = r /\ ReportOf(current)' = ReportOf(r)
                 /\ MadeBy' = "review"
  <1> DEFINE ByRule == \E r \in Runs :
                         /\ Active(r) /\ WorkersReport(r) \in AllReports
                         /\ Allows(ReportOf(current), WorkersReport(r))
                         /\ current' = r /\ ReportOf(current)' = WorkersReport(r)
                         /\ MadeBy' = "rule"
             ByReview == \E r \in Runs :
                         /\ run[r].decided /\ ReportOf(r) \in AllReports
                         /\ AllowsReviewed(ReportOf(current), ReportOf(r))
                         /\ current # 0 /\ ReportOf(current) \in AllReports
                         /\ StillEligible(ReportOf(r))
                         /\ current' = r /\ ReportOf(current)' = ReportOf(r)
                         /\ MadeBy' = "review"
  <1> SUFFICES CurrentStays \/ ByRule \/ ByReview  OBVIOUS
  <1>1. CASE UNCHANGED <<run, current>>  BY <1>1 DEF CurrentStays
  <1>2. ASSUME NEW r \in Runs, StartRun(r) PROVE CurrentStays
    <2>1. PICK n : run' = [run EXCEPT ![r] = n]  BY <1>2 DEF StartRun
    <2>2. run[r].status \notin TerminalSuccess /\ current' = current
      BY <1>2 DEF StartRun, TerminalSuccess
    <2> QED  BY <2>1, <2>2, RunStepStays
  <1>3. ASSUME NEW r \in Runs, ComparedTooOften(r) \/ AnalysisFails(r) PROVE CurrentStays
    <2>1. run' = [run EXCEPT ![r] = [run[r] EXCEPT !.status = "FAILED"]]
      BY <1>3 DEF ComparedTooOften, AnalysisFails, FailRun
    <2>2. run[r].status \notin TerminalSuccess /\ current' = current
      BY <1>3 DEF ComparedTooOften, AnalysisFails, FailRun, Active, TerminalSuccess
    <2> QED  BY <2>1, <2>2, RunStepStays
  <1>4. ASSUME NEW r \in Runs, Finalize(r) PROVE CurrentStays \/ ByRule
    <2> DEFINE verdict == Compare(ReportOf(current), WorkersReport(r), FALSE, FALSE)
               Row(s, k) == [run[r] EXCEPT !.status = s, !.result = k, !.decided = TRUE]
               n == Row(WorkersReport(r).status, worker.result)
    <2>1. /\ Active(r) /\ worker.phase = "read"
          /\ run' = [run EXCEPT ![r] = n]
          /\ current' = IF Promotes(verdict) THEN r ELSE current
      BY <1>4 DEF Finalize
    <2>2. CASE ~ Promotes(verdict)
      <3>1. run[r].status \notin TerminalSuccess  BY <2>1 DEF Active, TerminalSuccess
      <3> HIDE DEF n, verdict
      <3> QED  BY <2>1, <2>2, <3>1, RunStepStays
    <2>3. CASE Promotes(verdict)
      <3>1. WorkersReport(r) \in AllReports  BY <2>1, WorkersReportKnown
      <3>2. Allows(ReportOf(current), WorkersReport(r))  BY <2>3 DEF Allows
      <3>3. current' = r /\ r # 0  BY <2>1, <2>3, PromotionAssumption DEF Runs
      <3>4. ~ run[r].reviewed
        BY <2>1 DEF IInv, DecidedIsOver, TerminalSuccess, Active
      <3>5. /\ n.result = worker.result /\ n.reason = run[r].reason
            /\ n.policy = run[r].policy /\ n.reviewed = run[r].reviewed
        <4>1. run[r] \in RunRow  BY Generations
        <4>2. \A s, k : LET m == Row(s, k)
                        IN  /\ m.result = k /\ m.reason = run[r].reason
                            /\ m.policy = run[r].policy /\ m.reviewed = run[r].reviewed
          BY <4>1 DEF RunRow
        <4> HIDE DEF Row
        <4> QED  BY <4>2
      <3> HIDE DEF n
      <3>6. run'[r] = n  BY <2>1 DEF IInv, TypeOK
      <3>7. ReportOf(current)' = WorkersReport(r)
        BY <3>3, <3>5, <3>6 DEF ReportOf, WorkersReport
      <3>8. MadeBy' = "rule"  BY <3>3, <3>4, <3>5, <3>6 DEF MadeBy
      <3> QED  BY <2>1, <3>1, <3>2, <3>3, <3>7, <3>8
    <2> QED  BY <2>2, <2>3
  <1>5. ASSUME NEW v \in Reviewers, CommitReview(v) PROVE CurrentStays \/ ByReview
    <2>1. CASE Stays  BY <2>1 DEF Stays, CurrentStays
    <2>2. CASE ~ Stays
      <3> DEFINE w == prepared[v]
                 r == w.candidate
      <3>1. /\ Accepts(w) /\ w \in Review
            /\ Promotes(Compare(ReportOf(w.current), [ReportOf(r) EXCEPT !.reason = w.cause],
                                FALSE, TRUE))
        BY <1>5, <2>2, CommitReviewCases
      <3>2. r \in Runs /\ w.current \in Runs  BY <3>1 DEF Review
      <3>3. /\ run[r].decided /\ current = w.current /\ ReportOf(r).complete
            /\ StillEligible(ReportOf(r)) /\ current' = r
            /\ run' = [run EXCEPT ![r].reviewed = TRUE]
        BY <3>1 DEF Accepts, Acceptable, Binds
      <3>4. current # 0 /\ ReportOf(r) \in AllReports /\ r # 0
        BY <3>2, <3>3, DecidedReport, PromotionAssumption DEF Runs
      <3>5. ReportOf(current) \in AllReports
        BY <3>2, <3>3, <3>4, DecidedReport DEF IInv, DecidedIsKept
      <3>6. AllowsReviewed(ReportOf(current), ReportOf(r))
        <4>1. AllowsReviewed(ReportOf(current), [ReportOf(r) EXCEPT !.reason = w.cause])
          BY <3>1, <3>3 DEF AllowsReviewed
        <4> QED  BY <3>3, <3>4, <4>1, ReviewIgnoresCause
      <3>7. /\ run'[r].result = run[r].result /\ run'[r].reason = run[r].reason
            /\ run'[r].policy = run[r].policy /\ run'[r].reviewed
        <4>1. run[r] \in RunRow  BY <3>2, Generations
        <4>2. run'[r] = [run[r] EXCEPT !.reviewed = TRUE]  BY <3>2, <3>3 DEF IInv, TypeOK
        <4> QED  BY <4>1, <4>2 DEF RunRow
      <3>8. ReportOf(current)' = ReportOf(r)  BY <3>3, <3>4, <3>7 DEF ReportOf
      <3>9. MadeBy' = "review"  BY <3>3, <3>4, <3>7 DEF MadeBy
      <3> QED  BY <3>2, <3>3, <3>4, <3>5, <3>6, <3>8, <3>9
    <2> QED  BY <2>1, <2>2
  <1>6. CASE UNCHANGED vars  BY <1>1, <1>6 DEF vars
  <1>7. ASSUME NEW r \in Runs, Compute(r) \/ ReadCurrent(r) \/ Recompare(r) \/ LoseWorker(r)
        PROVE  UNCHANGED <<run, current>>
    BY <1>7 DEF Compute, ReadCurrent, Recompare, LoseWorker
  <1>8. ASSUME NEW cause \in Causes, Change(cause) PROVE UNCHANGED <<run, current>>
    BY <1>8 DEF Change
  <1>9. ASSUME NEW p \in Pairs, PairEvent(p) PROVE UNCHANGED <<run, current>>
    BY <1>9 DEF PairEvent
  <1>10. ASSUME NEW v \in Reviewers, PrepareReview(v) PROVE UNCHANGED <<run, current>>
    BY <1>10 DEF PrepareReview
  <1> HIDE DEF ByRule, ByReview
  <1> QED  BY <1>1, <1>2, <1>3, <1>4, <1>5, <1>6, <1>7, <1>8, <1>9, <1>10 DEF Next, Reads
-----------------------------------------------------------------------------
(* The rule evidence-v1                                                    *)

\* f finds the positions S in s of the elements of p, each once.
Enumerates(f, p, s, S) ==
    /\ \A n \in DOMAIN p : f[n] \in S /\ p[n] = s[f[n]]
    /\ \A i \in S : \E n \in DOMAIN p : f[n] = i
    /\ \A m, n \in DOMAIN p : f[m] = f[n] => m = n

\* Elements of a sequence by position: nothing is added and nothing forgotten.
LEMMA PositionsOfElements ==
    ASSUME NEW s, NEW S \in SUBSET Nat, IsFiniteSet(S), NEW T, T = 1..Cardinality(S)
    PROVE  /\ Cardinality(S) \in Nat
           /\ DOMAIN ElementsAt(s, S) = T
           /\ \E f : Enumerates(f, ElementsAt(s, S), s, S)
  <1> DEFINE Below(i) == {j \in S : j <= i}
             rank == [i \in S |-> Cardinality(Below(i))]
             at(n) == CHOOSE i \in S : Cardinality({j \in S : j <= i}) = n
  <1>1. /\ Cardinality(S) \in Nat /\ IsFiniteSet(T)
        /\ Cardinality(T) = Cardinality(S)
    BY FS_CardinalityType, FS_Interval
  <1>2. \A i \in S : IsFiniteSet(Below(i)) /\ rank[i] \in T
    <2> TAKE i \in S
    <2>1. Below(i) \in SUBSET S  OBVIOUS
    <2>2. IsFiniteSet(Below(i)) /\ Cardinality(Below(i)) <= Cardinality(S)
          /\ Cardinality(Below(i)) \in Nat
      BY <2>1, FS_Subset, FS_CardinalityType
    <2>3. Cardinality(Below(i)) # 0  BY <2>2, FS_EmptySet
    <2> HIDE DEF Below
    <2> QED  BY <2>2, <2>3, <1>1
  <1>3. \A i, j \in S : rank[i] = rank[j] => i = j
    <2>1. ASSUME NEW i \in S, NEW j \in S, i < j PROVE rank[i] # rank[j]
      <3>1. Below(i) \in SUBSET Below(j) /\ j \in Below(j) /\ j \notin Below(i)
        <4>1. i \in Nat /\ j \in Nat /\ \A k \in S : k \in Nat  OBVIOUS
        <4>2. \A k \in S : k <= i => k <= j  BY <2>1, <4>1
        <4>3. Below(i) \in SUBSET Below(j)  BY <4>2
        <4>4. j <= j /\ ~ (j <= i)  BY <2>1, <4>1
        <4> QED  BY <4>3, <4>4
      <3>2. Cardinality(Below(i)) # Cardinality(Below(j))
        <4> HIDE DEF Below
        <4> QED  BY <3>1, <1>2, FS_Subset
      <3> QED  BY <3>2
    <2> HIDE DEF rank
    <2> QED  BY <2>1
  <1>4. rank \in [S -> T]
    <2> HIDE DEF Below
    <2>1. \A i \in S : Cardinality(Below(i)) \in T  BY <1>2
    <2> QED  BY <2>1
  <1>5. rank \in Surjection(S, T)
    <2>1. rank \in Injection(S, T)
      <3> HIDE DEF rank
      <3> QED  BY <1>3, <1>4 DEF Injection, IsInjective
    <2> HIDE DEF rank
    <2> QED  BY <2>1, <1>1, FS_Injection
  <1>6. \A n \in T : at(n) \in S /\ rank[at(n)] = n
    <2> TAKE n \in T
    <2>1. \E i \in S : rank[i] = n
      <3> HIDE DEF rank
      <3> QED  BY <1>5 DEF Surjection
    <2> QED  BY <2>1
  <1>7. \A i \in S : rank[i] \in T /\ at(rank[i]) = i
    <2> HIDE DEF at, rank
    <2> QED  BY <1>2, <1>3, <1>6
  <1>8. ElementsAt(s, S) = [n \in T |-> s[at(n)]]  BY DEF ElementsAt
  <1> HIDE DEF at, rank
  <1>9. DOMAIN ElementsAt(s, S) = T  BY <1>8
  <1>10. \E f : Enumerates(f, ElementsAt(s, S), s, S)
    <2> DEFINE f == [n \in T |-> at(n)]
    <2>1. \A n \in T : f[n] \in S  BY <1>6
    <2>2. \A n \in T : ElementsAt(s, S)[n] = s[f[n]]  BY <1>8
    <2>3. \A i \in S : f[rank[i]] = i /\ rank[i] \in T  BY <1>7
    <2>4. \A m, n \in T : f[m] = f[n] => m = n  BY <1>6
    <2> HIDE DEF f
    <2>5. \A i \in S : \E n \in T : f[n] = i  BY <2>3
    <2> WITNESS f
    <2> QED  BY <1>9, <2>1, <2>2, <2>4, <2>5 DEF Enumerates
  <1> QED  BY <1>1, <1>9, <1>10

LEMMA ElementsAtPositions ==
    ASSUME NEW s, NEW S \in SUBSET Nat, IsFiniteSet(S)
    PROVE  /\ Cardinality(S) \in Nat
           /\ DOMAIN ElementsAt(s, S) = 1..Cardinality(S)
           /\ \A n \in 1..Cardinality(S) : \E i \in S : ElementsAt(s, S)[n] = s[i]
           /\ \A i \in S : \E n \in 1..Cardinality(S) : ElementsAt(s, S)[n] = s[i]
  <1> DEFINE T == 1..Cardinality(S)
  <1>1. T = 1..Cardinality(S)  OBVIOUS
  <1> HIDE DEF T
  <1>2. Cardinality(S) \in Nat /\ DOMAIN ElementsAt(s, S) = T
    BY <1>1, PositionsOfElements
  <1>3. PICK f : Enumerates(f, ElementsAt(s, S), s, S)
    BY <1>1, PositionsOfElements
  <1>4. \A n \in T : \E i \in S : ElementsAt(s, S)[n] = s[i]
    BY <1>2, <1>3 DEF Enumerates
  <1>5. \A i \in S : \E n \in T : ElementsAt(s, S)[n] = s[i]
    <2> TAKE i \in S
    <2>1. PICK n \in T : f[n] = i  BY <1>2, <1>3 DEF Enumerates
    <2>2. ElementsAt(s, S)[n] = s[i]  BY <1>2, <1>3, <2>1 DEF Enumerates
    <2> QED  BY <2>2
  <1> QED  BY <1>1, <1>2, <1>4, <1>5

LEMMA LeastNumber ==
  ASSUME NEW S \in SUBSET Nat, S # {}
  PROVE  \E m \in S : \A n \in S : m <= n
  <1> DEFINE less == OpToRel(<, Nat)
  <1>1. \A x, y \in Nat : <<x, y>> \in less <=> x < y  BY DEF OpToRel
  <1>2. IsWellFoundedOn(less, Nat)  BY NatLessThanWellFounded
  <1> HIDE DEF less
  <1>3. PICK m \in S : \A n \in S : ~(<<n, m>> \in less)  BY <1>2, WFMin
  <1>4. \A n \in S : ~(n < m)  BY <1>1, <1>3
  <1> QED  BY <1>4

LEMMA UpTo ==
  ASSUME NEW L \in Nat, NEW P, 0 \in P, \A n \in 0..L : n \in P /\ n < L => n + 1 \in P
  PROVE  \A n \in 0..L : n \in P
  <1> DEFINE Q == {n \in 0..L : n \notin P}
  <1> SUFFICES ASSUME Q # {} PROVE FALSE  OBVIOUS
  <1>1. Q \in SUBSET Nat  OBVIOUS
  <1>2. PICK m \in Q : \A n \in Q : m <= n
    <2> HIDE DEF Q
    <2> QED  BY <1>1, LeastNumber
  <1>3. m \in 1..L /\ m - 1 \in 0..L  OBVIOUS
  <1>4. m - 1 \notin Q  BY <1>2, <1>3
  <1>5. m - 1 \in P /\ m - 1 < L  BY <1>3, <1>4
  <1>6. m \in P  BY <1>3, <1>5
  <1> QED  BY <1>6

LEMMA EarliestStep ==
  ASSUME NEW old, NEW new, Len(old) \in Nat, Len(new) \in Nat
  PROVE  LET at == Earliest(old, new)
             matches(k) == {j \in at[k - 1] + 1..Len(new) : new[j] = old[k]} \cup {Len(new) + 1}
         IN \A k \in 1..Len(old) : at[k - 1] \in Nat /\ at[k] \in matches(k)
  <1> DEFINE L == Len(old)
             M == Len(new)
             V == 0..M + 1
             matches(k, c) == {j \in c + 1..M : new[j] = old[k]} \cup {M + 1}
             next(k, c) == LeastOf(matches(k, c))
             table(n, f) == [k \in 0..n |-> IF k = 0 THEN 0 ELSE next(k, f[k - 1])]
             follows(n, f) == f \in [0..n -> V] /\ f = table(n, f)
             P == {n \in 0..L : \E f \in [0..n -> V] : f = table(n, f)}
  <1>1. \A k \in 1..L, c \in V : next(k, c) \in matches(k, c) /\ next(k, c) \in V
    <2> TAKE k \in 1..L, c \in V
    <2>1. matches(k, c) \in SUBSET V /\ matches(k, c) \in SUBSET Nat /\ matches(k, c) # {}
      OBVIOUS
    <2>2. PICK m \in matches(k, c) : \A j \in matches(k, c) : m <= j
      <3> HIDE DEF matches
      <3> QED  BY <2>1, LeastNumber
    <2>3. next(k, c) \in matches(k, c)
      <3> HIDE DEF matches
      <3> QED  BY <2>2 DEF LeastOf
    <2> QED  BY <2>1, <2>3
  <1>2. 0 \in P
    <2> DEFINE f == [k \in 0..0 |-> 0]
    <2> HIDE DEF next
    <2>1. f \in [0..0 -> V] /\ f = table(0, f)  OBVIOUS
    <2>2. \E h \in [0..0 -> V] : h = table(0, h)
      <3> HIDE DEF table, V
      <3> QED  BY <2>1
    <2>3. 0 \in 0..L  OBVIOUS
    <2> HIDE DEF table, V
    <2> QED  BY <2>2, <2>3
  <1>3. ASSUME NEW n \in 0..L, n \in P, n < L PROVE n + 1 \in P
    <2> HIDE DEF next, V
    <2>1. PICK f \in [0..n -> V] : f = table(n, f)  BY <1>3
    <2> DEFINE g == [k \in 0..n + 1 |-> IF k = n + 1 THEN next(n + 1, f[n]) ELSE f[k]]
    <2>2. f[n] \in V /\ n + 1 \in 1..L  BY <1>3
    <2>3. g \in [0..n + 1 -> V]  BY <1>1, <2>2
    <2>4. \A k \in 0..n + 1 : g[k] = table(n + 1, g)[k]
      <3> TAKE k \in 0..n + 1
      <3>1. CASE k = 0  BY <2>1, <3>1
      <3>2. CASE k \in 1..n
        <4>1. g[k] = f[k] /\ g[k - 1] = f[k - 1]  BY <3>2
        <4>2. f[k] = next(k, f[k - 1])  BY <2>1, <3>2
        <4> QED  BY <3>2, <4>1, <4>2
      <3>3. CASE k = n + 1
        <4>1. g[k - 1] = f[n] /\ k # 0  BY <3>3
        <4> QED  BY <3>3, <4>1
      <3> QED  BY <3>1, <3>2, <3>3
    <2>5. g = table(n + 1, g)
      <3> HIDE DEF g
      <3> QED  BY <2>3, <2>4
    <2>6. \E h \in [0..n + 1 -> V] : h = table(n + 1, h)
      <3> HIDE DEF table, g
      <3> QED  BY <2>3, <2>5
    <2>7. n + 1 \in 0..L  BY <2>2
    <2> HIDE DEF table
    <2> QED  BY <2>6, <2>7
  <1>4. L \in P
    <2> HIDE DEF P
    <2>1. \A n \in 0..L : n \in P /\ n < L => n + 1 \in P  BY <1>3
    <2>2. \A n \in 0..L : n \in P  BY <1>2, <2>1, UpTo
    <2> QED  BY <2>2
  <1> DEFINE at == Earliest(old, new)
  <1>5. at = table(L, at)
    <2>1. \E f : f = table(L, f)  BY <1>4
    <2>2. at = CHOOSE f : f = table(L, f)  BY DEF Earliest
    <2> HIDE DEF at, table
    <2> QED  BY <2>1, <2>2
  <1> HIDE DEF at
  <1>6. \A k \in 1..L : at[k] = next(k, at[k - 1])
    <2> HIDE DEF next
    <2> QED  BY <1>5
  <1>7. \A k \in 0..L : at[k] \in V
    <2> DEFINE R == {k \in 0..L : at[k] \in V}
    <2>1. at[0] = 0  BY <1>5
    <2>2. 0 \in R  BY <2>1
    <2>3. ASSUME NEW n \in 0..L, n \in R, n < L PROVE n + 1 \in R
      <3> HIDE DEF next, V
      <3>1. n + 1 \in 1..L /\ (n + 1) - 1 = n  BY <2>3
      <3>2. at[n + 1] = next(n + 1, at[n])  BY <3>1, <1>6
      <3>3. at[n] \in V  BY <2>3
      <3> QED  BY <3>1, <3>2, <3>3, <1>1
    <2> HIDE DEF R
    <2>4. \A n \in 0..L : n \in R  BY <2>2, <2>3, UpTo
    <2> QED  BY <2>4 DEF R
  <1>8. ASSUME NEW k \in 1..L PROVE at[k - 1] \in Nat /\ at[k] \in matches(k, at[k - 1])
    <2>1. at[k - 1] \in V  BY <1>7
    <2>2. at[k] \in matches(k, at[k - 1])
      <3> HIDE DEF matches, next, V
      <3> QED  BY <2>1, <1>1, <1>6
    <2> QED  BY <2>1, <2>2
  <1> QED  BY <1>8 DEF at

LEMMA AlignedMatches ==
  ASSUME NEW old, NEW new, Len(old) \in Nat, Len(new) \in Nat, NEW e \in Align(old, new)
  PROVE  \A k \in 1..Len(old) : e[k] \in 1..Len(new) /\ new[e[k]] = old[k]
  <1> DEFINE at == Earliest(old, new)
             matches(k) == {j \in at[k - 1] + 1..Len(new) : new[j] = old[k]} \cup {Len(new) + 1}
  <1>1. \A k \in 1..Len(old) : at[k] <= Len(new) /\ e[k] = at[k]
    <2> HIDE DEF at
    <2> QED  BY DEF Align, at
  <1>2. \A k \in 1..Len(old) : at[k - 1] \in Nat /\ at[k] \in matches(k)
    BY EarliestStep
  <1> HIDE DEF at
  <1> QED  BY <1>1, <1>2, SMTT(30)

IsSequence(s) == Len(s) \in Nat /\ DOMAIN s = 1..Len(s)
Elements(s) == {s[k] : k \in DOMAIN s}

LEMMA SequenceOfLength ==
  ASSUME NEW n \in Nat, NEW s, s = [k \in 1..n |-> s[k]]
  PROVE  IsSequence(s) /\ Len(s) = n
  <1> DEFINE E == {s[k] : k \in 1..n}
  <1>1. s \in [1..n -> E]  OBVIOUS
  <1>2. s \in Seq(E)
    <2> HIDE DEF E
    <2> QED  BY <1>1
  <1>3. Len(s) \in Nat /\ DOMAIN s = 1..Len(s)
    <2> HIDE DEF E
    <2> QED  BY <1>2
  <1>4. 1..n = 1..Len(s)  BY <1>1, <1>3
  <1>5. n = Len(s)  BY <1>3, <1>4
  <1> QED  BY <1>3, <1>5 DEF IsSequence

\* What is picked from a sequence is a sequence of what was picked.
LEMMA Picked ==
    ASSUME NEW s, IsSequence(s), NEW S \in SUBSET DOMAIN s
    PROVE  /\ IsSequence(ElementsAt(s, S))
           /\ Elements(ElementsAt(s, S)) = {s[i] : i \in S}
  <1>1. S \in SUBSET Nat /\ IsFiniteSet(S)
    <2>1. IsFiniteSet(1..Len(s))  BY FS_Interval DEF IsSequence
    <2> QED  BY <2>1, FS_Subset DEF IsSequence
  <1> DEFINE p == ElementsAt(s, S)
             n == Cardinality(S)
  <1>2. p = [k \in 1..n |-> p[k]]  BY DEF ElementsAt
  <1>3. n \in Nat /\ DOMAIN p = 1..n
        /\ (\A k \in 1..n : \E i \in S : p[k] = s[i])
        /\ \A i \in S : \E k \in 1..n : p[k] = s[i]
    BY <1>1, ElementsAtPositions
  <1> HIDE DEF p, n
  <1>4. IsSequence(p)  BY <1>2, <1>3, SequenceOfLength
  <1>5. Elements(p) = {s[i] : i \in S}
    <2>1. Elements(p) = {p[k] : k \in 1..n}  BY <1>3 DEF Elements
    <2> HIDE DEF n
    <2> QED  BY <1>3, <2>1
  <1> QED  BY <1>4, <1>5 DEF p

LEMMA KeysAreASequence ==
  ASSUME NEW s, IsSequence(s)
  PROVE  /\ Len(Keys(s)) \in Nat /\ Len(Keys(s)) = Len(s)
         /\ \A k \in 1..Len(s) : Keys(s)[k] = Key(s[k])
  <1>1. Keys(s) = [k \in 1..Len(s) |-> Keys(s)[k]]  BY DEF Keys, IsSequence
  <1>2. Len(Keys(s)) = Len(s)  BY <1>1, SequenceOfLength DEF IsSequence
  <1> QED  BY <1>2 DEF Keys, IsSequence

LEMMA FramesOfThread ==
  ASSUME NEW r, IsSequence(r.frames), NEW t
  PROVE  /\ IsSequence(FramesOf(r, t))
         /\ Elements(FramesOf(r, t)) = {f \in Elements(r.frames) : f.thread = t}
  <1> DEFINE S == {k \in DOMAIN r.frames : r.frames[k].thread = t}
  <1>1. FramesOf(r, t) = ElementsAt(r.frames, S)  BY DEF FramesOf
  <1>2. S \in SUBSET DOMAIN r.frames  OBVIOUS
  <1>3. {r.frames[i] : i \in S} = {f \in Elements(r.frames) : f.thread = t}
    BY DEF Elements
  <1> HIDE DEF S
  <1> QED  BY <1>1, <1>2, <1>3, Picked

LEMMA AnchorsOfThread ==
  ASSUME NEW r, IsSequence(r.frames), NEW t, NEW business \in BOOLEAN
  PROVE  /\ IsSequence(Anchors(r, t, business))
         /\ Elements(Anchors(r, t, business))
              = {f \in Elements(r.frames) : /\ f.thread = t /\ Reliable(f)
                                            /\ Business(f, r) <=> business}
  <1> DEFINE A(f) == f.thread = t /\ Reliable(f) /\ (Business(f, r) <=> business)
             S == {k \in DOMAIN r.frames : A(r.frames[k])}
  <1>1. Anchors(r, t, business) = ElementsAt(r.frames, S)  BY DEF Anchors
  <1>2. S \in SUBSET DOMAIN r.frames  OBVIOUS
  <1>3. {r.frames[i] : i \in S} = {f \in Elements(r.frames) : A(f)}
    <2> HIDE DEF A
    <2> QED  BY DEF Elements
  <1> HIDE DEF S
  <1> QED  BY <1>1, <1>2, <1>3, Picked

\* The comparison of a thread, with its parts named.
Retained(before, after) ==
    ElementsAt(before, {k \in DOMAIN before : Key(before[k]) \in {Key(after[j]) : j \in DOMAIN after}})
MatchedPairs(retained, after) ==
    UNION {{<<retained[k], after[e[k]]>> : k \in DOMAIN retained} :
             e \in Align(Keys(retained), Keys(after))}
Contradicts(p) == \/ p[1].in_app # p[2].in_app
                  \/ p[1].method # p[2].method /\ Reliable(p[2])
                  \/ \E x \in Fields : /\ p[1].text[x] # p[2].text[x]
                                       /\ p[1].text[x] # Nothing
                                       /\ p[2].text[x] # Nothing
Gains(p) == Reliable(p[2]) /\ \E x \in Fields : p[1].text[x] = Nothing /\ p[2].text[x] # Nothing

LEMMA PairsOfThread ==
  ASSUME NEW before, NEW after, IsSequence(before), IsSequence(after),
         NEW p \in MatchedPairs(Retained(before, after), after)
  PROVE  p[1] \in Elements(before) /\ p[2] \in Elements(after) /\ Key(p[1]) = Key(p[2])
  <1> DEFINE S == {k \in DOMAIN before :
                     Key(before[k]) \in {Key(after[j]) : j \in DOMAIN after}}
             kept == Retained(before, after)
  <1>1. IsSequence(kept) /\ Elements(kept) = {before[i] : i \in S}
    BY Picked DEF Retained
  <1>2. Elements(kept) \subseteq Elements(before)  BY <1>1 DEF Elements
  <1> HIDE DEF kept, S
  <1>3. PICK e \in Align(Keys(kept), Keys(after)) :
          p \in {<<kept[k], after[e[k]]>> : k \in DOMAIN kept}
    BY DEF MatchedPairs, kept
  <1>4. PICK k \in DOMAIN kept : p = <<kept[k], after[e[k]]>>
    BY <1>3
  <1>5. k \in 1..Len(kept) /\ kept[k] \in Elements(kept)  BY <1>1, <1>4 DEF IsSequence, Elements
  <1>6. e[k] \in 1..Len(Keys(after)) /\ Keys(after)[e[k]] = Keys(kept)[k]
    BY <1>1, <1>3, <1>5, KeysAreASequence, AlignedMatches
  <1>7. e[k] \in DOMAIN after /\ Key(after[e[k]]) = Key(kept[k])
    BY <1>1, <1>5, <1>6, KeysAreASequence DEF IsSequence
  <1>8. after[e[k]] \in Elements(after)  BY <1>7 DEF Elements
  <1>9. p[1] = kept[k] /\ p[2] = after[e[k]]  BY <1>4
  <1> QED  BY <1>2, <1>5, <1>7, <1>8, <1>9

LEMMA RetainedIsPaired ==
  ASSUME NEW kept, NEW after, NEW f \in Elements(kept),
         Align(Keys(kept), Keys(after)) # {}
  PROVE  \E p \in MatchedPairs(kept, after) : p[1] = f
  <1>1. PICK k \in DOMAIN kept : f = kept[k]  BY DEF Elements
  <1>2. PICK e \in Align(Keys(kept), Keys(after)) : TRUE  OBVIOUS
  <1>3. <<kept[k], after[e[k]]>> \in {<<kept[j], after[e[j]]>> : j \in DOMAIN kept}
    BY <1>1
  <1>4. <<kept[k], after[e[k]]>> \in MatchedPairs(kept, after)  BY <1>2, <1>3 DEF MatchedPairs
  <1>5. <<kept[k], after[e[k]]>>[1] = f  BY <1>1
  <1> QED  BY <1>4, <1>5

LEMMA ThreadParts ==
  ASSUME NEW old, NEW new, NEW t, NEW b \in BOOLEAN
  PROVE  LET before == Anchors(old, t, b)
             after == FramesOf(new, t)
             kept == Retained(before, after)
             pairs == MatchedPairs(kept, after)
             th == Thread(old, new, t, b)
         IN /\ th.differs <=> \/ Align(Keys(kept), Keys(after)) = {}
                              \/ \E p \in pairs : Contradicts(p)
            /\ \A f \in Elements(before) : f \notin Elements(kept)
                  => Loss(f.module, "unwind", b) \in th.losses
            /\ \A p \in pairs : p[1].method # p[2].method
                  => Loss(p[1].module, "unwind", b) \in th.losses
            /\ \A p \in pairs :
                  (\E x \in Fields : p[1].text[x] # Nothing /\ p[2].text[x] = Nothing)
                    => Loss(p[1].module, "symbols", b) \in th.losses
            /\ th.gains <=> \E p \in pairs : Gains(p)
  <1> DEFINE before == Anchors(old, t, b)
             after == FramesOf(new, t)
             kept == Retained(before, after)
             aligned == Align(Keys(kept), Keys(after))
             pairs == MatchedPairs(kept, after)
             gone == {before[k] : k \in DOMAIN before} \ {kept[k] : k \in DOMAIN kept}
             differs == \/ aligned = {}
                        \/ \E p \in pairs : Contradicts(p)
             losses == {Loss(f.module, "unwind", b) : f \in gone}
                         \cup {Loss(p[1].module, "unwind", b) :
                                 p \in {q \in pairs : q[1].method # q[2].method}}
                         \cup {Loss(p[1].module, "symbols", b) :
                                 p \in {q \in pairs : \E x \in Fields :
                                          /\ q[1].text[x] # Nothing
                                          /\ q[2].text[x] = Nothing}}
             gains == \E p \in pairs : Gains(p)
             th == Thread(old, new, t, b)
  <1>1. th = [differs |-> differs, losses |-> losses, gains |-> gains]
    BY DEF Thread, Retained, MatchedPairs, Contradicts, Gains
  <1>2. \A f \in Elements(before) : f \notin Elements(kept) => f \in gone
    BY DEF Elements
  <1> HIDE DEF before, after, kept, pairs, aligned
  <1>3. /\ th.differs <=> differs
        /\ th.gains <=> gains
        /\ th.losses = losses
    <2> HIDE DEF differs, losses, gains, th
    <2> QED  BY <1>1
  <1> QED  BY <1>2, <1>3 DEF before, after, kept, pairs, aligned

LEMMA ThreadKeeps ==
  ASSUME NEW old, NEW new, IsSequence(old.frames), IsSequence(new.frames),
         NEW t, NEW b \in BOOLEAN, ~ Thread(old, new, t, b).differs,
         NEW f \in Elements(old.frames), f.thread = t, Reliable(f), Business(f, old) <=> b,
         \A stage \in {"unwind", "symbols"} :
            Loss(f.module, stage, b) \notin Thread(old, new, t, b).losses
  PROVE  \E g \in Elements(new.frames) :
            /\ g.thread = t /\ Key(g) = Key(f) /\ g.method = f.method
            /\ \A x \in Fields : f.text[x] # Nothing => g.text[x] = f.text[x]
  <1> DEFINE before == Anchors(old, t, b)
             after == FramesOf(new, t)
             kept == Retained(before, after)
             pairs == MatchedPairs(kept, after)
             th == Thread(old, new, t, b)
  <1>1. IsSequence(before) /\ f \in Elements(before)  BY AnchorsOfThread
  <1>2. IsSequence(after) /\ Elements(after) = {g \in Elements(new.frames) : g.thread = t}
    BY FramesOfThread
  <1>3. /\ Align(Keys(kept), Keys(after)) # {}
        /\ \A p \in pairs : ~ Contradicts(p)
        /\ \A h \in Elements(before) : h \notin Elements(kept)
              => Loss(h.module, "unwind", b) \in th.losses
        /\ \A p \in pairs : p[1].method # p[2].method
              => Loss(p[1].module, "unwind", b) \in th.losses
        /\ \A p \in pairs :
              (\E x \in Fields : p[1].text[x] # Nothing /\ p[2].text[x] = Nothing)
                => Loss(p[1].module, "symbols", b) \in th.losses
    <2> QED  BY ThreadParts
  <1>4. \A stage \in {"unwind", "symbols"} : Loss(f.module, stage, b) \notin th.losses
    OBVIOUS
  <1>5. \A p \in pairs : p[1] \in Elements(before) /\ p[2] \in Elements(after)
                         /\ Key(p[1]) = Key(p[2])
    BY <1>1, <1>2, PairsOfThread
  <1> HIDE DEF before, after, kept, pairs, th
  <1>6. f \in Elements(kept)  BY <1>1, <1>3, <1>4
  <1>7. PICK p \in pairs : p[1] = f  BY <1>3, <1>6, RetainedIsPaired DEF pairs
  <1>8. p[2] \in Elements(new.frames) /\ p[2].thread = t /\ Key(p[2]) = Key(f)
    BY <1>2, <1>5, <1>7
  <1>9. p[2].method = f.method  BY <1>3, <1>4, <1>7
  <1>10. ASSUME NEW x \in Fields, f.text[x] # Nothing PROVE p[2].text[x] = f.text[x]
    <2>1. p[2].text[x] # Nothing  BY <1>3, <1>4, <1>7, <1>10
    <2>2. ~ Contradicts(p)  BY <1>3
    <2> QED  BY <2>1, <2>2, <1>7, <1>10 DEF Contradicts
  <1> QED  BY <1>8, <1>9, <1>10

LEMMA ThreadGains ==
  ASSUME NEW old, NEW new, IsSequence(old.frames), IsSequence(new.frames),
         NEW t, NEW b \in BOOLEAN, ~ Thread(old, new, t, b).differs,
         Thread(old, new, t, b).gains
  PROVE  \E f \in Elements(old.frames), g \in Elements(new.frames) :
            /\ f.thread = t /\ Reliable(f) /\ (Business(f, old) <=> b)
            /\ g.thread = t /\ Reliable(g) /\ g.in_app = f.in_app
            /\ Key(f) = Key(g)
            /\ \E x \in Fields : f.text[x] = Nothing /\ g.text[x] # Nothing
  <1> DEFINE before == Anchors(old, t, b)
             after == FramesOf(new, t)
             kept == Retained(before, after)
             pairs == MatchedPairs(kept, after)
  <1>1. /\ IsSequence(before)
        /\ Elements(before) = {f \in Elements(old.frames) : /\ f.thread = t /\ Reliable(f)
                                                            /\ Business(f, old) <=> b}
    BY AnchorsOfThread
  <1>2. IsSequence(after) /\ Elements(after) = {g \in Elements(new.frames) : g.thread = t}
    BY FramesOfThread
  <1>3. (\A p \in pairs : ~ Contradicts(p)) /\ \E p \in pairs : Gains(p)
    <2> QED  BY ThreadParts
  <1>4. \A p \in pairs : p[1] \in Elements(before) /\ p[2] \in Elements(after)
                         /\ Key(p[1]) = Key(p[2])
    BY <1>1, <1>2, PairsOfThread
  <1> HIDE DEF before, after, kept, pairs
  <1>5. PICK p \in pairs : Gains(p)  BY <1>3
  <1>6. /\ p[1] \in Elements(old.frames) /\ p[1].thread = t /\ Reliable(p[1])
        /\ Business(p[1], old) <=> b
    BY <1>1, <1>4
  <1>7. p[2] \in Elements(new.frames) /\ p[2].thread = t  BY <1>2, <1>4
  <1>8. p[1].in_app = p[2].in_app  BY <1>3 DEF Contradicts
  <1>9. Reliable(p[2]) /\ \E x \in Fields : p[1].text[x] = Nothing /\ p[2].text[x] # Nothing
    BY <1>5 DEF Gains
  <1> QED  BY <1>4, <1>6, <1>7, <1>8, <1>9

ThreadsCompared(old, new) == {Thread(old, new, t, TRUE) : t \in Threads(old)}
                               \cup {Thread(old, new, t, FALSE) : t \in Threads(old)}
AllLosses(old, new) ==
    (UNION {t.losses : t \in ThreadsCompared(old, new)})
      \cup {Loss(i, "symbols", old.modules[i].in_app) :
              i \in {j \in DOMAIN old.modules : SymbolLost(old.modules[j], new.modules[j])}}

LEMMA PromotedAnchors ==
  ASSUME NEW old, NEW new, NEW classified, Promotes(CompareAnchors(old, new, classified))
  PROVE  /\ \A t \in Threads(old), b \in BOOLEAN : ~ Thread(old, new, t, b).differs
         /\ \A l \in AllLosses(old, new) :
               /\ LossClass(new.modules[l.module], l.stage) = "transient"
               /\ ~ l.business
               /\ old.modules[l.module].role = "system"
         /\ AllLosses(old, new) # {} =>
               \/ \E t \in Threads(old) : Thread(old, new, t, TRUE).gains
               \/ BusinessCount(new) > BusinessCount(old)
         /\ \A i \in DOMAIN old.modules : ~ SelectionChanged(old.modules[i], new.modules[i])
         /\ CompareAnchors(old, new, classified).reason \in {"improved", "q16_system_transient"} =>
               \/ classified
               \/ \E t \in Threads(old) : Thread(old, new, t, TRUE).gains
               \/ BusinessCount(new) > BusinessCount(old)
               \/ /\ AllLosses(old, new) = {}
                  /\ \/ \E t \in Threads(old), b \in BOOLEAN : Thread(old, new, t, b).gains
                     \/ \E i \in DOMAIN old.modules :
                           SelectionGained(old.modules[i], new.modules[i])
  <1> DEFINE business == {Thread(old, new, t, TRUE) : t \in Threads(old)}
             threads == business \cup {Thread(old, new, t, FALSE) : t \in Threads(old)}
             indexes == DOMAIN old.modules
             losses == (UNION {t.losses : t \in threads})
                         \cup {Loss(i, "symbols", old.modules[i].in_app) :
                                 i \in {j \in indexes :
                                          SymbolLost(old.modules[j], new.modules[j])}}
             classes == {LossClass(new.modules[l.module], l.stage) : l \in losses}
             business_improved == \/ \E t \in business : t.gains
                                  \/ BusinessCount(new) > BusinessCount(old)
             improved == \/ classified \/ business_improved
                         \/ \E t \in threads : t.gains
                         \/ \E i \in indexes : SelectionGained(old.modules[i], new.modules[i])
             only_system == \A l \in losses : /\ old.modules[l.module].role = "system"
                                              /\ ~ old.modules[l.module].in_app
             differ == LegacyFrame(old) \/ \E t \in threads : t.differs
             changed == \E i \in indexes : SelectionChanged(old.modules[i], new.modules[i])
             retry == \/ \E i \in indexes : StillFailing(old.modules[i], new.modules[i])
                      \/ HasRetryableGaps(new)
             lost_business == \E l \in losses : l.business
             v == CompareAnchors(old, new, classified)
  <1>1. v = IF differ THEN Verdict("incomparable", "anchors_differ", FALSE)
            ELSE IF changed THEN Verdict("incomparable", "selection_changed", FALSE)
            ELSE IF losses = {}
            THEN Verdict("promote", IF improved THEN "improved" ELSE "equivalent", retry)
            ELSE IF "unknown" \in classes THEN Verdict("incomparable", "unknown_loss", FALSE)
            ELSE IF "permanent" \in classes THEN Verdict("retain", "permanent_loss", FALSE)
            ELSE IF lost_business
            THEN Verdict("retain", "business_transient_loss", TRUE)
            ELSE IF only_system /\ business_improved
            THEN Verdict("promote", "q16_system_transient", TRUE)
            ELSE Verdict("retain", IF only_system THEN "system_transient_loss"
                                   ELSE "non_system_transient_loss", TRUE)
    BY DEF CompareAnchors
  <1>3. /\ ~ differ /\ ~ changed
        /\ losses = {} \/ /\ "unknown" \notin classes /\ "permanent" \notin classes
                          /\ ~ lost_business /\ only_system /\ business_improved
    <2> HIDE DEF differ, changed, losses, classes, lost_business, only_system,
                 business_improved, improved, retry
    <2>1. v.decision = "promote" \/ v.decision = "correct"  BY DEF Promotes
    <2> HIDE DEF v
    <2>2. ASSUME differ PROVE FALSE
      <3>1. v = Verdict("incomparable", "anchors_differ", FALSE)  BY <1>1, <2>2
      <3> QED  BY <2>1, <3>1 DEF Verdict
    <2>3. ASSUME ~ differ, changed PROVE FALSE
      <3>1. v = Verdict("incomparable", "selection_changed", FALSE)  BY <1>1, <2>3
      <3> QED  BY <2>1, <3>1 DEF Verdict
    <2>4. ASSUME ~ differ, ~ changed, losses # {}, "unknown" \in classes PROVE FALSE
      <3>1. v = Verdict("incomparable", "unknown_loss", FALSE)  BY <1>1, <2>4
      <3> QED  BY <2>1, <3>1 DEF Verdict
    <2>5. ASSUME ~ differ, ~ changed, losses # {}, "unknown" \notin classes,
                 "permanent" \in classes
          PROVE  FALSE
      <3>1. v = Verdict("retain", "permanent_loss", FALSE)  BY <1>1, <2>5
      <3> QED  BY <2>1, <3>1 DEF Verdict
    <2>6. ASSUME ~ differ, ~ changed, losses # {}, "unknown" \notin classes,
                 "permanent" \notin classes, lost_business
          PROVE  FALSE
      <3>1. v = Verdict("retain", "business_transient_loss", TRUE)  BY <1>1, <2>6
      <3> QED  BY <2>1, <3>1 DEF Verdict
    <2>7. ASSUME ~ differ, ~ changed, losses # {}, "unknown" \notin classes,
                 "permanent" \notin classes, ~ lost_business,
                 ~ (only_system /\ business_improved)
          PROVE  FALSE
      <3>1. v = Verdict("retain", IF only_system THEN "system_transient_loss"
                                  ELSE "non_system_transient_loss", TRUE)
        BY <1>1, <2>7
      <3> QED  BY <2>1, <3>1 DEF Verdict
    <2> QED  BY <2>2, <2>3, <2>4, <2>5, <2>6, <2>7
  <1>4. \A t \in Threads(old), b \in BOOLEAN : ~ Thread(old, new, t, b).differs
    BY <1>3
  <1>5. losses = AllLosses(old, new)  BY DEF AllLosses, ThreadsCompared
  <1>6. \A l \in losses : LossClass(new.modules[l.module], l.stage) = "transient"
    <2>1. \A m, s : LossClass(m, s) \in {"unknown", "permanent", "transient"}
      BY DEF LossClass
    <2> HIDE DEF losses
    <2> QED  BY <1>3, <2>1
  <1>7. \A l \in losses : ~ l.business /\ old.modules[l.module].role = "system"
    <2> HIDE DEF losses
    <2> QED  BY <1>3
  <1>8. losses # {} => \/ \E t \in Threads(old) : Thread(old, new, t, TRUE).gains
                       \/ BusinessCount(new) > BusinessCount(old)
    <2> HIDE DEF losses
    <2> QED  BY <1>3
  <1>9. \A i \in indexes : ~ SelectionChanged(old.modules[i], new.modules[i])
    <2> HIDE DEF differ, losses, classes, lost_business, only_system, business_improved
    <2> QED  BY <1>3
  <1>10. v.reason \in {"improved", "q16_system_transient"} =>
            \/ business_improved
            \/ losses = {} /\ improved
    <2> HIDE DEF differ, changed, losses, classes, lost_business, only_system,
                 business_improved, improved, retry
    <2>1. losses = {} => v = Verdict("promote", IF improved THEN "improved" ELSE "equivalent", retry)
      BY <1>1, <1>3
    <2> HIDE DEF v
    <2>2. ASSUME losses = {}, ~ improved PROVE v.reason = "equivalent"
      BY <2>1, <2>2 DEF Verdict
    <2> QED  BY <1>3, <2>2
  <1>11. v.reason \in {"improved", "q16_system_transient"} =>
            \/ classified
            \/ \E t \in Threads(old) : Thread(old, new, t, TRUE).gains
            \/ BusinessCount(new) > BusinessCount(old)
            \/ /\ losses = {}
               /\ \/ \E t \in Threads(old), b \in BOOLEAN : Thread(old, new, t, b).gains
                  \/ \E i \in indexes : SelectionGained(old.modules[i], new.modules[i])
    <2> HIDE DEF losses, v
    <2> QED  BY <1>10
  <1> HIDE DEF losses
  <1> QED  BY <1>4, <1>5, <1>6, <1>7, <1>8, <1>9, <1>11 DEF v

\* What the rule lets through, as the properties of CurrentReport need it.
LEMMA AllowedReplacement ==
  ASSUME NEW o, NEW n, o # Nothing, Allows(o, n)
  PROVE  /\ Promotes(CompareAnchors(WithRolesOf(o, n), n, Reclassified(o, n) # {}))
         /\ Compare(o, n, FALSE, FALSE).reason
              = CompareAnchors(WithRolesOf(o, n), n, Reclassified(o, n) # {}).reason
         /\ o.fault = n.fault
         /\ DOMAIN o.modules = DOMAIN n.modules
         /\ RolesComparable(o, n) /\ ShapeValid(o)
  <1>1. \A d, r, x : Verdict(d, r, x).decision = d  BY DEF Verdict
  <1> DEFINE v == CompareContents(o, n)
             w == CompareAnchors(WithRolesOf(o, n), n, Reclassified(o, n) # {})
  <1>2. Compare(o, n, FALSE, FALSE) = v
    <2> HIDE DEF v
    <2> DEFINE c == Compare(o, n, FALSE, FALSE)
    <2>1. c.decision \in {"promote", "correct"}  BY DEF Allows, Promotes
    <2>2. \/ c = v
          \/ \E d \in {"retain", "incomparable"}, r \in
                {"candidate_not_eligible", "candidate_evidence_missing",
                 "module_evidence_incomplete", "occurrence_or_dump_mismatch",
                 "transition_requires_review"} : c = Verdict(d, r, FALSE)
      BY DEF Compare, v
    <2> HIDE DEF c
    <2>3. ASSUME NEW d \in {"retain", "incomparable"}, NEW r, c = Verdict(d, r, FALSE)
          PROVE  FALSE
      <3>1. c.decision = d  BY <1>1, <2>3
      <3> QED  BY <2>1, <3>1
    <2>4. c = v  BY <2>2, <2>3
    <2> QED  BY <2>4 DEF c
  <1>3. v.decision \in {"promote", "correct"}
    <2> HIDE DEF v
    <2> QED  BY <1>2 DEF Allows, Promotes
  <1>4. /\ v = w
        /\ o.fault = n.fault
        /\ DOMAIN o.modules = DOMAIN n.modules
        /\ RolesComparable(o, n) /\ ShapeValid(o)
    <2> HIDE DEF w
    <2>1. ASSUME NEW r, v = Verdict("incomparable", r, FALSE) PROVE FALSE
      BY <1>3, <2>1 DEF Verdict
    <2>2. ~ \E r \in {"legacy_evidence_missing", "pair_evidence_incomplete",
                      "context_mismatch", "fault_changed", "module_evidence_incomplete"} :
               v = Verdict("incomparable", r, FALSE)
      <3> HIDE DEF v
      <3> QED  BY <2>1
    <2> QED  BY <2>2 DEF CompareContents, w
  <1> HIDE DEF v, w
  <1> QED  BY <1>2, <1>3, <1>4 DEF w, Promotes

\* A report as far as the comparison of frames looks at it.
Readable(r) == /\ r # Nothing
               /\ {"fault", "modules", "frames"} \subseteq DOMAIN r
               /\ IsSequence(r.frames)

LEMMA AllReadable == \A r \in AllReports : Readable(r)
  <1> TAKE r \in AllReports
  <1>1. IsSequence(r.frames)
    <2> DEFINE S == {r.frames[k] : k \in DOMAIN r.frames}
    <2>1. r.frames \in Seq(S)  BY ReportsAreOfSuccess
    <2> HIDE DEF S
    <2> QED  BY <2>1 DEF IsSequence
  <1> QED  BY <1>1, ReportsAreOfSuccess DEF Readable

LEMMA WithRolesShape ==
    ASSUME NEW o, NEW n, Readable(o), Readable(n)
    PROVE  /\ IsSequence(WithRolesOf(o, n).frames) /\ IsSequence(n.frames)
           /\ WithRolesOf(o, n).fault = o.fault
           /\ DOMAIN WithRolesOf(o, n).modules = DOMAIN o.modules
  <1> DEFINE frames == [k \in DOMAIN o.frames |->
                          [o.frames[k] EXCEPT !.in_app = n.modules[o.frames[k].module].in_app]]
             old == WithRolesOf(o, n)
  <1>1. /\ old.frames = frames /\ old.fault = o.fault
        /\ DOMAIN old.modules = DOMAIN o.modules
    <2> HIDE DEF frames
    <2> QED  BY DEF Readable, WithRolesOf, frames
  <1>2. DOMAIN frames = 1..Len(o.frames) /\ Len(o.frames) \in Nat
    BY DEF Readable, IsSequence
  <1>3. frames = [k \in 1..Len(o.frames) |-> frames[k]]  BY <1>2
  <1> HIDE DEF frames, old
  <1>4. IsSequence(frames)  BY <1>2, <1>3, SequenceOfLength
  <1> QED  BY <1>1, <1>4 DEF old, Readable

\* CurrentReport speaks of the same rule.
LEMMA SameRule ==
    /\ \A f : Promised!Reliable(f) <=> Reliable(f)
    /\ \A f : Promised!Key(f) = Key(f)
    /\ \A f, r : Promised!Business(f, r) <=> Business(f, r)
    /\ \A o, n : Promised!WithRolesOf(o, n) = WithRolesOf(o, n)
    /\ \A r : Promised!BusinessCount(r) = BusinessCount(r)
    /\ \A m, n : Promised!SymbolLost(m, n) <=> SymbolLost(m, n)
    /\ \A s : Promised!Temporary(s) <=> Temporary(s)
    /\ \A r : Promised!FrameSet(r) = FrameSet(r)
    /\ \A F : Promised!Facts(F) = Facts(F)
    /\ \A r : Promised!AllFacts(r) = AllFacts(r)
    /\ \A r : Promised!BusinessFacts(r) = BusinessFacts(r)
    /\ \A o, n : Promised!BusinessGained(o, n) <=> BusinessGained(o, n)
  <1>1. \A f : Promised!Reliable(f) <=> Reliable(f)
    BY DEF Promised!Reliable, Promised!ReliableMethods, Reliable, ReliableMethods
  <1>2. \A f : Promised!Key(f) = Key(f)  BY DEF Promised!Key, Key
  <1>3. \A f, r : Promised!Business(f, r) <=> Business(f, r)
    BY DEF Promised!Business, Business
  <1>4. \A o, n : Promised!WithRolesOf(o, n) = WithRolesOf(o, n)
    BY DEF Promised!WithRolesOf, WithRolesOf
  <1>5. \A r : Promised!BusinessCount(r) = BusinessCount(r)
    <2>1. \A s, p : Promised!ElementsAt(s, p) = ElementsAt(s, p)
      BY DEF Promised!ElementsAt, ElementsAt, Promised!Cardinality, Cardinality
    <2> TAKE r
    <2>2. \A f : Promised!Reliable(f) /\ (Promised!Business(f, r) <=> TRUE)
                  <=> Reliable(f) /\ (Business(f, r) <=> TRUE)
      BY <1>1, <1>3
    <2> QED
      BY <2>1, <2>2 DEF Promised!BusinessCount, BusinessCount, Promised!Anchors, Anchors
  <1>6. \A m, n : Promised!SymbolLost(m, n) <=> SymbolLost(m, n)
    BY DEF Promised!SymbolLost, SymbolLost
  <1>7. \A s : Promised!Temporary(s) <=> Temporary(s)  BY DEF Promised!Temporary, Temporary
  <1>8. \A r : Promised!FrameSet(r) = FrameSet(r)  BY DEF Promised!FrameSet, FrameSet
  <1>9. \A F : Promised!Facts(F) = Facts(F)
    <2>1. \A f : Promised!Said(f) = Said(f)  BY <1>2 DEF Promised!Said, Said
    <2> QED  BY <1>1, <2>1 DEF Promised!Facts, Facts
  <1>10. \A r : Promised!AllFacts(r) = AllFacts(r)
    BY <1>8, <1>9 DEF Promised!AllFacts, AllFacts
  <1>11. \A r : Promised!BusinessFacts(r) = BusinessFacts(r)
    <2> TAKE r
    <2>1. {f \in Promised!FrameSet(r) : Promised!Business(f, r)}
            = {f \in FrameSet(r) : Business(f, r)}
      BY <1>3, <1>8
    <2> QED  BY <1>9, <2>1 DEF Promised!BusinessFacts, BusinessFacts
  <1>12. \A o, n : Promised!BusinessGained(o, n) <=> BusinessGained(o, n)
    BY <1>1, <1>2, <1>3, <1>5, <1>8 DEF Promised!BusinessGained, BusinessGained
  <1> QED  BY <1>1, <1>2, <1>3, <1>4, <1>5, <1>6, <1>7, <1>8, <1>9, <1>10, <1>11, <1>12

\* What an older report says and the rule lets go is lost: a reliable frame of which
\* nothing is counted as lost is found in the candidate with all its texts.
LEMMA FrameIsKept ==
    ASSUME NEW o, NEW n, Readable(o), Readable(n), Allows(o, n),
           NEW f \in Elements(WithRolesOf(o, n).frames), Reliable(f),
           \A b \in BOOLEAN, stage \in {"unwind", "symbols"} :
              (Business(f, WithRolesOf(o, n)) <=> b)
                => Loss(f.module, stage, b) \notin AllLosses(WithRolesOf(o, n), n)
    PROVE  Said(f) \subseteq AllFacts(n)
  <1> DEFINE old == WithRolesOf(o, n)
  <1>1. IsSequence(old.frames) /\ IsSequence(n.frames)  BY WithRolesShape
  <1>2. o # Nothing  BY DEF Readable
  <1>3. Promotes(CompareAnchors(old, n, Reclassified(o, n) # {}))
    BY <1>2, AllowedReplacement
  <1> HIDE DEF old
  <1>4. PICK b \in BOOLEAN : Business(f, old) <=> b  BY DEF Business
  <1>5. f.thread \in Threads(old)  BY DEF Threads, Elements, old
  <1>6. ~ Thread(old, n, f.thread, b).differs  BY <1>3, <1>5, PromotedAnchors
  <1>7. Thread(old, n, f.thread, b) \in ThreadsCompared(old, n)
    <2>1. CASE b = TRUE  BY <1>5, <2>1 DEF ThreadsCompared
    <2>2. CASE b = FALSE  BY <1>5, <2>2 DEF ThreadsCompared
    <2> QED  BY <2>1, <2>2
  <1>8. \A stage \in {"unwind", "symbols"} :
           Loss(f.module, stage, b) \notin Thread(old, n, f.thread, b).losses
    BY <1>4, <1>7 DEF AllLosses, old
  <1>9. f \in Elements(old.frames)  BY DEF old
  <1>10. PICK g \in Elements(n.frames) :
            /\ g.thread = f.thread /\ Key(g) = Key(f) /\ g.method = f.method
            /\ \A x \in Fields : f.text[x] # Nothing => g.text[x] = f.text[x]
    BY <1>1, <1>4, <1>6, <1>8, <1>9, ThreadKeeps
  <1>11. Reliable(g)  BY <1>10 DEF Reliable
  <1>12. Said(f) \subseteq Said(g)
    <2>1. <<f.thread, Key(f), f.method>> = <<g.thread, Key(g), g.method>>  BY <1>10
    <2>2. ASSUME NEW x \in Fields, f.text[x] # Nothing
          PROVE  /\ g.text[x] # Nothing
                 /\ <<f.thread, Key(f), f.method, x, f.text[x]>>
                      = <<g.thread, Key(g), g.method, x, g.text[x]>>
      BY <1>10, <2>2
    <2> QED  BY <2>1, <2>2 DEF Said
  <1>13. Said(g) \subseteq AllFacts(n)
    BY <1>10, <1>11 DEF AllFacts, Facts, FrameSet, Elements
  <1> QED  BY <1>12, <1>13

\* A replacement that the rule allows keeps the business facts.
LEMMA RuleKeepsBusiness ==
    ASSUME NEW o, NEW n, Readable(o), Readable(n), Allows(o, n)
    PROVE  BusinessFacts(WithRolesOf(o, n)) \subseteq AllFacts(n)
  <1> DEFINE old == WithRolesOf(o, n)
  <1>1. Promotes(CompareAnchors(old, n, Reclassified(o, n) # {}))
    BY AllowedReplacement DEF Readable
  <1>2. \A l \in AllLosses(old, n) : ~ l.business
    <2> HIDE DEF old
    <2> QED  BY <1>1, PromotedAnchors
  <1>3. ASSUME NEW f \in Elements(old.frames), Reliable(f), Business(f, old)
        PROVE  Said(f) \subseteq AllFacts(n)
    <2>1. ASSUME NEW b \in BOOLEAN, NEW stage \in {"unwind", "symbols"},
                 Business(f, old) <=> b
          PROVE  Loss(f.module, stage, b) \notin AllLosses(old, n)
      <3>1. Loss(f.module, stage, b).business = b  BY DEF Loss
      <3> HIDE DEF old
      <3> QED  BY <1>2, <1>3, <2>1, <3>1
    <2> QED  BY <1>3, <2>1, FrameIsKept
  <1> HIDE DEF old
  <1>4. BusinessFacts(old)
          = UNION {Said(f) : f \in {g \in Elements(old.frames) :
                                               Reliable(g) /\ Business(g, old)}}
    BY DEF BusinessFacts, Facts, FrameSet, Elements
  <1> QED  BY <1>3, <1>4 DEF old

LEMMA TransientIsTemporary ==
    ASSUME NEW m, NEW stage, LossClass(m, stage) = "transient"
    PROVE  \E s \in m.sources : Temporary(s)
  <1> DEFINE failed == {s \in m.sources : s.stage \in StagesOf(stage) /\ s.outcome # "found"}
  <1>1. failed # {} /\ \A s \in failed : Temporary(s)
    <2> HIDE DEF failed
    <2> QED  BY DEF LossClass, failed
  <1> QED  BY <1>1

\* A replacement that the rule allows loses only what it may, and gains in return.
LEMMA RuleExcusesLosses ==
    ASSUME NEW o, NEW n, Readable(o), Readable(n), Allows(o, n),
           NEW i \in DOMAIN WithRolesOf(o, n).modules,
           \/ SymbolLost(WithRolesOf(o, n).modules[i], n.modules[i])
           \/ ~ Facts({f \in FrameSet(WithRolesOf(o, n)) : f.module = i})
                  \subseteq AllFacts(n)
    PROVE  /\ WithRolesOf(o, n).modules[i].role = "system"
           /\ \E s \in n.modules[i].sources : Temporary(s)
           /\ BusinessGained(WithRolesOf(o, n), n)
  <1> DEFINE old == WithRolesOf(o, n)
  <1>1. /\ Promotes(CompareAnchors(old, n, Reclassified(o, n) # {}))
        /\ o.fault = n.fault
    BY AllowedReplacement DEF Readable
  <1>2. IsSequence(old.frames) /\ IsSequence(n.frames) /\ old.fault = n.fault
    BY <1>1, WithRolesShape
  <1>3. PICK l \in AllLosses(old, n) : l.module = i
    <2>1. CASE SymbolLost(old.modules[i], n.modules[i])
      <3> DEFINE l == Loss(i, "symbols", old.modules[i].in_app)
      <3>1. l.module = i  BY DEF Loss
      <3>2. l \in AllLosses(old, n)  BY <2>1 DEF AllLosses
      <3> QED  BY <3>1, <3>2
    <2>2. CASE ~ Facts({f \in FrameSet(old) : f.module = i})
                   \subseteq AllFacts(n)
      <3>1. PICK f \in Elements(old.frames) :
                f.module = i /\ Reliable(f)
                /\ ~ Said(f) \subseteq AllFacts(n)
        <4> HIDE DEF old
        <4> QED  BY <2>2 DEF Facts, FrameSet, Elements
      <3>2. PICK b \in BOOLEAN, stage \in {"unwind", "symbols"} :
                Loss(f.module, stage, b) \in AllLosses(old, n)
        BY <3>1, FrameIsKept
      <3>3. Loss(f.module, stage, b).module = i  BY <3>1 DEF Loss
      <3> HIDE DEF old
      <3> QED  BY <3>2, <3>3
    <2> QED  BY <2>1, <2>2
  <1> HIDE DEF old
  <1>4. LossClass(n.modules[i], l.stage) = "transient" /\ old.modules[i].role = "system"
    BY <1>1, <1>3, PromotedAnchors
  <1>5. \/ \E t \in Threads(old) : Thread(old, n, t, TRUE).gains
        \/ BusinessCount(n) > BusinessCount(old)
    BY <1>1, <1>3, PromotedAnchors
  <1>6. ASSUME NEW t \in Threads(old), Thread(old, n, t, TRUE).gains
        PROVE  BusinessGained(old, n)
    <2>1. PICK b \in BOOLEAN : b = TRUE  OBVIOUS
    <2>2. ~ Thread(old, n, t, b).differs /\ Thread(old, n, t, b).gains
      BY <1>1, <1>6, <2>1, PromotedAnchors
    <2>3. PICK f \in Elements(old.frames), g \in Elements(n.frames) :
            /\ f.thread = t /\ Reliable(f) /\ (Business(f, old) <=> b)
            /\ g.thread = t /\ Reliable(g) /\ g.in_app = f.in_app
            /\ Key(f) = Key(g)
            /\ \E x \in Fields : f.text[x] = Nothing /\ g.text[x] # Nothing
      BY <1>2, <2>2, ThreadGains
    <2>4. Business(f, old)  BY <2>1, <2>3
    <2>5. Business(g, n)  BY <1>2, <2>3, <2>4 DEF Business
    <2> QED  BY <2>3, <2>4, <2>5 DEF BusinessGained, FrameSet, Elements
  <1>7. BusinessCount(n) > BusinessCount(old) => BusinessGained(old, n)
    BY DEF BusinessGained
  <1>8. \E s \in n.modules[i].sources : Temporary(s)  BY <1>4, TransientIsTemporary
  <1> QED  BY <1>4, <1>5, <1>6, <1>7, <1>8 DEF old
-----------------------------------------------------------------------------
(* The rule is an order: what a report gains and never loses again.        *)

\* The anchors of a thread, and the texts they have, by position.
AnchorsAt(r, t, b) == {k \in DOMAIN r.frames : /\ r.frames[k].thread = t
                                               /\ Reliable(r.frames[k])
                                               /\ Business(r.frames[k], r) <=> b}
TextsAt(r, t, b) == {p \in AnchorsAt(r, t, b) \X Fields : r.frames[p[1]].text[p[2]] # Nothing}
Anchored(r, t, b) == Cardinality(AnchorsAt(r, t, b))
Told(r, t, b) == Cardinality(TextsAt(r, t, b))
Unique(r) == {i \in DOMAIN r.modules : r.modules[i].selection = "unique"}

\* Report n is not below o: the roles are as clear, and if they are the same there is as
\* much business evidence; and if that is the same, as much of the rest.
RolesStay(o, n) == \A i \in DOMAIN o.modules : o.modules[i].role = n.modules[i].role
BusinessStays(o, n) == \A t : /\ Anchored(n, t, TRUE) = Anchored(o, t, TRUE)
                              /\ Told(n, t, TRUE) = Told(o, t, TRUE)
NotBelow(n, o) ==
    /\ DOMAIN o.modules = DOMAIN n.modules
    /\ \A i \in DOMAIN o.modules : \/ o.modules[i].role = n.modules[i].role
                                   \/ <<o.modules[i].role, n.modules[i].role>> \in Clearer
    /\ RolesStay(o, n) =>
         /\ \A t : /\ Anchored(o, t, TRUE) <= Anchored(n, t, TRUE)
                   /\ Told(o, t, TRUE) <= Told(n, t, TRUE)
         /\ BusinessStays(o, n) => \A t : Told(o, t, FALSE) <= Told(n, t, FALSE)
         /\ Unique(o) \subseteq Unique(n)
Above(n, o) == NotBelow(n, o) /\ ~ NotBelow(o, n)

IsReport(r) ==
    /\ {"fault", "modules", "frames"} \subseteq DOMAIN r
    /\ IsSequence(r.frames)
    /\ \A i \in DOMAIN r.modules :
         {"role", "in_app", "selection", "pair", "symbol"} \subseteq DOMAIN r.modules[i]
    /\ \A k \in DOMAIN r.frames :
         {"thread", "module", "rva", "method", "in_app", "text"} \subseteq DOMAIN r.frames[k]

LEMMA Counted ==
  ASSUME NEW r, IsReport(r), NEW t, NEW b
  PROVE  /\ IsFiniteSet(AnchorsAt(r, t, b)) /\ Anchored(r, t, b) \in Nat
         /\ AnchorsAt(r, t, b) \in SUBSET DOMAIN r.frames
         /\ IsFiniteSet(TextsAt(r, t, b)) /\ Told(r, t, b) \in Nat
  <1>1. IsFiniteSet(1..Len(r.frames)) /\ DOMAIN r.frames = 1..Len(r.frames)
    <2>1. Len(r.frames) \in Nat /\ DOMAIN r.frames = 1..Len(r.frames)
      BY DEF IsReport, IsSequence
    <2>2. IsFiniteSet(1..Len(r.frames))
      <3>1. Len(r.frames) \in Int  BY <2>1
      <3> QED  BY <3>1, FS_Interval
    <2> QED  BY <2>1, <2>2
  <1>2. AnchorsAt(r, t, b) \subseteq DOMAIN r.frames  BY DEF AnchorsAt
  <1>3. IsFiniteSet(AnchorsAt(r, t, b))  BY <1>1, <1>2, FS_Subset
  <1>4. IsFiniteSet(AnchorsAt(r, t, b) \X Fields)  BY <1>3, HistoryAssumption, FS_Product
  <1>5. TextsAt(r, t, b) \subseteq AnchorsAt(r, t, b) \X Fields  BY DEF TextsAt
  <1>6. IsFiniteSet(TextsAt(r, t, b))  BY <1>4, <1>5, FS_Subset
  <1> QED  BY <1>2, <1>3, <1>6, FS_CardinalityType DEF Anchored, Told

LEMMA Between ==
  ASSUME NEW x \in Nat, NEW y \in Nat, NEW z \in Nat, x <= y, y <= z
  PROVE  x <= z /\ (z = x => y = x /\ z = y)
  OBVIOUS

LEMMA NotMore ==
  ASSUME NEW x \in Nat, NEW y, y = x
  PROVE  ~ (x < y) /\ ~ (y > x)
  OBVIOUS

\* The order is one.
LEMMA NotBelowTransitive ==
  ASSUME NEW a, NEW b, NEW c, IsReport(a), IsReport(b), IsReport(c),
         NotBelow(b, a), NotBelow(c, b)
  PROVE  NotBelow(c, a)
  <1>1. DOMAIN a.modules = DOMAIN b.modules /\ DOMAIN b.modules = DOMAIN c.modules
    BY DEF NotBelow
  <1>2. \A x, y, z : <<x, y>> \in Clearer /\ <<y, z>> \in Clearer => <<x, z>> \in Clearer /\ x # z
    BY DEF Clearer
  <1>3. ASSUME NEW i \in DOMAIN a.modules
        PROVE  /\ \/ a.modules[i].role = c.modules[i].role
                  \/ <<a.modules[i].role, c.modules[i].role>> \in Clearer
               /\ a.modules[i].role = c.modules[i].role => a.modules[i].role = b.modules[i].role
    <2>1. /\ \/ a.modules[i].role = b.modules[i].role
             \/ <<a.modules[i].role, b.modules[i].role>> \in Clearer
          /\ \/ b.modules[i].role = c.modules[i].role
             \/ <<b.modules[i].role, c.modules[i].role>> \in Clearer
      BY <1>1, <1>3 DEF NotBelow
    <2> QED  BY <2>1, <1>2
  <1>4. ASSUME RolesStay(a, c)
        PROVE  /\ \A t : /\ Anchored(a, t, TRUE) <= Anchored(c, t, TRUE)
                         /\ Told(a, t, TRUE) <= Told(c, t, TRUE)
               /\ BusinessStays(a, c) => \A t : Told(a, t, FALSE) <= Told(c, t, FALSE)
               /\ Unique(a) \subseteq Unique(c)
    <2>1. RolesStay(a, b) /\ RolesStay(b, c)  BY <1>1, <1>3, <1>4 DEF RolesStay
    <2>2. \A t : /\ Anchored(a, t, TRUE) <= Anchored(b, t, TRUE)
                 /\ Anchored(b, t, TRUE) <= Anchored(c, t, TRUE)
                 /\ Told(a, t, TRUE) <= Told(b, t, TRUE)
                 /\ Told(b, t, TRUE) <= Told(c, t, TRUE)
      BY <2>1 DEF NotBelow
    <2>4. ASSUME NEW t
          PROVE  /\ Anchored(a, t, TRUE) \in Nat /\ Anchored(b, t, TRUE) \in Nat
                 /\ Anchored(c, t, TRUE) \in Nat
                 /\ Told(a, t, TRUE) \in Nat /\ Told(b, t, TRUE) \in Nat /\ Told(c, t, TRUE) \in Nat
                 /\ Told(a, t, FALSE) \in Nat /\ Told(b, t, FALSE) \in Nat
                 /\ Told(c, t, FALSE) \in Nat
      BY Counted
    <2>5. \A t : /\ Anchored(a, t, TRUE) <= Anchored(c, t, TRUE)
                 /\ Told(a, t, TRUE) <= Told(c, t, TRUE)
      <3> TAKE t
      <3>1. Anchored(a, t, TRUE) <= Anchored(c, t, TRUE)  BY <2>2, <2>4, Between
      <3>2. Told(a, t, TRUE) <= Told(c, t, TRUE)  BY <2>2, <2>4, Between
      <3> QED  BY <3>1, <3>2
    <2>6. ASSUME BusinessStays(a, c) PROVE \A t : Told(a, t, FALSE) <= Told(c, t, FALSE)
      <3>1. BusinessStays(a, b) /\ BusinessStays(b, c)
        <4>1. \A t : /\ Anchored(b, t, TRUE) = Anchored(a, t, TRUE)
                     /\ Told(b, t, TRUE) = Told(a, t, TRUE)
                     /\ Anchored(c, t, TRUE) = Anchored(b, t, TRUE)
                     /\ Told(c, t, TRUE) = Told(b, t, TRUE)
          <5> TAKE t
          <5>1. Anchored(c, t, TRUE) = Anchored(a, t, TRUE) /\ Told(c, t, TRUE) = Told(a, t, TRUE)
            BY <2>6 DEF BusinessStays
          <5>2. Anchored(b, t, TRUE) = Anchored(a, t, TRUE)
                /\ Anchored(c, t, TRUE) = Anchored(b, t, TRUE)
            BY <2>2, <2>4, <5>1, Between
          <5>3. Told(b, t, TRUE) = Told(a, t, TRUE) /\ Told(c, t, TRUE) = Told(b, t, TRUE)
            BY <2>2, <2>4, <5>1, Between
          <5> QED  BY <5>2, <5>3
        <4> QED  BY <4>1 DEF BusinessStays
      <3>2. \A t : Told(a, t, FALSE) <= Told(b, t, FALSE) /\ Told(b, t, FALSE) <= Told(c, t, FALSE)
        BY <2>1, <3>1 DEF NotBelow
      <3> TAKE t
      <3> QED  BY <2>4, <3>2, Between
    <2>7. Unique(a) \subseteq Unique(c)  BY <2>1 DEF NotBelow
    <2> QED  BY <2>5, <2>6, <2>7
  <1> QED  BY <1>1, <1>3, <1>4 DEF NotBelow

LEMMA AboveStaysAbove ==
  ASSUME NEW a, NEW b, NEW c, IsReport(a), IsReport(b), IsReport(c),
         Above(b, a), NotBelow(c, b)
  PROVE  Above(c, a)
  BY NotBelowTransitive DEF Above
-----------------------------------------------------------------------------
(* The anchors of a thread that loses nothing. *)

LEMMA EarliestGrows ==
  ASSUME NEW old, NEW new, Len(old) \in Nat, Len(new) \in Nat, NEW e \in Align(old, new)
  PROVE  \A k, l \in 1..Len(old) : k < l => e[k] < e[l]
  <1> DEFINE at == Earliest(old, new)
             L == Len(old)
             M == Len(new)
             matches(k) == {j \in at[k - 1] + 1..M : new[j] = old[k]} \cup {M + 1}
  <1>1. \A k \in 1..L : at[k] <= M /\ e[k] = at[k]
    <2> HIDE DEF at
    <2> QED  BY DEF Align, at
  <1>2. \A k \in 1..L : at[k - 1] \in Nat /\ at[k] \in matches(k)
    BY EarliestStep
  <1> HIDE DEF at
  <1>3. \A k \in 1..L : at[k - 1] \in Nat /\ at[k] \in Nat /\ at[k - 1] < at[k]
    BY <1>1, <1>2
  <1>4. ASSUME NEW k \in 1..L PROVE \A l \in 1..L : k < l => at[k] < at[l]
    <2> DEFINE P == {l \in 0..L : k < l => at[k] < at[l]}
    <2>1. 0 \in P  OBVIOUS
    <2>2. ASSUME NEW l \in 0..L, l \in P, l < L PROVE l + 1 \in P
      <3>1. l + 1 \in 1..L /\ (l + 1) - 1 = l  BY <2>2
      <3>2. at[l] \in Nat /\ at[l + 1] \in Nat /\ at[l] < at[l + 1]  BY <1>3, <3>1
      <3>3. at[k] \in Nat  BY <1>3
      <3>4. k < l + 1 => k = l \/ k < l  BY <3>1
      <3>5. k < l + 1 => at[k] < at[l + 1]  BY <2>2, <3>2, <3>3, <3>4
      <3> QED  BY <3>1, <3>5
    <2> HIDE DEF P
    <2>3. \A l \in 0..L : l \in P  BY <2>1, <2>2, UpTo
    <2> QED  BY <2>3 DEF P
  <1> QED  BY <1>1, <1>4

LEMMA OneAlignment ==
  ASSUME NEW old, NEW new, NEW e \in Align(old, new), NEW f \in Align(old, new)
  PROVE  e = f
  BY DEF Align

\* The positions of what is picked from a sequence.
LEMMA PickedAt ==
  ASSUME NEW s, IsSequence(s), NEW S \in SUBSET DOMAIN s
  PROVE  \E f : Enumerates(f, ElementsAt(s, S), s, S)
  <1>1. S \in SUBSET Nat /\ IsFiniteSet(S)
    <2>1. IsFiniteSet(1..Len(s))  BY FS_Interval DEF IsSequence
    <2> QED  BY <2>1, FS_Subset DEF IsSequence
  <1> QED  BY <1>1, PositionsOfElements

\* How the anchors of a thread that loses nothing lie in the candidate: each at a
\* position of its own, found as reliably, of the same module, with its texts.
Carries(g, old, new, t, b) ==
    /\ g \in Injection(AnchorsAt(old, t, b), AnchorsAt(new, t, b))
    /\ \A k \in AnchorsAt(old, t, b), x \in Fields :
         old.frames[k].text[x] # Nothing => new.frames[g[k]].text[x] # Nothing
    /\ Thread(old, new, t, b).gains =>
         \E k \in AnchorsAt(old, t, b), x \in Fields :
            old.frames[k].text[x] = Nothing /\ new.frames[g[k]].text[x] # Nothing

LEMMA ThreadCarries ==
  ASSUME NEW old, NEW new, IsSequence(old.frames), IsSequence(new.frames),
         old.fault = new.fault, NEW t, NEW b \in BOOLEAN,
         ~ Thread(old, new, t, b).differs,
         \A m, stage : Loss(m, stage, b) \notin Thread(old, new, t, b).losses
  PROVE  \E g : Carries(g, old, new, t, b)
  <1> DEFINE before == Anchors(old, t, b)
             after == FramesOf(new, t)
             S == {k \in DOMAIN before :
                     Key(before[k]) \in {Key(after[j]) : j \in DOMAIN after}}
             kept == Retained(before, after)
             pairs == MatchedPairs(kept, after)
             A == AnchorsAt(old, t, b)
             Q == {k \in DOMAIN new.frames : new.frames[k].thread = t}
  <1>1. IsSequence(before) /\ \E a : Enumerates(a, before, old.frames, A)
    <2>1. before = ElementsAt(old.frames, A)
      <3> USE DEF AnchorsAt, Anchors
      <3> QED  OBVIOUS
    <2>2. A \in SUBSET DOMAIN old.frames  BY DEF AnchorsAt
    <2> HIDE DEF A, before
    <2> QED  BY <2>1, <2>2, PickedAt, Picked
  <1>2. IsSequence(after) /\ \E c : Enumerates(c, after, new.frames, Q)
    <2>1. after = ElementsAt(new.frames, Q)  BY DEF FramesOf
    <2>2. Q \in SUBSET DOMAIN new.frames  OBVIOUS
    <2> HIDE DEF Q, after
    <2> QED  BY <2>1, <2>2, PickedAt, Picked
  <1>3. /\ Align(Keys(kept), Keys(after)) # {}
        /\ \A p \in pairs : ~ Contradicts(p)
        /\ \A h \in Elements(before) : h \in Elements(kept)
        /\ \A p \in pairs : p[1].method = p[2].method
        /\ \A p \in pairs, x \in Fields : p[1].text[x] # Nothing => p[2].text[x] # Nothing
        /\ Thread(old, new, t, b).gains => \E p \in pairs : Gains(p)
    <2> HIDE DEF before, after
    <2> QED  BY ThreadParts DEF before, after
  <1> HIDE DEF before, after
  <1>4. /\ IsSequence(kept) /\ Elements(kept) = {before[i] : i \in S}
        /\ \E r : Enumerates(r, kept, before, S)
    <2>1. S \in SUBSET DOMAIN before  OBVIOUS
    <2>2. kept = ElementsAt(before, S)  BY DEF Retained
    <2> HIDE DEF S, kept
    <2> QED  BY <1>1, <2>1, <2>2, Picked, PickedAt
  <1>5. S = DOMAIN before
    <2>1. ASSUME NEW k \in DOMAIN before PROVE k \in S
      <3>1. before[k] \in Elements(kept)  BY <1>3 DEF Elements
      <3>2. PICK i \in S : before[k] = before[i]  BY <1>4, <3>1
      <3> QED  BY <3>2
    <2> QED  BY <2>1
  <1> HIDE DEF S, kept, pairs
  <1>6. PICK a : Enumerates(a, before, old.frames, A)  BY <1>1
  <1>7. PICK c : Enumerates(c, after, new.frames, Q)  BY <1>2
  <1>8. PICK r : Enumerates(r, kept, before, S)  BY <1>4
  <1>9. PICK e \in Align(Keys(kept), Keys(after)) : TRUE  BY <1>3
  <1> DEFINE K == DOMAIN kept
  <1>10. /\ \A k \in K : e[k] \in DOMAIN after
         /\ \A k, l \in K : e[k] = e[l] => k = l
    <2>1. /\ Len(Keys(kept)) = Len(kept) /\ Len(Keys(after)) = Len(after)
          /\ Len(kept) \in Nat /\ Len(after) \in Nat
          /\ K = 1..Len(kept) /\ DOMAIN after = 1..Len(after)
      BY <1>2, <1>4, KeysAreASequence DEF IsSequence
    <2>2. \A k \in 1..Len(kept) : e[k] \in 1..Len(after)
      BY <1>9, <2>1, AlignedMatches
    <2>3. \A k, l \in 1..Len(kept) : k < l => e[k] < e[l]
      BY <1>9, <2>1, EarliestGrows
    <2>4. ASSUME NEW k \in K, NEW l \in K, e[k] = e[l] PROVE k = l
      <3>1. e[k] \in Nat /\ e[l] \in Nat /\ k \in Nat /\ l \in Nat  BY <2>1, <2>2
      <3>2. ~ (k < l) /\ ~ (l < k)  BY <2>1, <2>3, <2>4, <3>1
      <3> QED  BY <3>1, <3>2
    <2> QED  BY <2>1, <2>2, <2>4
  <1>11. /\ \A n \in DOMAIN before : a[n] \in A /\ before[n] = old.frames[a[n]]
         /\ \A i \in A : \E n \in DOMAIN before : a[n] = i
         /\ \A m, n \in DOMAIN before : a[m] = a[n] => m = n
         /\ \A n \in DOMAIN after : c[n] \in Q /\ after[n] = new.frames[c[n]]
         /\ \A m, n \in DOMAIN after : c[m] = c[n] => m = n
         /\ \A k \in K : r[k] \in DOMAIN before /\ kept[k] = before[r[k]]
         /\ \A n \in DOMAIN before : \E k \in K : r[k] = n
         /\ \A k, l \in K : r[k] = r[l] => k = l
    BY <1>5, <1>6, <1>7, <1>8 DEF Enumerates
  <1>12. \A i \in A : \E k \in K : a[r[k]] = i  BY <1>11
  <1> DEFINE h(i) == CHOOSE k \in K : a[r[k]] = i
             g == [i \in A |-> c[e[h(i)]]]
  <1>13. \A i \in A : h(i) \in K /\ a[r[h(i)]] = i  BY <1>12
  <1>14. \A k \in K : a[r[k]] \in A /\ h(a[r[k]]) = k  BY <1>11
  <1> HIDE DEF h, A, K
  <1>15. \A k \in K : /\ <<kept[k], after[e[k]]>> \in pairs
                      /\ kept[k] = old.frames[a[r[k]]] /\ after[e[k]] = new.frames[c[e[k]]]
    <2>1. \A k \in K : <<kept[k], after[e[k]]>> \in {<<kept[j], after[e[j]]>> : j \in K}
      OBVIOUS
    <2>2. \A k \in K : <<kept[k], after[e[k]]>> \in pairs
      BY <1>9, <2>1 DEF pairs, MatchedPairs, K
    <2> QED  BY <1>10, <1>11, <2>2
  <1>16. ASSUME NEW i \in A
         PROVE  /\ <<old.frames[i], new.frames[g[i]]>> \in pairs
                /\ g[i] \in Q
    BY <1>10, <1>11, <1>13, <1>15
  <1>17. ASSUME NEW i \in A PROVE g[i] \in AnchorsAt(new, t, b)
    <2> DEFINE p == <<old.frames[i], new.frames[g[i]]>>
    <2>1. p[1] = old.frames[i] /\ p[2] = new.frames[g[i]] /\ p \in pairs /\ g[i] \in Q
      BY <1>16
    <2> HIDE DEF g, p
    <2>2. /\ p[1].thread = t /\ Reliable(p[1]) /\ (Business(p[1], old) <=> b)
      BY <2>1 DEF A, AnchorsAt
    <2>3. p[1].method = p[2].method /\ p[1].in_app = p[2].in_app
      BY <1>3, <2>1 DEF Contradicts
    <2>4. p[2].thread = t /\ g[i] \in DOMAIN new.frames  BY <2>1
    <2>5. Reliable(p[2]) /\ (Business(p[2], new) <=> b)
      BY <2>2, <2>3, <2>4 DEF Reliable, Business
    <2> QED  BY <2>1, <2>4, <2>5 DEF AnchorsAt
  <1>18. \A i, j \in A : g[i] = g[j] => i = j
    <2> TAKE i, j \in A
    <2>1. g[i] = g[j] => c[e[h(i)]] = c[e[h(j)]]  OBVIOUS
    <2> HIDE DEF g
    <2>2. g[i] = g[j] => h(i) = h(j)  BY <1>10, <1>11, <1>13, <2>1
    <2> QED  BY <1>13, <2>2
  <1>19. g \in Injection(A, AnchorsAt(new, t, b))
    <2>1. g \in [A -> AnchorsAt(new, t, b)]  BY <1>17
    <2> HIDE DEF g
    <2> QED  BY <1>18, <2>1 DEF Injection, IsInjective
  <1>20. \A i \in A, x \in Fields : old.frames[i].text[x] # Nothing
                                      => new.frames[g[i]].text[x] # Nothing
    <2> TAKE i \in A, x \in Fields
    <2> DEFINE p == <<old.frames[i], new.frames[g[i]]>>
    <2>1. p[1] = old.frames[i] /\ p[2] = new.frames[g[i]] /\ p \in pairs  BY <1>16
    <2> HIDE DEF g, p
    <2> QED  BY <1>3, <2>1
  <1>21. ASSUME Thread(old, new, t, b).gains
         PROVE  \E i \in A, x \in Fields : old.frames[i].text[x] = Nothing
                                             /\ new.frames[g[i]].text[x] # Nothing
    <2>1. PICK p \in pairs : Gains(p)  BY <1>3, <1>21
    <2>2. PICK f \in Align(Keys(kept), Keys(after)) :
             p \in {<<kept[k], after[f[k]]>> : k \in K}
      BY <2>1 DEF pairs, MatchedPairs, K
    <2>3. f = e  BY <1>9, <2>2, OneAlignment
    <2>4. PICK k \in K : p = <<kept[k], after[e[k]]>>  BY <2>2, <2>3
    <2> DEFINE i == a[r[k]]
    <2>5. i \in A /\ g[i] = c[e[k]]  BY <1>14
    <2>6. p[1] = old.frames[i] /\ p[2] = new.frames[g[i]]  BY <1>15, <2>4, <2>5
    <2> HIDE DEF g, i
    <2> QED  BY <2>1, <2>5, <2>6 DEF Gains
  <1> HIDE DEF g
  <1>22. Carries(g, old, new, t, b)  BY <1>19, <1>20, <1>21 DEF Carries, A
  <1> QED  BY <1>22

LEMMA CarriedCounts ==
  ASSUME NEW old, NEW new, IsReport(old), IsReport(new), NEW t, NEW b \in BOOLEAN,
         NEW g, Carries(g, old, new, t, b)
  PROVE  /\ Anchored(old, t, b) <= Anchored(new, t, b)
         /\ Told(old, t, b) <= Told(new, t, b)
         /\ Thread(old, new, t, b).gains => Told(old, t, b) < Told(new, t, b)
  <1> DEFINE A == AnchorsAt(old, t, b)
             B == AnchorsAt(new, t, b)
             S == TextsAt(old, t, b)
             T == TextsAt(new, t, b)
             f == [p \in S |-> <<g[p[1]], p[2]>>]
  <1>1. /\ IsFiniteSet(B) /\ IsFiniteSet(T)
        /\ Told(old, t, b) \in Nat /\ Told(new, t, b) \in Nat
    BY Counted
  <1>2. /\ g \in Injection(A, B)
        /\ \A k \in A, x \in Fields : old.frames[k].text[x] # Nothing
                                        => new.frames[g[k]].text[x] # Nothing
        /\ Thread(old, new, t, b).gains =>
             \E k \in A, x \in Fields : old.frames[k].text[x] = Nothing
                                          /\ new.frames[g[k]].text[x] # Nothing
    BY DEF Carries
  <1>3. Anchored(old, t, b) <= Anchored(new, t, b)  BY <1>1, <1>2, FS_Injection DEF Anchored
  <1>4. \A k \in A : g[k] \in B  BY <1>2 DEF Injection
  <1>5. \A k, l \in A : g[k] = g[l] => k = l  BY <1>2 DEF Injection, IsInjective
  <1>6. /\ S = {p \in A \X Fields : old.frames[p[1]].text[p[2]] # Nothing}
        /\ T = {p \in B \X Fields : new.frames[p[1]].text[p[2]] # Nothing}
    BY DEF TextsAt
  <1> HIDE DEF A, B, S, T
  <1>7. \A p \in S : p[1] \in A /\ p[2] \in Fields /\ p = <<p[1], p[2]>>
                     /\ old.frames[p[1]].text[p[2]] # Nothing
    BY <1>6
  <1>8. \A p \in S : f[p] = <<g[p[1]], p[2]>> /\ f[p] \in T
    <2> TAKE p \in S
    <2>1. <<g[p[1]], p[2]>> \in B \X Fields  BY <1>4, <1>7
    <2>2. new.frames[g[p[1]]].text[p[2]] # Nothing  BY <1>2, <1>7
    <2> QED  BY <1>6, <2>1, <2>2
  <1>9. f \in Injection(S, T)
    <2>1. f \in [S -> T]  BY <1>8
    <2>2. \A p, q \in S : f[p] = f[q] => p = q
      <3> TAKE p, q \in S
      <3>1. f[p] = f[q] => g[p[1]] = g[q[1]] /\ p[2] = q[2]  BY <1>8
      <3> HIDE DEF f
      <3> QED  BY <1>5, <1>7, <3>1
    <2> HIDE DEF f
    <2> QED  BY <2>1, <2>2 DEF Injection, IsInjective
  <1>10. Told(old, t, b) = Cardinality(S) /\ Told(new, t, b) = Cardinality(T)
    BY DEF Told, S, T
  <1>11. Told(old, t, b) <= Told(new, t, b)  BY <1>1, <1>9, <1>10, FS_Injection
  <1>12. ASSUME Thread(old, new, t, b).gains PROVE Told(old, t, b) # Told(new, t, b)
    <2>1. PICK k \in A, x \in Fields : old.frames[k].text[x] = Nothing
                                        /\ new.frames[g[k]].text[x] # Nothing
      BY <1>2, <1>12
    <2>2. <<g[k], x>> \in T  BY <1>4, <1>6, <2>1
    <2>3. \A p \in S : f[p] # <<g[k], x>>
      <3> TAKE p \in S
      <3>1. f[p] = <<g[k], x>> => p[1] = k /\ p[2] = x  BY <1>5, <1>7, <1>8
      <3> HIDE DEF f
      <3> QED  BY <1>7, <2>1, <3>1
    <2>4. f \notin Surjection(S, T)
      <3> HIDE DEF f
      <3> QED  BY <2>2, <2>3 DEF Surjection
    <2> HIDE DEF f
    <2> QED  BY <1>1, <1>9, <1>10, <2>4, FS_Injection
  <1> QED  BY <1>1, <1>3, <1>11, <1>12

\* Read with the roles of a candidate that has the same, a report is what it was.
LEMMA RolesUnchanged ==
  ASSUME NEW o, NEW n, IsReport(o), IsReport(n), ShapeValid(o), Reclassified(o, n) = {}
  PROVE  LET w == WithRolesOf(o, n)
         IN /\ IsReport(w) /\ w.fault = o.fault /\ DOMAIN w.modules = DOMAIN o.modules
            /\ \A i \in DOMAIN o.modules : w.modules[i].selection = o.modules[i].selection
            /\ \A t, b : /\ Anchored(w, t, b) = Anchored(o, t, b)
                         /\ Told(w, t, b) = Told(o, t, b)
  <1> DEFINE frames == [k \in DOMAIN o.frames |->
                          [o.frames[k] EXCEPT !.in_app = n.modules[o.frames[k].module].in_app]]
             modules == [i \in DOMAIN o.modules |->
                           [o.modules[i] EXCEPT !.role = n.modules[i].role,
                                                !.in_app = n.modules[i].in_app]]
             w == WithRolesOf(o, n)
  <1>1. /\ w.frames = frames /\ w.modules = modules /\ w.fault = o.fault
        /\ {"fault", "modules", "frames"} \subseteq DOMAIN w
    <2> HIDE DEF frames, modules
    <2> QED  BY DEF IsReport, WithRolesOf, frames, modules
  <1>2. \A i \in DOMAIN o.modules :
           /\ DOMAIN modules[i] = DOMAIN o.modules[i]
           /\ modules[i].selection = o.modules[i].selection
    <2> TAKE i \in DOMAIN o.modules
    <2>1. {"role", "in_app", "selection"} \subseteq DOMAIN o.modules[i]  BY DEF IsReport
    <2> QED  BY <2>1
  <1>3. \A k \in DOMAIN o.frames :
           /\ frames[k].thread = o.frames[k].thread /\ frames[k].method = o.frames[k].method
           /\ frames[k].text = o.frames[k].text /\ frames[k].in_app = o.frames[k].in_app
           /\ DOMAIN frames[k] = DOMAIN o.frames[k]
    <2> TAKE k \in DOMAIN o.frames
    <2>1. {"thread", "method", "in_app", "text"} \subseteq DOMAIN o.frames[k]  BY DEF IsReport
    <2>2. o.frames[k].module \in DOMAIN o.modules
          /\ o.frames[k].in_app = o.modules[o.frames[k].module].in_app
      BY DEF ShapeValid
    <2>3. o.modules[o.frames[k].module].in_app = n.modules[o.frames[k].module].in_app
      BY <2>2 DEF Reclassified
    <2> QED  BY <2>1, <2>2, <2>3
  <1>4. DOMAIN frames = DOMAIN o.frames /\ DOMAIN modules = DOMAIN o.modules  OBVIOUS
  <1>5. IsSequence(frames)
    <2>1. frames = [k \in 1..Len(o.frames) |-> frames[k]] /\ Len(o.frames) \in Nat
      BY DEF IsReport, IsSequence
    <2> HIDE DEF frames
    <2> QED  BY <2>1, SequenceOfLength
  <1> HIDE DEF frames, modules, w
  <1>6. IsReport(w)  BY <1>1, <1>2, <1>3, <1>4, <1>5 DEF IsReport
  <1>7. \A t, b : AnchorsAt(w, t, b) = AnchorsAt(o, t, b)
    <2> TAKE t, b
    <2>1. \A k \in DOMAIN o.frames : /\ Reliable(w.frames[k]) <=> Reliable(o.frames[k])
                                     /\ Business(w.frames[k], w) <=> Business(o.frames[k], o)
                                     /\ w.frames[k].thread = o.frames[k].thread
      BY <1>1, <1>3 DEF Reliable, Business
    <2>2. DOMAIN w.frames = DOMAIN o.frames  BY <1>1, <1>4
    <2> QED  BY <2>1, <2>2 DEF AnchorsAt
  <1>8. \A t, b : TextsAt(w, t, b) = TextsAt(o, t, b)
    <2> TAKE t, b
    <2>1. \A k \in AnchorsAt(o, t, b) : w.frames[k].text = o.frames[k].text
      BY <1>1, <1>3 DEF AnchorsAt
    <2>2. \A p \in AnchorsAt(o, t, b) \X Fields : w.frames[p[1]].text = o.frames[p[1]].text
      BY <2>1
    <2> HIDE DEF AnchorsAt
    <2> QED  BY <1>7, <2>2 DEF TextsAt
  <1> QED  BY <1>1, <1>2, <1>4, <1>6, <1>7, <1>8 DEF Anchored, Told, w

LEMMA NoAnchors ==
  ASSUME NEW r, NEW t, NEW b, t \notin Threads(r)
  PROVE  Anchored(r, t, b) = 0 /\ Told(r, t, b) = 0
  <1>1. AnchorsAt(r, t, b) = {}  BY DEF AnchorsAt, Threads
  <1>2. TextsAt(r, t, b) = {}  BY <1>1 DEF TextsAt
  <1> QED  BY <1>1, <1>2, FS_EmptySet DEF Anchored, Told

\* The business frames of the rule are the anchors of the crashing thread.
LEMMA BusinessIsAnchored ==
  ASSUME NEW r, IsReport(r)
  PROVE  BusinessCount(r) = Anchored(r, r.fault.thread, TRUE)
  <1> DEFINE A == AnchorsAt(r, r.fault.thread, TRUE)
             s == ElementsAt(r.frames, A)
             m == Cardinality(A)
  <1>1. A \in SUBSET Nat /\ IsFiniteSet(A)
    <2>1. IsFiniteSet(A) /\ A \in SUBSET DOMAIN r.frames  BY Counted
    <2>2. DOMAIN r.frames \subseteq Nat  BY DEF IsReport, IsSequence
    <2> HIDE DEF A
    <2> QED  BY <2>1, <2>2
  <1>2. Anchors(r, r.fault.thread, TRUE) = s
    BY DEF Anchors, AnchorsAt
  <1>3. s = [k \in 1..m |-> s[k]]  BY DEF ElementsAt
  <1>4. m \in Nat  BY <1>1, FS_CardinalityType
  <1> HIDE DEF A, s, m
  <1>5. Len(s) = m  BY <1>3, <1>4, SequenceOfLength
  <1> QED  BY <1>2, <1>5 DEF BusinessCount, Anchored, m, A

\* What the rule promotes of a report with the same roles.
LEMMA SameRolesKeep ==
  ASSUME NEW o, NEW n, IsReport(o), IsReport(n), o.fault = n.fault,
         NEW classified, Promotes(CompareAnchors(o, n, classified))
  PROVE  /\ \A t : /\ Anchored(o, t, TRUE) <= Anchored(n, t, TRUE)
                   /\ Told(o, t, TRUE) <= Told(n, t, TRUE)
         /\ BusinessStays(o, n) => AllLosses(o, n) = {}
         /\ AllLosses(o, n) = {} => \A t : Told(o, t, FALSE) <= Told(n, t, FALSE)
         /\ \A i \in DOMAIN o.modules : o.modules[i].selection = "unique"
                                           => n.modules[i].selection = "unique"
  <1>1. IsSequence(o.frames) /\ IsSequence(n.frames)  BY DEF IsReport
  <1>2. ASSUME NEW t, NEW b \in BOOLEAN, \A m, stage : Loss(m, stage, b) \notin AllLosses(o, n)
        PROVE  /\ Anchored(o, t, b) <= Anchored(n, t, b)
               /\ Told(o, t, b) <= Told(n, t, b)
    <2>1. CASE t \notin Threads(o)
      <3>1. Anchored(n, t, b) \in Nat /\ Told(n, t, b) \in Nat  BY Counted
      <3> QED  BY <2>1, <3>1, NoAnchors
    <2>2. CASE t \in Threads(o)
      <3>1. Thread(o, n, t, b) \in ThreadsCompared(o, n)  BY <2>2 DEF ThreadsCompared
      <3>2. Thread(o, n, t, b).losses \subseteq AllLosses(o, n)  BY <3>1 DEF AllLosses
      <3>3. ~ Thread(o, n, t, b).differs  BY <2>2, PromotedAnchors
      <3>4. \A m, stage : Loss(m, stage, b) \notin Thread(o, n, t, b).losses  BY <1>2, <3>2
      <3>5. PICK g : Carries(g, o, n, t, b)  BY <1>1, <3>3, <3>4, ThreadCarries
      <3> QED  BY <3>5, CarriedCounts
    <2> QED  BY <2>1, <2>2
  <1>3. \A m, stage : Loss(m, stage, TRUE) \notin AllLosses(o, n)
    <2>1. \A l \in AllLosses(o, n) : ~ l.business  BY PromotedAnchors
    <2>2. \A m, stage : Loss(m, stage, TRUE).business  BY DEF Loss
    <2> QED  BY <2>1, <2>2
  <1>4. ASSUME NEW t, NEW b \in BOOLEAN, t \in Threads(o), b = TRUE \/ AllLosses(o, n) = {},
               Thread(o, n, t, b).gains
        PROVE  Told(o, t, b) < Told(n, t, b)
    <2>1. Thread(o, n, t, b) \in ThreadsCompared(o, n)  BY <1>4 DEF ThreadsCompared
    <2>2. Thread(o, n, t, b).losses \subseteq AllLosses(o, n)  BY <2>1 DEF AllLosses
    <2>3. ~ Thread(o, n, t, b).differs  BY <1>4, PromotedAnchors
    <2>4. \A m, stage : Loss(m, stage, b) \notin Thread(o, n, t, b).losses
      BY <1>3, <1>4, <2>2
    <2>5. PICK g : Carries(g, o, n, t, b)  BY <1>1, <2>3, <2>4, ThreadCarries
    <2> QED  BY <1>4, <2>5, CarriedCounts
  <1>5. \A t : Anchored(o, t, TRUE) <= Anchored(n, t, TRUE) /\ Told(o, t, TRUE) <= Told(n, t, TRUE)
    BY <1>2, <1>3
  <1>6. ASSUME BusinessStays(o, n), AllLosses(o, n) # {} PROVE FALSE
    <2>1. CASE \E t \in Threads(o) : Thread(o, n, t, TRUE).gains
      <3>1. PICK t \in Threads(o) : Thread(o, n, t, TRUE).gains  BY <2>1
      <3>2. Told(o, t, TRUE) < Told(n, t, TRUE)  BY <1>4, <3>1
      <3>3. Told(n, t, TRUE) = Told(o, t, TRUE)  BY <1>6 DEF BusinessStays
      <3>4. Told(o, t, TRUE) \in Nat  BY Counted
      <3> QED  BY <3>2, <3>3, <3>4, NotMore
    <2>2. CASE BusinessCount(n) > BusinessCount(o)
      <3>1. Anchored(n, o.fault.thread, TRUE) > Anchored(o, o.fault.thread, TRUE)
        BY <2>2, BusinessIsAnchored
      <3>2. Anchored(n, o.fault.thread, TRUE) = Anchored(o, o.fault.thread, TRUE)
        BY <1>6 DEF BusinessStays
      <3>3. Anchored(o, o.fault.thread, TRUE) \in Nat  BY Counted
      <3> QED  BY <3>1, <3>2, <3>3, NotMore
    <2> QED  BY <1>6, <2>1, <2>2, PromotedAnchors
  <1>7. ASSUME AllLosses(o, n) = {} PROVE \A t : Told(o, t, FALSE) <= Told(n, t, FALSE)
    BY <1>2, <1>7
  <1>8. \A i \in DOMAIN o.modules : o.modules[i].selection = "unique"
                                      => n.modules[i].selection = "unique"
    <2>1. \A i \in DOMAIN o.modules : ~ SelectionChanged(o.modules[i], n.modules[i])
      BY PromotedAnchors
    <2> QED  BY <2>1 DEF SelectionChanged
  <1> QED  BY <1>5, <1>6, <1>7, <1>8

\* And what an improvement adds to it.
LEMMA SameRolesGain ==
  ASSUME NEW o, NEW n, IsReport(o), IsReport(n), o.fault = n.fault,
         Promotes(CompareAnchors(o, n, FALSE)),
         CompareAnchors(o, n, FALSE).reason \in {"improved", "q16_system_transient"}
  PROVE  \/ ~ BusinessStays(o, n)
         \/ \E t : Told(o, t, FALSE) < Told(n, t, FALSE)
         \/ \E i \in DOMAIN o.modules : /\ o.modules[i].selection # "unique"
                                         /\ n.modules[i].selection = "unique"
  <1> SUFFICES ASSUME BusinessStays(o, n)
               PROVE  \/ \E t : Told(o, t, FALSE) < Told(n, t, FALSE)
                      \/ \E i \in DOMAIN o.modules : /\ o.modules[i].selection # "unique"
                                                      /\ n.modules[i].selection = "unique"
    OBVIOUS
  <1>1. IsSequence(o.frames) /\ IsSequence(n.frames)  BY DEF IsReport
  <1>2. AllLosses(o, n) = {}  BY SameRolesKeep
  <1>3. ASSUME NEW t \in Threads(o), NEW b \in BOOLEAN, Thread(o, n, t, b).gains
        PROVE  Told(o, t, b) < Told(n, t, b)
    <2>1. Thread(o, n, t, b) \in ThreadsCompared(o, n)  BY <1>3 DEF ThreadsCompared
    <2>2. Thread(o, n, t, b).losses = {}  BY <1>2, <2>1 DEF AllLosses
    <2>3. ~ Thread(o, n, t, b).differs  BY <1>3, PromotedAnchors
    <2>4. PICK g : Carries(g, o, n, t, b)  BY <1>1, <2>2, <2>3, ThreadCarries
    <2> QED  BY <1>3, <2>4, CarriedCounts
  <1>4. ASSUME NEW t \in Threads(o), Thread(o, n, t, TRUE).gains PROVE FALSE
    <2>1. Told(o, t, TRUE) < Told(n, t, TRUE)  BY <1>3, <1>4
    <2>2. Told(n, t, TRUE) = Told(o, t, TRUE)  BY DEF BusinessStays
    <2>3. Told(o, t, TRUE) \in Nat  BY Counted
    <2> QED  BY <2>1, <2>2, <2>3, NotMore
  <1>5. ~ (BusinessCount(n) > BusinessCount(o))
    <2>1. Anchored(n, o.fault.thread, TRUE) = Anchored(o, o.fault.thread, TRUE)
      BY DEF BusinessStays
    <2>2. Anchored(o, o.fault.thread, TRUE) \in Nat  BY Counted
    <2>3. ~ (Anchored(n, o.fault.thread, TRUE) > Anchored(o, o.fault.thread, TRUE))
      BY <2>1, <2>2, NotMore
    <2> QED  BY <2>3, BusinessIsAnchored
  <1>6. \/ \E t \in Threads(o), b \in BOOLEAN : Thread(o, n, t, b).gains
        \/ \E i \in DOMAIN o.modules : SelectionGained(o.modules[i], n.modules[i])
    BY <1>4, <1>5, PromotedAnchors
  <1>7. CASE \E t \in Threads(o), b \in BOOLEAN : Thread(o, n, t, b).gains
    <2>1. PICK t \in Threads(o), b \in BOOLEAN : Thread(o, n, t, b).gains  BY <1>7
    <2>2. b = FALSE  BY <1>4, <2>1
    <2>3. Told(o, t, FALSE) < Told(n, t, FALSE)  BY <1>3, <2>1, <2>2
    <2> QED  BY <2>3
  <1>8. CASE \E i \in DOMAIN o.modules : SelectionGained(o.modules[i], n.modules[i])
    BY <1>8 DEF SelectionGained
  <1> QED  BY <1>6, <1>7, <1>8

\* What the rule promotes is not below what it replaces, and what improves is above.
LEMMA RuleClimbs ==
  ASSUME NEW o, NEW n, o # Nothing, IsReport(o), IsReport(n), Allows(o, n)
  PROVE  NotBelow(n, o) /\ (Improves(o, n) => Above(n, o))
  <1> DEFINE w == WithRolesOf(o, n)
             v == CompareAnchors(w, n, Reclassified(o, n) # {})
  <1>1. /\ Promotes(v)
        /\ Compare(o, n, FALSE, FALSE).reason = v.reason
        /\ o.fault = n.fault /\ DOMAIN o.modules = DOMAIN n.modules
        /\ RolesComparable(o, n) /\ ShapeValid(o)
    BY AllowedReplacement
  <1>2. Improves(o, n) => v.reason \in {"improved", "q16_system_transient"}
    BY <1>1 DEF Improves
  <1> HIDE DEF v
  <1>3. ASSUME NEW i \in DOMAIN o.modules
        PROVE  \/ o.modules[i].role = n.modules[i].role
               \/ <<o.modules[i].role, n.modules[i].role>> \in Clearer
    BY <1>1 DEF RolesComparable, Reclassified
  <1>4. \A x, y : <<x, y>> \in Clearer => x # y /\ <<y, x>> \notin Clearer  BY DEF Clearer
  <1>5. CASE ~ RolesStay(o, n)
    <2>1. PICK i \in DOMAIN o.modules : o.modules[i].role # n.modules[i].role
      BY <1>5 DEF RolesStay
    <2>2. NotBelow(n, o)  BY <1>1, <1>3, <1>5 DEF NotBelow
    <2>3. <<n.modules[i].role, o.modules[i].role>> \notin Clearer  BY <1>3, <1>4, <2>1
    <2>4. ~ NotBelow(o, n)  BY <1>1, <2>1, <2>3 DEF NotBelow
    <2> QED  BY <2>2, <2>4 DEF Above
  <1>6. CASE RolesStay(o, n)
    <2>1. Reclassified(o, n) = {}
      BY <1>1, <1>4, <1>6 DEF RolesStay, RolesComparable, Reclassified
    <2>2. /\ IsReport(w) /\ w.fault = n.fault /\ DOMAIN w.modules = DOMAIN o.modules
          /\ \A i \in DOMAIN o.modules : w.modules[i].selection = o.modules[i].selection
          /\ \A t, b : Anchored(w, t, b) = Anchored(o, t, b) /\ Told(w, t, b) = Told(o, t, b)
      BY <1>1, <2>1, RolesUnchanged
    <2>3. v = CompareAnchors(w, n, FALSE)  BY <2>1 DEF v
    <2> HIDE DEF w
    <2>4. /\ \A t : /\ Anchored(w, t, TRUE) <= Anchored(n, t, TRUE)
                    /\ Told(w, t, TRUE) <= Told(n, t, TRUE)
          /\ BusinessStays(w, n) => \A t : Told(w, t, FALSE) <= Told(n, t, FALSE)
          /\ \A i \in DOMAIN w.modules : w.modules[i].selection = "unique"
                                            => n.modules[i].selection = "unique"
      BY <1>1, <2>2, <2>3, SameRolesKeep
    <2>5. BusinessStays(w, n) <=> BusinessStays(o, n)  BY <2>2 DEF BusinessStays
    <2>6. Unique(o) \subseteq Unique(n)  BY <1>1, <2>2, <2>4 DEF Unique
    <2>7. /\ \A t : /\ Anchored(o, t, TRUE) <= Anchored(n, t, TRUE)
                    /\ Told(o, t, TRUE) <= Told(n, t, TRUE)
          /\ BusinessStays(o, n) => \A t : Told(o, t, FALSE) <= Told(n, t, FALSE)
      BY <2>2, <2>4, <2>5
    <2>8. NotBelow(n, o)  BY <1>1, <1>6, <2>6, <2>7 DEF NotBelow, RolesStay
    <2>9. ASSUME Improves(o, n), NotBelow(o, n) PROVE FALSE
      <3>1. \/ ~ BusinessStays(w, n)
            \/ \E t : Told(w, t, FALSE) < Told(n, t, FALSE)
            \/ \E i \in DOMAIN w.modules : /\ w.modules[i].selection # "unique"
                                            /\ n.modules[i].selection = "unique"
        BY <1>1, <1>2, <2>2, <2>3, <2>9, SameRolesGain
      <3>2. RolesStay(n, o)  BY <1>1, <1>6 DEF RolesStay
      <3>3. /\ \A t : /\ Anchored(n, t, TRUE) <= Anchored(o, t, TRUE)
                      /\ Told(n, t, TRUE) <= Told(o, t, TRUE)
            /\ BusinessStays(n, o) => \A t : Told(n, t, FALSE) <= Told(o, t, FALSE)
            /\ Unique(n) \subseteq Unique(o)
        BY <2>9, <3>2 DEF NotBelow
      <3>4. ASSUME NEW t PROVE /\ Anchored(n, t, TRUE) = Anchored(o, t, TRUE)
                               /\ Told(n, t, TRUE) = Told(o, t, TRUE)
        <4>1. /\ Anchored(o, t, TRUE) \in Nat /\ Anchored(n, t, TRUE) \in Nat
              /\ Told(o, t, TRUE) \in Nat /\ Told(n, t, TRUE) \in Nat
          BY Counted
        <4>2. Anchored(n, t, TRUE) = Anchored(o, t, TRUE)  BY <2>7, <3>3, <4>1, Between
        <4>3. Told(n, t, TRUE) = Told(o, t, TRUE)  BY <2>7, <3>3, <4>1, Between
        <4> QED  BY <4>2, <4>3
      <3>5. BusinessStays(o, n) /\ BusinessStays(n, o)  BY <3>4 DEF BusinessStays
      <3>6. ASSUME NEW t, Told(w, t, FALSE) < Told(n, t, FALSE) PROVE FALSE
        <4>1. Told(o, t, FALSE) \in Nat /\ Told(n, t, FALSE) \in Nat  BY Counted
        <4>2. Told(n, t, FALSE) <= Told(o, t, FALSE) /\ Told(o, t, FALSE) <= Told(n, t, FALSE)
          BY <2>7, <3>3, <3>5
        <4>3. Told(n, t, FALSE) = Told(o, t, FALSE)  BY <4>1, <4>2, Between
        <4>4. Told(o, t, FALSE) < Told(n, t, FALSE)  BY <2>2, <3>6
        <4> QED  BY <4>1, <4>3, <4>4, NotMore
      <3>7. ASSUME NEW i \in DOMAIN w.modules, w.modules[i].selection # "unique",
                   n.modules[i].selection = "unique"
            PROVE  FALSE
        <4>1. i \in Unique(n) /\ i \notin Unique(o)  BY <1>1, <2>2, <3>7 DEF Unique
        <4> QED  BY <3>3, <4>1
      <3> QED  BY <2>5, <3>1, <3>5, <3>6, <3>7
    <2> QED  BY <2>8, <2>9 DEF Above
  <1> QED  BY <1>5, <1>6

\* What has been left is below the Current.
HistoryInv ==
    /\ report \in Reports \cup {Nothing}
    /\ left # Nothing => left \in Reports /\ report \in Reports /\ Above(report, left)

LEMMA ReportsAreRead == \A r \in Reports : r # Nothing /\ IsReport(r)
  <1> TAKE r \in Reports
  <1>1. r # Nothing  BY ReportAssumption
  <1>2. IsSequence(r.frames)
    <2> DEFINE S == {r.frames[k] : k \in DOMAIN r.frames}
    <2>1. r.frames \in Seq(S)  BY HistoryAssumption
    <2> HIDE DEF S
    <2> QED  BY <2>1 DEF IsSequence
  <1> QED  BY <1>1, <1>2, HistoryAssumption DEF IsReport

LEMMA HistoryHolds == HistorySpec => []HistoryInv
  <1>1. HistoryInit => HistoryInv
    BY DEF HistoryInit, ReportInit, HistoryInv
  <1>2. HistoryInv /\ [HistoryNext]_<<report, by, left>> => HistoryInv'
    <2> SUFFICES ASSUME HistoryInv, [HistoryNext]_<<report, by, left>> PROVE HistoryInv'
      OBVIOUS
    <2>1. CASE UNCHANGED <<report, by, left>>  BY <2>1 DEF HistoryInv
    <2>2. ASSUME NEW n \in Reports, PromoteReviewed(n), left' = Nothing PROVE HistoryInv'
      BY <2>2 DEF PromoteReviewed, HistoryInv
    <2>3. ASSUME NEW n \in Reports, Promote(n),
                 left' \in {left} \cup (IF Improves(report, n) /\ left = Nothing
                                        THEN {report} ELSE {})
          PROVE  HistoryInv'
      <3>1. /\ report' = n /\ report \in Reports \cup {Nothing} /\ IsReport(n)
            /\ Allows(report, n)
        BY <2>3, HistoryAssumption, ReportsAreRead DEF Promote, HistoryInv
      <3>2. CASE left' = Nothing  BY <3>1, <3>2 DEF HistoryInv
      <3>3. CASE left' = left /\ left # Nothing
        <4>1. /\ left \in Reports /\ report \in Reports /\ Above(report, left)
              /\ report # Nothing /\ IsReport(report) /\ IsReport(left)
          BY <3>3, ReportsAreRead DEF HistoryInv
        <4>2. NotBelow(n, report)  BY <3>1, <4>1, RuleClimbs
        <4>3. Above(n, left)  BY <3>1, <4>1, <4>2, AboveStaysAbove
        <4>4. Above(report', left')  BY <3>1, <3>3, <4>3
        <4> QED  BY <3>1, <3>3, <4>1, <4>4 DEF HistoryInv
      <3>4. CASE left' = report /\ report # Nothing /\ Improves(report, n)
        <4>1. report \in Reports /\ IsReport(report)  BY <3>1, <3>4, ReportsAreRead
        <4>2. Above(n, report)  BY <3>1, <3>4, <4>1, RuleClimbs
        <4>3. Above(report', left')  BY <3>1, <3>4, <4>2
        <4> QED  BY <3>1, <3>4, <4>1, <4>3 DEF HistoryInv
      <3> QED  BY <2>3, <3>2, <3>3, <3>4
    <2> QED  BY <2>1, <2>2, <2>3 DEF HistoryNext
  <1> QED  BY <1>1, <1>2, PTL DEF HistorySpec

LEMMA OnlyByRule ==
    ASSUME HistoryInv, [HistoryNext]_<<report, by, left>>, report' # report, by' = "rule",
           report # Nothing
    PROVE  /\ Readable(report) /\ Readable(report') /\ Allows(report, report')
  <1>1. PICK n \in Reports : Promote(n)
    <2>1. ~ \E n \in Reports : PromoteReviewed(n)  BY DEF PromoteReviewed
    <2> QED  BY <2>1 DEF HistoryNext
  <1>2. report \in Reports /\ report' \in Reports /\ Allows(report, report')
    BY <1>1, HistoryAssumption DEF Promote, HistoryInv
  <1> QED  BY <1>2, ReportsAreRead DEF Readable, IsReport

-----------------------------------------------------------------------------
(* The theorems                                                            *)

\* The inductive invariant holds in every reachable state.
THEOREM Invariance == Spec => []IInv
  <1> QED  BY InitHolds, Inductive, PTL DEF Spec

\* Whatever runs, retries, changes and reviews pass each other, the rows keep their
\* types, and a demand that says "updated" has a Current of its own generation.
THEOREM DecisionsHold == Spec => []DecisionsAreSound
  <1>1. IInv => DecisionsAreSound  BY DEF IInv, DecisionsAreSound
  <1> QED  BY <1>1, Invariance, PTL

\* However long ago a review was prepared, the pairs of the report that it makes
\* Current are, when it is committed, the only active ones of their identities.
THEOREM ReviewsRestOnPairs == Spec => ReviewedPairsHold
  <1>1. IInv /\ [Next]_vars
          => [\A r \in Runs : (current' = r /\ current # r /\ run[r].decided)
                 => StillEligible(ReportOf(r))]_vars
    <2> SUFFICES ASSUME IInv, [Next]_vars, NEW r \in Runs,
                        current' = r, current # r, run[r].decided
                 PROVE  StillEligible(ReportOf(r))
      OBVIOUS
    <2>1. ~ CurrentStays  BY DEF CurrentStays
    <2>2. ~ Active(r)  BY DEF IInv, DecidedIsOver, TerminalSuccess, Active
    <2> QED  BY <2>1, <2>2, HandsOfCurrent
  <1> QED  BY <1>1, Invariance, PTL DEF Spec, ReviewedPairsHold

\* The workers, who compare outside any lock and try again, and the reviewers, who
\* prepare and commit, implement CurrentReport: a report is replaced only where the
\* rule or a review allows it for the report that is Current at that moment.
THEOREM ImplementsCurrentReport == Spec => Promise
  <1>1. Init => Promised!ReportInit
    BY DEF Init, Promised!ReportInit, ReportOf, MadeBy
  <1>2. IInv /\ [Next]_vars => [Promised!ReportNext]_<<ReportOf(current), MadeBy>>
    <2> SUFFICES ASSUME IInv, [Next]_vars
                 PROVE  Promised!ReportNext \/ UNCHANGED <<ReportOf(current), MadeBy>>
      OBVIOUS
    <2>1. CASE CurrentStays  BY <2>1, SameReport
    <2>2. ASSUME NEW r \in Runs, WorkersReport(r) \in AllReports,
                 Allows(ReportOf(current), WorkersReport(r)),
                 ReportOf(current)' = WorkersReport(r), MadeBy' = "rule"
          PROVE  Promised!ReportNext
      BY <2>2 DEF Promised!ReportNext, Promised!Promote
    <2>3. ASSUME NEW r \in Runs, ReportOf(r) \in AllReports,
                 AllowsReviewed(ReportOf(current), ReportOf(r)),
                 ReportOf(current) \in AllReports,
                 ReportOf(current)' = ReportOf(r), MadeBy' = "review"
          PROVE  Promised!ReportNext
      <3>1. ReportOf(current) # Nothing  BY <2>3, ReportsAreOfSuccess
      <3> QED  BY <2>3, <3>1 DEF Promised!ReportNext, Promised!PromoteReviewed
    <2> QED  BY <2>1, <2>2, <2>3, HandsOfCurrent
  <1> QED  BY <1>1, <1>2, Invariance, PTL DEF Spec, Promise, Promised!ReportSpec

LEMMA OnlyTheRule ==
    ASSUME IInv, [Next]_vars,
           ReportOf(current) # Nothing, ReportOf(current)' # ReportOf(current),
           MadeBy' = "rule"
    PROVE  /\ ReportOf(current) \in AllReports /\ ReportOf(current)' \in AllReports
           /\ Allows(ReportOf(current), ReportOf(current)')
  <1>1. current # 0  BY DEF ReportOf
  <1>2. ReportOf(current) \in AllReports
    <2>1. current \in Runs /\ run[current].decided
      BY <1>1 DEF IInv, TypeOK, DecidedIsKept
    <2> QED  BY <2>1, DecidedReport
  <1>3. ~ CurrentStays  BY SameReport
  <1> QED  BY <1>2, <1>3, HandsOfCurrent

\* However many workers compare and finalize: without a review, no replacement takes
\* from the Current what it reliably says of the program's own frames.
THEOREM BusinessIsKept == Spec => Promised!BusinessKept
  <1>1. IInv /\ [Next]_vars
          => [\A o \in {ReportOf(current)} \ {Nothing}, n \in {ReportOf(current)'} :
                MadeBy' = "rule"
                  => Promised!BusinessFacts(Promised!WithRolesOf(o, n))
                       \subseteq Promised!AllFacts(n)]_(ReportOf(current))
    <2> SUFFICES ASSUME IInv, [Next]_vars, ReportOf(current)' # ReportOf(current),
                        NEW o, o = ReportOf(current), o # Nothing,
                        NEW n, n = ReportOf(current)', MadeBy' = "rule"
                 PROVE  Promised!BusinessFacts(Promised!WithRolesOf(o, n))
                          \subseteq Promised!AllFacts(n)
      OBVIOUS
    <2>1. o \in AllReports /\ n \in AllReports /\ Allows(o, n)  BY OnlyTheRule
    <2>2. Readable(o) /\ Readable(n)  BY <2>1, AllReadable
    <2>3. BusinessFacts(WithRolesOf(o, n)) \subseteq AllFacts(n)
      BY <2>1, <2>2, RuleKeepsBusiness
    <2> QED  BY <2>3, SameRule
  <1> QED  BY <1>1, Invariance, PTL DEF Spec, Promised!BusinessKept

\* What such a replacement does take away was said of system modules whose sources
\* fail for the moment, and the program's own evidence has become better.
THEOREM LossesAreExcused == Spec => Promised!LossExcused
  <1> DEFINE Lost(old, n) ==
               {i \in DOMAIN old.modules :
                  \/ Promised!SymbolLost(old.modules[i], n.modules[i])
                  \/ ~ Promised!Facts({f \in Promised!FrameSet(old) : f.module = i})
                         \subseteq Promised!AllFacts(n)}
             Excused(old, n) ==
               /\ \A i \in Lost(old, n) :
                     /\ old.modules[i].role = "system"
                     /\ \E s \in n.modules[i].sources : Promised!Temporary(s)
               /\ Promised!BusinessGained(old, n)
  <1>1. IInv /\ [Next]_vars
          => [\A o \in {ReportOf(current)} \ {Nothing}, n \in {ReportOf(current)'} :
                (MadeBy' = "rule" /\ Lost(Promised!WithRolesOf(o, n), n) # {})
                  => Excused(Promised!WithRolesOf(o, n), n)]_(ReportOf(current))
    <2> SUFFICES ASSUME IInv, [Next]_vars, ReportOf(current)' # ReportOf(current),
                        NEW o, o = ReportOf(current), o # Nothing,
                        NEW n, n = ReportOf(current)', MadeBy' = "rule",
                        Lost(Promised!WithRolesOf(o, n), n) # {}
                 PROVE  Excused(Promised!WithRolesOf(o, n), n)
      <3> HIDE DEF Lost, Excused
      <3> QED  OBVIOUS
    <2>1. o \in AllReports /\ n \in AllReports /\ Allows(o, n)  BY OnlyTheRule
    <2>2. ASSUME NEW i \in Lost(WithRolesOf(o, n), n)
          PROVE  /\ WithRolesOf(o, n).modules[i].role = "system"
                 /\ \E s \in n.modules[i].sources : Temporary(s)
                 /\ BusinessGained(WithRolesOf(o, n), n)
      <3>1. /\ i \in DOMAIN WithRolesOf(o, n).modules
            /\ \/ SymbolLost(WithRolesOf(o, n).modules[i], n.modules[i])
               \/ ~ Facts({f \in FrameSet(WithRolesOf(o, n)) : f.module = i})
                      \subseteq AllFacts(n)
        BY <2>2, SameRule
      <3>2. Readable(o) /\ Readable(n)  BY <2>1, AllReadable
      <3> QED  BY <2>1, <3>1, <3>2, RuleExcusesLosses
    <2>3. Promised!WithRolesOf(o, n) = WithRolesOf(o, n)  BY SameRule
    <2>4. \A i \in Lost(WithRolesOf(o, n), n) :
             /\ WithRolesOf(o, n).modules[i].role = "system"
             /\ \E s \in n.modules[i].sources : Promised!Temporary(s)
      BY <2>2, SameRule
    <2>5. Promised!BusinessGained(WithRolesOf(o, n), n)  BY <2>2, <2>3, SameRule
    <2> HIDE DEF Lost
    <2> QED  BY <2>3, <2>4, <2>5
  <1> QED  BY <1>1, Invariance, PTL DEF Spec, Promised!LossExcused

\* The Current is replaced by the rule only where the business evidence is kept and every
\* loss is paid for, however many workers compare and finalize.
THEOREM ReplacementsAreEarned == Spec => Promised!ReplacementIsEarned
  BY BusinessIsKept, LossesAreExcused DEF Promised!ReplacementIsEarned

\* No report comes back that a better one has replaced, but by a review: the rule
\* never promotes a report that is below the Current, and an improvement is above it.
THEOREM NoReportReturns == HistorySpec => []NoReturn
  <1>1. HistoryInv => NoReturn  BY DEF HistoryInv, NoReturn, Above
  <1> QED  BY <1>1, HistoryHolds, PTL

\* Of the rule alone, over any reports: a replacement without a review keeps the business
\* evidence of the report it replaces, and pays for what it loses.
THEOREM RuleEarnsReplacement == HistorySpec => ReplacementIsEarned
  <1> DEFINE Lost(old, n) ==
               {i \in DOMAIN old.modules :
                  \/ SymbolLost(old.modules[i], n.modules[i])
                  \/ ~ Facts({f \in FrameSet(old) : f.module = i}) \subseteq AllFacts(n)}
             Excused(old, n) ==
               /\ \A i \in Lost(old, n) : /\ old.modules[i].role = "system"
                                          /\ \E s \in n.modules[i].sources : Temporary(s)
               /\ BusinessGained(old, n)
  <1>1. HistoryInv /\ [HistoryNext]_<<report, by, left>>
          => [\A o \in {report} \ {Nothing}, n \in {report'} :
                by' = "rule" => BusinessFacts(WithRolesOf(o, n)) \subseteq AllFacts(n)]_report
    BY OnlyByRule, RuleKeepsBusiness
  <1>2. HistoryInv /\ [HistoryNext]_<<report, by, left>>
          => [\A o \in {report} \ {Nothing}, n \in {report'} :
                (by' = "rule" /\ Lost(WithRolesOf(o, n), n) # {})
                  => Excused(WithRolesOf(o, n), n)]_report
    <2> SUFFICES ASSUME HistoryInv, [HistoryNext]_<<report, by, left>>, report' # report,
                        NEW o, o = report, o # Nothing, NEW n, n = report', by' = "rule",
                        Lost(WithRolesOf(o, n), n) # {}
                 PROVE  Excused(WithRolesOf(o, n), n)
      <3> HIDE DEF Lost, Excused
      <3> QED  OBVIOUS
    <2>1. Readable(o) /\ Readable(n) /\ Allows(o, n)  BY OnlyByRule
    <2>2. ASSUME NEW i \in Lost(WithRolesOf(o, n), n)
          PROVE  /\ WithRolesOf(o, n).modules[i].role = "system"
                 /\ \E s \in n.modules[i].sources : Temporary(s)
                 /\ BusinessGained(WithRolesOf(o, n), n)
      <3>1. /\ i \in DOMAIN WithRolesOf(o, n).modules
            /\ \/ SymbolLost(WithRolesOf(o, n).modules[i], n.modules[i])
               \/ ~ Facts({f \in FrameSet(WithRolesOf(o, n)) : f.module = i})
                      \subseteq AllFacts(n)
        BY <2>2
      <3> QED  BY <2>1, <3>1, RuleExcusesLosses
    <2> HIDE DEF Lost
    <2> QED  BY <2>2
  <1> QED
    BY <1>1, <1>2, HistoryHolds, PTL
       DEF HistorySpec, ReplacementIsEarned, BusinessKept, LossExcused
=============================================================================
