------------------------ MODULE AnalysisDemandProofs ------------------------
(***************************************************************************)
(* For any number of planners, events and failures and any retry budget:   *)
(* AnalysisDemand's runs are one at a time and within their budget, and    *)
(* they climb RunLadder.                                                   *)
(***************************************************************************)
EXTENDS AnalysisDemand, SequenceTheorems, FiniteSetTheorems, TLAPS

\* A slot that is executing names a run.
SlotNamesARun == slot.state = "executing" => slot.run \in 1..Len(runs)

\* Only the newest run can be in progress.
ActiveIsNewest == \A i \in 1..Len(runs) : Active(i) => i = Len(runs)

\* The demand's generation and attempt are those of its newest run, or the
\* attempt has grown since; the attempt stays below the budget.
DemandIsNewest ==
    /\ demand.retry_attempt < MaxAttempts
    /\ runs = <<>> => demand.generation = 0
    /\ runs # <<>> => /\ Newest.generation = demand.generation
                      /\ Newest.retry_attempt <= demand.retry_attempt

\* Every run has a larger generation than the runs before it, or the same one
\* and a larger attempt.
Climbing ==
    \A i, j \in 1..Len(runs) : i < j =>
        \/ runs[i].generation < runs[j].generation
        \/ /\ runs[i].generation = runs[j].generation
           /\ runs[i].retry_attempt < runs[j].retry_attempt

\* No run has used an attempt beyond the budget.
AttemptsInBudget == \A i \in 1..Len(runs) : runs[i].retry_attempt < MaxAttempts

IInv == /\ TypeOK
        /\ SlotNamesARun
        /\ ActiveRunHoldsTheSlot
        /\ ActiveIsNewest
        /\ DemandIsNewest
        /\ Climbing
        /\ AttemptsInBudget

USE DemandAssumption

\* A new demand with no run satisfies the invariant.
LEMMA InitIInv == Init => IInv
  <1> SUFFICES ASSUME Init PROVE IInv  OBVIOUS
  <1>1. Len(runs) = 0 /\ runs = <<>>  BY DEF Init
  <1>2. demand.generation = 0 /\ demand.retry_attempt = 0 /\ slot.state = "none"
    BY DEF Init, NewDemand, NoSlot
  <1>3. TypeOK
    <2>1. demand \in DemandRow
      BY DEF Init, NewDemand, DemandRow, Because, Reasons, ReasonKinds, Causes, States
    <2>2. target \in Targets  BY DEF Init, NoTarget, Targets, Causes
    <2>3. slot \in SlotRow  BY DEF Init, NoSlot, SlotRow
    <2>4. IdlePlan \in PlanState  BY DEF IdlePlan, NoTarget, PlanState, Targets, Causes
    <2>5. runs \in Seq(RunRow)  BY DEF Init
    <2> QED  BY <2>1, <2>2, <2>3, <2>4, <2>5 DEF Init, TypeOK
  <1> QED
    BY <1>1, <1>2, <1>3 DEF IInv, SlotNamesARun, ActiveRunHoldsTheSlot, ActiveIsNewest,
       DemandIsNewest, Climbing, AttemptsInBudget

\* A demand row keeps its type, its generation and its attempt.
KeepsKey(row, new) == /\ new \in DemandRow
                      /\ new.generation = row.generation
                      /\ new.retry_attempt = row.retry_attempt

\* A demand row keeps its generation, and its attempt at most grows within the
\* budget.
KeepsGeneration(row, new) ==
    /\ new \in DemandRow
    /\ new.generation = row.generation
    /\ row.retry_attempt <= new.retry_attempt
    /\ row.retry_attempt < MaxAttempts => new.retry_attempt < MaxAttempts

\* A change, the end of a cycle and an expired dump leave generation and attempt alone.
LEMMA QuietRows ==
  ASSUME NEW row \in DemandRow
  PROVE  /\ \A c \in {"symbol_refresh", "role_change"} : KeepsKey(row, NoteChange(row, c))
         /\ \A s \in AtRest : KeepsKey(row, Settled(row, s))
         /\ KeepsKey(row, Unavailable(row))
  <1>1. ASSUME NEW k \in ReasonKinds PROVE Because(k) \in Reasons
    BY <1>1 DEF Because, Reasons, Causes
  <1>2. Because("settled") \in Reasons  BY <1>1 DEF ReasonKinds
  <1>3. KeepsKey(row, Unavailable(row))
    BY <1>2 DEF KeepsKey, Unavailable, DemandRow, States
  <1>4. ASSUME NEW s \in AtRest PROVE KeepsKey(row, Settled(row, s))
    BY <1>2, <1>4 DEF KeepsKey, Settled, DemandRow, States, AtRest
  <1>5. ASSUME NEW c \in {"symbol_refresh", "role_change"} PROVE KeepsKey(row, NoteChange(row, c))
    <2> DEFINE noted == [row EXCEPT !.change_sequence = @ + 1]
               why == Because(c)
    <2>1. why \in Reasons  BY <1>1, <1>5 DEF ReasonKinds
    <2>2. KeepsKey(row, noted)  BY DEF KeepsKey, DemandRow
    <2> HIDE DEF noted, why
    <2>3. CASE ~live
      BY <2>2, <2>3, <1>2 DEF KeepsKey, NoteChange, noted, Unavailable, DemandRow, States
    <2>4. CASE live /\ row.generation = 0
      <3>1. NoteChange(row, c) = [noted EXCEPT !.first_event = "noted"]
        BY <2>4 DEF NoteChange, noted
      <3> QED  BY <3>1, <2>2 DEF KeepsKey, DemandRow
    <2>5. CASE live /\ row.generation # 0
      <3> DEFINE st == IF noted.state = "running" THEN "running" ELSE "coalescing"
      <3>1. NoteChange(row, c) = [noted EXCEPT !.first_event = "noted", !.not_before = "future",
                                               !.state = st, !.reason = why]
        <4>1. st = IF noted.state = "running" THEN noted.state ELSE "coalescing"  OBVIOUS
        <4> HIDE DEF st
        <4> QED  BY <4>1, <2>5 DEF NoteChange, noted, why
      <3>2. st \in States  BY DEF States
      <3> HIDE DEF st
      <3> QED  BY <3>1, <3>2, <2>1, <2>2 DEF KeepsKey, DemandRow
    <2> QED  BY <2>3, <2>4, <2>5
  <1> QED  BY <1>3, <1>4, <1>5

\* A failure, of planning or of a run, uses up at most one attempt.
LEMMA FailureRows ==
  ASSUME NEW row \in DemandRow, NEW kind \in ReasonKinds, NEW c \in Causes, NEW retryable \in BOOLEAN
  PROVE  /\ KeepsGeneration(row, RetryOrExhaust(row, kind, c))
         /\ KeepsGeneration(row, RuntimeFailure(row, kind, c, retryable))
  <1> DEFINE why == [kind |-> kind, cause |-> c]
  <1>1. why \in Reasons  BY DEF Reasons
  <1>2. row.retry_attempt \in Nat  BY DEF DemandRow
  <1>3. \A new : KeepsKey(row, new) => KeepsGeneration(row, new)
    BY <1>2 DEF KeepsKey, KeepsGeneration
  <1>4. "retry_exhausted" \in AtRest /\ "needs_review" \in AtRest  BY DEF AtRest
  <1>5. KeepsGeneration(row, RetryOrExhaust(row, kind, c))
    <2>1. CASE row.retry_attempt + 1 >= MaxAttempts
      BY <2>1, <1>3, <1>4, QuietRows DEF RetryOrExhaust
    <2>2. CASE ~(row.retry_attempt + 1 >= MaxAttempts)
      <3> HIDE DEF why
      <3>1. RetryOrExhaust(row, kind, c) =
              [row EXCEPT !.state = "retry_wait", !.retry_attempt = @ + 1,
                          !.not_before = "future", !.reason = why]
        BY <2>2 DEF RetryOrExhaust, why
      <3>2. row.retry_attempt + 1 \in Nat /\ row.retry_attempt + 1 < MaxAttempts
        BY <2>2, <1>2
      <3>3. RetryOrExhaust(row, kind, c) \in DemandRow
        BY <3>1, <3>2, <1>1 DEF DemandRow, States
      <3>4. /\ RetryOrExhaust(row, kind, c).generation = row.generation
            /\ RetryOrExhaust(row, kind, c).retry_attempt = row.retry_attempt + 1
        BY <3>1 DEF DemandRow
      <3> QED  BY <3>2, <3>3, <3>4, <1>2 DEF KeepsGeneration
    <2> QED  BY <2>1, <2>2
  <1>6. KeepsGeneration(row, RuntimeFailure(row, kind, c, retryable))
    BY <1>3, <1>4, <1>5, QuietRows DEF RuntimeFailure
  <1> QED  BY <1>5, <1>6

\* What a settlement writes after a run: a pending change comes back on top.
LEMMA RestoredRows ==
  ASSUME NEW before \in DemandRow, NEW after \in DemandRow
  PROVE  KeepsKey(after, RestorePending(before, after))
  <1> DEFINE nb == IF before.not_before = "none" THEN "due" ELSE before.not_before
             why == before.reason
             new == [after EXCEPT !.state = "coalescing", !.reason = why, !.not_before = nb]
  <1>1. nb \in {"none", "future", "due"} /\ why \in Reasons  BY DEF DemandRow
  <1>2. RestorePending(before, after) = new \/ RestorePending(before, after) = after
    BY DEF RestorePending
  <1>3. KeepsKey(after, after)  BY DEF KeepsKey
  <1>4. KeepsKey(after, new)
    <2> HIDE DEF nb, why
    <2> QED  BY <1>1 DEF KeepsKey, DemandRow, States
  <1> HIDE DEF new
  <1> QED  BY <1>2, <1>3, <1>4

\* The cause a planner works out is one of the four.
LEMMA CauseType == TypeOK => Cause \in Causes
  <1> SUFFICES ASSUME TypeOK PROVE Cause \in Causes  OBVIOUS
  <1>1. demand.reason \in Reasons  BY DEF TypeOK, DemandRow
  <1>2. demand.reason.cause \in Causes  BY <1>1 DEF Reasons
  <1>3. target.cause \in Causes  BY DEF TypeOK, Targets
  <1>4. "initial" \in Causes  BY DEF Causes
  <1> QED  BY <1>2, <1>3, <1>4 DEF Cause

\* The settlements of a run use up at most one attempt.
LEMMA SettlementRows ==
  ASSUME TypeOK
  PROVE  /\ \A c \in Causes, retryable \in BOOLEAN :
               KeepsGeneration(demand, ExecutionFailure(c, retryable))
         /\ \A c \in Causes : \A d \in Decisions(c) : KeepsGeneration(demand, ComparisonSettled(d))
  <1>1. demand \in DemandRow  BY DEF TypeOK
  <1>2. ASSUME NEW after, KeepsGeneration(demand, after)
        PROVE  KeepsGeneration(demand, RestorePending(demand, after))
    <2>1. after \in DemandRow  BY <1>2 DEF KeepsGeneration
    <2>2. KeepsKey(after, RestorePending(demand, after))  BY <1>1, <2>1, RestoredRows
    <2> QED  BY <1>2, <2>2 DEF KeepsKey, KeepsGeneration
  <1>3. ASSUME NEW new, KeepsKey(demand, new) PROVE KeepsGeneration(demand, new)
    <2>1. demand.retry_attempt \in Nat  BY <1>1 DEF DemandRow
    <2> QED  BY <1>3, <2>1 DEF KeepsKey, KeepsGeneration
  <1>4. ASSUME NEW c \in Causes, NEW retryable \in BOOLEAN
        PROVE  KeepsGeneration(demand, ExecutionFailure(c, retryable))
    <2>1. "execution_retry" \in ReasonKinds  BY DEF ReasonKinds
    <2>2. KeepsGeneration(demand, RuntimeFailure(demand, "execution_retry", c, retryable))
      BY <1>1, <1>4, <2>1, FailureRows
    <2> QED  BY <1>2, <2>2 DEF ExecutionFailure
  <1>5. ASSUME NEW c \in Causes, NEW d \in Decisions(c)
        PROVE  KeepsGeneration(demand, ComparisonSettled(d))
    <2> DEFINE retried == RetryOrExhaust(demand, "comparison_retry", "initial")
               state == CASE d.verdict = "promote" -> "updated"
                          [] d.verdict = "incomparable" -> "needs_review"
                          [] d.verdict = "retain" -> "retained"
    <2>1. "comparison_retry" \in ReasonKinds /\ "initial" \in Causes
      BY DEF ReasonKinds, Causes
    <2>2. KeepsGeneration(demand, retried)  BY <1>1, <2>1, FailureRows
    <2>3. KeepsGeneration(demand, Unavailable(demand))  BY <1>1, <1>3, QuietRows
    <2>4. state \in AtRest
      <3>1. \/ d \in [verdict : {"retain", "incomparable"}, retry : {FALSE}]
            \/ d \in [verdict : {"promote"}, retry : BOOLEAN]
            \/ d = [verdict |-> "retain", retry |-> TRUE]
        BY <1>5, Zenon DEF Decisions
      <3>2. d.verdict \in {"promote", "incomparable", "retain"}
        <4>1. CASE d \in [verdict : {"retain", "incomparable"}, retry : {FALSE}]
          BY <4>1, Zenon
        <4>2. CASE d \in [verdict : {"promote"}, retry : BOOLEAN]  BY <4>2, Zenon
        <4>3. CASE d = [verdict |-> "retain", retry |-> TRUE]
          <5>1. d.verdict = "retain"  BY <4>3, Zenon
          <5> QED  BY <5>1
        <4> QED  BY <3>1, <4>1, <4>2, <4>3
      <3> QED  BY <3>2 DEF AtRest
    <2>5. KeepsGeneration(demand, Settled(demand, state))
      <3> HIDE DEF state
      <3> QED  BY <1>1, <1>3, <2>4, QuietRows
    <2>6. \/ ComparisonSettled(d) = RestorePending(demand, Unavailable(demand))
          \/ ComparisonSettled(d) = RestorePending(demand, retried)
          \/ ComparisonSettled(d) = RestorePending(demand, Settled(demand, state))
      BY DEF ComparisonSettled
    <2> HIDE DEF retried, state
    <2> QED  BY <1>2, <2>2, <2>3, <2>5, <2>6
  <1> QED  BY <1>4, <1>5

\* Freezing a target: the next generation and no attempts, or nothing new.
LEMMA FrozenRow ==
  ASSUME TypeOK, NEW p \in Planners
  PROVE  /\ FreezeTarget(p) \in DemandRow
         /\ \/ /\ FreezeTarget(p).generation = demand.generation + 1
               /\ FreezeTarget(p).retry_attempt = 0
            \/ /\ FreezeTarget(p).generation = demand.generation
               /\ FreezeTarget(p).retry_attempt = demand.retry_attempt
               /\ demand.generation # 0
  <1> DEFINE seq == plan[p].sequence
             st == IF demand.state = "running" THEN "running" ELSE "preparing"
             new == [demand EXCEPT !.generation = @ + 1, !.retry_attempt = 0, !.state = st]
             row == IF TargetIsNew(p) THEN new ELSE demand
  <1>1. seq \in Nat /\ revision \in Nat /\ demand \in DemandRow  BY DEF TypeOK, PlanState
  <1>2. st \in States  BY DEF States
  <1>3. FreezeTarget(p) = [row EXCEPT !.planned_sequence = seq, !.index_revision = revision,
                                      !.first_event = "none", !.not_before = "due"]
    <2>1. st = IF demand.state = "running" THEN demand.state ELSE "preparing"  OBVIOUS
    <2> HIDE DEF st, seq
    <2> QED  BY <2>1 DEF FreezeTarget, seq
  <1> HIDE DEF seq, st
  <1>4. /\ new \in DemandRow
        /\ new.generation = demand.generation + 1 /\ new.retry_attempt = 0
    <2>1. demand \in DemandRow /\ demand.generation + 1 \in Nat  BY <1>1 DEF DemandRow
    <2> DEFINE g == demand.generation + 1
    <2>2. new = [demand EXCEPT !.generation = g, !.retry_attempt = 0, !.state = st]  OBVIOUS
    <2> HIDE DEF g, new
    <2>3. g \in Nat  BY <2>1 DEF g
    <2>4. /\ new \in DemandRow
          /\ new.generation = g /\ new.retry_attempt = 0
      BY <2>1, <2>2, <2>3, <1>2 DEF DemandRow
    <2> QED  BY <2>4 DEF g
  <1>5. TargetIsNew(p) \/ demand.generation # 0  BY DEF TargetIsNew
  <1> HIDE DEF new
  <1>6. row \in DemandRow  BY <1>1, <1>4
  <1>7. /\ FreezeTarget(p) \in DemandRow
        /\ FreezeTarget(p).generation = row.generation
        /\ FreezeTarget(p).retry_attempt = row.retry_attempt
    <2> HIDE DEF row
    <2> QED  BY <1>1, <1>3, <1>6 DEF DemandRow
  <1> QED  BY <1>4, <1>5, <1>7

\* A step of one run leaves the others and its own identity alone.
LEMMA RunMoved ==
  ASSUME runs \in Seq(RunRow), NEW i \in 1..Len(runs), NEW s \in RunStates, NEW t \in Tasks,
         RunMoves(i, s, t)
  PROVE  /\ runs' \in Seq(RunRow)
         /\ Len(runs') = Len(runs)
         /\ \A j \in 1..Len(runs) : /\ runs'[j].generation = runs[j].generation
                                    /\ runs'[j].retry_attempt = runs[j].retry_attempt
                                    /\ j # i => runs'[j] = runs[j]
         /\ runs'[i].status = s
  <1> DEFINE moved == [runs[i] EXCEPT !.status = s, !.task = t]
  <1>1. runs[i] \in RunRow  BY ElementOfSeq
  <1>2. /\ moved \in RunRow
        /\ moved.generation = runs[i].generation
        /\ moved.retry_attempt = runs[i].retry_attempt
        /\ moved.status = s
    BY <1>1 DEF RunRow
  <1>3. runs' = [runs EXCEPT ![i] = moved]  BY DEF RunMoves
  <1> HIDE DEF moved
  <1>4. /\ [runs EXCEPT ![i] = moved] \in Seq(RunRow)
        /\ Len([runs EXCEPT ![i] = moved]) = Len(runs)
        /\ \A j \in 1..Len(runs) :
              [runs EXCEPT ![i] = moved][j] = IF j = i THEN moved ELSE runs[j]
    BY <1>2, ExceptSeq
  <1> QED  BY <1>2, <1>3, <1>4

-----------------------------------------------------------------------------
(* Every step has one of four shapes.                                      *)

RunsKeepKeys == /\ runs' \in Seq(RunRow)
                /\ Len(runs') = Len(runs)
                /\ \A i \in 1..Len(runs) : /\ runs'[i].generation = runs[i].generation
                                           /\ runs'[i].retry_attempt = runs[i].retry_attempt

\* The slot, the demand's generation and attempt and which run is in progress
\* stay as they are.
Quiet == /\ KeepsKey(demand, demand')
         /\ RunsKeepKeys
         /\ \A i \in 1..Len(runs) :
               runs'[i].status \in ActiveStates <=> runs[i].status \in ActiveStates
         /\ slot' \in SlotRow
         /\ slot'.state = "executing" <=> slot.state = "executing"
         /\ slot'.run = slot.run

\* No run is in progress and none starts; the slot changes hands.
Passes == /\ \A i \in 1..Len(runs) : ~Active(i)
          /\ KeepsGeneration(demand, demand')
          /\ UNCHANGED runs
          /\ slot' \in SlotRow
          /\ slot'.state = "executing" => slot'.run \in 1..Len(runs)

\* A run starts.
Starts == /\ \A i \in 1..Len(runs) : ~Active(i)
          /\ demand' \in DemandRow
          /\ \/ /\ demand'.generation = demand.generation + 1
                /\ demand'.retry_attempt = 0
             \/ /\ demand'.generation = demand.generation
                /\ demand'.retry_attempt = demand.retry_attempt
                /\ demand.generation # 0
                /\ \A i \in 1..Len(runs) : ~Matches(i)
          /\ \E run \in RunRow : /\ run.generation = demand'.generation
                                 /\ run.retry_attempt = demand'.retry_attempt
                                 /\ run.status \in ActiveStates
                                 /\ runs' = Append(runs, run)
          /\ slot' \in SlotRow
          /\ slot'.state = "executing"
          /\ slot'.run = Len(runs) + 1

\* Run i ends and leaves the slot.
Stops(i) == /\ Active(i)
            /\ KeepsGeneration(demand, demand')
            /\ RunsKeepKeys
            /\ runs'[i].status \notin ActiveStates
            /\ \A j \in 1..Len(runs) : j # i => runs'[j] = runs[j]
            /\ slot' \in SlotRow
            /\ slot'.state # "executing"

\* Nothing but the demand's row changes, and not its generation or attempt.
LEMMA DemandStep ==
  ASSUME TypeOK, KeepsKey(demand, demand'), UNCHANGED <<runs, slot>>
  PROVE  Quiet
  BY DEF TypeOK, Quiet, RunsKeepKeys

\* The catalog, the workspace, the dump, the clock and the fan-out step quietly.
LEMMA EnvironmentIsQuiet ==
  ASSUME TypeOK, Environment \/ Fanout \/ NotBeforePasses \/ PlanningLeaseLapses
  PROVE  Quiet
  <1>1. demand \in DemandRow /\ slot \in SlotRow  BY DEF TypeOK
  <1>2. KeepsKey(demand, demand)  BY <1>1 DEF KeepsKey
  <1>3. ASSUME UNCHANGED <<demand, runs, slot>> PROVE Quiet
    BY <1>2, <1>3, DemandStep
  <1>4. ASSUME NEW reason \in {"dump_restored", "manual"},
               demand' = [demand EXCEPT !.change_sequence = @ + 1, !.state = "preparing",
                                        !.reason = Because(reason), !.not_before = "due",
                                        !.first_event = "none"]
        PROVE  KeepsKey(demand, demand')
    <2> DEFINE why == Because(reason)
               n == demand.change_sequence + 1
    <2>1. why \in Reasons  BY <1>4 DEF Because, Reasons, ReasonKinds, Causes
    <2>2. n \in Nat  BY <1>1 DEF DemandRow
    <2>3. demand' = [demand EXCEPT !.change_sequence = n, !.state = "preparing", !.reason = why,
                                   !.not_before = "due", !.first_event = "none"]
      BY <1>4
    <2> HIDE DEF why, n
    <2> QED  BY <1>1, <2>1, <2>2, <2>3 DEF KeepsKey, DemandRow, States
  <1>5. \A c \in {"symbol_refresh", "role_change"} : KeepsKey(demand, NoteChange(demand, c))
    BY <1>1, QuietRows
  <1>6. CASE CatalogChanges  BY <1>3, <1>6 DEF CatalogChanges
  <1>7. CASE DeclareWorkspaceModuleRole  BY <1>3, <1>7 DEF DeclareWorkspaceModuleRole
  <1>8. CASE DumpExpires  BY <1>3, <1>8 DEF DumpExpires
  <1>9. CASE DumpRestored  BY <1>2, <1>4, <1>9, DemandStep DEF DumpRestored
  <1>10. CASE RestartExhaustedDemand  BY <1>4, <1>10, DemandStep DEF RestartExhaustedDemand
  <1>11. CASE FanoutNext  BY <1>2, <1>5, <1>11, DemandStep DEF FanoutNext
  <1>12. CASE FanoutWorkspaceRoleNext
    BY <1>2, <1>5, <1>12, DemandStep DEF FanoutWorkspaceRoleNext
  <1>13. CASE NotBeforePasses
    <2>1. KeepsKey(demand, demand')  BY <1>1, <1>13 DEF NotBeforePasses, KeepsKey, DemandRow
    <2> QED  BY <2>1, <1>13, DemandStep DEF NotBeforePasses
  <1>14. CASE PlanningLeaseLapses
    <2>1. /\ slot' \in SlotRow
          /\ slot'.state = slot.state /\ slot'.run = slot.run
      BY <1>1, <1>14 DEF PlanningLeaseLapses, SlotRow
    <2>2. demand' = demand /\ runs' = runs  BY <1>14 DEF PlanningLeaseLapses
    <2> QED  BY <2>1, <2>2, <1>2 DEF Quiet, RunsKeepKeys, TypeOK
  <1> QED
    BY <1>6, <1>7, <1>8, <1>9, <1>10, <1>11, <1>12, <1>13, <1>14 DEF Environment, Fanout

\* No run is in progress when the slot is free or a planner has it.
LEMMA NoRunInProgress ==
  ASSUME ActiveRunHoldsTheSlot, SlotIsFree \/ slot.state # "executing"
  PROVE  \A i \in 1..Len(runs) : ~Active(i)
  BY DEF ActiveRunHoldsTheSlot, SlotIsFree

\* No run is newer than the demand's generation.
LEMMA NoLaterGeneration ==
  ASSUME TypeOK, DemandIsNewest, Climbing
  PROVE  \A i \in 1..Len(runs) : runs[i].generation <= demand.generation
  <1> SUFFICES ASSUME NEW i \in 1..Len(runs) PROVE runs[i].generation <= demand.generation
    OBVIOUS
  <1>1. runs \in Seq(RunRow) /\ Len(runs) \in Nat  BY LenProperties DEF TypeOK
  <1>2. runs[i] \in RunRow /\ Newest \in RunRow  BY <1>1, ElementOfSeq DEF Newest
  <1>3. runs[i].generation \in Nat /\ Newest.generation \in Nat  BY <1>2 DEF RunRow
  <1>4. runs # <<>>  BY <1>1, EmptySeq
  <1>5. Newest.generation = demand.generation  BY <1>4 DEF DemandIsNewest
  <1>6. CASE i = Len(runs)  BY <1>3, <1>5, <1>6 DEF Newest
  <1>7. CASE i < Len(runs)  BY <1>1, <1>3, <1>5, <1>7 DEF Climbing, Newest
  <1> QED  BY <1>1, <1>6, <1>7

\* A planner's failure gives the slot back or changes nothing.
LEMMA GivingUp ==
  ASSUME TypeOK, ActiveRunHoldsTheSlot, NEW p \in Planners, NEW error, GiveUp(p, error)
  PROVE  Quiet \/ Passes
  <1>1. demand \in DemandRow /\ slot \in SlotRow  BY DEF TypeOK
  <1>2. KeepsKey(demand, demand)  BY <1>1 DEF KeepsKey
  <1>3. KeepsGeneration(demand, demand)
    <2>1. demand.retry_attempt \in Nat  BY <1>1 DEF DemandRow
    <2> QED  BY <1>1, <2>1 DEF KeepsGeneration
  <1>4. NoSlot \in SlotRow /\ NoSlot.state = "none"  BY DEF NoSlot, SlotRow
  <1>5. CASE HoldsSlot(p)
    <2>1. \A i \in 1..Len(runs) : ~Active(i)  BY <1>5, NoRunInProgress DEF HoldsSlot
    <2>2. KeepsGeneration(demand, RuntimeFailure(demand, "planning_retry", Cause, TRUE))
      <3>1. "planning_retry" \in ReasonKinds  BY DEF ReasonKinds
      <3> QED  BY <1>1, <3>1, CauseType, FailureRows
    <2>3. KeepsGeneration(demand, demand') /\ slot' = NoSlot /\ runs' = runs
      BY <1>3, <1>5, <2>2 DEF GiveUp
    <2> QED  BY <2>1, <2>3, <1>4 DEF Passes
  <1>6. CASE ~HoldsSlot(p)
    <2>1. demand' = demand /\ slot' = slot /\ runs' = runs  BY <1>6 DEF GiveUp
    <2> QED  BY <2>1, <1>2, DemandStep
  <1> QED  BY <1>5, <1>6

\* The reconciliation deletes a slot without a run in progress.
LEMMA ReconcilingPasses ==
  ASSUME TypeOK, ActiveRunHoldsTheSlot, ReconcileSlots
  PROVE  Passes
  <1>1. \A i \in 1..Len(runs) : ~Active(i)  BY NoRunInProgress DEF ReconcileSlots
  <1>2. slot' \in SlotRow /\ slot'.state # "executing"  BY DEF ReconcileSlots, NoSlot, SlotRow
  <1>3. KeepsGeneration(demand, demand)
    <2>1. demand \in DemandRow /\ demand.retry_attempt \in Nat  BY DEF TypeOK, DemandRow
    <2> QED  BY <2>1 DEF KeepsGeneration
  <1>4. demand' = demand /\ runs' = runs  BY DEF ReconcileSlots
  <1> QED  BY <1>1, <1>2, <1>3, <1>4 DEF Passes

\* What a planner does changes the slot only when no run is in progress.
LEMMA PlannerShapes ==
  ASSUME TypeOK, ActiveRunHoldsTheSlot, DemandIsNewest, Climbing, NEW p \in Planners,
         ClaimExecutionSlot(p) \/ PlannerStep(p) \/ PlannerCrashes(p)
  PROVE  Quiet \/ Passes \/ Starts
  <1>1. demand \in DemandRow /\ slot \in SlotRow /\ runs \in Seq(RunRow)  BY DEF TypeOK
  <1>2. KeepsKey(demand, demand)  BY <1>1 DEF KeepsKey
  <1>3. KeepsGeneration(demand, demand)
    <2>1. demand.retry_attempt \in Nat  BY <1>1 DEF DemandRow
    <2> QED  BY <1>1, <2>1 DEF KeepsGeneration
  <1>4. ASSUME UNCHANGED <<demand, runs, slot>> PROVE Quiet
    BY <1>2, <1>4, DemandStep
  <1>5. CASE ClaimExecutionSlot(p)
    <2>1. \A i \in 1..Len(runs) : ~Active(i)  BY <1>5, NoRunInProgress DEF ClaimExecutionSlot
    <2>2. slot' \in SlotRow /\ slot'.state # "executing"
      BY <1>5 DEF ClaimExecutionSlot, SlotRow
    <2>3. demand' = demand /\ runs' = runs  BY <1>5 DEF ClaimExecutionSlot
    <2> QED  BY <2>1, <2>2, <2>3, <1>3 DEF Passes
  <1>7. CASE PlannerCrashes(p)  BY <1>4, <1>7 DEF PlannerCrashes
  <1>8. CASE RegisterInspection(p)
    <2> DEFINE n == demand.change_sequence + 1
    <2>1. n \in Nat /\ revision \in Nat  BY <1>1 DEF DemandRow, TypeOK
    <2>2. Because("settled") \in Reasons  BY DEF Because, Reasons, ReasonKinds, Causes
    <2>3. \/ demand' = [demand EXCEPT !.inspection = "registered", !.index_revision = revision,
                                      !.change_sequence = n, !.state = "preparing",
                                      !.not_before = "due"]
          \/ demand' = [demand EXCEPT !.state = "cannot_recompute", !.reason = Because("settled")]
      BY <1>8 DEF RegisterInspection
    <2> HIDE DEF n
    <2>4. KeepsKey(demand, demand')
      BY <1>1, <2>1, <2>2, <2>3 DEF KeepsKey, DemandRow, States
    <2> QED  BY <1>8, <2>4, DemandStep DEF RegisterInspection
  <1>9. CASE Snapshot(p)  BY <1>4, <1>9 DEF Snapshot
  <1>10. ASSUME Refusal(p) = "none" PROVE HoldsSlot(p)
    BY <1>10 DEF Refusal
  <1>11. CASE AdoptNewRun(p)
    <2> DEFINE run == [generation |-> FreezeTarget(p).generation,
                       retry_attempt |-> FreezeTarget(p).retry_attempt,
                       cause |-> plan[p].target.cause,
                       status |-> "QUEUED", task |-> "unpublished"]
               row == FreezeTarget(p)
    <2>1. \A i \in 1..Len(runs) : ~Active(i)
      BY <1>10, <1>11, NoRunInProgress DEF AdoptNewRun, HoldsSlot
    <2>2. /\ row \in DemandRow
          /\ \/ row.generation = demand.generation + 1 /\ row.retry_attempt = 0
             \/ /\ row.generation = demand.generation
                /\ row.retry_attempt = demand.retry_attempt
                /\ demand.generation # 0
      BY FrozenRow
    <2>3. /\ demand' = [row EXCEPT !.state = "queued"]
          /\ runs' = Append(runs, run)
          /\ slot' = Bound(Len(runs) + 1)
          /\ \A i \in 1..Len(runs) : ~(/\ runs[i].generation = row.generation
                                       /\ runs[i].retry_attempt = row.retry_attempt)
      BY <1>11 DEF AdoptNewRun, RunsOf
    <2>4. run \in RunRow /\ run.status \in ActiveStates
      <3>1. row.generation \in Nat /\ row.retry_attempt \in Nat  BY <2>2 DEF DemandRow
      <3>2. plan[p].target.cause \in Causes  BY DEF TypeOK, PlanState, Targets
      <3> QED  BY <3>1, <3>2 DEF RunRow, RunStates, ActiveStates, Tasks
    <2>5. /\ run.generation = row.generation
          /\ run.retry_attempt = row.retry_attempt
      OBVIOUS
    <2> HIDE DEF run, row
    <2>6. /\ demand' \in DemandRow
          /\ demand'.generation = row.generation
          /\ demand'.retry_attempt = row.retry_attempt
      BY <2>2, <2>3 DEF DemandRow, States
    <2>7. /\ slot' \in SlotRow
          /\ slot'.state = "executing" /\ slot'.run = Len(runs) + 1
      BY <1>1, <2>3 DEF Bound, SlotRow
    <2> QED  BY <2>1, <2>2, <2>3, <2>4, <2>5, <2>6, <2>7 DEF Starts, Matches
  <1>12. CASE AdoptExistingRun(p)
    <2>1. \A i \in 1..Len(runs) : ~Active(i)
      BY <1>10, <1>12, NoRunInProgress DEF AdoptExistingRun, HoldsSlot
    <2>2. PICK i \in 1..Len(runs) : /\ runs[i].generation = FreezeTarget(p).generation
                                    /\ slot' = Bound(i)
      BY <1>12 DEF AdoptExistingRun, RunsOf
    <2>3. FreezeTarget(p).generation # demand.generation + 1
      <3>1. runs[i].generation <= demand.generation  BY NoLaterGeneration
      <3>2. demand.generation \in Nat  BY <1>1 DEF DemandRow
      <3>3. runs[i] \in RunRow  BY <1>1, ElementOfSeq
      <3>4. runs[i].generation \in Nat  BY <3>3 DEF RunRow
      <3> QED  BY <2>2, <3>1, <3>2, <3>4
    <2>4. KeepsKey(demand, demand')
      BY <1>12, <2>3, FrozenRow DEF KeepsKey, AdoptExistingRun
    <2>5. KeepsGeneration(demand, demand')
      <3>1. demand.retry_attempt \in Nat  BY <1>1 DEF DemandRow
      <3> QED  BY <2>4, <3>1 DEF KeepsKey, KeepsGeneration
    <2>6. /\ slot' \in SlotRow
          /\ slot'.state = "executing" /\ slot'.run = i
      <3>1. Len(runs) \in Nat  BY <1>1, LenProperties
      <3> QED  BY <1>1, <2>2, <3>1 DEF Bound, SlotRow
    <2>7. runs' = runs  BY <1>12 DEF AdoptExistingRun
    <2> QED  BY <2>1, <2>5, <2>6, <2>7 DEF Passes
  <1>13. CASE AdoptionRefused(p)  BY <1>13, GivingUp DEF AdoptionRefused
  <1>14. CASE SlotLost(p)  BY <1>14, GivingUp DEF SlotLost
  <1>15. CASE PlanningFails(p)  BY <1>15, GivingUp DEF PlanningFails
  <1> QED
    BY <1>5, <1>7, <1>8, <1>9, <1>11, <1>12, <1>13, <1>14, <1>15 DEF PlannerStep

\* What the relay, the worker and the recovery do to a run: it goes on, or it
\* ends and leaves the slot it has.
LEMMA RunShapes ==
  ASSUME TypeOK, ActiveRunHoldsTheSlot, NEW i \in 1..Len(runs),
         \/ Delivery(i) \/ WorkerStep(i) \/ Ending(i)
         \/ RecoverRun(i) \/ ReviewPromotes(i)
  PROVE  Quiet \/ Stops(i)
  <1>1. demand \in DemandRow /\ slot \in SlotRow /\ runs \in Seq(RunRow)  BY DEF TypeOK
  <1>2. runs[i] \in RunRow  BY <1>1, ElementOfSeq
  <1>3. runs[i].status \in RunStates /\ runs[i].cause \in Causes  BY <1>2 DEF RunRow
  <1>4. KeepsKey(demand, demand)  BY <1>1 DEF KeepsKey
  <1>5. KeepsGeneration(demand, demand)
    <2>1. demand.retry_attempt \in Nat  BY <1>1 DEF DemandRow
    <2> QED  BY <1>1, <2>1 DEF KeepsGeneration
  <1>6. ASSUME NEW s \in RunStates, NEW t \in Tasks, RunMoves(i, s, t),
               s \in ActiveStates <=> runs[i].status \in ActiveStates,
               KeepsKey(demand, demand'), UNCHANGED slot
        PROVE  Quiet
    <2>1. /\ runs' \in Seq(RunRow) /\ Len(runs') = Len(runs)
          /\ \A j \in 1..Len(runs) : /\ runs'[j].generation = runs[j].generation
                                     /\ runs'[j].retry_attempt = runs[j].retry_attempt
                                     /\ j # i => runs'[j] = runs[j]
          /\ runs'[i].status = s
      BY <1>1, <1>6, RunMoved
    <2>2. \A j \in 1..Len(runs) :
             runs'[j].status \in ActiveStates <=> runs[j].status \in ActiveStates
      BY <1>6, <2>1
    <2> QED  BY <1>1, <1>6, <2>1, <2>2 DEF Quiet, RunsKeepKeys
  <1>7. ASSUME Active(i), NEW s \in {"COMPLETE", "FAILED"}, RunMoves(i, s, "ended"),
               KeepsGeneration(demand, demand'), slot' = Released(i)
        PROVE  Stops(i)
    <2>1. /\ runs' \in Seq(RunRow) /\ Len(runs') = Len(runs)
          /\ \A j \in 1..Len(runs) : /\ runs'[j].generation = runs[j].generation
                                     /\ runs'[j].retry_attempt = runs[j].retry_attempt
                                     /\ j # i => runs'[j] = runs[j]
          /\ runs'[i].status = s
      <3>1. s \in RunStates /\ "ended" \in Tasks  BY <1>7 DEF RunStates, Tasks
      <3> QED  BY <1>1, <1>7, <3>1, RunMoved
    <2>2. s \notin ActiveStates  BY <1>7 DEF ActiveStates
    <2>3. slot.state = "executing" /\ slot.run = i  BY <1>7 DEF ActiveRunHoldsTheSlot
    <2>4. slot' \in SlotRow /\ slot'.state # "executing"
      BY <1>7, <2>3 DEF Released, NoSlot, SlotRow
    <2> QED  BY <1>7, <2>1, <2>2, <2>4 DEF Stops, RunsKeepKeys
  <1>8. CASE IsPublished(i)
    <2>1. "published" \in Tasks  BY DEF Tasks
    <2> QED  BY <1>3, <1>4, <1>6, <1>8, <2>1 DEF IsPublished
  <1>9. CASE DeliveryTimesOut(i)
    <2>1. "overdue" \in Tasks  BY DEF Tasks
    <2> QED  BY <1>3, <1>4, <1>6, <1>9, <2>1 DEF DeliveryTimesOut
  <1>10. CASE RunLeaseLapses(i)
    <2>1. "lapsed" \in Tasks  BY DEF Tasks
    <2> QED  BY <1>3, <1>4, <1>6, <1>10, <2>1 DEF RunLeaseLapses
  <1>11. CASE ClaimRun(i)
    <2>1. "running" \in Tasks /\ "ANALYZING" \in RunStates /\ "ANALYZING" \in ActiveStates
      BY DEF Tasks, RunStates, ActiveStates
    <2>2. runs[i].status \in ActiveStates  BY <1>11 DEF ClaimRun, Active
    <2>3. KeepsKey(demand, demand')
      <3> DEFINE why == Because("analysis_running")
      <3>1. why \in Reasons  BY DEF Because, Reasons, ReasonKinds, Causes
      <3>2. \/ demand' = [demand EXCEPT !.state = "running", !.reason = why, !.not_before = "none"]
            \/ demand' = demand
        BY <1>11 DEF ClaimRun
      <3> HIDE DEF why
      <3> QED  BY <1>1, <3>1, <3>2 DEF KeepsKey, DemandRow, States
    <2> QED  BY <1>6, <1>11, <2>1, <2>2, <2>3 DEF ClaimRun
  <1>12. MayFinish(i) => Active(i)  BY DEF MayFinish, Active, ActiveStates
  <1>13. CASE CompleteRun(i)
    <2>1. PICK d \in Decisions(runs[i].cause) :
             demand' = IF Matches(i) THEN ComparisonSettled(d) ELSE demand
      BY <1>13 DEF CompleteRun
    <2>2. KeepsGeneration(demand, demand')  BY <1>3, <1>5, <2>1, SettlementRows
    <2> QED  BY <1>7, <1>12, <1>13, <2>2 DEF CompleteRun
  <1>14. CASE FailRun(i)
    <2>1. PICK retryable \in BOOLEAN :
             demand' = IF Matches(i) THEN ExecutionFailure(runs[i].cause, retryable) ELSE demand
      BY <1>14, Zenon DEF FailRun
    <2>2. KeepsGeneration(demand, ExecutionFailure(runs[i].cause, retryable))
      BY <1>3, SettlementRows
    <2>3. KeepsGeneration(demand, demand')  BY <1>5, <2>1, <2>2
    <2> QED  BY <1>7, <1>12, <1>14, <2>3 DEF FailRun
  <1>15. CASE RecoverRun(i)
    <2>1. KeepsGeneration(demand, ExecutionFailure(runs[i].cause, TRUE))
      BY <1>3, SettlementRows
    <2>2. KeepsGeneration(demand, demand')  BY <1>5, <1>15, <2>1 DEF RecoverRun
    <2>3. Active(i)  BY <1>15 DEF RecoverRun, Abandoned, Active, ActiveStates
    <2> QED  BY <1>7, <1>15, <2>2, <2>3 DEF RecoverRun
  <1>16. CASE ReviewPromotes(i)
    <2>1. "updated" \in AtRest  BY DEF AtRest
    <2>2. KeepsKey(demand, Settled(demand, "updated"))  BY <1>1, <2>1, QuietRows
    <2>3. KeepsKey(demand, demand') /\ UNCHANGED <<runs, slot>>
      BY <1>4, <1>16, <2>2 DEF ReviewPromotes
    <2> QED  BY <2>3, DemandStep
  <1> QED
    BY <1>8, <1>9, <1>10, <1>11, <1>13, <1>14, <1>15, <1>16 DEF Delivery, WorkerStep, Ending

\* A step of the specification has one of the four shapes.
LEMMA Shapes ==
  ASSUME IInv, Next
  PROVE  Quiet \/ Passes \/ Starts \/ \E i \in 1..Len(runs) : Stops(i)
  <1>1. TypeOK /\ ActiveRunHoldsTheSlot /\ DemandIsNewest /\ Climbing  BY DEF IInv
  <1>2. CASE Environment \/ Fanout \/ NotBeforePasses \/ PlanningLeaseLapses
    BY <1>1, <1>2, EnvironmentIsQuiet
  <1>3. CASE \E p \in Planners : ClaimExecutionSlot(p) \/ PlannerStep(p) \/ PlannerCrashes(p)
    BY <1>1, <1>3, PlannerShapes
  <1>4. CASE \E i \in 1..Len(runs) : \/ Delivery(i) \/ WorkerStep(i) \/ Ending(i)
                                     \/ RecoverRun(i) \/ ReviewPromotes(i)
    BY <1>1, <1>4, RunShapes
  <1>5. CASE ReconcileSlots
    BY <1>1, <1>5, ReconcilingPasses
  <1> QED  BY <1>2, <1>3, <1>4, <1>5 DEF Next, Scheduling

-----------------------------------------------------------------------------
(* Every shape preserves the invariant.                                    *)

\* The rows that the shapes speak of have their types.
LEMMA ShapeTypes ==
  ASSUME IInv, Quiet \/ Passes \/ Starts \/ \E i \in 1..Len(runs) : Stops(i)
  PROVE  demand' \in DemandRow /\ runs' \in Seq(RunRow) /\ slot' \in SlotRow
  <1>1. runs \in Seq(RunRow)  BY DEF IInv, TypeOK
  <1>2. CASE Quiet  BY <1>2 DEF Quiet, KeepsKey, RunsKeepKeys
  <1>3. CASE Passes  BY <1>1, <1>3 DEF Passes, KeepsGeneration
  <1>4. CASE Starts  BY <1>1, <1>4, AppendProperties DEF Starts
  <1>5. CASE \E i \in 1..Len(runs) : Stops(i)
    BY <1>5 DEF Stops, KeepsGeneration, RunsKeepKeys
  <1> QED  BY <1>2, <1>3, <1>4, <1>5

\* The other variables keep their types.
LEMMA OtherTypes ==
  ASSUME TypeOK, Next
  PROVE  /\ target' \in Targets
         /\ current' \in Nat
         /\ plan' \in [Planners -> PlanState]
         /\ evidence' \in Evidence
         /\ revision' \in Nat /\ affecting' \subseteq Nat /\ cursor' \in Nat
         /\ policy' \in Nat /\ policy_cursor' \in Nat
         /\ live' \in BOOLEAN
         /\ events' \in Nat /\ faults' \in Nat
  <1>1. /\ target \in Targets /\ current \in Nat /\ plan \in [Planners -> PlanState]
        /\ evidence \in Evidence /\ revision \in Nat /\ affecting \subseteq Nat
        /\ cursor \in Nat /\ policy \in Nat /\ policy_cursor \in Nat
        /\ events \in Nat /\ faults \in Nat
    BY DEF TypeOK
  <1>2. live \in BOOLEAN  BY DEF TypeOK
  <1>3. IdlePlan \in PlanState  BY DEF IdlePlan, NoTarget, PlanState, Targets, Causes
  <1> DEFINE Rest == /\ target' \in Targets /\ current' \in Nat
                     /\ plan' \in [Planners -> PlanState]
                     /\ evidence' \in Evidence /\ revision' \in Nat /\ affecting' \subseteq Nat
                     /\ cursor' \in Nat /\ policy' \in Nat /\ policy_cursor' \in Nat
                     /\ live' \in BOOLEAN
                     /\ events' \in Nat /\ faults' \in Nat
  <1>4. ASSUME Environment PROVE Rest
    <2>1. live' \in BOOLEAN
      BY <1>2, <1>4, Zenon DEF Environment, CatalogChanges, DeclareWorkspaceModuleRole,
         DumpExpires, DumpRestored, RestartExhaustedDemand
    <2> QED
      BY <1>1, <1>4, <2>1, SMT DEF Environment, CatalogChanges, DeclareWorkspaceModuleRole,
         DumpExpires, DumpRestored, RestartExhaustedDemand, Event, catalog, cursors, budgets
  <1>5. ASSUME Fanout \/ Scheduling PROVE Rest
    <2>1. live' = live
      BY <1>5 DEF Fanout, Scheduling, FanoutNext, FanoutWorkspaceRoleNext, ReconcileSlots,
         PlanningLeaseLapses, NotBeforePasses
    <2> QED
      BY <1>1, <1>2, <1>5, <2>1 DEF Fanout, Scheduling, FanoutNext, FanoutWorkspaceRoleNext,
         ReconcileSlots, PlanningLeaseLapses, NotBeforePasses, Fault, catalog, cursors, budgets
  <1>6. ASSUME NEW p \in Planners, ClaimExecutionSlot(p) \/ PlannerStep(p) \/ PlannerCrashes(p)
        PROVE  Rest
    <2>1. ASSUME NEW error, GiveUp(p, error) PROVE Rest
      BY <1>1, <1>2, <1>3, <2>1 DEF GiveUp, catalog, cursors, budgets
    <2>2. CASE ClaimExecutionSlot(p)
      <3>1. [plan[p] EXCEPT !.pc = "claimed"] \in PlanState  BY <1>1 DEF PlanState
      <3>2. plan' \in [Planners -> PlanState]  BY <1>1, <2>2, <3>1 DEF ClaimExecutionSlot
      <3> QED  BY <1>1, <1>2, <2>2, <3>2 DEF ClaimExecutionSlot, catalog, cursors, budgets
    <2>3. CASE PlannerCrashes(p)
      BY <1>1, <1>2, <1>3, <2>3 DEF PlannerCrashes, Fault, catalog, cursors
    <2>4. CASE RegisterInspection(p)
      <3>1. [plan[p] EXCEPT !.pc = "failed"] \in PlanState  BY <1>1 DEF PlanState
      <3>2. plan' \in [Planners -> PlanState]  BY <1>1, <2>4, <3>1 DEF RegisterInspection
      <3> QED  BY <1>1, <1>2, <2>4, <3>2 DEF RegisterInspection, catalog, cursors, budgets
    <2>5. CASE Snapshot(p)
      <3> DEFINE frozen == [evidence |-> evidence, policy |-> policy, cause |-> Cause]
                 read == [pc |-> "planned", sequence |-> demand.change_sequence,
                          revision |-> revision, target |-> frozen]
      <3>1. frozen \in Targets  BY <1>1, CauseType DEF Targets
      <3>2. demand.change_sequence \in Nat  BY DEF TypeOK, DemandRow
      <3>3. plan' = [plan EXCEPT ![p] = read]  BY <2>5 DEF Snapshot
      <3> HIDE DEF frozen
      <3>4. read \in PlanState  BY <1>1, <3>1, <3>2 DEF PlanState
      <3> HIDE DEF read
      <3>5. plan' \in [Planners -> PlanState]  BY <1>1, <3>3, <3>4
      <3> QED  BY <1>1, <1>2, <2>5, <3>5 DEF Snapshot, catalog, cursors, budgets
    <2>6. CASE AdoptNewRun(p)
      <3>1. plan[p].target \in Targets  BY <1>1 DEF PlanState
      <3> QED  BY <1>1, <1>2, <1>3, <2>6, <3>1 DEF AdoptNewRun, catalog, cursors, budgets
    <2>7. CASE AdoptExistingRun(p)
      BY <1>1, <1>2, <1>3, <2>7 DEF AdoptExistingRun, catalog, cursors, budgets
    <2>8. CASE AdoptionRefused(p)  BY <2>1, <2>8 DEF AdoptionRefused
    <2>9. CASE SlotLost(p)  BY <2>1, <2>9 DEF SlotLost
    <2>10. CASE PlanningFails(p)  BY <2>1, <2>10 DEF PlanningFails
    <2> QED
      BY <1>6, <2>2, <2>3, <2>4, <2>5, <2>6, <2>7, <2>8, <2>9, <2>10 DEF PlannerStep
  <1>7. ASSUME NEW i \in 1..Len(runs), \/ Delivery(i) \/ WorkerStep(i) \/ Ending(i)
                                       \/ RecoverRun(i) \/ ReviewPromotes(i)
        PROVE  Rest
    <2>1. i \in Nat  OBVIOUS
    <2>2. CASE Delivery(i)
      BY <1>1, <1>2, <2>2 DEF Delivery, IsPublished, DeliveryTimesOut, catalog, cursors, budgets
    <2>3. CASE WorkerStep(i)
      BY <1>1, <1>2, <2>3
      DEF WorkerStep, ClaimRun, RunLeaseLapses, Fault, catalog, cursors, budgets
    <2>4. CASE CompleteRun(i)
      <3>1. current' \in Nat  BY <1>1, <2>1, <2>4 DEF CompleteRun
      <3> QED  BY <1>1, <1>2, <2>4, <3>1 DEF CompleteRun, catalog, cursors, budgets
    <2>5. CASE FailRun(i)  BY <1>1, <1>2, <2>5 DEF FailRun, catalog, cursors, budgets
    <2>6. CASE RecoverRun(i)  BY <1>1, <1>2, <2>6 DEF RecoverRun, catalog, cursors, budgets
    <2>7. CASE ReviewPromotes(i)
      BY <1>1, <1>2, <2>1, <2>7 DEF ReviewPromotes, Event, catalog, cursors
    <2> QED  BY <1>7, <2>2, <2>3, <2>4, <2>5, <2>6, <2>7 DEF Ending
  <1> QED  BY <1>4, <1>5, <1>6, <1>7 DEF Next

\* What the invariant says of the rows, apart from their types.
Rows == /\ SlotNamesARun
        /\ ActiveRunHoldsTheSlot
        /\ ActiveIsNewest
        /\ DemandIsNewest
        /\ Climbing
        /\ AttemptsInBudget

\* The types of generations and attempts.
LEMMA KeyTypes ==
  ASSUME TypeOK
  PROVE  /\ Len(runs) \in Nat
         /\ runs = <<>> <=> Len(runs) = 0
         /\ demand.generation \in Nat /\ demand.retry_attempt \in Nat
         /\ \A i \in 1..Len(runs) : runs[i].generation \in Nat /\ runs[i].retry_attempt \in Nat
  <1>1. runs \in Seq(RunRow)  BY DEF TypeOK
  <1>2. \A i \in 1..Len(runs) : runs[i] \in RunRow  BY <1>1, ElementOfSeq
  <1>3. Len(runs) \in Nat  BY <1>1, LenProperties
  <1>4. runs = <<>> <=> Len(runs) = 0  BY <1>1, EmptySeq
  <1> QED  BY <1>2, <1>3, <1>4 DEF RunRow, TypeOK, DemandRow

\* A quiet step and a step that ends a run change neither the order of the runs
\* nor the attempts they have.
LEMMA KeysKept ==
  ASSUME IInv, RunsKeepKeys, KeepsGeneration(demand, demand')
  PROVE  DemandIsNewest' /\ Climbing' /\ AttemptsInBudget'
  <1>1. TypeOK /\ DemandIsNewest /\ Climbing /\ AttemptsInBudget  BY DEF IInv
  <1>2. runs' \in Seq(RunRow) /\ Len(runs') = Len(runs)  BY DEF RunsKeepKeys
  <1>3. Len(runs) \in Nat /\ (runs = <<>> <=> Len(runs) = 0)  BY <1>1, KeyTypes
  <1>4. runs' = <<>> <=> runs = <<>>  BY <1>2, <1>3, EmptySeq
  <1>5. runs # <<>> => Len(runs) \in 1..Len(runs)  BY <1>3
  <1>6. \A i \in 1..Len(runs) : /\ runs'[i].generation = runs[i].generation
                                /\ runs'[i].retry_attempt = runs[i].retry_attempt
    BY DEF RunsKeepKeys
  <1>7. Climbing' /\ AttemptsInBudget'
    BY <1>1, <1>2, <1>6 DEF Climbing, AttemptsInBudget
  <1>8. DemandIsNewest'
    <2>1. /\ demand'.generation = demand.generation
          /\ demand.retry_attempt <= demand'.retry_attempt
          /\ demand'.retry_attempt < MaxAttempts
          /\ demand'.retry_attempt \in Nat
      BY <1>1 DEF KeepsGeneration, DemandIsNewest, DemandRow
    <2>2. runs # <<>> => /\ runs'[Len(runs)].generation = demand.generation
                         /\ runs'[Len(runs)].retry_attempt <= demand.retry_attempt
      BY <1>1, <1>5, <1>6 DEF DemandIsNewest, Newest
    <2>3. \A i \in 1..Len(runs) : runs'[i].retry_attempt \in Nat
      BY <1>1, <1>6, KeyTypes
    <2>4. demand.retry_attempt \in Nat  BY <1>1, KeyTypes
    <2>5. runs # <<>> => runs'[Len(runs)].retry_attempt <= demand'.retry_attempt
      BY <1>5, <2>1, <2>2, <2>3, <2>4
    <2> QED  BY <1>1, <1>2, <1>4, <2>1, <2>2, <2>5 DEF DemandIsNewest, Newest
  <1> QED  BY <1>7, <1>8

\* A quiet step preserves the invariant.
LEMMA QuietPreserves == ASSUME IInv, Quiet PROVE Rows'
  <1>1. /\ SlotNamesARun /\ ActiveRunHoldsTheSlot /\ ActiveIsNewest
        /\ TypeOK
    BY DEF IInv
  <1>2. KeepsGeneration(demand, demand')
    <2>1. demand.retry_attempt \in Nat  BY <1>1, KeyTypes
    <2> QED  BY <2>1 DEF Quiet, KeepsKey, KeepsGeneration
  <1>3. DemandIsNewest' /\ Climbing' /\ AttemptsInBudget'  BY <1>2, KeysKept DEF Quiet
  <1>4. SlotNamesARun' /\ ActiveIsNewest'
    BY <1>1 DEF Quiet, RunsKeepKeys, SlotNamesARun, ActiveIsNewest, Active
  <1>5. ActiveRunHoldsTheSlot'
    BY <1>1 DEF Quiet, RunsKeepKeys, KeepsKey, ActiveRunHoldsTheSlot, Active, Matches
  <1> QED  BY <1>3, <1>4, <1>5 DEF Rows

\* A step in which the slot changes hands preserves it: no run is in progress.
LEMMA PassesPreserves == ASSUME IInv, Passes PROVE Rows'
  <1>1. RunsKeepKeys  BY DEF IInv, TypeOK, Passes, RunsKeepKeys
  <1>2. DemandIsNewest' /\ Climbing' /\ AttemptsInBudget'  BY <1>1, KeysKept DEF Passes
  <1>3. SlotNamesARun' /\ ActiveIsNewest' /\ ActiveRunHoldsTheSlot'
    BY DEF Passes, SlotNamesARun, ActiveIsNewest, ActiveRunHoldsTheSlot, Active
  <1> QED  BY <1>2, <1>3 DEF Rows

\* The end of the run in progress preserves it: no other was in progress.
LEMMA StopsPreserves == ASSUME IInv, NEW i \in 1..Len(runs), Stops(i) PROVE Rows'
  <1>1. ActiveIsNewest  BY DEF IInv
  <1>2. DemandIsNewest' /\ Climbing' /\ AttemptsInBudget'  BY KeysKept DEF Stops
  <1>3. \A j \in 1..Len(runs) : runs'[j].status \notin ActiveStates
    BY <1>1 DEF Stops, ActiveIsNewest, Active
  <1>4. SlotNamesARun' /\ ActiveIsNewest' /\ ActiveRunHoldsTheSlot'
    BY <1>3 DEF Stops, RunsKeepKeys, SlotNamesARun, ActiveIsNewest, ActiveRunHoldsTheSlot, Active
  <1> QED  BY <1>2, <1>4 DEF Rows

\* A run that starts preserves it: its generation is the next one, or the same
\* one and its attempt a larger one than that of the newest run.
LEMMA StartsPreserves == ASSUME IInv, Starts PROVE Rows'
  <1> DEFINE n == Len(runs)
  <1>1. TypeOK /\ DemandIsNewest /\ Climbing /\ AttemptsInBudget  BY DEF IInv
  <1>2. runs \in Seq(RunRow) /\ n \in Nat  BY <1>1, KeyTypes DEF TypeOK
  <1>3. /\ demand.generation \in Nat /\ demand.retry_attempt \in Nat
        /\ \A i \in 1..n : runs[i].generation \in Nat /\ runs[i].retry_attempt \in Nat
    BY <1>1, KeyTypes
  <1>4. PICK run \in RunRow : /\ run.generation = demand'.generation
                              /\ run.retry_attempt = demand'.retry_attempt
                              /\ run.status \in ActiveStates
                              /\ runs' = Append(runs, run)
    BY DEF Starts
  <1>5. /\ runs' \in Seq(RunRow) /\ Len(runs') = n + 1
        /\ \A i \in 1..n : runs'[i] = runs[i]
        /\ runs'[n + 1] = run
    BY <1>2, <1>4, AppendProperties
  <1>6. runs' # <<>>  BY <1>2, <1>5, EmptySeq
  <1> HIDE DEF n
  <1>7. demand'.retry_attempt \in Nat /\ demand'.retry_attempt < MaxAttempts
    <2>1. MaxAttempts \in Nat \ {0}  BY DemandAssumption
    <2>2. demand.retry_attempt < MaxAttempts  BY <1>1 DEF DemandIsNewest
    <2> QED  BY <1>3, <2>1, <2>2 DEF Starts
  <1>8. ASSUME NEW i \in 1..n
        PROVE  \/ runs[i].generation < run.generation
               \/ /\ runs[i].generation = run.generation
                  /\ runs[i].retry_attempt < run.retry_attempt
    <2>1. runs[i].generation <= demand.generation
      BY <1>1, NoLaterGeneration DEF n
    <2>2. CASE demand'.generation = demand.generation + 1
      BY <1>3, <1>4, <2>1, <2>2
    <2>3. CASE /\ demand'.generation = demand.generation
               /\ demand'.retry_attempt = demand.retry_attempt
               /\ \A j \in 1..n : ~Matches(j)
      <3>1. n # 0 /\ n \in 1..n  BY <1>2
      <3>2. runs # <<>>  BY <1>1, <3>1, KeyTypes DEF n
      <3>3. /\ runs[n].generation = demand.generation
            /\ runs[n].retry_attempt <= demand.retry_attempt
        BY <1>1, <3>2 DEF DemandIsNewest, Newest, n
      <3>4. runs[n].retry_attempt # demand.retry_attempt  BY <2>3, <3>1, <3>3 DEF Matches
      <3>5. runs[n].retry_attempt < run.retry_attempt
        BY <1>3, <1>4, <2>3, <3>1, <3>3, <3>4
      <3>6. CASE i = n  BY <1>4, <2>3, <3>3, <3>5, <3>6
      <3>7. CASE i < n
        <4>1. \/ runs[i].generation < runs[n].generation
              \/ /\ runs[i].generation = runs[n].generation
                 /\ runs[i].retry_attempt < runs[n].retry_attempt
          BY <1>1, <3>1, <3>7 DEF Climbing, n
        <4>2. run.retry_attempt \in Nat /\ run.generation = demand.generation
          BY <1>4, <1>7, <2>3
        <4> QED  BY <1>3, <3>1, <3>3, <3>5, <4>1, <4>2
      <3> QED  BY <1>2, <3>6, <3>7
    <2> QED  BY <2>2, <2>3 DEF Starts, n
  <1>9. \A i \in 1..(n + 1) : i = n + 1 \/ i \in 1..n  BY <1>2
  <1>10. Climbing'
    <2> SUFFICES ASSUME NEW i \in 1..(n + 1), NEW j \in 1..(n + 1), i < j
                 PROVE  \/ runs'[i].generation < runs'[j].generation
                        \/ /\ runs'[i].generation = runs'[j].generation
                           /\ runs'[i].retry_attempt < runs'[j].retry_attempt
      BY <1>5 DEF Climbing
    <2>1. i \in 1..n  BY <1>2
    <2>2. CASE j = n + 1  BY <1>5, <1>8, <2>1, <2>2
    <2>3. CASE j \in 1..n  BY <1>1, <1>5, <2>1, <2>3 DEF Climbing, n
    <2> QED  BY <1>9, <2>2, <2>3
  <1>11. AttemptsInBudget'
    BY <1>1, <1>4, <1>5, <1>7, <1>9 DEF AttemptsInBudget, n
  <1>12. DemandIsNewest'
    BY <1>4, <1>5, <1>6, <1>7 DEF DemandIsNewest, Newest
  <1>13. \A i \in 1..n : runs'[i].status \notin ActiveStates
    BY <1>5 DEF Starts, Active, n
  <1>14. SlotNamesARun' /\ ActiveIsNewest'
    <2>1. slot'.state = "executing" /\ slot'.run = n + 1  BY DEF Starts, n
    <2> QED  BY <1>2, <1>5, <1>9, <1>13, <2>1 DEF SlotNamesARun, ActiveIsNewest, Active
  <1>15. ActiveRunHoldsTheSlot'
    <2>1. slot'.state = "executing" /\ slot'.run = n + 1  BY DEF Starts, n
    <2> QED  BY <1>4, <1>5, <1>9, <1>13, <2>1 DEF ActiveRunHoldsTheSlot, Active, Matches
  <1> QED  BY <1>10, <1>11, <1>12, <1>14, <1>15 DEF Rows

\* The invariant is inductive.
LEMMA StepIInv == IInv /\ [Next]_vars => IInv'
  <1> SUFFICES ASSUME IInv, [Next]_vars PROVE IInv'  OBVIOUS
  <1>1. CASE Next
    <2>1. Quiet \/ Passes \/ Starts \/ \E i \in 1..Len(runs) : Stops(i)  BY <1>1, Shapes
    <2>2. TypeOK'
      <3>1. TypeOK  BY DEF IInv
      <3>2. demand' \in DemandRow /\ runs' \in Seq(RunRow) /\ slot' \in SlotRow
        BY <2>1, ShapeTypes
      <3> QED  BY <1>1, <3>1, <3>2, OtherTypes DEF TypeOK
    <2>3. Rows'
      BY <2>1, QuietPreserves, PassesPreserves, StartsPreserves, StopsPreserves
    <2> QED  BY <2>2, <2>3 DEF IInv, Rows
  <1>2. CASE UNCHANGED vars
    BY <1>2 DEF vars, catalog, cursors, budgets, IInv, TypeOK, SlotNamesARun, ActiveRunHoldsTheSlot,
       ActiveIsNewest, DemandIsNewest, Climbing, AttemptsInBudget, Active, Matches, Newest
  <1> QED  BY <1>1, <1>2

-----------------------------------------------------------------------------
(* The theorems.                                                           *)

\* The invariant holds in every reachable state.
THEOREM Invariance == Spec => []IInv
  <1> QED  BY InitIInv, StepIInv, PTL DEF Spec

\* Rows, plans and counters keep their types, in particular every row keeps to
\* the check constraints of its table.
THEOREM TypeCorrect == Spec => []TypeOK
  <1>1. IInv => TypeOK  BY DEF IInv
  <1> QED  BY <1>1, Invariance, PTL

\* A run in progress has the slot of its demand and is the run of the demand's
\* generation and attempt, however many planners race for the slot and whatever
\* leases lapse: no target is frozen under a running analysis.
THEOREM SlotIsExclusive == Spec => []ActiveRunHoldsTheSlot
  <1>1. IInv => ActiveRunHoldsTheSlot  BY DEF IInv
  <1> QED  BY <1>1, Invariance, PTL

\* The attempts of the runs of one generation are different and below the budget.
LEMMA DistinctAttempts == IInv => RetryBudget
  <1> SUFFICES ASSUME IInv, NEW i \in 1..Len(runs)
               PROVE  Cardinality({j \in 1..Len(runs) : runs[j].generation = runs[i].generation})
                        <= MaxAttempts
    BY DEF RetryBudget
  <1> DEFINE same == {j \in 1..Len(runs) : runs[j].generation = runs[i].generation}
             attempts == 0..(MaxAttempts - 1)
             f == [j \in same |-> runs[j].retry_attempt]
  <1>1. TypeOK /\ Climbing /\ AttemptsInBudget  BY DEF IInv
  <1>2. MaxAttempts \in Nat \ {0}  BY DemandAssumption
  <1>3. \A j \in 1..Len(runs) : runs[j].generation \in Nat /\ runs[j].retry_attempt \in Nat
    BY <1>1, KeyTypes
  <1>4. \A j \in same : runs[j].retry_attempt \in attempts
    BY <1>1, <1>2, <1>3 DEF AttemptsInBudget
  <1>5. ASSUME NEW j \in same, NEW k \in same, j # k
        PROVE  runs[j].retry_attempt # runs[k].retry_attempt
    <2>1. j \in 1..Len(runs) /\ k \in 1..Len(runs) /\ runs[j].generation = runs[k].generation
      OBVIOUS
    <2>2. j < k \/ k < j  BY <1>5, <2>1
    <2>3. CASE j < k  BY <1>1, <1>3, <2>1, <2>3 DEF Climbing
    <2>4. CASE k < j  BY <1>1, <1>3, <2>1, <2>4 DEF Climbing
    <2> QED  BY <2>2, <2>3, <2>4
  <1>6. IsFiniteSet(attempts) /\ Cardinality(attempts) = MaxAttempts
    BY <1>2, FS_Interval
  <1> HIDE DEF same, attempts
  <1>7. f \in Injection(same, attempts)
    BY <1>4, <1>5 DEF Injection, IsInjective
  <1>8. Cardinality(same) <= Cardinality(attempts)
    <2> HIDE DEF f
    <2> QED  BY <1>6, <1>7, FS_Injection
  <1> QED  BY <1>6, <1>8 DEF same

\* One generation never gets more than MaxAttempts runs, although planning, the
\* run, the comparison and the recovery each count attempts of their own accord.
THEOREM BudgetIsKept == Spec => []RetryBudget
  <1> QED  BY DistinctAttempts, Invariance, PTL

\* The slot excludes and the budget holds together with the types, for every
\* number of planners and changes and every budget.
THEOREM SlotAndBudgetHold == Spec => []SlotAndBudget
  <1>1. IInv => SlotAndBudget  BY DistinctAttempts DEF IInv, SlotAndBudget
  <1> QED  BY <1>1, Invariance, PTL

\* The runs of a demand climb the ladder: AnalysisDemand implements RunLadder.
THEOREM Refinement == Spec => OneRunAtATime
  <1>1. Init => Ladder!Init
    BY DEF Init, Ladder!Init
  <1>2. IInv /\ IInv' /\ [Next]_vars => [Ladder!Next]_Ladder!ladderVars
    <2> SUFFICES ASSUME IInv, IInv', [Next]_vars
                 PROVE  Ladder!Next \/ UNCHANGED Ladder!ladderVars
      OBVIOUS
    <2> DEFINE n == Len(runs)
    <2>1. TypeOK /\ TypeOK' /\ DemandIsNewest /\ AttemptsInBudget' /\ ActiveIsNewest
      BY DEF IInv
    <2>2. /\ runs \in Seq(RunRow) /\ n \in Nat
          /\ runs = <<>> <=> n = 0
          /\ \A i \in 1..n : runs[i].generation \in Nat /\ runs[i].retry_attempt \in Nat
      BY <2>1, KeyTypes DEF TypeOK
    <2>3. ASSUME RunsKeepKeys
          PROVE  /\ runs' = <<>> <=> runs = <<>>
                 /\ runs # <<>> => /\ n \in 1..n /\ Len(runs') = n
                                   /\ runs'[n].generation = runs[n].generation
                                   /\ runs'[n].retry_attempt = runs[n].retry_attempt
      <3>1. runs' \in Seq(RunRow) /\ Len(runs') = n  BY <2>3 DEF RunsKeepKeys
      <3>2. runs' = <<>> <=> runs = <<>>  BY <2>2, <3>1, EmptySeq
      <3>3. runs # <<>> => n \in 1..n  BY <2>2
      <3> QED  BY <2>3, <3>1, <3>2, <3>3 DEF RunsKeepKeys
    <2>4. CASE Quiet
      <3>1. RunsKeepKeys  BY <2>4 DEF Quiet
      <3>2. runs # <<>> => (runs'[n].status \in ActiveStates <=> runs[n].status \in ActiveStates)
        BY <2>3, <2>4, <3>1 DEF Quiet
      <3> QED  BY <2>3, <3>1, <3>2 DEF Ladder!ladderVars, Newest
    <2>5. CASE Passes \/ UNCHANGED vars
      <3>1. runs' = runs  BY <2>5 DEF Passes, vars
      <3> QED  BY <3>1 DEF Ladder!ladderVars, Newest
    <2>6. CASE \E i \in 1..Len(runs) : Stops(i)
      <3>1. PICK i \in 1..n : Stops(i)  BY <2>6
      <3>2. i = n  BY <2>1, <3>1 DEF ActiveIsNewest, Stops
      <3>3. runs # <<>> /\ RunsKeepKeys  BY <2>2, <3>1 DEF Stops
      <3>4. runs[n].status \in ActiveStates /\ runs'[n].status \notin ActiveStates
        BY <3>1, <3>2 DEF Stops, Active
      <3>5. Ladder!End  BY <2>3, <3>3, <3>4 DEF Ladder!End, Newest
      <3> QED  BY <3>5 DEF Ladder!Next
    <2>7. CASE Starts
      <3>1. PICK run \in RunRow : /\ run.generation = demand'.generation
                                  /\ run.retry_attempt = demand'.retry_attempt
                                  /\ run.status \in ActiveStates
                                  /\ runs' = Append(runs, run)
        BY <2>7 DEF Starts
      <3>2. /\ runs' \in Seq(RunRow) /\ Len(runs') = n + 1
            /\ runs'[n + 1] = run
        BY <2>2, <3>1, AppendProperties
      <3>3. runs' # <<>> /\ Newest' = run  BY <2>2, <3>2, EmptySeq DEF Newest
      <3>4. runs # <<>> => n \in 1..n /\ ~Active(n)  BY <2>2, <2>7 DEF Starts
      <3>5. run.retry_attempt \in Nat /\ run.retry_attempt < MaxAttempts
        <4>1. run.retry_attempt \in Nat  BY DEF RunRow
        <4>2. n + 1 \in 1..Len(runs')  BY <2>2, <3>2
        <4> QED  BY <2>1, <3>2, <4>1, <4>2 DEF AttemptsInBudget
      <3>6. runs = <<>> => demand.generation = 0  BY <2>1 DEF DemandIsNewest
      <3>7. runs # <<>> => /\ Newest.generation = demand.generation
                           /\ Newest.retry_attempt <= demand.retry_attempt
        BY <2>1 DEF DemandIsNewest
      <3>8. CASE demand'.generation = demand.generation + 1 /\ demand'.retry_attempt = 0
        <4>1. Ladder!NextTarget
          BY <3>1, <3>3, <3>4, <3>6, <3>7, <3>8 DEF Ladder!NextTarget, Active, Newest
        <4> QED  BY <4>1 DEF Ladder!Next
      <3>9. CASE /\ demand'.generation = demand.generation
                 /\ demand'.retry_attempt = demand.retry_attempt
                 /\ demand.generation # 0
                 /\ \A i \in 1..n : ~Matches(i)
        <4>1. runs # <<>>  BY <3>6, <3>9
        <4>2. demand.generation \in Nat /\ demand.retry_attempt \in Nat  BY <2>1, KeyTypes
        <4>3. Newest.retry_attempt \in Nat  BY <2>2, <3>4, <4>1 DEF Newest
        <4>4. Newest.retry_attempt # demand.retry_attempt
          BY <3>4, <3>7, <3>9, <4>1 DEF Matches, Newest
        <4>5. Newest.retry_attempt < run.retry_attempt
          BY <3>1, <3>7, <3>9, <4>1, <4>2, <4>3, <4>4
        <4>6. run.generation = Newest.generation /\ Newest.generation > 0
          BY <3>1, <3>7, <3>9, <4>1, <4>2
        <4>7. ~(Newest.status \in ActiveStates)  BY <3>4, <4>1 DEF Active, Newest
        <4>8. Ladder!Retry
          BY <3>1, <3>3, <3>5, <4>1, <4>5, <4>6, <4>7 DEF Ladder!Retry
        <4> QED  BY <4>8 DEF Ladder!Next
      <3> QED  BY <2>7, <3>8, <3>9 DEF Starts
    <2> QED  BY <2>4, <2>5, <2>6, <2>7, Shapes
  <1> QED  BY <1>1, <1>2, Invariance, PTL DEF Spec, OneRunAtATime, Ladder!Spec

-----------------------------------------------------------------------------
(* No change is lost, as long as no dump expires under its running analysis. *)

\* No retention step takes away the dump of a run in progress.
DumpIsKept == ~ (live /\ ~ live' /\ \E i \in 1..Len(runs) : Active(i))

\* Cursors and sequences stay behind what they follow.
CountsFollow ==
    /\ demand.planned_sequence <= demand.change_sequence
    /\ demand.index_revision <= revision /\ cursor <= revision
    /\ \A r \in affecting : r <= revision
    /\ policy_cursor <= policy
    /\ demand.generation > 0 => demand.inspection = "registered"

\* A plan made at the newest revision has the evidence of now.
PlansKnow ==
    \A p \in Planners : plan[p].pc = "planned" =>
        /\ demand.inspection = "registered"
        /\ plan[p].revision <= revision
        /\ plan[p].revision = revision => plan[p].target.evidence = evidence

\* While a run is in progress the demand is open, and what arrives is noted.
RunsArePending ==
    \A i \in 1..Len(runs) : Active(i) =>
        /\ live /\ demand.state \in {"queued", "running", "coalescing"}
        /\ demand.generation > 0
        /\ demand.change_sequence > demand.planned_sequence => demand.first_event = "noted"

PlanningIsOpen == slot.state = "planning" => ~ Decided

\* A decided demand has been planned after all the changes it was told of.
PlannedThrough == demand.generation > 0 /\ demand.change_sequence = demand.planned_sequence
DecidedIsPlanned == Decided => PlannedThrough

\* What a target lacks is still to be fanned out to a demand that knows of no change.
EvidenceFollows == \/ target.evidence = evidence
                   \/ \E r \in affecting : r > cursor /\ r > demand.index_revision
PolicyFollows == target.policy = policy \/ policy_cursor < policy
TargetFollows == PlannedThrough => EvidenceFollows /\ PolicyFollows

FInv == /\ CountsFollow /\ PlansKnow /\ RunsArePending
        /\ PlanningIsOpen /\ DecidedIsPlanned /\ TargetFollows

\* A row's counters, and what it knows of the dump and of changes.
KeepsBooks(row, new) ==
    /\ new.change_sequence = row.change_sequence
    /\ new.planned_sequence = row.planned_sequence
    /\ new.index_revision = row.index_revision
    /\ new.inspection = row.inspection
    /\ new.generation = row.generation
    /\ new.first_event = row.first_event

\* A row that notes one change more.
NotesOne(row, new) ==
    /\ new.change_sequence = row.change_sequence + 1
    /\ new.planned_sequence = row.planned_sequence
    /\ new.generation = row.generation
    /\ row.inspection = "registered" => new.inspection = "registered"

LEMMA InitFresh == Init => FInv
  <1> SUFFICES ASSUME Init PROVE FInv  OBVIOUS
  <1>1. /\ demand.change_sequence = 1 /\ demand.planned_sequence = 0 /\ demand.index_revision = 0
        /\ demand.generation = 0 /\ demand.state = "preparing"
    BY DEF Init, NewDemand
  <1>2. slot.state = "none" /\ \A p \in Planners : plan[p].pc = "idle"
    BY DEF Init, NoSlot, IdlePlan
  <1>3. revision = 0 /\ cursor = 0 /\ affecting = {} /\ policy = 0 /\ policy_cursor = 0
        /\ Len(runs) = 0
    BY DEF Init
  <1>4. ~ Decided /\ ~ PlannedThrough  BY <1>1 DEF Decided, PlannedThrough
  <1>5. CountsFollow  BY <1>1, <1>3 DEF CountsFollow
  <1>6. PlansKnow  BY <1>2 DEF PlansKnow
  <1>7. RunsArePending  BY <1>3 DEF RunsArePending
  <1> QED  BY <1>2, <1>4, <1>5, <1>6, <1>7 DEF FInv, PlanningIsOpen, DecidedIsPlanned, TargetFollows

\* What ends a cycle of a demand leaves its books alone.
LEMMA BooksKept ==
  ASSUME NEW row \in DemandRow
  PROVE  /\ \A s : KeepsBooks(row, Settled(row, s)) /\ Settled(row, s).state = s
         /\ KeepsBooks(row, Unavailable(row)) /\ Unavailable(row).state = "cannot_recompute"
         /\ \A kind, c : /\ KeepsBooks(row, RetryOrExhaust(row, kind, c))
                         /\ RetryOrExhaust(row, kind, c).state \in {"retry_exhausted", "retry_wait"}
         /\ \A kind, c : /\ KeepsBooks(row, RuntimeFailure(row, kind, c, TRUE))
                         /\ RuntimeFailure(row, kind, c, TRUE).state
                              \in {"cannot_recompute", "retry_exhausted", "retry_wait"}
         /\ \A kind, c, retryable : KeepsBooks(row, RuntimeFailure(row, kind, c, retryable))
  <1>1. ASSUME NEW s PROVE KeepsBooks(row, Settled(row, s)) /\ Settled(row, s).state = s
    BY DEF KeepsBooks, Settled, DemandRow
  <1>2. KeepsBooks(row, Unavailable(row)) /\ Unavailable(row).state = "cannot_recompute"
    BY DEF KeepsBooks, Unavailable, DemandRow
  <1>3. ASSUME NEW kind, NEW c
        PROVE  /\ KeepsBooks(row, RetryOrExhaust(row, kind, c))
               /\ RetryOrExhaust(row, kind, c).state \in {"retry_exhausted", "retry_wait"}
    <2> DEFINE why == [kind |-> kind, cause |-> c]
    <2>1. CASE row.retry_attempt + 1 >= MaxAttempts  BY <1>1, <2>1 DEF RetryOrExhaust
    <2>2. CASE ~(row.retry_attempt + 1 >= MaxAttempts)
      <3> HIDE DEF why
      <3>1. RetryOrExhaust(row, kind, c) =
              [row EXCEPT !.state = "retry_wait", !.retry_attempt = @ + 1,
                          !.not_before = "future", !.reason = why]
        BY <2>2 DEF RetryOrExhaust, why
      <3> QED  BY <3>1 DEF KeepsBooks, DemandRow
    <2> QED  BY <2>1, <2>2
  <1>4. ASSUME NEW kind, NEW c, NEW retryable
        PROVE  /\ KeepsBooks(row, RuntimeFailure(row, kind, c, retryable))
               /\ retryable => RuntimeFailure(row, kind, c, retryable).state
                                 \in {"cannot_recompute", "retry_exhausted", "retry_wait"}
    <2>1. \/ live /\ ~retryable /\ RuntimeFailure(row, kind, c, retryable) = Settled(row, "needs_review")
          \/ RuntimeFailure(row, kind, c, retryable) = Unavailable(row)
          \/ RuntimeFailure(row, kind, c, retryable) = RetryOrExhaust(row, kind, c)
      BY DEF RuntimeFailure
    <2> QED  BY <1>1, <1>2, <1>3, <2>1
  <1> QED  BY <1>1, <1>2, <1>3, <1>4

\* A settlement that finds a noted change reopens the demand instead of deciding it.
LEMMA RestoredBooks ==
  ASSUME NEW before \in DemandRow, NEW after \in DemandRow, KeepsBooks(before, after), live,
         before.generation > 0, before.planned_sequence <= before.change_sequence,
         before.change_sequence > before.planned_sequence => before.first_event = "noted"
  PROVE  /\ KeepsBooks(before, RestorePending(before, after))
         /\ \/ RestorePending(before, after).state = "coalescing"
            \/ before.change_sequence = before.planned_sequence
  <1> DEFINE nb == IF before.not_before = "none" THEN "due" ELSE before.not_before
             why == before.reason
             new == [after EXCEPT !.state = "coalescing", !.reason = why, !.not_before = nb]
  <1>1. before.planned_sequence \in Nat /\ before.change_sequence \in Nat  BY DEF DemandRow
  <1>2. KeepsBooks(before, new) /\ new.state = "coalescing"
    <2> HIDE DEF nb, why
    <2> QED  BY DEF KeepsBooks, DemandRow
  <1>3. CASE before.change_sequence > before.planned_sequence
    <2>1. RestorePending(before, after) = new  BY <1>3 DEF RestorePending
    <2> HIDE DEF new
    <2> QED  BY <1>2, <2>1
  <1>4. CASE ~(before.change_sequence > before.planned_sequence)
    <2>1. before.change_sequence = before.planned_sequence  BY <1>1, <1>4
    <2>2. RestorePending(before, after) = after  BY <1>4 DEF RestorePending
    <2> QED  BY <2>1, <2>2
  <1> QED  BY <1>3, <1>4

\* Steps that leave catalog, target and books alone.
LEMMA BooksStep ==
  ASSUME IInv, FInv, UNCHANGED <<target, catalog, cursors>>, KeepsBooks(demand, demand'),
         \A p \in Planners : plan'[p] = plan[p] \/ plan'[p].pc # "planned",
         \A i \in 1..Len(runs') : Active(i)' =>
            /\ i \in 1..Len(runs) /\ Active(i) /\ live'
            /\ demand'.state \in {"queued", "running", "coalescing"},
         Decided' => Decided \/ PlannedThrough,
         slot'.state = "planning" => ~ Decided'
  PROVE  FInv'
  <1> USE DEF FInv
  <1>1. /\ evidence' = evidence /\ revision' = revision /\ affecting' = affecting
        /\ policy' = policy /\ cursor' = cursor /\ policy_cursor' = policy_cursor
        /\ target' = target
    BY DEF catalog, cursors
  <1>2. CountsFollow'  BY <1>1 DEF CountsFollow, KeepsBooks
  <1>3. PlansKnow'  BY <1>1 DEF PlansKnow, KeepsBooks
  <1>4. RunsArePending'  BY DEF RunsArePending, KeepsBooks
  <1>5. PlannedThrough' <=> PlannedThrough  BY DEF PlannedThrough, KeepsBooks
  <1>6. DecidedIsPlanned'  BY <1>5 DEF DecidedIsPlanned, PlannedThrough
  <1>7. TargetFollows'
    BY <1>1, <1>5 DEF TargetFollows, EvidenceFollows, PolicyFollows, KeepsBooks
  <1> QED  BY <1>2, <1>3, <1>4, <1>6, <1>7 DEF PlanningIsOpen

\* Steps by which the demand comes to know of one change more.
LEMMA NotingStep ==
  ASSUME IInv, FInv, UNCHANGED <<target, catalog, runs, slot>>, NotesOne(demand, demand'),
         demand'.index_revision \in {demand.index_revision, revision},
         cursor' <= revision, policy_cursor' <= policy,
         \A p \in Planners : plan'[p] = plan[p] \/ plan'[p].pc # "planned",
         ~ Decided',
         \A i \in 1..Len(runs) : Active(i) =>
            /\ live' /\ demand'.state \in {"queued", "running", "coalescing"}
            /\ demand'.first_event = "noted"
  PROVE  FInv'
  <1> USE DEF FInv
  <1>1. /\ evidence' = evidence /\ revision' = revision /\ affecting' = affecting
        /\ policy' = policy /\ target' = target /\ runs' = runs /\ slot' = slot
    BY DEF catalog
  <1>2. /\ demand.planned_sequence \in Nat /\ demand.change_sequence \in Nat
        /\ demand.planned_sequence <= demand.change_sequence /\ revision \in Nat
    BY DEF IInv, TypeOK, DemandRow, CountsFollow
  <1>3. CountsFollow'  BY <1>1, <1>2 DEF CountsFollow, NotesOne
  <1>4. PlansKnow'  BY <1>1 DEF PlansKnow, NotesOne
  <1>5. RunsArePending'  BY <1>1 DEF RunsArePending, NotesOne, Active
  <1>6. ~ PlannedThrough'  BY <1>2 DEF PlannedThrough, NotesOne
  <1> QED
    BY <1>3, <1>4, <1>5, <1>6 DEF DecidedIsPlanned, TargetFollows, PlanningIsOpen

\* The catalog moves on: what is new in it is ahead of the cursors.
LEMMA CatalogMoves ==
  ASSUME IInv, FInv, CatalogChanges \/ DeclareWorkspaceModuleRole
  PROVE  FInv'
  <1> USE DEF FInv
  <1>1. /\ demand' = demand /\ target' = target /\ runs' = runs /\ slot' = slot /\ plan' = plan
        /\ cursor' = cursor /\ policy_cursor' = policy_cursor /\ live' = live
    BY DEF CatalogChanges, DeclareWorkspaceModuleRole, cursors
  <1>2. /\ revision \in Nat /\ policy \in Nat /\ cursor \in Nat /\ policy_cursor \in Nat
        /\ demand.index_revision \in Nat /\ \A p \in Planners : plan[p].revision \in Nat
        /\ \A r \in affecting : r \in Nat
    BY DEF IInv, TypeOK, DemandRow, PlanState
  <1>3. RunsArePending' /\ PlanningIsOpen' /\ DecidedIsPlanned' /\ (PlannedThrough' <=> PlannedThrough)
    BY <1>1 DEF RunsArePending, PlanningIsOpen, DecidedIsPlanned, Decided, PlannedThrough, Active
  <1>4. CASE CatalogChanges
    <2>1. /\ revision' = revision + 1 /\ policy' = policy
          /\ \/ affecting' = affecting \cup {revision + 1}
             \/ affecting' = affecting /\ evidence' = evidence
      BY <1>4 DEF CatalogChanges
    <2>2. CountsFollow'  BY <1>1, <1>2, <2>1 DEF CountsFollow
    <2>3. PlansKnow'
      <3>1. \A p \in Planners : plan[p].pc = "planned" => plan[p].revision < revision + 1
        BY <1>2 DEF PlansKnow
      <3>2. \A p \in Planners : plan[p].pc = "planned" => demand.inspection = "registered"
        BY DEF PlansKnow
      <3> QED  BY <1>1, <1>2, <2>1, <3>1, <3>2 DEF PlansKnow
    <2>4. PolicyFollows' <=> PolicyFollows  BY <1>1, <2>1 DEF PolicyFollows
    <2>5. EvidenceFollows => EvidenceFollows'
      <3>1. CASE affecting' = affecting \cup {revision + 1}
        <4>1. revision + 1 \in affecting' /\ revision + 1 > cursor
              /\ revision + 1 > demand.index_revision
          BY <1>2, <3>1 DEF CountsFollow
        <4> QED  BY <1>1, <4>1 DEF EvidenceFollows
      <3>2. CASE affecting' = affecting /\ evidence' = evidence
        BY <1>1, <3>2 DEF EvidenceFollows
      <3> QED  BY <2>1, <3>1, <3>2
    <2> QED  BY <1>3, <2>2, <2>3, <2>4, <2>5 DEF TargetFollows
  <1>5. CASE DeclareWorkspaceModuleRole
    <2>1. /\ revision' = revision /\ policy' = policy + 1 /\ affecting' = affecting
          /\ evidence' = evidence
      BY <1>5 DEF DeclareWorkspaceModuleRole
    <2>2. CountsFollow'  BY <1>1, <1>2, <2>1 DEF CountsFollow
    <2>3. PlansKnow'  BY <1>1, <2>1 DEF PlansKnow
    <2>4. PolicyFollows'  BY <1>1, <1>2, <2>1 DEF PolicyFollows, CountsFollow
    <2>5. EvidenceFollows' <=> EvidenceFollows  BY <1>1, <2>1 DEF EvidenceFollows
    <2> QED  BY <1>3, <2>2, <2>3, <2>4, <2>5 DEF TargetFollows
  <1> QED  BY <1>4, <1>5

\* What a noted change writes.
LEMMA NotedBooks ==
  ASSUME NEW row \in DemandRow, NEW c
  PROVE  /\ NotesOne(row, NoteChange(row, c))
         /\ NoteChange(row, c).index_revision = row.index_revision
         /\ row.generation > 0 => NoteChange(row, c).state \in {"cannot_recompute", "running", "coalescing"}
         /\ row.generation = 0 => NoteChange(row, c).state \in {"cannot_recompute", row.state}
         /\ live => NoteChange(row, c).first_event = "noted"
         /\ live /\ row.generation > 0 => NoteChange(row, c).state \in {"running", "coalescing"}
  <1> DEFINE noted == [row EXCEPT !.change_sequence = @ + 1]
             why == Because(c)
             st == IF noted.state = "running" THEN "running" ELSE "coalescing"
  <1>0. row.generation \in Nat  BY DEF DemandRow
  <1>1. /\ noted.change_sequence = row.change_sequence + 1
        /\ noted.planned_sequence = row.planned_sequence /\ noted.generation = row.generation
        /\ noted.inspection = row.inspection /\ noted.index_revision = row.index_revision
        /\ noted.state = row.state
        /\ noted \in DemandRow
    BY DEF DemandRow
  <1> HIDE DEF noted, why
  <1>2. CASE ~ live
    <2>1. NoteChange(row, c) = Unavailable(noted)  BY <1>2 DEF NoteChange, noted
    <2> QED  BY <1>1, <1>2, <2>1, BooksKept DEF NotesOne, KeepsBooks
  <1>3. CASE live /\ row.generation = 0
    <2>1. NoteChange(row, c) = [noted EXCEPT !.first_event = "noted"]
      BY <1>3 DEF NoteChange, noted
    <2> QED  BY <1>1, <1>3, <2>1 DEF NotesOne, DemandRow
  <1>4. CASE live /\ row.generation # 0
    <2>1. NoteChange(row, c) = [noted EXCEPT !.first_event = "noted", !.not_before = "future",
                                             !.state = st, !.reason = why]
      <3>1. st = IF noted.state = "running" THEN noted.state ELSE "coalescing"  OBVIOUS
      <3> HIDE DEF st
      <3> QED  BY <1>4, <3>1 DEF NoteChange, noted, why
    <2>2. st \in {"running", "coalescing"}  OBVIOUS
    <2> HIDE DEF st
    <2> QED  BY <1>0, <1>1, <1>4, <2>1, <2>2 DEF NotesOne, DemandRow
  <1> QED  BY <1>2, <1>3, <1>4

\* A page of the fan-out tells the demand, or there is nothing to tell.
LEMMA FanoutFollows ==
  ASSUME IInv, FInv, Fanout
  PROVE  FInv'
  <1> USE DEF FInv
  <1>1. /\ target' = target /\ runs' = runs /\ slot' = slot /\ plan' = plan
        /\ UNCHANGED catalog /\ live' = live
    BY DEF Fanout, FanoutNext, FanoutWorkspaceRoleNext
  <1>2. /\ revision \in Nat /\ policy \in Nat /\ cursor \in Nat /\ policy_cursor \in Nat
        /\ demand.index_revision \in Nat /\ demand \in DemandRow /\ demand.generation \in Nat
        /\ \A r \in affecting : r \in Nat
    BY DEF IInv, TypeOK, DemandRow
  <1>3. /\ evidence' = evidence /\ revision' = revision /\ affecting' = affecting
        /\ policy' = policy
    BY <1>1 DEF catalog
  <1>4. cursor' <= revision /\ policy_cursor' <= policy
    BY <1>2 DEF Fanout, FanoutNext, FanoutWorkspaceRoleNext, CountsFollow
  <1>5. ASSUME NEW c, demand' = NoteChange(demand, c) PROVE FInv'
    <2>1. /\ NotesOne(demand, demand') /\ demand'.index_revision = demand.index_revision
          /\ Decided' => demand.generation = 0 /\ Decided
      BY <1>2, <1>5, NotedBooks DEF Decided
    <2>2. ~ Decided'
      BY <1>2, <2>1 DEF DecidedIsPlanned, PlannedThrough
    <2>3. ASSUME NEW i \in 1..Len(runs), Active(i)
          PROVE  /\ live' /\ demand'.state \in {"queued", "running", "coalescing"}
                 /\ demand'.first_event = "noted"
      <3>1. live /\ demand.generation > 0  BY <2>3 DEF RunsArePending
      <3> QED  BY <1>1, <1>2, <1>5, <3>1, NotedBooks
    <2> QED  BY <1>1, <1>4, <2>1, <2>2, <2>3, NotingStep
  <1>6. CASE demand' = demand
    <2>1. CountsFollow'  BY <1>2, <1>3, <1>4, <1>6 DEF CountsFollow
    <2>2. PlansKnow' /\ RunsArePending' /\ PlanningIsOpen' /\ DecidedIsPlanned'
      BY <1>1, <1>3, <1>6
      DEF PlansKnow, RunsArePending, PlanningIsOpen, DecidedIsPlanned, Decided, PlannedThrough,
          Active
    <2>3. ASSUME PlannedThrough PROVE EvidenceFollows' /\ PolicyFollows'
      <3>1. demand.inspection = "registered"  BY <2>3 DEF PlannedThrough, CountsFollow
      <3>2. ASSUME NEW c PROVE NoteChange(demand, c) # demand
        <4>1. NoteChange(demand, c).change_sequence = demand.change_sequence + 1
              /\ demand.change_sequence \in Nat
          BY <1>2, NotedBooks DEF NotesOne, DemandRow
        <4> QED  BY <4>1
      <3>3. ~ FanoutWorkspaceRoleNext  BY <1>6, <3>1, <3>2 DEF FanoutWorkspaceRoleNext
      <3>4. /\ cursor' = cursor + 1 /\ policy_cursor' = policy_cursor
            /\ ~ (cursor + 1 \in affecting /\ demand.index_revision < cursor + 1)
        BY <1>6, <3>1, <3>2, <3>3 DEF Fanout, FanoutNext
      <3>5. PolicyFollows'
        BY <1>1, <1>3, <2>3, <3>4 DEF TargetFollows, PolicyFollows
      <3>6. EvidenceFollows'
        <4>1. CASE target.evidence = evidence  BY <1>1, <1>3, <4>1 DEF EvidenceFollows
        <4>2. CASE target.evidence # evidence
          <5>1. PICK r \in affecting : r > cursor /\ r > demand.index_revision
            BY <2>3, <4>2 DEF TargetFollows, EvidenceFollows
          <5>2. r # cursor + 1  BY <1>2, <3>4, <5>1
          <5>3. r > cursor'  BY <1>2, <3>4, <5>1, <5>2
          <5> QED  BY <1>3, <1>6, <5>1, <5>3 DEF EvidenceFollows
        <4> QED  BY <4>1, <4>2
      <3> QED  BY <3>5, <3>6
    <2>4. TargetFollows'  BY <1>6, <2>3 DEF TargetFollows, PlannedThrough
    <2> QED  BY <2>1, <2>2, <2>4
  <1> QED  BY <1>5, <1>6 DEF Fanout, FanoutNext, FanoutWorkspaceRoleNext

\* The dump expires between two runs, comes back, or its demand is begun anew by hand.
LEMMA DumpFollows ==
  ASSUME IInv, FInv, DumpIsKept, DumpExpires \/ DumpRestored \/ RestartExhaustedDemand
  PROVE  FInv'
  <1> USE DEF FInv
  <1>1. /\ target' = target /\ runs' = runs /\ slot' = slot /\ plan' = plan
        /\ UNCHANGED catalog /\ UNCHANGED cursors
    BY DEF DumpExpires, DumpRestored, RestartExhaustedDemand
  <1>2. demand \in DemandRow  BY DEF IInv, TypeOK
  <1>3. CASE DumpExpires
    <2>1. demand' = demand /\ live /\ ~ live'  BY <1>3 DEF DumpExpires
    <2>2. \A i \in 1..Len(runs) : ~ Active(i)  BY <2>1 DEF DumpIsKept
    <2>3. KeepsBooks(demand, demand') /\ (Decided' <=> Decided)
      BY <2>1 DEF KeepsBooks, Decided
    <2>4. slot'.state = "planning" => ~ Decided'  BY <1>1, <2>3 DEF PlanningIsOpen
    <2> QED  BY <1>1, <2>2, <2>3, <2>4, BooksStep DEF Active
  <1>4. ASSUME NEW reason, \A i \in 1..Len(runs) : ~ Active(i),
               demand' = [demand EXCEPT !.change_sequence = @ + 1, !.state = "preparing",
                                        !.reason = Because(reason), !.not_before = "due",
                                        !.first_event = "none"]
        PROVE  FInv'
    <2>1. /\ NotesOne(demand, demand') /\ demand'.index_revision = demand.index_revision
          /\ demand'.state = "preparing"
      <3> DEFINE why == Because(reason)
      <3> HIDE DEF why
      <3>1. demand' = [demand EXCEPT !.change_sequence = @ + 1, !.state = "preparing",
                                     !.reason = why, !.not_before = "due", !.first_event = "none"]
        BY <1>4 DEF why
      <3> QED  BY <1>2, <3>1 DEF NotesOne, DemandRow
    <2>2. ~ Decided'  BY <2>1 DEF Decided
    <2>3. cursor' <= revision /\ policy_cursor' <= policy  BY <1>1 DEF CountsFollow, cursors
    <2> QED  BY <1>1, <1>4, <2>1, <2>2, <2>3, NotingStep
  <1>5. CASE DumpRestored
    <2>1. \A i \in 1..Len(runs) : ~ Active(i)  BY <1>5 DEF DumpRestored, RunsArePending
    <2>2. CASE demand.state = "cannot_recompute"  BY <1>4, <1>5, <2>1, <2>2 DEF DumpRestored
    <2>3. CASE demand.state # "cannot_recompute"
      <3>1. demand' = demand  BY <1>5, <2>3 DEF DumpRestored
      <3>2. KeepsBooks(demand, demand') /\ (Decided' <=> Decided)
        BY <3>1 DEF KeepsBooks, Decided
      <3>3. slot'.state = "planning" => ~ Decided'  BY <1>1, <3>2 DEF PlanningIsOpen
      <3> QED  BY <1>1, <2>1, <3>2, <3>3, BooksStep DEF Active
    <2> QED  BY <2>2, <2>3
  <1>6. CASE RestartExhaustedDemand
    <2>1. \A i \in 1..Len(runs) : ~ Active(i)
      BY <1>6 DEF RestartExhaustedDemand, RunsArePending
    <2> QED  BY <1>4, <1>6, <2>1 DEF RestartExhaustedDemand
  <1> QED  BY <1>3, <1>5, <1>6

\* Claims, reconciliation, and deadlines that pass.
LEMMA SchedulingFollows ==
  ASSUME IInv, FInv, Scheduling \/ \E p \in Planners : ClaimExecutionSlot(p)
  PROVE  FInv'
  <1> USE DEF FInv
  <1>1. /\ UNCHANGED <<target, catalog, cursors>> /\ runs' = runs /\ live' = live
        /\ demand \in DemandRow
    BY DEF Scheduling, ReconcileSlots, PlanningLeaseLapses, NotBeforePasses, ClaimExecutionSlot,
           IInv, TypeOK
  <1>2. KeepsBooks(demand, demand') /\ demand'.state = demand.state
    <2>1. CASE demand' = demand  BY <2>1 DEF KeepsBooks
    <2>2. CASE NotBeforePasses  BY <1>1, <2>2 DEF NotBeforePasses, KeepsBooks, DemandRow
    <2> QED
      BY <2>1, <2>2 DEF Scheduling, ReconcileSlots, PlanningLeaseLapses, ClaimExecutionSlot
  <1>3. \A p \in Planners : plan'[p] = plan[p] \/ plan'[p].pc # "planned"
    <2>1. CASE plan' = plan  BY <2>1
    <2>2. CASE \E p \in Planners : ClaimExecutionSlot(p)
      <3>1. PICK p \in Planners : plan' = [plan EXCEPT ![p].pc = "claimed"]
        BY <2>2 DEF ClaimExecutionSlot
      <3>2. plan \in [Planners -> PlanState]  BY DEF IInv, TypeOK
      <3>3. plan'[p].pc = "claimed"  BY <3>1, <3>2 DEF PlanState
      <3> QED  BY <3>1, <3>2, <3>3
    <2> QED
      BY <2>1, <2>2 DEF Scheduling, ReconcileSlots, PlanningLeaseLapses, NotBeforePasses
  <1>4. slot'.state = "planning" => ~ Decided
    <2>1. CASE slot'.state = slot.state  BY <2>1 DEF PlanningIsOpen
    <2>2. CASE ReconcileSlots  BY <2>2 DEF ReconcileSlots, NoSlot
    <2>3. CASE PlanningLeaseLapses
      <3>1. slot \in SlotRow  BY DEF IInv, TypeOK
      <3> QED  BY <2>1, <2>3, <3>1 DEF PlanningLeaseLapses, SlotRow
    <2>4. CASE \E p \in Planners : ClaimExecutionSlot(p)
      BY <2>4 DEF ClaimExecutionSlot, Decided
    <2> QED  BY <2>1, <2>2, <2>3, <2>4 DEF Scheduling, NotBeforePasses
  <1>5. \A i \in 1..Len(runs') : Active(i)' =>
           /\ i \in 1..Len(runs) /\ Active(i) /\ live'
           /\ demand'.state \in {"queued", "running", "coalescing"}
    BY <1>1, <1>2 DEF Active, RunsArePending
  <1>6. Decided' <=> Decided  BY <1>2 DEF Decided
  <1> QED  BY <1>1, <1>2, <1>3, <1>4, <1>5, <1>6, BooksStep

\* A planner that fails, loses its slot or dies leaves the books as they are.
LEMMA GivingUpFollows ==
  ASSUME IInv, FInv, NEW p \in Planners, PlannerCrashes(p) \/ \E error : GiveUp(p, error)
  PROVE  FInv'
  <1> USE DEF FInv
  <1>1. /\ UNCHANGED <<target, catalog, cursors>> /\ runs' = runs /\ live' = live
        /\ plan' = [plan EXCEPT ![p] = IdlePlan]
    BY DEF GiveUp, PlannerCrashes
  <1>2. demand \in DemandRow /\ plan \in [Planners -> PlanState]  BY DEF IInv, TypeOK
  <1>3. \A q \in Planners : plan'[q] = plan[q] \/ plan'[q].pc # "planned"
    <2>1. \A q \in Planners : plan'[q] = IF q = p THEN IdlePlan ELSE plan[q]  BY <1>1, <1>2
    <2> QED  BY <2>1 DEF IdlePlan
  <1>4. CASE demand' = demand /\ (slot' = slot \/ slot' = NoSlot)
    <2>1. KeepsBooks(demand, demand') /\ (Decided' <=> Decided)
      BY <1>4 DEF KeepsBooks, Decided
    <2>2. slot'.state = "planning" => ~ Decided'
      BY <1>4, <2>1 DEF PlanningIsOpen, NoSlot
    <2>3. \A i \in 1..Len(runs') : Active(i)' =>
             /\ i \in 1..Len(runs) /\ Active(i) /\ live'
             /\ demand'.state \in {"queued", "running", "coalescing"}
      BY <1>1, <1>4 DEF Active, RunsArePending
    <2> QED  BY <1>1, <1>3, <2>1, <2>2, <2>3, BooksStep
  <1>5. CASE /\ HoldsSlot(p) /\ slot' = NoSlot
             /\ demand' = RuntimeFailure(demand, "planning_retry", Cause, TRUE)
    <2>1. /\ KeepsBooks(demand, demand')
          /\ demand'.state \in {"cannot_recompute", "retry_exhausted", "retry_wait"}
      BY <1>2, <1>5, BooksKept
    <2>2. ~ Decided' /\ slot'.state # "planning"  BY <1>5, <2>1 DEF Decided, NoSlot
    <2>3. \A i \in 1..Len(runs) : ~ Active(i)
      BY <1>5, NoRunInProgress DEF HoldsSlot, IInv
    <2> QED  BY <1>1, <1>3, <2>1, <2>2, <2>3, BooksStep DEF Active
  <1> QED  BY <1>4, <1>5 DEF GiveUp, PlannerCrashes

LEMMA InspectionFollows ==
  ASSUME IInv, FInv, NEW p \in Planners, RegisterInspection(p)
  PROVE  FInv'
  <1> USE DEF FInv
  <1>1. /\ UNCHANGED <<target, catalog, cursors>> /\ runs' = runs /\ slot' = slot
        /\ HoldsSlot(p) /\ demand.inspection = "none"
    BY DEF RegisterInspection
  <1>2. demand \in DemandRow /\ plan \in [Planners -> PlanState]  BY DEF IInv, TypeOK
  <1>3. \A i \in 1..Len(runs) : ~ Active(i)
    BY <1>1, NoRunInProgress DEF HoldsSlot, IInv
  <1>4. CASE /\ demand' = [demand EXCEPT !.inspection = "registered", !.index_revision = revision,
                                         !.change_sequence = @ + 1, !.state = "preparing",
                                         !.not_before = "due"]
             /\ plan' = plan
    <2>1. /\ NotesOne(demand, demand') /\ demand'.index_revision = revision
          /\ demand'.state = "preparing"
      BY <1>2, <1>4 DEF NotesOne, DemandRow
    <2>2. ~ Decided'  BY <2>1 DEF Decided
    <2>3. cursor' <= revision /\ policy_cursor' <= policy  BY <1>1 DEF CountsFollow, cursors
    <2> QED  BY <1>1, <1>3, <1>4, <2>1, <2>2, <2>3, NotingStep
  <1>5. CASE /\ demand' = [demand EXCEPT !.state = "cannot_recompute",
                                         !.reason = Because("settled")]
             /\ plan' = [plan EXCEPT ![p].pc = "failed"]
    <2>1. KeepsBooks(demand, demand') /\ demand'.state = "cannot_recompute"
      BY <1>2, <1>5 DEF KeepsBooks, DemandRow
    <2>2. \A q \in Planners : plan'[q] = plan[q] \/ plan'[q].pc # "planned"
      <3>1. plan'[p].pc = "failed"  BY <1>2, <1>5 DEF PlanState
      <3>2. \A q \in Planners \ {p} : plan'[q] = plan[q]  BY <1>2, <1>5
      <3> QED  BY <3>1, <3>2
    <2>3. ~ Decided'  BY <2>1 DEF Decided
    <2> QED  BY <1>1, <1>3, <2>1, <2>2, <2>3, BooksStep DEF Active
  <1> QED  BY <1>4, <1>5 DEF RegisterInspection

LEMMA SnapshotFollows ==
  ASSUME IInv, FInv, NEW p \in Planners, Snapshot(p)
  PROVE  FInv'
  <1> USE DEF FInv
  <1> DEFINE made == [evidence |-> evidence, policy |-> policy, cause |-> Cause]
             work == [pc |-> "planned", sequence |-> demand.change_sequence,
                      revision |-> revision, target |-> made]
  <1>1. /\ demand' = demand /\ target' = target /\ runs' = runs /\ slot' = slot
        /\ UNCHANGED catalog /\ UNCHANGED cursors /\ live' = live
        /\ demand.inspection = "registered" /\ plan' = [plan EXCEPT ![p] = work]
    BY DEF Snapshot
  <1>2. /\ evidence' = evidence /\ revision' = revision /\ affecting' = affecting
        /\ policy' = policy /\ cursor' = cursor /\ policy_cursor' = policy_cursor
    BY <1>1 DEF catalog, cursors
  <1>3. plan \in [Planners -> PlanState] /\ revision \in Nat  BY DEF IInv, TypeOK
  <1>4. work.revision = revision /\ work.target.evidence = evidence  OBVIOUS
  <1>5. \A q \in Planners : plan'[q] = IF q = p THEN work ELSE plan[q]  BY <1>1, <1>3
  <1> HIDE DEF work
  <1>6. PlansKnow'  BY <1>1, <1>2, <1>3, <1>4, <1>5 DEF PlansKnow
  <1>7. CountsFollow' /\ RunsArePending' /\ PlanningIsOpen' /\ DecidedIsPlanned'
    BY <1>1, <1>2
    DEF CountsFollow, RunsArePending, PlanningIsOpen, DecidedIsPlanned, Decided, PlannedThrough,
        Active
  <1>8. TargetFollows'
    BY <1>1, <1>2 DEF TargetFollows, PlannedThrough, EvidenceFollows, PolicyFollows
  <1> QED  BY <1>6, <1>7, <1>8

\* An adopted plan is of the newest revision and of all changes, and so is its target.
LEMMA AdoptionFollows ==
  ASSUME IInv, FInv, NEW p \in Planners, AdoptNewRun(p) \/ AdoptExistingRun(p)
  PROVE  FInv'
  <1> USE DEF FInv
  <1>1. /\ UNCHANGED catalog /\ UNCHANGED cursors /\ live' = live
        /\ plan[p].pc = "planned" /\ Refusal(p) = "none"
        /\ plan' = [plan EXCEPT ![p] = IdlePlan]
    BY DEF AdoptNewRun, AdoptExistingRun
  <1>2. /\ plan[p].sequence = demand.change_sequence /\ plan[p].target.policy = policy
        /\ live /\ plan[p].revision = revision /\ HoldsSlot(p)
    BY <1>1 DEF Refusal
  <1>3. /\ evidence' = evidence /\ revision' = revision /\ affecting' = affecting
        /\ policy' = policy /\ cursor' = cursor /\ policy_cursor' = policy_cursor
    BY <1>1 DEF catalog, cursors
  <1>4. /\ demand \in DemandRow /\ plan \in [Planners -> PlanState] /\ revision \in Nat
        /\ demand.generation \in Nat /\ demand.change_sequence \in Nat
    BY DEF IInv, TypeOK, DemandRow
  <1>5. demand.inspection = "registered" /\ plan[p].target.evidence = evidence
    BY <1>1, <1>2 DEF PlansKnow
  <1>6. \A i \in 1..Len(runs) : ~ Active(i)
    BY <1>2, NoRunInProgress DEF HoldsSlot, IInv
  <1> DEFINE seq == plan[p].sequence
             st == IF demand.state = "running" THEN "running" ELSE "preparing"
             new == [demand EXCEPT !.generation = @ + 1, !.retry_attempt = 0, !.state = st]
             row == IF TargetIsNew(p) THEN new ELSE demand
  <1>7. FreezeTarget(p) = [row EXCEPT !.planned_sequence = seq, !.index_revision = revision,
                                      !.first_event = "none", !.not_before = "due"]
    <2>1. st = IF demand.state = "running" THEN demand.state ELSE "preparing"  OBVIOUS
    <2> HIDE DEF st, seq
    <2> QED  BY <2>1 DEF FreezeTarget, seq
  <1>8. /\ FreezeTarget(p).planned_sequence = demand.change_sequence
        /\ FreezeTarget(p).change_sequence = demand.change_sequence
        /\ FreezeTarget(p).index_revision = revision
        /\ FreezeTarget(p).inspection = "registered"
        /\ FreezeTarget(p).generation > 0
        /\ TargetIsNew(p) => FreezeTarget(p).generation = demand.generation + 1
    <2>1. st \in {"running", "preparing"}  OBVIOUS
    <2> HIDE DEF st
    <2>2. /\ new.change_sequence = demand.change_sequence /\ new.inspection = demand.inspection
          /\ new.generation = demand.generation + 1
          /\ \A s, r : LET f == [new EXCEPT !.planned_sequence = s, !.index_revision = r,
                                            !.first_event = "none", !.not_before = "due"]
                       IN  /\ f.planned_sequence = s /\ f.index_revision = r
                           /\ f.change_sequence = new.change_sequence
                           /\ f.inspection = new.inspection /\ f.generation = new.generation
      BY <1>4 DEF DemandRow
    <2>3. \A s, r : LET f == [demand EXCEPT !.planned_sequence = s, !.index_revision = r,
                                            !.first_event = "none", !.not_before = "due"]
                    IN  /\ f.planned_sequence = s /\ f.index_revision = r
                        /\ f.change_sequence = demand.change_sequence
                        /\ f.inspection = demand.inspection /\ f.generation = demand.generation
      BY <1>4 DEF DemandRow
    <2>4. seq = demand.change_sequence  BY <1>2
    <2> HIDE DEF new, seq
    <2>5. CASE TargetIsNew(p)  BY <1>4, <1>5, <1>7, <2>1, <2>2, <2>4, <2>5
    <2>6. CASE ~ TargetIsNew(p)
      <3>1. demand.generation # 0  BY <2>6 DEF TargetIsNew
      <3> QED  BY <1>4, <1>5, <1>7, <2>3, <2>4, <2>6, <3>1
    <2> QED  BY <2>5, <2>6
  <1>9. /\ FreezeTarget(p) \in DemandRow
        /\ \A i \in 1..Len(runs) : runs[i].generation <= demand.generation
        /\ \A i \in 1..Len(runs) : runs[i].generation \in Nat
    BY FrozenRow, NoLaterGeneration, KeyTypes DEF IInv
  <1> HIDE DEF row, new, st, seq
  <1>10. /\ target' = plan[p].target /\ slot'.state = "executing"
         /\ \A i \in 1..Len(runs') : Active(i)' => demand'.state = "queued"
         /\ demand'.planned_sequence = demand'.change_sequence
         /\ demand'.index_revision = revision /\ demand'.inspection = "registered"
         /\ demand'.generation > 0
    <2>1. CASE AdoptNewRun(p)
      <3>1. demand' = [FreezeTarget(p) EXCEPT !.state = "queued"]
        BY <2>1 DEF AdoptNewRun
      <3>2. target' = plan[p].target /\ slot'.state = "executing"
        BY <2>1 DEF AdoptNewRun, Bound
      <3> QED  BY <1>8, <1>9, <3>1, <3>2 DEF DemandRow
    <2>2. CASE AdoptExistingRun(p)
      <3>1. PICK i \in RunsOf(FreezeTarget(p)) : slot' = Bound(i)
        BY <2>2 DEF AdoptExistingRun
      <3>2. i \in 1..Len(runs) /\ runs[i].generation = FreezeTarget(p).generation
        BY <3>1 DEF RunsOf
      <3>3. ~ TargetIsNew(p)  BY <1>4, <1>8, <1>9, <3>2
      <3>4. target' = plan[p].target  BY <2>2, <3>3 DEF AdoptExistingRun, TargetIsNew
      <3>5. demand' = FreezeTarget(p) /\ runs' = runs /\ slot'.state = "executing"
        BY <2>2, <3>1 DEF AdoptExistingRun, Bound
      <3> QED  BY <1>6, <1>8, <3>4, <3>5 DEF Active
    <2> QED  BY <2>1, <2>2
  <1>11. CountsFollow'
    <2>1. demand'.change_sequence \in Nat
      BY <1>4, <1>8, <1>9 DEF AdoptNewRun, AdoptExistingRun, DemandRow
    <2> QED  BY <1>3, <1>4, <1>10, <2>1 DEF CountsFollow
  <1>12. PlansKnow'
    <2>1. \A q \in Planners : plan'[q] = IF q = p THEN IdlePlan ELSE plan[q]  BY <1>1, <1>4
    <2> QED  BY <1>3, <1>10, <2>1 DEF PlansKnow, IdlePlan
  <1>13. RunsArePending'
    <2>1. demand'.change_sequence \in Nat
      BY <1>4, <1>8, <1>9 DEF AdoptNewRun, AdoptExistingRun, DemandRow
    <2>2. ~ (demand'.change_sequence > demand'.planned_sequence)  BY <1>10, <2>1
    <2> QED  BY <1>1, <1>2, <1>10, <2>2 DEF RunsArePending
  <1>14. PlanningIsOpen' /\ DecidedIsPlanned'
    BY <1>10 DEF PlanningIsOpen, DecidedIsPlanned, PlannedThrough
  <1>15. TargetFollows'
    BY <1>2, <1>3, <1>5, <1>10 DEF TargetFollows, EvidenceFollows, PolicyFollows
  <1> QED  BY <1>11, <1>12, <1>13, <1>14, <1>15

\* Messages, claims and lapsed leases of a run leave its demand open.
LEMMA DeliveryFollows ==
  ASSUME IInv, FInv, NEW i \in 1..Len(runs), Delivery(i) \/ WorkerStep(i)
  PROVE  FInv'
  <1> USE DEF FInv
  <1>1. /\ UNCHANGED <<target, catalog, cursors>> /\ slot' = slot /\ plan' = plan
        /\ live' = live
    BY DEF Delivery, WorkerStep, IsPublished, DeliveryTimesOut, ClaimRun, RunLeaseLapses
  <1>2. /\ demand \in DemandRow /\ runs \in Seq(RunRow) /\ ActiveRunHoldsTheSlot
    BY DEF IInv, TypeOK
  <1>3. runs[i].status \in RunStates
    <2>1. runs[i] \in RunRow  BY <1>2, ElementOfSeq
    <2> QED  BY <2>1 DEF RunRow
  <1>4. /\ Len(runs') = Len(runs)
        /\ \A j \in 1..Len(runs) : runs'[j].status \in ActiveStates => runs[j].status \in ActiveStates
    <2>1. CASE ClaimRun(i)
      <3>1. RunMoves(i, "ANALYZING", "running") /\ Active(i)  BY <2>1 DEF ClaimRun
      <3>2. "ANALYZING" \in RunStates /\ "running" \in Tasks
        BY DEF RunStates, ActiveStates, Tasks
      <3> QED  BY <1>2, <3>1, <3>2, RunMoved DEF Active
    <2>2. CASE \E t \in Tasks : RunMoves(i, runs[i].status, t)
      BY <1>2, <1>3, <2>2, RunMoved
    <2>3. /\ IsPublished(i) => RunMoves(i, runs[i].status, "published")
          /\ DeliveryTimesOut(i) => RunMoves(i, runs[i].status, "overdue")
          /\ RunLeaseLapses(i) => RunMoves(i, runs[i].status, "lapsed")
      BY DEF IsPublished, DeliveryTimesOut, RunLeaseLapses
    <2>4. {"published", "overdue", "lapsed"} \subseteq Tasks  BY DEF Tasks
    <2> QED  BY <2>1, <2>2, <2>3, <2>4 DEF Delivery, WorkerStep
  <1>5. /\ KeepsBooks(demand, demand') /\ (Decided' => Decided)
        /\ demand'.state \in {demand.state, "running"}
    <2>1. CASE demand' = demand  BY <2>1 DEF KeepsBooks, Decided
    <2>2. CASE demand' = [demand EXCEPT !.state = "running", !.reason = Because("analysis_running"),
                                        !.not_before = "none"]
      <3>1. KeepsBooks(demand, demand') /\ demand'.state = "running"
        BY <1>2, <2>2 DEF KeepsBooks, DemandRow
      <3> QED  BY <3>1 DEF Decided
    <2> QED
      BY <2>1, <2>2
      DEF Delivery, WorkerStep, IsPublished, DeliveryTimesOut, ClaimRun, RunLeaseLapses
  <1>6. \A j \in 1..Len(runs') : Active(j)' =>
           /\ j \in 1..Len(runs) /\ Active(j) /\ live'
           /\ demand'.state \in {"queued", "running", "coalescing"}
    BY <1>1, <1>4, <1>5 DEF Active, RunsArePending
  <1>7. slot'.state = "planning" => ~ Decided'  BY <1>1, <1>5 DEF PlanningIsOpen
  <1> QED  BY <1>1, <1>5, <1>6, <1>7, BooksStep

\* What a comparison settles, before the changes noted meanwhile are restored.
LEMMA ComparisonBooks ==
  ASSUME TypeOK, NEW c \in Causes, NEW d \in Decisions(c)
  PROVE  \E after \in DemandRow : /\ ComparisonSettled(d) = RestorePending(demand, after)
                                  /\ KeepsBooks(demand, after)
  <1> DEFINE retried == RetryOrExhaust(demand, "comparison_retry", "initial")
             state == CASE d.verdict = "promote" -> "updated"
                        [] d.verdict = "incomparable" -> "needs_review"
                        [] d.verdict = "retain" -> "retained"
  <1>1. demand \in DemandRow  BY DEF TypeOK
  <1>2. "comparison_retry" \in ReasonKinds /\ "initial" \in Causes  BY DEF ReasonKinds, Causes
  <1>3. retried \in DemandRow /\ KeepsBooks(demand, retried)
    BY <1>1, <1>2, FailureRows, BooksKept DEF KeepsGeneration
  <1>4. Unavailable(demand) \in DemandRow /\ KeepsBooks(demand, Unavailable(demand))
    BY <1>1, QuietRows, BooksKept DEF KeepsKey
  <1>5. d.verdict \in {"promote", "incomparable", "retain"}
    <2>1. CASE d \in [verdict : {"retain", "incomparable"}, retry : {FALSE}]  BY <2>1, Zenon
    <2>2. CASE d \in [verdict : {"promote"}, retry : BOOLEAN]  BY <2>2, Zenon
    <2>3. CASE d = [verdict |-> "retain", retry |-> TRUE]
      <3>1. d.verdict = "retain"  BY <2>3, Zenon
      <3> QED  BY <3>1
    <2>4. \/ d \in [verdict : {"retain", "incomparable"}, retry : {FALSE}]
          \/ d \in [verdict : {"promote"}, retry : BOOLEAN]
          \/ d = [verdict |-> "retain", retry |-> TRUE]
      BY Zenon DEF Decisions
    <2> QED  BY <2>1, <2>2, <2>3, <2>4
  <1>6. state \in AtRest  BY <1>5 DEF AtRest
  <1>7. Settled(demand, state) \in DemandRow /\ KeepsBooks(demand, Settled(demand, state))
    <2> HIDE DEF state
    <2> QED  BY <1>1, <1>6, QuietRows, BooksKept DEF KeepsKey
  <1>8. \/ ComparisonSettled(d) = RestorePending(demand, Unavailable(demand))
        \/ ComparisonSettled(d) = RestorePending(demand, retried)
        \/ ComparisonSettled(d) = RestorePending(demand, Settled(demand, state))
    BY DEF ComparisonSettled
  <1> HIDE DEF retried, state
  <1> QED  BY <1>3, <1>4, <1>7, <1>8

\* The end of a run decides the demand only when it knows of no later change.
LEMMA EndingFollows ==
  ASSUME IInv, FInv, NEW i \in 1..Len(runs), Ending(i) \/ RecoverRun(i)
  PROVE  FInv'
  <1> USE DEF FInv
  <1>1. /\ UNCHANGED <<target, catalog, cursors>> /\ plan' = plan /\ live' = live
        /\ slot' = Released(i) /\ Active(i)
    BY DEF Ending, CompleteRun, FailRun, RecoverRun, MayFinish, Abandoned, Active, ActiveStates
  <1>2. /\ demand \in DemandRow /\ runs \in Seq(RunRow) /\ ActiveRunHoldsTheSlot /\ ActiveIsNewest
    BY DEF IInv, TypeOK
  <1>3. /\ live /\ demand.generation > 0
        /\ demand.change_sequence > demand.planned_sequence => demand.first_event = "noted"
        /\ demand.planned_sequence <= demand.change_sequence
    BY <1>1 DEF RunsArePending, CountsFollow
  <1>4. \A j \in 1..Len(runs') : ~ Active(j)'
    <2>1. \E s \in {"COMPLETE", "FAILED"} : RunMoves(i, s, "ended")
      BY DEF Ending, CompleteRun, FailRun, RecoverRun
    <2>2. PICK s \in {"COMPLETE", "FAILED"} : RunMoves(i, s, "ended")  BY <2>1
    <2>3. s \in RunStates /\ s \notin ActiveStates /\ "ended" \in Tasks
      BY DEF RunStates, ActiveStates, Tasks
    <2>4. /\ Len(runs') = Len(runs) /\ runs'[i].status = s
          /\ \A j \in 1..Len(runs) : j # i => runs'[j] = runs[j]
      BY <1>2, <2>2, <2>3, RunMoved
    <2>5. \A j \in 1..Len(runs) : j # i => ~ Active(j)  BY <1>1, <1>2 DEF ActiveIsNewest
    <2> QED  BY <2>3, <2>4, <2>5 DEF Active
  <1>5. slot'.state # "planning"
    BY <1>1, <1>2 DEF Released, ActiveRunHoldsTheSlot, NoSlot
  <1>6. Matches(i)  BY <1>1, <1>2 DEF ActiveRunHoldsTheSlot
  <1>7. \E after \in DemandRow : /\ KeepsBooks(demand, after)
                                 /\ demand' = RestorePending(demand, after)
    <2>0. runs[i].cause \in Causes
      <3>1. runs[i] \in RunRow  BY <1>2, ElementOfSeq
      <3> QED  BY <3>1 DEF RunRow
    <2>1. ASSUME NEW retryable \in BOOLEAN, demand' = ExecutionFailure(runs[i].cause, retryable)
          PROVE  \E after \in DemandRow : /\ KeepsBooks(demand, after)
                                          /\ demand' = RestorePending(demand, after)
      <3>1. PICK after : after = RuntimeFailure(demand, "execution_retry", runs[i].cause, retryable)
        OBVIOUS
      <3>2. KeepsBooks(demand, after)  BY <1>2, <3>1, BooksKept
      <3>3. after \in DemandRow
        <4>1. "execution_retry" \in ReasonKinds  BY DEF ReasonKinds
        <4> QED  BY <1>2, <2>0, <3>1, <4>1, FailureRows DEF KeepsGeneration
      <3> QED  BY <2>1, <3>1, <3>2, <3>3 DEF ExecutionFailure
    <2>2. ASSUME NEW d \in Decisions(runs[i].cause), demand' = ComparisonSettled(d)
          PROVE  \E after \in DemandRow : /\ KeepsBooks(demand, after)
                                          /\ demand' = RestorePending(demand, after)
      <3>1. PICK after \in DemandRow : /\ ComparisonSettled(d) = RestorePending(demand, after)
                                       /\ KeepsBooks(demand, after)
        BY <1>2, <2>0, ComparisonBooks DEF IInv
      <3> QED  BY <2>2, <3>1
    <2> QED
      BY <1>6, <2>1, <2>2 DEF Ending, CompleteRun, FailRun, RecoverRun
  <1>8. /\ KeepsBooks(demand, demand')
        /\ demand'.state = "coalescing" \/ demand.change_sequence = demand.planned_sequence
    BY <1>2, <1>3, <1>7, RestoredBooks
  <1>9. Decided' => Decided \/ PlannedThrough
    BY <1>3, <1>8 DEF Decided, PlannedThrough
  <1>10. \A j \in 1..Len(runs') : Active(j)' =>
            /\ j \in 1..Len(runs) /\ Active(j) /\ live'
            /\ demand'.state \in {"queued", "running", "coalescing"}
    BY <1>4
  <1>11. \A p \in Planners : plan'[p] = plan[p] \/ plan'[p].pc # "planned"  BY <1>1
  <1>12. slot'.state = "planning" => ~ Decided'  BY <1>5
  <1> HIDE DEF FInv
  <1> QED  BY <1>1, <1>8, <1>9, <1>10, <1>11, <1>12, BooksStep

\* A review only turns a decision into another one.
LEMMA ReviewFollows ==
  ASSUME IInv, FInv, NEW i \in 1..Len(runs), ReviewPromotes(i)
  PROVE  FInv'
  <1>1. /\ UNCHANGED <<target, catalog, cursors>> /\ plan' = plan /\ live' = live
        /\ slot' = slot /\ runs' = runs
    BY DEF ReviewPromotes
  <1>2. demand \in DemandRow  BY DEF IInv, TypeOK
  <1>3. \/ demand' = demand
        \/ demand.state = "needs_review" /\ demand' = Settled(demand, "updated")
    BY DEF ReviewPromotes
  <1>4. /\ KeepsBooks(demand, demand') /\ (Decided' => Decided)
        /\ demand' = demand \/ Decided
    <2>1. CASE demand' = demand  BY <2>1 DEF KeepsBooks, Decided
    <2>2. CASE demand.state = "needs_review" /\ demand' = Settled(demand, "updated")
      BY <1>2, <2>2, BooksKept DEF Decided
    <2> QED  BY <1>3, <2>1, <2>2
  <1>5. slot'.state = "planning" => ~ Decided'  BY <1>1, <1>4 DEF PlanningIsOpen, FInv
  <1>6. \A j \in 1..Len(runs') : Active(j)' =>
           /\ j \in 1..Len(runs) /\ Active(j) /\ live'
           /\ demand'.state \in {"queued", "running", "coalescing"}
    <2>1. ASSUME NEW j \in 1..Len(runs), Active(j)
          PROVE  live /\ demand'.state \in {"queued", "running", "coalescing"}
      <3>1. live /\ demand.state \in {"queued", "running", "coalescing"}
        BY <2>1 DEF FInv, RunsArePending
      <3>2. ~ Decided  BY <3>1 DEF Decided
      <3> QED  BY <1>4, <3>1, <3>2
    <2> QED  BY <1>1, <2>1 DEF Active
  <1>7. \A p \in Planners : plan'[p] = plan[p] \/ plan'[p].pc # "planned"  BY <1>1
  <1>8. Decided' => Decided \/ PlannedThrough  BY <1>4
  <1> QED  BY <1>1, <1>4, <1>5, <1>6, <1>7, <1>8, BooksStep

LEMMA StutterFollows == ASSUME FInv, UNCHANGED vars PROVE FInv'
  <1>1. /\ demand' = demand /\ target' = target /\ runs' = runs /\ slot' = slot /\ plan' = plan
        /\ evidence' = evidence /\ revision' = revision /\ affecting' = affecting
        /\ policy' = policy /\ cursor' = cursor /\ policy_cursor' = policy_cursor
        /\ live' = live
    BY DEF vars, catalog, cursors
  <1>2. CountsFollow' /\ PlansKnow'  BY <1>1 DEF FInv, CountsFollow, PlansKnow
  <1>3. RunsArePending' /\ PlanningIsOpen'
    BY <1>1 DEF FInv, RunsArePending, PlanningIsOpen, Active, Decided
  <1>4. DecidedIsPlanned'  BY <1>1 DEF FInv, DecidedIsPlanned, Decided, PlannedThrough
  <1>5. TargetFollows'
    BY <1>1 DEF FInv, TargetFollows, PlannedThrough, EvidenceFollows, PolicyFollows
  <1> QED  BY <1>2, <1>3, <1>4, <1>5 DEF FInv

LEMMA StepFresh == IInv /\ FInv /\ [Next]_vars /\ DumpIsKept => FInv'
  <1> SUFFICES ASSUME IInv, FInv, [Next]_vars, DumpIsKept PROVE FInv'  OBVIOUS
  <1>1. CASE Environment  BY <1>1, CatalogMoves, DumpFollows DEF Environment
  <1>2. CASE Fanout  BY <1>2, FanoutFollows
  <1>3. CASE Scheduling  BY <1>3, SchedulingFollows
  <1>4. ASSUME NEW p \in Planners, ClaimExecutionSlot(p) \/ PlannerStep(p) \/ PlannerCrashes(p)
        PROVE  FInv'
    <2>1. CASE ClaimExecutionSlot(p)  BY <2>1, SchedulingFollows
    <2>2. CASE RegisterInspection(p)  BY <2>2, InspectionFollows
    <2>3. CASE Snapshot(p)  BY <2>3, SnapshotFollows
    <2>4. CASE AdoptNewRun(p) \/ AdoptExistingRun(p)  BY <2>4, AdoptionFollows
    <2>5. CASE PlannerCrashes(p)  BY <2>5, GivingUpFollows
    <2>6. CASE AdoptionRefused(p) \/ SlotLost(p) \/ PlanningFails(p)
      <3>1. \E error : GiveUp(p, error)  BY <2>6 DEF AdoptionRefused, SlotLost, PlanningFails
      <3> QED  BY <3>1, GivingUpFollows
    <2> QED  BY <1>4, <2>1, <2>2, <2>3, <2>4, <2>5, <2>6 DEF PlannerStep
  <1>5. ASSUME NEW i \in 1..Len(runs),
               \/ Delivery(i) \/ WorkerStep(i) \/ Ending(i) \/ RecoverRun(i) \/ ReviewPromotes(i)
        PROVE  FInv'
    <2>1. CASE Delivery(i) \/ WorkerStep(i)  BY <2>1, DeliveryFollows
    <2>2. CASE Ending(i) \/ RecoverRun(i)  BY <2>2, EndingFollows
    <2>3. CASE ReviewPromotes(i)  BY <2>3, ReviewFollows
    <2> QED  BY <1>5, <2>1, <2>2, <2>3
  <1>6. CASE UNCHANGED vars  BY <1>6, StutterFollows
  <1> QED  BY <1>1, <1>2, <1>3, <1>4, <1>5, <1>6 DEF Next

\* A demand with a target whose changes are all fanned out has nothing left to follow.
LEMMA FollowedIsFresh == IInv /\ FInv => FreshWhenDecided
  <1> SUFFICES ASSUME IInv, FInv, Decided, FannedOut
               PROVE  target.evidence = evidence /\ target.policy = policy
    BY DEF FreshWhenDecided
  <1>1. EvidenceFollows /\ PolicyFollows
    BY DEF FInv, DecidedIsPlanned, TargetFollows
  <1>2. /\ cursor \in Nat /\ policy_cursor \in Nat /\ affecting \subseteq Nat
    BY DEF IInv, TypeOK
  <1>3. \A r \in affecting : ~ (r > cursor)
    BY <1>2 DEF FannedOut, FInv, CountsFollow
  <1>4. ~ (policy_cursor < policy)  BY <1>2 DEF FannedOut
  <1> QED  BY <1>1, <1>3, <1>4 DEF EvidenceFollows, PolicyFollows

\* A demand is not left decided on old symbols or old roles, if no dump expires
\* while its analysis runs.  That is the only way to lose a change: what the
\* hazard at settle_demand_after_comparison tells can have no other beginning.
THEOREM NothingIsLost == Spec /\ [][DumpIsKept]_vars => []FreshWhenDecided
  <1>1. IInv /\ FInv /\ [Next]_vars /\ [DumpIsKept]_vars => FInv'
    <2>1. CASE DumpIsKept  BY <2>1, StepFresh
    <2>2. CASE UNCHANGED vars  BY <2>2, StutterFollows
    <2> QED  BY <2>1, <2>2
  <1>2. IInv /\ FInv => FreshWhenDecided  BY FollowedIsFresh
  <1>3. Init => FInv  BY InitFresh
  <1> QED  BY <1>1, <1>2, <1>3, Invariance, PTL DEF Spec

\* Where dumps do not expire, a decision is always up to date.
THEOREM DecisionsAreFresh == "expiry" \notin EventKinds => (Spec => []FreshWhenDecided)
  <1> SUFFICES ASSUME "expiry" \notin EventKinds PROVE Spec => []FreshWhenDecided  OBVIOUS
  <1>1. [Next]_vars => [DumpIsKept]_vars
    <2> SUFFICES ASSUME Next PROVE DumpIsKept \/ UNCHANGED vars  OBVIOUS
    <2>1. live' \in {live, TRUE}
      BY DEF Next, Environment, Fanout, Scheduling, PlannerStep, Delivery, WorkerStep, Ending,
             CatalogChanges, DeclareWorkspaceModuleRole, DumpExpires, DumpRestored,
             RestartExhaustedDemand, FanoutNext, FanoutWorkspaceRoleNext, ReconcileSlots,
             PlanningLeaseLapses, NotBeforePasses, ClaimExecutionSlot, PlannerCrashes,
             RegisterInspection, Snapshot, AdoptNewRun, AdoptExistingRun, AdoptionRefused,
             SlotLost, PlanningFails, GiveUp, IsPublished, DeliveryTimesOut, RunLeaseLapses,
             ClaimRun, CompleteRun, FailRun, RecoverRun, ReviewPromotes, Event
    <2> QED  BY <2>1 DEF DumpIsKept
  <1>2. Spec => [][DumpIsKept]_vars  BY <1>1, PTL DEF Spec
  <1> QED  BY <1>2, NothingIsLost, PTL
=============================================================================
