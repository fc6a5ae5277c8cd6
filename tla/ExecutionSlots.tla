---------------------------- MODULE ExecutionSlots ----------------------------
(***************************************************************************)
(* The capacity of automatic analysis (analysis_scheduler.py): which of    *)
(* the waiting demands of all workspaces get an execution slot.  Planner   *)
(* processes (automatic_main.py, automatic_analysis.py) claim a page of    *)
(* slots in one transaction, work off their claims, in any order here, and *)
(* turn each into a running analysis or give it back.                      *)
(*                                                                         *)
(* AnalysisDemand follows one demand through all its states; here a demand *)
(* is only at rest, waiting for a time to come, waiting for a slot, or     *)
(* being run, and there are many of them.                                  *)
(***************************************************************************)
EXTENDS Integers, FiniteSets

CONSTANTS Planners,          \* automatic planner processes
          NoPlanner,         \* a slot that is free
          Demands,
          Workspaces,        \* workspace ids, which the rotation compares
          Home,              \* Home[d]: the workspace of demand d
          Arrival,           \* the order in which the first demands were made
          GlobalLimit,       \* min(automatic_analysis_global_limit, .._capacity)
          WorkspaceLimit,    \* automatic_analysis_workspace_limit
          ReleaseLimit,      \* automatic_analysis_release_limit
          EnumerationLimit,  \* automatic_analysis_enumeration_limit
          MaxEvents,         \* bound: new work, changes and retries after the start
          MaxFaults          \* bound: lapsed leases and planner crashes

\* The ranges are those of config.py; a workspace id is never the smallest value.
ASSUME SlotAssumption == /\ Workspaces \subseteq Nat \ {0}
                         /\ IsFiniteSet(Demands) /\ IsFiniteSet(Workspaces)
                         /\ Home \in [Demands -> Workspaces]
                         /\ Arrival \in [Demands -> Nat]
                         /\ \A d, e \in Demands : Arrival[d] = Arrival[e] => d = e
                         /\ NoPlanner \notin Planners
                         /\ GlobalLimit \in Nat \ {0}
                         /\ WorkspaceLimit \in Nat \ {0}
                         /\ ReleaseLimit \in Nat \ {0}
                         /\ EnumerationLimit \in Nat \ {0}
                         /\ MaxEvents \in Nat
                         /\ MaxFaults \in Nat

VARIABLES demand,            \* demand[d]: what the scheduler reads of it
          older,             \* the order of updated_at among the waiting demands
          slot,              \* slot[d]: the analysis_execution_slots row of d
          running,           \* the demands that have a run that is not terminal
          last_workspace_id, \* analysis_scheduler_state, 0 before the first claim
          claims,            \* claims[p]: the claims that planner p has yet to work off
          events,            \* events left to happen
          faults,            \* failures left to happen
          passed             \* history: passed[w] is how many slots went to others
                             \* while w had work it could have been given

budgets == <<events, faults>>
vars == <<demand, older, slot, running, last_workspace_id, claims, budgets, passed>>

-----------------------------------------------------------------------------
\* "ready": preparing, coalescing or retry_wait, and not_before has come;
\* "later": the same, not_before to come; "away": any other state.
\* priority is 0 for the reasons new_dump and manual; frozen: generation > 0.
DemandRow == [state : {"away", "later", "ready"}, priority : {0, 1}, frozen : BOOLEAN]
\* The token of a claim is its owner: a planner claims again only when all it
\* had claimed is behind it, so it never holds two claims of one demand.
SlotRow == [state : {"free", "planning", "executing"}, owner : Planners \cup {NoPlanner},
            live : BOOLEAN]
Free == [state |-> "free", owner |-> NoPlanner, live |-> FALSE]
NewDump == [state |-> "ready", priority |-> 0, frozen |-> FALSE]

TypeOK == /\ demand \in [Demands -> DemandRow]
          /\ older \subseteq Demands \X Demands
          /\ slot \in [Demands -> SlotRow]
          /\ running \subseteq Demands
          /\ last_workspace_id \in Workspaces \cup {0}
          /\ claims \in [Planners -> SUBSET Demands]
          /\ events \in Nat
          /\ faults \in Nat
          /\ passed \in [Workspaces -> Nat]

\* The planner starts with a backlog of new dumps, as after a pause.
Init == /\ demand = [d \in Demands |-> NewDump]
        /\ older = {w \in Demands \X Demands : Arrival[w[1]] < Arrival[w[2]]}
        /\ slot = [d \in Demands |-> Free]
        /\ running = {}
        /\ last_workspace_id = 0
        /\ claims = [p \in Planners |-> {}]
        /\ events = MaxEvents
        /\ faults = MaxFaults
        /\ passed = [w \in Workspaces |-> 0]

-----------------------------------------------------------------------------
(* The choice that claim_execution_slots makes.                            *)

\* Mutant: a planning slot is never reclaimed.
Held_LeaseIgnored == {d \in Demands : \/ slot[d].state = "planning"
                                      \/ slot[d].state = "executing" /\ d \in running}
\* The slots that _reconcile_slots leaves.  An executing slot goes with its run.
Held == {d \in Demands : \/ slot[d].state = "planning" /\ slot[d].live
                         \/ slot[d].state = "executing" /\ d \in running}
Occupied(w) == Cardinality({d \in Held : Home[d] = w})
Room == LET left == GlobalLimit - Cardinality(Held)
        IN  IF left < 0 THEN 0 ELSE IF left < ReleaseLimit THEN left ELSE ReleaseLimit

Eligible == {d \in Demands : demand[d].state = "ready"} \ Held

\* The order inside a workspace: priority, then updated_at.
Ahead(d, e) == \/ demand[d].priority < demand[e].priority
               \/ /\ demand[d].priority = demand[e].priority
                  /\ <<d, e>> \in older
\* workspace_rank of every row of the enumeration.
Ranked == LET eligible == Eligible
          IN  [d \in eligible |->
                 1 + Cardinality({e \in eligible : Home[e] = Home[d] /\ Ahead(e, d)})]

\* Mutant: every call starts with the first workspace.
Turn_NotRotating(w) == 0
\* The order of the workspaces: those after the last one served come first.
Turn(w) == IF w > last_workspace_id THEN 0 ELSE 1
\* The order of the page, and of the passes over it: all first demands of the
\* workspaces, then all second ones.
Before(rank, d, e) ==
    \/ rank[d] < rank[e]
    \/ /\ rank[d] = rank[e]
       /\ \/ Turn(Home[d]) < Turn(Home[e])
          \/ Turn(Home[d]) = Turn(Home[e]) /\ Home[d] < Home[e]
First(rank, n, S) == {d \in S : Cardinality({e \in S : Before(rank, e, d)}) < n}

Rows(rank) == {d \in DOMAIN rank : rank[d] <= WorkspaceLimit}
\* Mutants: full workspaces stay in; a workspace may have one slot less.
Open_Full(rank, page) == page
Open_OneShort(rank, page) == {d \in page : Occupied(Home[d]) + rank[d] < WorkspaceLimit}
\* Only after the page is read are the workspaces that have all they may have
\* left out.
Open(rank, page) == {d \in page : Occupied(Home[d]) + rank[d] <= WorkspaceLimit}

\* A demand whose workspace could be given more than it has.
Claimable == {d \in Eligible : Occupied(Home[d]) < WorkspaceLimit}

-----------------------------------------------------------------------------
\* updated_at is now: d is younger than all others that wait, if it waits.
Touch(d) ==
    older' = {w \in older : d \notin {w[1], w[2]}}
             \cup {<<e, d>> : e \in {e \in Demands \ {d} : /\ demand[e].state # "away"
                                                         /\ demand'[d].state # "away"}}

\* claim_execution_slots, under the advisory lock: reconciles, chooses, and
\* writes the new slots and the rotation in one transaction.
ClaimSlots(p) ==
    /\ claims[p] = {}
    /\ Room > 0
    /\ \E rank \in {Ranked} :
       \E page \in {First(rank, EnumerationLimit, Rows(rank))} :
       \E open \in {Open(rank, page)} :
       \E granted \in {First(rank, Room, open)} :
          /\ slot' = [d \in Demands |->
                         IF d \in granted
                         THEN [state |-> "planning", owner |-> p, live |-> TRUE]
                         ELSE IF d \in Held THEN slot[d] ELSE Free]
          /\ claims' = [claims EXCEPT ![p] = granted]
          /\ IF granted = {} THEN UNCHANGED last_workspace_id
             ELSE \E last \in granted :
                     /\ \A d \in granted \ {last} : Before(rank, d, last)
                     /\ last_workspace_id' = Home[last]
          /\ passed' = [w \in Workspaces |->
                          IF /\ \E d \in Claimable : Home[d] = w
                             /\ \A d \in granted : Home[d] # w
                          THEN passed[w] + Cardinality(granted) ELSE 0]
    /\ UNCHANGED <<demand, older, running, budgets>>

\* The same call when there is no room: it returns after _reconcile_slots.
ReconcileOnly(p) ==
    /\ claims[p] = {}
    /\ Room = 0
    /\ slot' = [d \in Demands |-> IF d \in Held THEN slot[d] ELSE Free]
    /\ UNCHANGED <<demand, older, running, last_workspace_id, claims, budgets, passed>>

\* The slot still is the claim's: what heartbeat_planning_slot and
\* bind_execution_slot require, apart from the lease.
Owns(p, d) == slot[d].state = "planning" /\ slot[d].owner = p

\* adopt_frozen_run and bind_execution_slot, in one transaction.
BindExecutionSlot(p, d) ==
    /\ d \in claims[p]
    /\ Owns(p, d) /\ slot[d].live
    /\ demand[d].state = "ready" /\ d \notin running
    /\ slot' = [slot EXCEPT ![d] = [state |-> "executing", owner |-> p, live |-> FALSE]]
    /\ demand' = [demand EXCEPT ![d].state = "away", ![d].frozen = TRUE]
    /\ Touch(d)
    /\ running' = running \cup {d}
    /\ claims' = [claims EXCEPT ![p] = @ \ {d}]
    /\ UNCHANGED <<last_workspace_id, budgets, passed>>

\* What a settlement makes of a demand: it rests, or there is more to do (a retry,
\* or a change that came meanwhile) and it waits for its time.
SettlesOrRetries(d) ==
    \/ /\ demand' = [demand EXCEPT ![d].state = "away", ![d].priority = 1]
       /\ UNCHANGED events
    \/ /\ events > 0
       /\ demand' = [demand EXCEPT ![d].state = "later", ![d].priority = 1]
       /\ events' = events - 1

\* _process_claim after an exception: release_planning_slot asks for the token,
\* not for the lease.  The slot may be gone, or the plan stale: the lease lapsed
\* or something changed meanwhile.  Else the demand is settled: it retries later
\* or is out of attempts.
PlanIsStale(p, d) ==
    /\ d \in claims[p]
    /\ slot' = [slot EXCEPT ![d] = IF Owns(p, d) THEN Free ELSE @]
    /\ \/ ~(Owns(p, d) /\ slot[d].live) /\ UNCHANGED events
       \/ events > 0 /\ events' = events - 1
    /\ claims' = [claims EXCEPT ![p] = @ \ {d}]
    /\ UNCHANGED <<demand, older, running, last_workspace_id, faults, passed>>

PlanningFails(p, d) ==
    /\ d \in claims[p]
    /\ Owns(p, d)
    /\ slot' = [slot EXCEPT ![d] = Free]
    /\ SettlesOrRetries(d)
    /\ Touch(d)
    /\ claims' = [claims EXCEPT ![p] = @ \ {d}]
    /\ UNCHANGED <<running, last_workspace_id, faults, passed>>

\* The run ends: the worker or recover_expired_frozen_runs settles the demand
\* (at rest, or to be tried again) and deletes the slot of the run.
RunEnds(d) ==
    /\ d \in running
    /\ running' = running \ {d}
    /\ slot' = [slot EXCEPT ![d] = IF @.state = "executing" THEN Free ELSE @]
    /\ SettlesOrRetries(d)
    /\ Touch(d)
    /\ UNCHANGED <<last_workspace_id, claims, faults, passed>>

\* _note_change: an event of the catalog or the workspace.  A demand that was
\* frozen before waits for the end of its coalescing, at rest or waiting already;
\* a new dump stays ready, and goes to the end of those of its workspace.
NoteChange(d) ==
    /\ events > 0
    /\ d \notin running
    /\ demand' = IF demand[d].frozen
                 THEN [demand EXCEPT ![d].state = "later", ![d].priority = 1]
                 ELSE demand
    /\ Touch(d)
    /\ events' = events - 1
    /\ UNCHANGED <<slot, running, last_workspace_id, claims, faults, passed>>

\* restart_exhausted_demand (a manual request has priority) and ensure_demand of
\* a dump that was restored (which has not).
NewWork(d) ==
    /\ events > 0
    /\ demand[d].state = "away" /\ d \notin running
    /\ \E priority \in {0, 1} :
          demand' = [demand EXCEPT ![d].state = "ready", ![d].priority = priority]
    /\ Touch(d)
    /\ events' = events - 1
    /\ UNCHANGED <<slot, running, last_workspace_id, claims, faults, passed>>

NotBeforePasses(d) ==
    /\ demand[d].state = "later"
    /\ demand' = [demand EXCEPT ![d].state = "ready"]
    /\ UNCHANGED <<older, slot, running, last_workspace_id, claims, budgets, passed>>

\* lease_until passes: nobody is left to renew it.
LeaseLapses(d) ==
    /\ slot[d].state = "planning" /\ slot[d].live
    /\ d \notin claims[slot[d].owner]
    /\ slot' = [slot EXCEPT ![d].live = FALSE]
    /\ UNCHANGED <<demand, older, running, last_workspace_id, claims, budgets, passed>>

\* The same while the planner is at work: its thread could not renew it in time.
RenewalIsLate(d) ==
    /\ faults > 0
    /\ slot[d].state = "planning" /\ slot[d].live
    /\ slot' = [slot EXCEPT ![d].live = FALSE]
    /\ faults' = faults - 1
    /\ UNCHANGED <<demand, older, running, last_workspace_id, claims, events, passed>>

\* The process goes, and its heartbeats; it starts again with no claims.
PlannerCrashes(p) ==
    /\ faults > 0
    /\ claims[p] # {}
    /\ claims' = [claims EXCEPT ![p] = {}]
    /\ faults' = faults - 1
    /\ UNCHANGED <<demand, older, slot, running, last_workspace_id, events, passed>>

PlannerWorks(p) == \E d \in Demands : \/ BindExecutionSlot(p, d) \/ PlanIsStale(p, d)
                                      \/ PlanningFails(p, d)

Next == \/ \E p \in Planners : ClaimSlots(p) \/ ReconcileOnly(p) \/ PlannerWorks(p)
                               \/ PlannerCrashes(p)
        \/ \E d \in Demands : \/ RunEnds(d) \/ NoteChange(d) \/ NewWork(d)
                              \/ NotBeforePasses(d) \/ LeaseLapses(d) \/ RenewalIsLate(d)

\* automatic_main runs the planner again and again, every claim is worked off
\* by success or by failure, and every run ends: by its worker, or by recovery.
\* A lease that nobody renews lapses.
Fairness == /\ \A p \in Planners : WF_vars(ClaimSlots(p)) /\ WF_vars(PlannerWorks(p))
            /\ \A d \in Demands : /\ WF_vars(RunEnds(d)) /\ WF_vars(NotBeforePasses(d))
                                  /\ WF_vars(LeaseLapses(d))

Spec == Init /\ [][Next]_vars /\ Fairness

-----------------------------------------------------------------------------
\* However many planners claim at once, lose their leases, crash and come back
\* with old claims, the runs that are going on, and the plans being made, stay
\* within the two limits, and no run goes on without a slot.
WithinLimits ==
    /\ Cardinality(Held) <= GlobalLimit
    /\ \A w \in Workspaces : Occupied(w) <= WorkspaceLimit
    /\ running \subseteq Held

\* The capacity that planners that race, lapse, crash and come back share out is
\* never exceeded, and what they write keeps to the tables' types.
CapacityIsKept == TypeOK /\ WithinLimits

\* A page that is smaller than the backlog may be filled by workspaces that have
\* all they may have; yet while it is no smaller than the global limit, a call
\* that finds room and work it could give out gives out some.
NeverIdle ==
    Room > 0 /\ Claimable # {} /\ EnumerationLimit >= GlobalLimit
    => \E rank \in {Ranked} :
       \E page \in {First(rank, EnumerationLimit, Rows(rank))} :
          First(rank, Room, Open(rank, page)) # {}

\* The capacity is not exceeded, and it is used.
CapacityIsSharedOut == CapacityIsKept /\ NeverIdle

\* While a workspace has work it could be given, every other workspace is given at
\* most one slot: the rotation comes round to it, whatever the planners, the small
\* pages and the full workspaces do.
BoundedBypass == \A w \in Workspaces : passed[w] < Cardinality(Workspaces)

\* Every demand that is ready gets a slot, or is put off or settled first: the
\* rotation reaches every workspace, and the order inside it every demand.
EveryDemandServed ==
    \A d \in Demands : demand[d].state = "ready" ~> slot[d].state # "free" \/ demand[d].state # "ready"

=============================================================================
