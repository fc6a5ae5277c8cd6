--------------------------- MODULE CatalogFanout ---------------------------
(***************************************************************************)
(* From an accepted PE or PDB file to the demands that have to be planned  *)
(* again: bindings, pairs and their availability (artifact_catalog.py),    *)
(* reviews and locations (symbol_catalog.py), the log of catalog changes   *)
(* and its fan-out in pages (analysis_demands.py), the roles that a        *)
(* workspace declares (workspace_policies.py), and the planner's snapshot  *)
(* and selection (resolution_planning.py, resolution_planner.py).          *)
(*                                                                         *)
(* All writers of the catalog hold the row of catalog_watermark            *)
(* (lock_catalog), so that each of their transactions is one action.  The  *)
(* revision of the watermark is the length of the log.  Every module is    *)
(* x86_64.  What a demand does besides being noted and planned is in       *)
(* AnalysisDemand and ExecutionSlots.                                      *)
(***************************************************************************)
EXTENDS Naturals, Sequences, FiniteSets, SequencesExt

CONSTANTS Files,        \* raw contents, by their catalog_files id
          Kind,         \* Kind[f]: "pe" or "pdb"
          Code, Debug,  \* Code[f], Debug[f]: what the bytes are identified by
          Workspaces,
          Public,       \* the workspace_id None: the scope everybody sees
          Nothing,      \* None, of identities, files and pairs
          Demands,      \* occurrence ids, which the pages are ordered by
          Home,         \* Home[d]: the demand's workspace
          Modules,      \* Modules[d]: identities of the modules of its dump
          PageSize,     \* the limit of a fan-out page
          Uploaded,     \* bindings there are when the log begins
          Planned,      \* demands that were planned by then
          MaxEvents,    \* bound: uploads, reviews, lost locations and declarations
          MaxFaults     \* bound: validations and planners that fail

Scopes == Workspaces \cup {Public}
Pes == {f \in Files : Kind[f] = "pe"}
Pdbs == {f \in Files : Kind[f] = "pdb"}
Pairs == {p \in Pes \X Pdbs : Debug[p[1]] # Nothing /\ Debug[p[1]] = Debug[p[2]]}
Identities == UNION {Modules[d] : d \in Demands}
Ids == {Code[f] : f \in Files} \cup {Debug[f] : f \in Files}
         \cup (UNION {{m.code, m.debug} : m \in Identities}) \cup {Nothing}

VARIABLES bound,        \* the file and the scope of every artifact_entries row
          availability, \* availability[f][s]: what the rows of that file and scope say
          lost,         \* files whose location is "unavailable"
          pair,         \* pair[p]: the catalog_pairs row
          changes,      \* the catalog_changes rows, by their revision
          cursor,       \* the fan-out's position in changes
          declared,     \* declared[ws]: the workspace_module_roles rows
          role_cursor,  \* role_cursor[ws]: the role fan-out's position
          demand,       \* demand[d]: the auto_analysis_demands row
          plan,         \* plan[d]: what a planner holds between two transactions
          events,       \* events that are left to happen
          faults        \* and faults

catalog == <<bound, availability, lost, pair, changes>>
roles == <<declared, role_cursor>>
vars == <<catalog, cursor, roles, demand, plan, events, faults>>

-----------------------------------------------------------------------------
(* Rows                                                                    *)

Availabilities == {"absent", "waiting_for_pair", "symbols_available", "identity_conflict",
                   "no_debug_identity", "storage_unavailable"}
PairRow == [state : {"absent", "active", "withdrawn"}, version : Nat]
Change == [file : Files \cup {Nothing}, pair : Pairs \cup {Nothing},
           code : Ids, debug : Ids, affects : BOOLEAN, workspace : Scopes]
Cursor == [revision : Nat, after : Demands \cup {0}]
Declaration == [identity : Identities, role : {"owned", "dependency"}]
Resolution == [state : {"indeterminate", "conflict", "unique", "unavailable", "none"},
               active : SUBSET Pairs, unavailable : SUBSET Pairs,
               reason : {"location_unavailable", "withdrawn", "none"}]
Target(d) == [resolution : [Modules[d] -> Resolution],
              role : [Modules[d] -> {"owned", "dependency", "unknown"}]]

ASSUME CatalogAssumption ==
    /\ Kind \in [Files -> {"pe", "pdb"}]
    /\ DOMAIN Code = Files /\ DOMAIN Debug = Files
    /\ \A f \in Pes : Code[f] # Nothing
    /\ \A f \in Pdbs : Code[f] = Nothing /\ Debug[f] # Nothing
    /\ Public \notin Workspaces /\ Nothing \notin Files /\ Nothing \notin Pairs
    /\ Demands \subseteq Nat \ {0} /\ IsFiniteSet(Demands) /\ IsFiniteSet(Files)
    /\ Home \in [Demands -> Workspaces]
    /\ DOMAIN Modules = Demands
    /\ \A m \in Identities : m = [code |-> m.code, debug |-> m.debug]
    /\ \A d \in Demands : Nothing \notin Target(d)
    /\ PageSize \in Nat \ {0}
    /\ Uploaded \subseteq Files \X Scopes /\ Planned \subseteq Demands
    /\ MaxEvents \in Nat /\ MaxFaults \in Nat

-----------------------------------------------------------------------------
(* What a workspace sees of the catalog                                    *)

ScopesOf(f) == {s \in Scopes : <<f, s>> \in bound}
FileVisible(f, s) == ScopesOf(f) \cap {Public, s} # {}
PairVisible(p, s) == FileVisible(p[1], s) /\ FileVisible(p[2], s)
PairsOf(f) == {p \in Pairs : f \in {p[1], p[2]} /\ pair[p].state # "absent"}
Usable(p) == pair[p].state = "active" /\ p[1] \notin lost /\ p[2] \notin lost
CodeOf(p) == Code[p[1]]
DebugOf(p) == Debug[p[1]]

Availability(f, s) ==
    LET active == {p \in Pairs : pair[p].state = "active" /\ PairVisible(p, s)}
        mine == {p \in active : f \in {p[1], p[2]}}
    IN IF Debug[f] = Nothing THEN "no_debug_identity"
       ELSE IF mine = {} THEN "waiting_for_pair"
       ELSE IF \E p \in mine, q \in active :
                  q # p /\ CodeOf(p) = CodeOf(q) /\ DebugOf(p) = DebugOf(q)
            THEN "identity_conflict"
       ELSE IF \E p \in mine : Usable(p) THEN "symbols_available"
       ELSE "storage_unavailable"

\* Mutant: only the rows of the file itself are refreshed.
Refresh_Only(debug, f) ==
    availability' = [availability EXCEPT ![f] =
                       [s \in Scopes |-> IF <<f, s>> \in bound' THEN Availability(f, s)'
                                         ELSE availability[f][s]]]

\* refresh_availability, for the rows with this debug id (and for f, a new one).
Refresh(debug, f) ==
    availability' = [g \in Files |->
                       [s \in Scopes |->
                          IF <<g, s>> \in bound' /\ (Debug[g] = debug \/ g = f)
                          THEN Availability(g, s)' ELSE availability[g][s]]]

-----------------------------------------------------------------------------
(* The catalog's transactions                                              *)

PairChange(p, affects, ws) ==
    [file |-> Nothing, pair |-> p, code |-> CodeOf(p), debug |-> DebugOf(p),
     affects |-> affects, workspace |-> ws]
FileChange(f, ws) ==
    [file |-> f, pair |-> Nothing, code |-> Code[f], debug |-> Debug[f],
     affects |-> TRUE, workspace |-> ws]
Emit(S) == changes' = changes \o SetToSeq(S)

\* Mutant: two files make a pair only if one workspace has both.
Meet_SameScope(f, g) == ScopesOf(f) \cap ScopesOf(g) # {}

\* Two files make a pair if some workspace sees both.
Meet(f, g) == /\ ScopesOf(f) # {} /\ ScopesOf(g) # {}
              /\ \/ ScopesOf(f) \cap ScopesOf(g) # {}
                 \/ Public \in ScopesOf(f) \cup ScopesOf(g)

\* accept_file, for another upload: one that is accepted already changes nothing.
AcceptFile(f, s) ==
    /\ events > 0
    /\ events' = events - 1
    /\ bound' = bound \cup {<<f, s>>}
    /\ lost' = lost \ {f}
    /\ \E created \in {{p \in Pairs : /\ f \in {p[1], p[2]} /\ pair[p].state = "absent"
                                      /\ Meet(p[1], p[2])'}} :
          /\ pair' = [p \in Pairs |-> IF p \in created THEN [state |-> "active", version |-> 1]
                                      ELSE pair[p]]
          /\ changes' = changes
               \o SetToSeq({PairChange(p, Usable(p) # Usable(p)', Public) :
                              p \in IF f \in lost THEN PairsOf(f) ELSE {}})
               \o (IF <<f, s>> \in bound THEN <<>> ELSE <<FileChange(f, s)>>)
               \o SetToSeq({PairChange(p, TRUE, s) : p \in created})
    /\ Refresh(Debug[f], f)
    /\ UNCHANGED <<cursor, roles, demand, plan, faults>>

\* mark_location_unavailable
LoseLocation(f) ==
    /\ events > 0
    /\ ScopesOf(f) # {} /\ f \notin lost
    /\ lost' = lost \cup {f}
    /\ UNCHANGED <<bound, pair>>
    /\ Emit({PairChange(p, Usable(p) # Usable(p)', Public) : p \in PairsOf(f)})
    /\ Refresh(IF PairsOf(f) = {} THEN Nothing ELSE Debug[f], Nothing)
    /\ events' = events - 1
    /\ UNCHANGED <<cursor, roles, demand, plan, faults>>

\* review_pair; a review of an older version is refused, and one that was done
\* already changes nothing.
ReviewPair(p, state) ==
    /\ events > 0
    /\ pair[p].state # "absent"
    /\ pair' = [pair EXCEPT ![p] = [state |-> state, version |-> @.version + 1]]
    /\ UNCHANGED <<bound, lost>>
    /\ Emit({PairChange(p, pair[p].state # state, Public)})
    /\ Refresh(DebugOf(p), Nothing)
    /\ events' = events - 1
    /\ UNCHANGED <<cursor, roles, demand, plan, faults>>

\* declare_workspace_module_role; declaring the same role again changes nothing.
Declared(ws, m) ==
    LET rows == {i \in DOMAIN declared[ws] : declared[ws][i].identity = m}
    IN IF rows = {} THEN Nothing ELSE declared[ws][Max(rows)].role
DeclareModuleRole(ws, m, role) ==
    /\ events > 0
    /\ m.code # Nothing /\ m.debug # Nothing
    /\ Declared(ws, m) # role
    /\ declared' = [declared EXCEPT ![ws] = Append(@, [identity |-> m, role |-> role])]
    /\ events' = events - 1
    /\ UNCHANGED <<catalog, cursor, role_cursor, demand, plan, faults>>

-----------------------------------------------------------------------------
(* The fan-out                                                             *)

Agree(a, b) == a = Nothing \/ b = Nothing \/ a = b
\* Something of these ids concerns a module: one of them is its own (or both lack
\* it, as a comparison with None asks for NULL), and none differs.
Concerns(code, debug, m) == /\ m.code = code \/ m.debug = debug
                            /\ Agree(code, m.code) /\ Agree(debug, m.debug)

\* The demands that the change of this revision is about.
Touches(d, i) ==
    LET e == changes[i] IN
    /\ e.affects
    /\ demand[d].inspected /\ demand[d].index_revision < i
    /\ \E m \in Modules[d] : Concerns(e.code, e.debug, m)
    /\ IF e.file # Nothing THEN FileVisible(e.file, Home[d]) ELSE PairVisible(e.pair, Home[d])
    /\ e.workspace \in {Public, Home[d]}
TouchesRole(d, ws, i) ==
    /\ Home[d] = ws /\ demand[d].inspected
    /\ declared[ws][i].identity \in Modules[d]

\* Mutant: a page that was cut is not gone on with.
EventOf_Next(c) == c.revision + 1

\* Which event is next: the one that a page was cut in, or the one after.
EventOf(c) == IF c.after # 0 THEN c.revision ELSE c.revision + 1
Page(rows) == {d \in rows : Cardinality({e \in rows : e < d}) < PageSize}
Advance(c, rows) == [revision |-> EventOf(c),
                     after |-> IF Cardinality(rows) > PageSize THEN Max(Page(rows)) ELSE 0]
\* _note_change
Note(page) == demand' = [d \in Demands |->
                           IF d \in page THEN [demand[d] EXCEPT !.sequence = @ + 1]
                           ELSE demand[d]]

FanoutNext ==
    /\ EventOf(cursor) <= Len(changes)
    /\ \E rows \in {{d \in Demands : d > cursor.after /\ Touches(d, EventOf(cursor))}} :
          /\ Note(Page(rows))
          /\ cursor' = Advance(cursor, rows)
    /\ UNCHANGED <<catalog, roles, plan, events, faults>>

FanoutWorkspaceRoleNext(ws) ==
    /\ EventOf(role_cursor[ws]) <= Len(declared[ws])
    /\ \E rows \in {{d \in Demands : /\ d > role_cursor[ws].after
                                     /\ TouchesRole(d, ws, EventOf(role_cursor[ws]))}} :
          /\ Note(Page(rows))
          /\ role_cursor' = [role_cursor EXCEPT ![ws] = Advance(@, rows)]
    /\ UNCHANGED <<catalog, cursor, declared, plan, events, faults>>

-----------------------------------------------------------------------------
(* Planning                                                                *)

\* register_inspection: the references of the dump are there from now on.
RegisterInspection(d) ==
    /\ ~ demand[d].inspected
    /\ demand' = [demand EXCEPT ![d] = [demand[d] EXCEPT !.inspected = TRUE,
                                                         !.index_revision = Len(changes),
                                                         !.sequence = @ + 1]]
    /\ UNCHANGED <<catalog, cursor, roles, plan, events, faults>>

Indeterminate == [active |-> {}, unavailable |-> {}, state |-> "indeterminate", reason |-> "none"]
Incomplete(m) == m.code = Nothing /\ m.debug = Nothing

\* snapshot_resolution, candidate_page and prepare_resolution, of one module.
Resolve(m, ws) ==
    LET found == {p \in Pairs : /\ pair[p].state # "absent" /\ PairVisible(p, ws)
                                /\ Concerns(CodeOf(p), DebugOf(p), m)}
        active == {p \in found : Usable(p)}
        gone == found \ active
    IN IF Incomplete(m) THEN Indeterminate ELSE
       [active |-> active, unavailable |-> gone,
        state |-> IF Cardinality(active) > 1 THEN "conflict"
                  ELSE IF active # {} THEN "unique"
                  ELSE IF gone # {} THEN "unavailable" ELSE "none",
        reason |-> IF active # {} \/ gone = {} THEN "none"
                   ELSE IF \E p \in gone : pair[p].state = "active"
                        THEN "location_unavailable" ELSE "withdrawn"]
\* snapshot_workspace_policies: a declared role, or what the visible files say.
Matches(f, m) == IF Kind[f] = "pe"
                 THEN /\ m.code \in {Nothing, Code[f]} /\ m.debug \in {Nothing, Debug[f]}
                      /\ m.code # Nothing \/ m.debug # Nothing
                 ELSE m.debug = Debug[f]
Role(m, ws) ==
    LET scopes == UNION {ScopesOf(f) : f \in {g \in Files : Matches(g, m)}}
    IN IF Declared(ws, m) # Nothing THEN Declared(ws, m)
       ELSE IF ws \in scopes THEN "owned"
       ELSE IF Public \in scopes THEN "dependency" ELSE "unknown"
RolesOf(d) == [m \in Modules[d] |-> Role(m, Home[d])]
ResolutionOf(d) == [m \in Modules[d] |-> Resolve(m, Home[d])]

\* The planner reads catalog and roles in one transaction.  Validating the bytes of
\* a pair may then fail, which leaves its module indeterminate.
Snapshot(d) ==
    /\ demand[d].sequence > demand[d].planned
    /\ plan[d] = Nothing
    /\ \E unread \in {{}} \cup (IF faults > 0 THEN {{m} : m \in Modules[d]} ELSE {}) :
          /\ plan' = [plan EXCEPT ![d] =
                [sequence |-> demand[d].sequence, revision |-> Len(changes),
                 target |-> [role |-> RolesOf(d),
                             resolution |-> [m \in Modules[d] |->
                                               IF m \in unread THEN Indeterminate
                                               ELSE Resolve(m, Home[d])]]]]
          /\ faults' = IF unread = {} THEN faults ELSE faults - 1
    /\ UNCHANGED <<catalog, cursor, roles, demand, events>>

\* Mutant: the catalog is not looked at again when the target is frozen.
PlanHolds_AnyRevision(d) == /\ plan[d].sequence = demand[d].sequence
                            /\ plan[d].target.role = RolesOf(d)

\* What freeze_target and adopt_frozen_run require of the plan.
PlanHolds(d) == /\ plan[d].sequence = demand[d].sequence
                /\ plan[d].revision = Len(changes)
                /\ plan[d].target.role = RolesOf(d)
FreezeTarget(d) ==
    /\ plan[d] # Nothing /\ PlanHolds(d)
    /\ demand' = [demand EXCEPT ![d] = [@ EXCEPT !.planned = plan[d].sequence,
                                                 !.index_revision = Len(changes),
                                                 !.target = plan[d].target]]
    /\ plan' = [plan EXCEPT ![d] = Nothing]
    /\ UNCHANGED <<catalog, cursor, roles, events, faults>>

\* A stale plan is dropped and the demand planned again; a planner may also die.
DropPlan(d) ==
    /\ plan[d] # Nothing
    /\ \/ ~ PlanHolds(d) /\ UNCHANGED faults
       \/ faults > 0 /\ faults' = faults - 1
    /\ plan' = [plan EXCEPT ![d] = Nothing]
    /\ UNCHANGED <<catalog, cursor, roles, demand, events>>

-----------------------------------------------------------------------------
\* An empty log, and what was uploaded before it.
Init == /\ bound = Uploaded
        /\ lost = {}
        /\ pair = [p \in Pairs |-> IF Meet(p[1], p[2]) THEN [state |-> "active", version |-> 1]
                                  ELSE [state |-> "absent", version |-> 0]]
        /\ availability = [f \in Files |->
                             [s \in Scopes |-> IF <<f, s>> \in bound THEN Availability(f, s)
                                               ELSE "absent"]]
        /\ changes = <<>>
        /\ cursor = [revision |-> 0, after |-> 0]
        /\ declared = [ws \in Workspaces |-> <<>>]
        /\ role_cursor = [ws \in Workspaces |-> [revision |-> 0, after |-> 0]]
        /\ demand = [d \in Demands |->
                       IF d \in Planned
                       THEN [inspected |-> TRUE, index_revision |-> 0, sequence |-> 1, planned |-> 1,
                             target |-> [role |-> RolesOf(d), resolution |-> ResolutionOf(d)]]
                       ELSE [inspected |-> FALSE, index_revision |-> 0, sequence |-> 0, planned |-> 0,
                             target |-> Nothing]]
        /\ plan = [d \in Demands |-> Nothing]
        /\ events = MaxEvents /\ faults = MaxFaults

Plans(d) == RegisterInspection(d) \/ Snapshot(d) \/ FreezeTarget(d) \/ DropPlan(d)
Next == \/ \E f \in Files, s \in Scopes : AcceptFile(f, s)
        \/ \E f \in Files : LoseLocation(f)
        \/ \E p \in Pairs, state \in {"active", "withdrawn"} : ReviewPair(p, state)
        \/ \E ws \in Workspaces, m \in Identities, role \in {"owned", "dependency"} :
              DeclareModuleRole(ws, m, role)
        \/ FanoutNext
        \/ \E ws \in Workspaces : FanoutWorkspaceRoleNext(ws)
        \/ \E d \in Demands : Plans(d)

\* The planner's loop drains both fan-outs and serves every demand (ExecutionSlots).
Fairness == /\ WF_vars(FanoutNext)
            /\ \A ws \in Workspaces : WF_vars(FanoutWorkspaceRoleNext(ws))
            /\ \A d \in Demands : WF_vars(Plans(d))
Spec == Init /\ [][Next]_vars /\ Fairness

-----------------------------------------------------------------------------
TypeOK == /\ bound \subseteq Files \X Scopes
          /\ availability \in [Files -> [Scopes -> Availabilities]]
          /\ lost \subseteq Files
          /\ pair \in [Pairs -> PairRow]
          /\ changes \in Seq(Change)
          /\ cursor \in Cursor /\ cursor.revision <= Len(changes)
          /\ declared \in [Workspaces -> Seq(Declaration)]
          /\ role_cursor \in [Workspaces -> Cursor]
          /\ \A d \in Demands :
                /\ demand[d].planned <= demand[d].sequence
                /\ demand[d].index_revision <= Len(changes)
                /\ demand[d].target \in Target(d) \cup {Nothing}
                /\ plan[d] # Nothing => plan[d].target \in Target(d)

CaughtUp(d) == /\ cursor = [revision |-> Len(changes), after |-> 0]
               /\ role_cursor[Home[d]] = [revision |-> Len(declared[Home[d]]), after |-> 0]
\* A demand that is planned, with nothing left to fan out.
AtRest(d) == demand[d].inspected /\ demand[d].sequence = demand[d].planned /\ CaughtUp(d)
IsCurrent(d) ==
    /\ demand[d].target # Nothing
    /\ demand[d].target.role = RolesOf(d)
    /\ \A m \in Modules[d] :
          demand[d].target.resolution[m] \in {Resolve(m, Home[d]), Indeterminate}

\* A PDB has no code id, so that the event of its new scope reaches no module that is
\* known by a code id alone, although a pair that such a module selects becomes visible
\* with it.  The demands of such modules are left out, and the README tells what happens.
CodeOnly(m) == m.code # Nothing /\ m.debug = Nothing
Reached == {d \in Demands : \A m \in Modules[d] : ~ CodeOnly(m)}

\* A demand at rest has the target that a plan made now would have: no change of
\* files, scopes, locations, reviews or roles that bears on one of its modules has
\* passed it by, whichever page it was on and whenever it was inspected and planned.
NobodyIsMissed == \A d \in Reached : AtRest(d) => IsCurrent(d)

\* The availability that is stored with each binding is what the catalog says now,
\* although it was last written by an upload of another file to another scope.
AvailabilityIsCurrent ==
    \A f \in Files, s \in Scopes :
        availability[f][s] = IF <<f, s>> \in bound THEN Availability(f, s) ELSE "absent"

\* Two files of one debug id that a workspace sees are a pair, whichever came first
\* and through whichever scopes.
PairsAreComplete ==
    \A p \in Pairs : (\E s \in Scopes : PairVisible(p, s)) => pair[p].state # "absent"

\* Files, events and cursors keep their types while files arrive, get lost and are
\* reviewed, and the pairs that planning relies on are all there.
PlansAreSound == TypeOK /\ PairsAreComplete

\* What the catalog derives from its files is complete and up to date.
CatalogIsDerived == AvailabilityIsCurrent /\ PlansAreSound

\* Every demand that the fan-out reaches comes to have a current target, and keeps it.
EverybodyIsServed == <>[](\A d \in Reached : IsCurrent(d))
=============================================================================
