------------------------- MODULE CurrentProjections -------------------------
(***************************************************************************)
(* What a change of Current writes beside the pointer, in the transaction  *)
(* that makes it (current_projection.py, symbol_projection.py): the        *)
(* missing symbols of the occurrence, the workspace's row of every missing *)
(* symbol with its counts, the crash group and its history.  The caller    *)
(* holds the Occurrence row only, so two occurrences of one workspace      *)
(* project at the same time under READ COMMITTED: a statement sees what    *)
(* is committed and what its own transaction wrote, a write waits for the  *)
(* row's lock, and PostgreSQL ends a cycle of waits by killing one         *)
(* transaction.  Readers (workspace_browser.py, occurrence_queries.py) run *)
(* in between.                                                             *)
(***************************************************************************)
EXTENDS Naturals, Sequences, FiniteSets, Functions

CONSTANTS Occurrences, Symbols, Groups,
          None,        \* no row, no group
          OccurredAt,  \* OccurredAt[o]: occurrence.occurred_at
          Id,          \* Id[x]: the order of the ids of symbol rows and of occurrences
          Reports,     \* Reports[o]: the canonical reports of o's runs, oldest first
          Views,       \* what a client pages through
          PageSize     \* the limit of a page

ASSUME ProjectionsAssumption ==
    /\ IsFiniteSet(Occurrences) /\ IsFiniteSet(Symbols)
    /\ None \notin Groups /\ None \notin Views
    /\ OccurredAt \in [Occurrences -> Nat]
    /\ Id \in [Symbols \cup Occurrences -> Nat]
    /\ \A S \in {Symbols, Occurrences} : \A x, y \in S : Id[x] = Id[y] => x = y
    /\ Views \subseteq {"issues", "symbol_affected", "exact", "unclassified", "no_current"}
    /\ \A o \in Occurrences :
         Reports[o] \in Seq([modules : Seq([symbol : Symbols, status : Nat, file : Nat]),
                             exact : Groups \cup {None}])
    /\ PageSize \in Nat \ {0}

VARIABLES current,    \* current[o]: occurrence.current_run_id, 0 for none
          relations,  \* relations[o]: the missing_symbol_occurrences rows of o
          projected,  \* projected[o]: the symbol_projection_states row of o
          symbol,     \* symbol[s]: the missing_symbols row of the workspace
          group,      \* group[g]: the crash_groups row of the fingerprint
          member,     \* member[o]: the group_memberships row of o
          history,    \* history[o]: its group_membership_history
          txn,        \* txn[o]: the transaction that holds the Occurrence row
          reader      \* a client that pages through a view

projectionVars == <<current, relations, projected, symbol, group, member, history, txn, reader>>
-----------------------------------------------------------------------------
(* Reports                                                                 *)

\* The ranks of MISSING_REASONS in _REASON_ORDER; other statuses are found symbols.
Missing == 0..3
MissingModules(c) == {i \in DOMAIN c.modules : c.modules[i].status \in Missing}
OfTheSameSymbol(c, i) == {j \in MissingModules(c) : c.modules[j].symbol = c.modules[i].symbol}

\* _observation_order
Preferred(x, y) == x.status < y.status \/ (x.status = y.status /\ x.file < y.file)

\* extract_missing_modules: one observation for every missing identity, the
\* least of its modules in _observation_order.
Observed(c) == {c.modules[i] : i \in {j \in MissingModules(c) :
                  \A k \in OfTheSameSymbol(c, j) : ~Preferred(c.modules[k], c.modules[j])}}

\* The order of the dict: of the first module of every identity.
Turn == [at : Nat, symbol : Symbols]
SymbolOrder(c) ==
    {[at |-> i, symbol |-> c.modules[i].symbol] :
        i \in {j \in MissingModules(c) : \A k \in OfTheSameSymbol(c, j) : j <= k}}
First(turns) == {n \in turns : \A m \in turns : n.at <= m.at}

ReportOf(o) == Reports[o][txn[o].run]
-----------------------------------------------------------------------------
(* Rows                                                                    *)

Relation == [symbol : Symbols, reason : Missing, run : Nat]
Names(S) == {x.symbol : x \in S}

SymbolRow == [first : Nat, last : Nat, file : Nat, count : Nat,
              status : {"open", "resolved"}]
GroupRow == [first : Nat, last : Nat, count : Nat]
MemberRow == [group : Groups, run : Nat]
HistoryRow == [previous : Groups \cup {None}, group : Groups \cup {None}, run : Nat,
               action : {"assign", "move", "unclassify"}]
StateRow == [run : Nat, missing : SUBSET Symbols]

\* symbols and groups: the rows the transaction has locked, as it has written
\* them; its other writes are of rows of its own occurrence and wait in
\* relations, member and history.
Phases == {"idle", "lock", "count", "rows", "insert", "flush", "recount",
           "load", "store", "commit"}
Transaction == [phase : Phases, run : Nat, todo : SUBSET Turn, counts : [Symbols -> Nat],
                symbols : [Symbols -> SymbolRow \cup {None}],
                groups : [Groups -> GroupRow \cup {None}],
                relations : SUBSET Relation, member : MemberRow \cup {None},
                history : Seq(HistoryRow), target : Groups \cup {None},
                loaded : GroupRow \cup {None}, number : Nat]
NoTransaction == [phase |-> "idle", run |-> 0, todo |-> {},
                  counts |-> [s \in Symbols |-> 0], symbols |-> [s \in Symbols |-> None],
                  groups |-> [g \in Groups |-> None], relations |-> {},
                  member |-> None, history |-> <<>>, target |-> None, loaded |-> None,
                  number |-> 0]

\* An entry of a view: what it is sorted by, and the row.
Items == Symbols \cup Occurrences
Entry == Nat \X Nat \X Items
Reader == [phase : {"idle", "reading", "done"}, view : Views \cup {None},
           after : Entry \cup {None},  \* the position in the cursor
           shown : [Items -> Nat],     \* how often the client was shown each
           steady : SUBSET Items]      \* their entries have not changed since the first page
NoReader == [phase |-> "idle", view |-> None, after |-> None,
             shown |-> [x \in Items |-> 0], steady |-> {}]

\* None is none of the values it is written for.
ASSUME NoneAssumption ==
    None \notin SymbolRow \cup GroupRow \cup MemberRow \cup StateRow \cup Entry

ProjectionsTypeOK ==
    /\ current \in [Occurrences -> Nat]
    /\ relations \in [Occurrences -> SUBSET Relation]
    /\ projected \in [Occurrences -> StateRow \cup {None}]
    /\ symbol \in [Symbols -> SymbolRow \cup {None}]
    /\ group \in [Groups -> GroupRow \cup {None}]
    /\ member \in [Occurrences -> MemberRow \cup {None}]
    /\ history \in [Occurrences -> Seq(HistoryRow)]
    /\ txn \in [Occurrences -> Transaction]
    /\ reader \in Reader

ProjectionsInit ==
    /\ current = [o \in Occurrences |-> 0]
    /\ relations = [o \in Occurrences |-> {}]
    /\ projected = [o \in Occurrences |-> None]
    /\ symbol = [s \in Symbols |-> None]
    /\ group = [g \in Groups |-> None]
    /\ member = [o \in Occurrences |-> None]
    /\ history = [o \in Occurrences |-> <<>>]
    /\ txn = [o \in Occurrences |-> NoTransaction]
    /\ reader = NoReader

committed == <<current, relations, projected, symbol, group, member, history, reader>>
-----------------------------------------------------------------------------
(* Locks                                                                   *)

\* The rows a transaction may hold, each with its table.
SymbolKey(s) == <<s, "symbol">>
GroupKey(g) == <<g, "group">>
Held(o) == {SymbolKey(s) : s \in {x \in Symbols : txn[o].symbols[x] # None}}
           \cup {GroupKey(g) : g \in {x \in Groups : txn[o].groups[x] # None}}
Free(o, k) == \A p \in Occurrences \ {o} : k \notin Held(p)

\* The rows as transaction o reads them once it holds the lock.
SymbolOf(o, s) == IF txn[o].symbols[s] # None THEN txn[o].symbols[s] ELSE symbol[s]
GroupOf(o, g) == IF txn[o].groups[g] # None THEN txn[o].groups[g] ELSE group[g]

\* The row that the next statement of o must lock, if there is one.
Wants(o) ==
    LET t == txn[o] IN
    CASE t.phase \in {"lock", "rows"} -> {SymbolKey(n.symbol) : n \in First(t.todo)}
      [] t.phase = "insert" -> {GroupKey(t.target)}
      [] t.phase = "flush" /\ OccurredAt[o] > t.loaded.last -> {GroupKey(t.target)}
      [] t.phase = "store" /\ t.number # t.loaded.count -> {GroupKey(t.target)}
      [] OTHER -> {}
WaitsFor(o) == {p \in Occurrences \ {o} : Wants(o) \cap Held(p) # {}}

\* The transactions that o waits for, directly or through others.
Blockers(o) ==
    LET reach[n \in Nat] == IF n = 0 THEN WaitsFor(o)
                            ELSE reach[n - 1] \cup UNION {WaitsFor(p) : p \in reach[n - 1]}
    IN  reach[Cardinality(Occurrences)]
-----------------------------------------------------------------------------
(* The missing symbols of a report                                         *)

\* A later run becomes the Current of o, under the lock of the Occurrence row
\* (analyze_frozen_run; a result review does the same).
Begin(o) ==
    /\ txn[o].phase = "idle"
    /\ \E r \in (current[o] + 1)..Len(Reports[o]) :
         txn' = [txn EXCEPT ![o] = [NoTransaction EXCEPT
                   !.phase = "lock", !.run = r, !.todo = SymbolOrder(Reports[o][r]),
                   !.relations = relations[o], !.member = member[o],
                   !.history = history[o]]]
    /\ UNCHANGED committed

\* The row that _ensure_symbol_row writes over the one it has read: the times
\* and the file name of all observations, whatever their order.
NewSymbol(o, x) == [first |-> OccurredAt[o], last |-> OccurredAt[o], file |-> x.file,
                    count |-> 0, status |-> "open"]
LesserOf(m, n) == IF m < n THEN m ELSE n
GreaterOf(m, n) == IF m > n THEN m ELSE n

SeenAgain(row, o, x) == [row EXCEPT !.first = LesserOf(@, OccurredAt[o]),
                                    !.last = GreaterOf(@, OccurredAt[o]),
                                    !.file = LesserOf(@, x.file)]

\* _ensure_symbol_row: SELECT ... FOR UPDATE, or an insert that another
\* transaction's insert of the same identity holds up.
EnsureSymbolRow(o) ==
    /\ txn[o].phase = "lock"
    /\ \E n \in First(txn[o].todo), x \in Observed(ReportOf(o)) :
         LET s == n.symbol  row == SymbolOf(o, s) IN
         /\ x.symbol = s /\ Free(o, SymbolKey(s))
         /\ txn' = [txn EXCEPT
                      ![o].symbols[s] = IF row = None THEN NewSymbol(o, x)
                                        ELSE SeenAgain(row, o, x),
                      ![o].todo = @ \ {n}]
    /\ UNCHANGED committed

FreshRelations(o) == {[symbol |-> x.symbol, reason |-> x.status, run |-> txn[o].run] :
                        x \in Observed(ReportOf(o))}

\* Mutant: the relations of symbols that are no longer missing stay.
ReplacedRelations_KeepStale(o) ==
    {x \in relations[o] : x.symbol \notin Names(FreshRelations(o))} \cup FreshRelations(o)

\* replace_current_symbol_projection deletes the stale relations and inserts or
\* overwrites the others.
ReplacedRelations(o) == FreshRelations(o)

WriteRelations(o) ==
    /\ txn[o].phase = "lock" /\ txn[o].todo = {}
    /\ txn' = [txn EXCEPT ![o].phase = "count", ![o].relations = ReplacedRelations(o)]
    /\ UNCHANGED committed

\* _recount_symbol_rows counts the relations it can see, of the rows before and
\* after, and then updates the rows in no stated order.
Visible(o, s) == {p \in Occurrences : s \in Names(IF p = o THEN txn[o].relations
                                                  ELSE relations[p])}
CountRelations(o) ==
    LET S == Names(relations[o]) \cup Names(txn[o].relations) IN
    /\ txn[o].phase = "count"
    /\ \E at \in Injection(S, 1..Cardinality(S)) :
         txn' = [txn EXCEPT ![o].phase = "rows",
                            ![o].todo = {[at |-> at[s], symbol |-> s] : s \in S},
                            ![o].counts = [s \in Symbols |-> Cardinality(Visible(o, s))]]
    /\ UNCHANGED committed

UpdateSymbolRow(o) ==
    /\ txn[o].phase = "rows"
    /\ \E n \in First(txn[o].todo) :
         LET s == n.symbol  count == txn[o].counts[s] IN
         /\ Free(o, SymbolKey(s))
         /\ txn' = [txn EXCEPT
                      ![o].symbols[s] = [SymbolOf(o, s) EXCEPT
                          !.count = count,
                          !.status = IF count > 0 THEN "open" ELSE "resolved"],
                      ![o].todo = @ \ {n}]
    /\ UNCHANGED committed
-----------------------------------------------------------------------------
(* The crash group                                                         *)

\* update_group_projection reads the membership and the group without a lock.
\* A report without an exact fingerprint takes the occurrence out of its group.

\* Mutant: leaving a group is not recorded.
Record_MembersOnly(t, action, g) ==
    [t EXCEPT !.member = IF g = None THEN None ELSE [group |-> g, run |-> t.run],
              !.history = IF g = None THEN @
                          ELSE Append(@, [previous |-> IF t.member = None THEN None
                                                       ELSE t.member.group,
                                          group |-> g, run |-> t.run, action |-> action])]

Record(t, action, g) ==
    [t EXCEPT !.member = IF g = None THEN None ELSE [group |-> g, run |-> t.run],
              !.history = Append(@, [previous |-> IF t.member = None THEN None
                                                  ELSE t.member.group,
                                     group |-> g, run |-> t.run, action |-> action])]

LeaveGroup(o) ==
    LET t == txn[o] IN
    /\ t.phase = "rows" /\ t.todo = {} /\ ReportOf(o).exact = None
    /\ txn' = [txn EXCEPT ![o] =
                 IF t.member = None THEN [t EXCEPT !.phase = "commit"]
                 ELSE [Record(t, "unclassify", None) EXCEPT
                         !.phase = "recount", !.target = t.member.group]]
    /\ UNCHANGED committed

JoinGroup(o) ==
    LET t == txn[o]  g == ReportOf(o).exact
        action == IF t.member # None /\ t.member.group # g THEN "move" ELSE "assign"
    IN  /\ t.phase = "rows" /\ t.todo = {} /\ g # None
        /\ txn' = [txn EXCEPT ![o] = [Record(t, action, g) EXCEPT
                     !.target = g, !.loaded = group[g],
                     !.phase = IF group[g] = None THEN "insert" ELSE "flush"]]
        /\ UNCHANGED committed

\* The insert waits for another insert of the same fingerprint, and fails if
\* that one is committed (uq_crash_groups_workspace_type_fingerprint).
InsertGroup(o) ==
    LET g == txn[o].target
        row == [first |-> OccurredAt[o], last |-> OccurredAt[o], count |-> 0]
    IN  /\ txn[o].phase = "insert" /\ Free(o, GroupKey(g)) /\ group[g] = None
        /\ txn' = [txn EXCEPT ![o].groups[g] = row, ![o].phase = "recount",
                              ![o].loaded = row]
        /\ UNCHANGED committed

\* The flush writes last_seen only when max() has changed what was loaded.
FlushGroup(o) ==
    LET g == txn[o].target IN
    /\ txn[o].phase = "flush"
    /\ Wants(o) # {} => Free(o, GroupKey(g))
    /\ txn' = [txn EXCEPT
                 ![o].groups[g] = IF Wants(o) = {} THEN @
                                  ELSE [GroupOf(o, g) EXCEPT !.last = OccurredAt[o]],
                 ![o].phase = "recount"]
    /\ UNCHANGED committed

\* _refresh_group_count: the memberships it can see, then the row (of the group
\* that is left; the other one is loaded), then the write, unless the loaded
\* count is the same.
Members(o, g) == {p \in Occurrences :
                    LET m == IF p = o THEN txn[o].member ELSE member[p]
                    IN  m # None /\ m.group = g}
LeftGroup(o) == IF member[o] = None THEN None ELSE member[o].group

CountGroup(o) ==
    LET t == txn[o] IN
    /\ t.phase = "recount"
    /\ txn' = [txn EXCEPT ![o].number = Cardinality(Members(o, t.target)),
                          ![o].phase = IF t.target = ReportOf(o).exact THEN "store"
                                       ELSE "load"]
    /\ UNCHANGED committed

LoadGroup(o) ==
    /\ txn[o].phase = "load"
    /\ txn' = [txn EXCEPT ![o].loaded = group[txn[o].target], ![o].phase = "store"]
    /\ UNCHANGED committed

StoreGroupCount(o) ==
    LET t == txn[o]  g == t.target
        again == g = ReportOf(o).exact /\ LeftGroup(o) \notin {None, g}
    IN  /\ t.phase = "store"
        /\ Wants(o) # {} => Free(o, GroupKey(g))
        /\ txn' = [txn EXCEPT
                     ![o].groups[g] = IF Wants(o) = {} THEN @
                                      ELSE [GroupOf(o, g) EXCEPT !.count = t.number],
                     ![o].phase = IF again THEN "recount" ELSE "commit",
                     ![o].target = IF again THEN LeftGroup(o) ELSE @]
        /\ UNCHANGED committed
-----------------------------------------------------------------------------
(* What a reader sees                                                      *)

\* Relations and memberships count when they are of the Current run.
Affected(s) == {o \in Occurrences : \E x \in relations[o] :
                  x.symbol = s /\ x.run = current[o]}
Issues == {s \in Symbols : symbol[s] # None /\ Affected(s) # {}}
SeenIssues(o) == {s \in Issues : o \in Affected(s)}
SeenGroup(o) == IF member[o] # None /\ member[o].run = current[o] THEN member[o].group
                ELSE None

\* The filters of the occurrence list.
Matches(o, view) ==
    CASE view = "symbol_affected" -> SeenIssues(o) # {}
      [] view = "exact" -> SeenGroup(o) # None
      [] view = "unclassified" -> current[o] # 0 /\ SeenGroup(o) = None
      [] view = "no_current" -> current[o] = 0
      [] OTHER -> FALSE

Entries(view) ==
    IF view = "issues" THEN {<<Cardinality(Affected(s)), Id[s], s>> : s \in Issues}
    ELSE {<<OccurredAt[o], Id[o], o>> : o \in {p \in Occurrences : Matches(p, view)}}
EntryOf(x, view) == {e \in Entries(view) : e[3] = x}
-----------------------------------------------------------------------------
(* The end of a transaction                                                *)

Commit(o) ==
    LET t == txn[o] IN
    /\ t.phase = "commit"
    /\ current' = [current EXCEPT ![o] = t.run]
    /\ relations' = [relations EXCEPT ![o] = t.relations]
    /\ projected' = [projected EXCEPT ![o] = [run |-> t.run, missing |-> Names(t.relations)]]
    /\ symbol' = [s \in Symbols |-> SymbolOf(o, s)]
    /\ group' = [g \in Groups |-> GroupOf(o, g)]
    /\ member' = [member EXCEPT ![o] = t.member]
    /\ history' = [history EXCEPT ![o] = t.history]
    /\ txn' = [txn EXCEPT ![o] = NoTransaction]
    /\ \E v \in {reader.view} :
         reader' = [reader EXCEPT !.steady = {x \in @ : EntryOf(x, v) = EntryOf(x, v)'}]

End(o) == txn' = [txn EXCEPT ![o] = NoTransaction] /\ UNCHANGED committed

\* The worker dies or its claim is no longer current: everything is undone.
Rollback(o) == txn[o].phase # "idle" /\ End(o)

\* Mutant: the violation is caught and the insert tried again.
DuplicateGroup_Retry(o) ==
    /\ txn[o].phase = "insert" /\ group[txn[o].target] # None
    /\ Free(o, GroupKey(txn[o].target))
    /\ UNCHANGED projectionVars

\* The group was inserted by another transaction in the meantime.
DuplicateGroup(o) ==
    /\ txn[o].phase = "insert" /\ group[txn[o].target] # None
    /\ Free(o, GroupKey(txn[o].target))
    /\ End(o)

\* PostgreSQL ends a deadlock by aborting one of its transactions.
DeadlockVictim(o) == o \in Blockers(o) /\ End(o)
-----------------------------------------------------------------------------
(* A client that pages through a view                                      *)

\* Issues: ORDER BY counts.c.count DESC, MissingSymbol.id; occurrences: ORDER BY
\* occurred_at DESC, id DESC.
Precedes(p, q) == \/ p[1] > q[1]
                  \/ p[1] = q[1] /\ IF reader.view = "issues" THEN p[2] < q[2]
                                    ELSE p[2] > q[2]

\* Mutant: the cursor compares the first column only.
After_FirstColumn(e) == reader.after = None \/ e[1] < reader.after[1]

After(e) == reader.after = None \/ Precedes(reader.after, e)

OpenView ==
    /\ reader.phase = "idle"
    /\ \E v \in Views : reader' = [NoReader EXCEPT !.phase = "reading", !.view = v,
                                                   !.steady = Items]
    /\ UNCHANGED <<current, relations, projected, symbol, group, member, history, txn>>

\* The rows behind the cursor, of which LIMIT takes the first; one more than the
\* limit tells whether there is a next page.
Rows == {e \in Entries(reader.view) : After(e)}
Page == {e \in Rows : Cardinality({f \in Rows : Precedes(f, e)}) < PageSize}

NextPage ==
    /\ reader.phase = "reading"
    /\ reader' = [reader EXCEPT
          !.shown = [x \in Items |-> IF \E e \in Page : e[3] = x THEN @[x] + 1 ELSE @[x]],
          !.after = IF Page = {} THEN @
                    ELSE CHOOSE e \in Page : \A f \in Page \ {e} : Precedes(f, e),
          !.phase = IF Page = Rows THEN "done" ELSE "reading"]
    /\ UNCHANGED <<current, relations, projected, symbol, group, member, history, txn>>

CloseView ==
    /\ reader.phase = "done" /\ reader' = NoReader
    /\ UNCHANGED <<current, relations, projected, symbol, group, member, history, txn>>
-----------------------------------------------------------------------------
Step(o) == \/ EnsureSymbolRow(o) \/ WriteRelations(o) \/ CountRelations(o)
           \/ UpdateSymbolRow(o) \/ LeaveGroup(o) \/ JoinGroup(o) \/ InsertGroup(o)
           \/ FlushGroup(o) \/ CountGroup(o) \/ LoadGroup(o) \/ StoreGroupCount(o)
           \/ Commit(o) \/ DuplicateGroup(o) \/ DeadlockVictim(o)

ProjectionsNext == \/ \E o \in Occurrences : Begin(o) \/ Step(o) \/ Rollback(o)
                   \/ OpenView \/ NextPage \/ CloseView

\* A statement that can run runs, the server finds every deadlock, and a lock
\* goes to the statement that waits for it, not for ever to those that come
\* later (PostgreSQL queues the waiters of a row): hence strong fairness.
\* Nobody must begin a promotion or read.
ProjectionsSpec == /\ ProjectionsInit /\ [][ProjectionsNext]_projectionVars
                   /\ \A o \in Occurrences : SF_projectionVars(Step(o))
-----------------------------------------------------------------------------
(* What the projections promise                                            *)

CurrentReportOf(o) == Reports[o][current[o]]

\* What the health check looks for (projection_invariant_counts and
\* collect_architecture_health).
MissingProjections == {o \in Occurrences : current[o] # 0 /\
                         (projected[o] = None \/ projected[o].run # current[o])}
StaleRelations == {o \in Occurrences : \E x \in relations[o] : x.run # current[o]}
StaleMemberships == {o \in Occurrences : member[o] # None /\ member[o].run # current[o]}
CountMismatches == {s \in Symbols : symbol[s] # None /\
      symbol[s].count # Cardinality({o \in Occurrences : s \in Names(relations[o])})}

\* Every reader sees of an occurrence exactly the missing symbols and the group
\* of its Current, and the health check (collect_architecture_health) finds no
\* relation, marker or membership of another run: projections change with the
\* pointer or not at all, whatever transactions overlap or are undone.
ProjectionsAreOfTheCurrent ==
    /\ MissingProjections = {} /\ StaleRelations = {} /\ StaleMemberships = {}
    /\ \A o \in Occurrences : current[o] # 0 =>
        /\ SeenIssues(o) = Names(Observed(CurrentReportOf(o)))
        /\ projected[o].missing = SeenIssues(o)
        /\ SeenGroup(o) = CurrentReportOf(o).exact

\* Rows keep to their tables' types while promotions overlap, and the views show
\* the Current and nothing else.
ViewsAreSound == ProjectionsTypeOK /\ ProjectionsAreOfTheCurrent

\* Each entry of h starts where the one before it ended, up to the membership m.
Unbroken(h, m) ==
    LET Before(i) == IF i = 1 THEN None ELSE h[i - 1].group
    IN  /\ \A i \in DOMAIN h : h[i].previous = Before(i)
        /\ Before(Len(h) + 1) = IF m = None THEN None ELSE m.group

\* The history of an occurrence tells every membership it had, each entry
\* starting where the one before it ended, up to the membership of today.
HistoryIsUnbroken == \A o \in Occurrences : Unbroken(history[o], member[o])

\* Today's projections and the record of yesterday's agree with what is Current.
ProjectionsAreSound == ViewsAreSound /\ HistoryIsUnbroken

\* A client that follows the cursors of a view sees every row once whose entry
\* does not change meanwhile, whatever becomes of the others between two pages.
SteadyRowsAreShownOnce ==
    reader.phase = "done" =>
        \A x \in reader.steady :
            reader.shown[x] = Cardinality(EntryOf(x, reader.view))

\* Every transaction ends: locks are taken in the order of the report's modules
\* and in no order at all for the other rows, so that two may wait for each other.
TransactionsEnd == \A o \in Occurrences : []<>(txn[o].phase = "idle")

\* When nothing is under way, the stored counts are those of the relations.
CountsAreExact ==
    (\A o \in Occurrences : txn[o].phase = "idle") => CountMismatches = {}
=============================================================================
