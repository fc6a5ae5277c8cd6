# Crash-Cap: verification project

Crash-Cap collects crash dumps and symbol files, analyses every dump with the symbols it has, and analyses
it again when better symbols arrive. This directory holds TLA+ models of the platform (`src/platform`,
`src/deploy/symbolicator`, the analysis core `src/core` and the uploader `src/crashcap-ci`), the TLC runs
that check them on small instances, and theorems about them that TLAPS proves for every instance.

    tlc  -workers 2 -config MCAnalysisDemand.cfg MCAnalysisDemand
    tlapm AnalysisDemandProofs.tla

## 1. Inventory of the system

The platform is an API service, several worker processes and two loops (the outbox relay and the automatic
planner) over one PostgreSQL database, a Redis broker (Dramatiq) and an object store. All lasting state is
in the database; every arrow below is a transaction or a broker message.

```
 client / CI ──HTTP──> API ──uploads, catalog changes, roles, reviews──> database
                                                  │ task_intents (outbox)
        automatic planner ──frozen runs──────────>│
                                                  v
                      outbox relay ──publish──> broker ──deliver──> workers ──> database, objects
```

| component (code) | state it keeps | operations | hard behaviour | what makes it correct |
|---|---|---|---|---|
| **Task hand-off** (`task_handoff.py`, `outbox_relay.py`, `tasks.py`, `leases.py`, `queueing.py`, `task_reconciliation.py`) | `task_intents` (pending, publishing, published, dead), `task_executions` (generation, attempt, lease, outcome), queue copies | create and request again, relay claim / publish / acknowledge / reject, task claim, heartbeat, finalize, fail, poison, reconcile | duplicates, lost messages, lapsed leases of workers and relays, crashes between publish and acknowledge, reads without locks | one result per task, from the newest claim; claims are distinct; an acknowledgement names a real publish; no task is lost |
| **Analysis demands** (`analysis_demands.py`) | one row per dump: state, reason, generation, retry attempt, change / planned sequence, `index_revision`, `first_event_at`, `not_before` | ensure, register inspection, note a change, fan out, freeze a target, settle (planning, run, comparison), restart | changes that arrive between plan, run and settlement; one retry budget drawn on by four parties; expiry and re-upload | no change is lost; retries are bounded; the cause of a change reaches its run |
| **Frozen runs** (`frozen_runs.py`, `analysis_recovery.py`, `analysis_lifecycle.py`) | `analysis_runs` with unique (demand, generation, attempt), a task intent each | adopt (target + run + intent + slot in one transaction), claim, complete, fail, recover | adoption of a stale plan; a run that exists already; late finalize; delivery timeout against a late claim | one run in progress per demand; a run ends once; abandoned runs are recovered |
| **Scheduler** (`analysis_scheduler.py`) | `analysis_execution_slots`, the rotation's last workspace | reconcile, claim a page, renew, bind, release | several planners, leases that lapse, capacity shared by workspaces | a run in progress has a slot; limits are kept; nobody starves |
| **Planner** (`automatic_analysis.py`, `automatic_main.py`, `resolution_planner.py`) | only memory between transactions | claim, inspect, snapshot, prepare, adopt, settle failures | everything it read may be stale when it writes | a stale plan is refused and planned again |
| **Current and promotion** (`current_decisions.py`, finalize loop in `processor.py`) | `occurrences.current_run_id`, `current_decisions` | compare with Current, promote, retry when Current changed | Current changes between the comparison and the final transaction | each replacement is one the rule allows for the report that is replaced |
| **Projections** (`current_projection.py`, `symbol_projection.py`, `grouping.py`, `architecture_health.py`) | symbol issues, groups, memberships and their history | project on promotion, page through views | row locks in no common order, counts read without locks, concurrent inserts | the views show the Current and nothing else |
| **Evidence comparison** (`evidence_comparison.py`) | none (pure) | `compare_evidence` | many early returns, order of tests | promotion never loses key evidence without an excuse; no chain of replacements leads back |
| **Result reviews** (`result_reviews.py`) | `result_reviews` | prepare, apply | a review of a Current, a pair or a provider review that has moved | everything the review cites still holds when it is applied |
| **Uploads** (`uploads.py`, `verify_upload` in `processor.py`, `file_ingest.py`) | uploads: initialized, verifying, accepted / rejected; dump blobs; occurrences | create, put parts, complete, abort, verify, accept, reject | completion race, verification retried, same bytes uploaded twice | one verification result; accepted bytes are in the store |
| **Upload GC and retention** (`upload_gc.py`, `retention.py`) | claims on payloads, `expires_at`, `deleted_at` | claim, delete staged, expire dumps | deletion racing verification, re-upload and analysis | nothing live is deleted |
| **Catalog** (`symbol_catalog.py`, `artifact_catalog.py`, `artifact_payloads.py`, `catalog_materials.py`) | files and their bindings to scopes, availability, pairs, reviews, one watermark, a log of changes | accept, pair, withdraw, review, lose a location | fan-out in pages, inspections and plans between two pages, identity conflicts | a change reaches every demand it affects |
| **Workspace policies** (`workspace_policies.py`) | module roles with versions and a fan-out cursor | declare, snapshot, fan out | a role declared while a run is planned | as for the catalog |
| **Public symbols** (`routes_public_symbols.py`, `public_symbols.py`, `public_symbol_recovery.py`) | `public_symbol_jobs` with an item per module, the requests' keys, a task | request, claim, fetch item by item, complete, fail, recover | a slow worker whose lease has lapsed against recovery and its successor; a budget that runs out | one active job per occurrence; a verdict and an end stay |
| **Private symbol source** (`catalog_source.py`, `material_cache.py`, `catalog_materials.py`) | the cache's entries with their readers, fills in progress and their weight, download capacity, files on disk | fetch, read, evict, fill from replicas, settle, release | files shared by readers and evicted, concurrent fills, replicas that fail in different ways, files lost or damaged on disk | the counts are those of the requests; a file is called permanently bad only when it was proved to be |
| **Sessions and accounts** (`auth.py`, `routes_auth.py`) | users, sessions, tokens | register, log in and out, change and reset passwords, edit users, issue and revoke tokens | a login or a token request that is slower than the change that should have ended it; concurrent edits | no credential outlives a revocation; an administrator remains |
| **Core analyzer** (`src/core`, Rust) | one invocation: evidence per module | unwind, ask public and private sources, assemble | one deadline for all sources; an engine that forgets, never answers or answers something else | symbols come from the source they are ascribed to; silence is not absence |
| **Core runners** (`core_runner.py`, `frozen_core.py`) | containers, a volume, a workspace | stage, run, extract, clean up | a failing command at any point; a deadline while the core runs | one result or one error; what is left behind has a cause |
| **CI uploader** (`src/crashcap-ci`, Rust) | a receipt | hash, init, put, complete, poll, record | repeated requests that took effect already; a file edited meanwhile | the receipt tells the truth |
| **Routes, queries, metrics, storage, settings** | none of their own | — | — | — |
| **Artifact identity** (Rust) | none | parse PE and PDB headers | binary formats | — |
| **Symbolicator gateway** (`deploy/symbolicator/gateway.py`) | identities known to be missing at Microsoft, in memory and in an append-only file | give a request its sources, learn from a completed answer, restart | restarts and torn writes, answers to requests of an earlier deployment | what it holds to be missing was asked for and is |

`PROJECT.json` names the source files and the status of each.

## 2. Modules

| module | role |
|---|---|
| `FencedTask` | abstract: grants of a task grow, one result is accepted, from the newest grant |
| `TaskHandoff` | the hand-off in detail: intents, executions, relays, broker, workers |
| `MCTaskHandoff` | its instances for TLC |
| `RunLadder` | abstract: the runs of a demand, one at a time, generations and attempts growing, attempts below the budget |
| `AnalysisDemand` | the automatic analysis of one dump: demand, target, runs, slot, planners, recovery, Current |
| `AnalysisDemandProofs` | its type correctness, two invariants, the freshness of decisions and the refinement of `RunLadder` |
| `MCAnalysisDemand` | its instances for TLC |
| `UploadLifecycle` | a dump from its upload to its deletion: API, verification, retained bytes, expiry, payload collector |
| `UploadLifecycleProofs` | its type correctness, what is retained in the store, and verdicts under one completing request; that the projections show the Current, and every steady row once |
| `MCUploadLifecycle` | its instance for TLC |
| `ExecutionSlots` | the capacity that the demands of all workspaces share |
| `ExecutionSlotsProofs` | its limits, that no call is idle, and the bound of the rotation, from counting lemmas |
| `EvidenceComparison` | `compare_evidence` as operators over reports |
| `CurrentReport` | abstract: the report of an occurrence, replaced by rule or by review |
| `ReportHistory` | the same with the memory of a report that a better one has replaced |
| `CurrentPromotion` | the workers and reviewers that replace it, in detail; implements `CurrentReport` |
| `CurrentPromotionProofs` | its invariants, the refinement of `CurrentReport`, what the rule keeps, and that it leads nowhere back |
| `CurrentProjections` | what a promotion writes for the views, statement by statement, and a client that pages (proofs in `UploadLifecycleProofs`) |
| `CatalogFanout` | from accepted files and declared roles to the demands planned again |
| `PublicSymbols` | the jobs that fetch the public PDBs of one occurrence |
| `CatalogFanoutProofs` | that every change reaches its demands, and what availability and plans say; that public-symbol jobs keep their verdicts |
| `FrozenSources`, `FrozenAnalysis`, `FrozenExecution` | the analysis of one frozen run: partitions and evidence, the core's exchanges, the worker around it |
| `FrozenExecutionProofs` | what a report says of its sources, and what a run leaves behind |
| `UploadClient` | the uploader, the upload API and the store, request by request |
| `UploadClientProofs` | that the receipt is true, files are verified once, and failures have causes |
| `SymbolSource` | the private source of symbol files and its cache |
| `Accounts` | accounts, their sessions and their tokens |
| `SymbolGateway` | what the gateway before Symbolicator learns, forgets and leaves out |
| `ServicesProofs` | type correctness, invariants and refinement of `TaskHandoff`; the invariants of `Accounts`, `SymbolSource` and `SymbolGateway` |
| `MCServices` | `ReportHistory` and the four models of services in one run |
| `MC...` of each other | its instances for TLC |

Where a proof module is about several models, they share the module and nothing else: a prover's run over a
module takes minutes, and this keeps each of them within half an hour.

`AnalysisDemand` stands on `TaskHandoff`: its `ClaimRun` is the fenced grant that `FencedTask` promises, so
that one worker at most acts on a run and its last transaction is accepted once. `UploadLifecycle` has the
claims of `verify_upload` in the same way, and ends where `ensure_demand` makes or restarts the demand that
`AnalysisDemand` is about; an expiry is its `DumpExpires`. `ExecutionSlots` has many demands where
`AnalysisDemand` has one in detail, and promises it its turn; `CatalogFanout` makes the events
`CatalogChange` and `RoleChange` of `AnalysisDemand`; the answer of its comparison is `CurrentPromotion`,
whose last transaction contains one of `CurrentProjections`; the report that is compared comes out of
`FrozenExecution`, whose answers of the private source are those of `SymbolSource` and whose answers of the
public ones come through `SymbolGateway`. The task of a job of `PublicSymbols` is one of `TaskHandoff`,
delivered in one step. `UploadClient` ends at `VERIFYING`, where `UploadLifecycle` and, for a PE or PDB,
`CatalogFanout` go on.

### TaskHandoff and the code

One step is one transaction, except `claim_task`: it reads the execution row without a lock and writes it
later, so it is `ClaimTaskRead` and `ClaimTaskWrite` / `ClaimTaskCommit`, with the lock on the intent row
held between them. `intent[t]` and `execution[t]` are the two rows; `broker[t]` counts undelivered copies;
`relay[r]` and `worker[w]` hold what a process read in an earlier transaction; `target[t]` is the domain row
the task settles; `winner[t]` and `enqueued[t]` record who settled it and which relay claims really
published. The deadlines are steps of their own (`RelayLeaseLapses`, `ExecutionLeaseLapses`,
`BackoffElapses`). `processor.py`'s handlers are the skeleton claim, work, finalize; what they write to
their target is that it is settled. The schema and envelope checks of a message are one error,
`RejectBeforeClaim`.

### AnalysisDemand and the code

| variable | code |
|---|---|
| `demand` | the `auto_analysis_demands` row; `reason` is a word and the cause that a retry reason has inside |
| `target` | the `auto_analysis_demand_targets` row of `demand.generation`: fingerprint, roles, cause |
| `runs` | the demand's `analysis_runs` rows, each with its intent and execution as one `task` |
| `current` | `occurrences.current_run_id` |
| `slot` | the demand's `analysis_execution_slots` row |
| `plan[p]` | what planner `p` carries from one transaction to the next |
| `evidence`, `revision`, `affecting`, `cursor` | what planning yields now, the catalog watermark, the changes that concern the dump, the fan-out cursor |
| `policy`, `policy_cursor` | the version of the workspace's module roles and its cursor |
| `live` | `_live(blob)` |

Each action names its function in a comment and in `map`. The branches of a function whose outcome the
demand sees differently are actions of their own: `adopt_frozen_run` with `freeze_target` and
`bind_execution_slot` is `AdoptNewRun`, `AdoptExistingRun` or `AdoptionRefused`. The refusal and the
transaction of the planner's exception handler are one step: a stale plan stays stale until the handler
runs, and a refusal that something in between would lift is an outcome of `PlanningFails`.

Abstractions: COMPLETE stands for PARTIAL, FAILED for the other failure states, ANALYZING for the stages up
to GROUPING, which are one transaction; a delivery for a run that has ended is not followed (it writes its
execution row only); the inspection is read and registered in one step; `compare_evidence` is its set of
possible answers given Current and cause; a planner's name stands for its claim token, new in every claim;
the paused setting is off; a time is none, in the future or due, and passes by `NotBeforePasses`.

### UploadLifecycle and the code

| variable | code |
|---|---|
| `upload` | the `uploads` row; `claim` is the number of the collector's pass for its token, `completed` says whether `completed_at` is set, `deleted` whether `payload_deleted_at` is |
| `task` | the row of `task_intents` (there or not) and of `task_executions` for `verify_upload` |
| `blob[ws][c]` | the `dump_blobs` row: none, live, due (past `expires_at`) or deleted |
| `staged[u]`, `stored[c]` | the objects under `uploads/...` and `dump-blobs/<sha256>/original.dmp` |
| `contentLock[c]` | the advisory lock of `lock_dump_content`, held to the end of its transaction |
| `call`, `verifier`, `expirer`, `collector` | what a process carries from one step to the next |

A content stands for its bytes, its sha256 and its length. The steps follow the transactions and the calls
of the object store: `complete_upload` is an unlocked read, a `head` and a write without a condition;
`verify_upload` reads the staged object twice; its last transaction is two steps, `RetainDumpContent` under
the content lock and `SettleUpload`, because the object it puts outlives a rollback; so is each expiry. Only
dumps are followed: a symbol file ends in the catalog instead of `dump_blobs`. Multipart completion is in
`UploadClient`; the `QUARANTINED` state, which nothing sets, is left out. A connection is taken to live as
long as its process, so that the lock is not lost while the process still calls the store.

### ExecutionSlots and the code

`claim_execution_slots` is one action, `ClaimExecutionSlots`, as it holds the scheduler's row: it drops the
slots of lapsed leases and ended runs, ranks the ready demands inside their workspaces, and takes a page of
the order (rank, turn of the workspace, age), at most `ReleaseLimit` within the limits. A demand is only
away, waiting for a time, ready, or being run; the reasons `new_dump` and `manual` are priority 0.
`claims[p]` is what the planner has yet to work off, `passed[w]` a history of how many slots went to others
while `w` had work. The paused setting is off.

### EvidenceComparison, CurrentReport, CurrentPromotion and the code

A report is a record of what `compare_evidence` looks at: digests, status, fault, modules with their
selection, role and source outcomes, frames with their texts. The operators follow its early returns in
their order; the list of differences it also returns decides nothing and is left out. Sub-sequences are
taken by position (`ElementsAt`), not with the library's recursive `SelectSeq`, so that they can be reasoned
about. `CurrentReport` has these answers as its only rule, as the constants `Allowed` and `Reviewable`; TLC
gets them as tables. `CurrentPromotion` has the race: `ReadCurrent` is a transaction of its own, `Finalize`
the last one, which either finds the Current it compared with or goes back (`Recompare`), `MaxComparisons`
times (`ComparedTooOften`). Reviews are prepared in one transaction (`PrepareReview`) and applied in another
(`CommitReview`), while pairs come and go. The refinement maps `report` to the report of the row `current`
points at; `Promise` is its name.

### CatalogFanout and the code

Every writer of the catalog locks the row of `catalog_watermark` first, so a transaction is an action:
`AcceptFile` (binding, pairs in both directions, availability of every file it meets, log), `LoseLocation`,
`ReviewPair`, `DeclareModuleRole`, and a page of each fan-out. `Snapshot` and `FreezeTarget` are the
planner's two transactions. `LoseLocation` (`mark_location_unavailable`) has no caller in production code,
only in tests; a file has one stable location, `catalog/files/<id>/raw`. Every module is x86_64. `Concerns`
compares identities as SQL does: an id that is absent equals nothing. `NobodyIsMissed` speaks of the dumps
whose modules the fan-out can address (`Reached`): a module with only a code id can be missed (see the
deviations), and `analyze_frozen_run` (processor.py:232) rejects a pair that was selected for it.

### CurrentProjections and the code

A promotion's projections run in one transaction under READ COMMITTED: reads see what is committed, writes
wait for the row locks of others. A step is a statement; `txn[o]` holds the rows it has written, so that a
rollback forgets them. PostgreSQL's deadlock detector is `DeadlockVictim`, a uniqueness violation
`DuplicateGroup`. Relations are enough of a symbol's issue to tell it from another; times are the
occurrence's.

### FrozenSources, FrozenAnalysis, FrozenExecution and the code

`FrozenSources` is the pure part of `src/core`: how the captured modules divide into source partitions, what
an answer or its absence says of each module, which sources may own a symbol, and when a report is partial.
`FrozenAnalysis` is one invocation: the PEs of the selected pairs, the public PEs under a budget of their
own, one exchange per partition under the deadlines, assembly. The engine may answer anything of `Replies`,
forget a request, or never answer. `FrozenExecution` is `DockerVolumeWorkspace` and the executor around it,
a step per container command, each of which may fail before or after it took effect; the core may be killed
or run into the worker's deadline. Outcomes of a candidate or an identity that `collect` refuses are
"unusable" answers; the size limits of PEs and results, the core's own compute time and the crash of the
worker itself are left out. Two things the model shows and no property forbids: a `docker run` client that
times out leaves the core running, and the named volume is then never removed (`excuse`); and a module
without selection that no frame falls in is reported as missing its PE without any source having been asked.

### PublicSymbols and the code

`pdbJob` and `pdbRequest` are the rows of `public_symbol_jobs` and `public_symbol_requests`, `pdbTask[j]`
the intent and the execution of the job's task with the copies in the queue, `pdbWorker[w]` the local state
of `run_public_symbol_job`. A claim, the saving of an item and the end are transactions of their own, a
download is between two of them. `PdbTargets` is `build_public_symbol_targets`: a module that is ruled out
is skipped, a name that an earlier module has is merged, and the rest up to `TargetLimit` is pending. The
handler renews no lease. As in the code, a worker whose lease has lapsed may go on as long as nobody else
has claimed its task, so that recovery may fail a job that the worker then completes; and a module behind
the limit is labelled `target_limit` even if its PDB is fetched for an earlier module.

### SymbolSource and the code

A step is a section under the cache's condition (`material_cache.py`), one materialisation
(`catalog_materials.py`) or one response (`catalog_source.py`). `srcEntry`, `srcPending` and `srcWeight` are
the cache's fields, `srcDisk` its directory, `srcFree` the capacity that a request takes before it looks
anything up. `FailureClass` is how the classes of the replicas that were tried become that of the answer.
Which of the unused files are evicted first is left open; that eviction stops when there is room is not.
`FileVanishes` and `FileIsDamaged` are what happens to the directory from outside.

### Accounts and the code

`Authenticate` is the transaction that reads a session or a token and its user; the handlers then work with
what it read (`acctRequest[r]`), so that a role may be stale, as it may be in the code. Handlers that lock
one row and commit are one step; a login (lock, check, commit) and an edit of a user (which locks its target
and the other administrators) are two. `revoke_all` of an account is `RevokedAll`. `late` is a history: it
marks a credential or a request that rests on something looked at before everything of the account was
revoked. The expiry of a credential and the rate limit only refuse requests, and are left out, and so are
edits of names.

### SymbolGateway and the code

`Symbolicate` gives a request the sources of the deployment, with the filter that leaves known misses out
(`PathPatterns`; `FailsOpen` where no filter can be made); `SymbolicatorAnswers` learns from a completed
answer and appends what is new to the file, which may fail or leave half a line (`gwTorn`). Symbolicator
keeps its requests over a restart of the gateway, also one with other options. Three behaviours of the code
are in the model as they are: an entry appended after half a line is lost at the next restart; the miss of a
module of another kind than PE is learned though Microsoft was not asked for it; and a request that was
submitted before learning was switched on teaches misses that Microsoft was never asked for (`gwBlind`).

### UploadClient and the code

`client` is the uploader's program counter with what it has read, `calls` the requests that are on their way
or being worked on, `rows` the uploads with their parts and object, `receipt` what was written down. A
repeated request is a new member of `calls` while the first may still be served. The bytes of a file are a
version number; an edit keeps the length. Every init makes a row of its own; a complete of a completed row
is answered with its state; a multipart complete is not repeatable: cut off between the store and the row,
it leaves an `INITIALIZED` upload (`halfway`). What may excuse a failed file is collected in `causes`:
edited, refused, late, halfway, overlap.

## 3. Runs

| run | checks | instance |
|---|---|---|
| `handoff` | `ClaimsAreSound`, `NoStrandedSuccess`, refinement `AtMostOnceFenced`, liveness `OpenTargetsSettle` | one task, two relays, two workers, any two failures of ten kinds, under fairness |
| `demand` | `SlotAndBudget`, `FreshWhenDecided`, refinement `OneRunAtATime` | two planners, two events out of catalog, role and review, one fault, `MaxAttempts` 2: 1.3 million states |
| `demand_live` | liveness `RestsOrReplays` | one planner, two events out of catalog, expiry and restart, one fault, under fairness |
| `uploads` | `DumpsAreKept`, `WaitingCanBeVerified`, `VerdictIsFinal` | two uploads, two workspaces, two PUTs, two verifiers, two collectors, one completing request, one failure: a million states |
| `slots` | `CapacityIsSharedOut`, `BoundedBypass`, liveness `EveryDemandServed` | two planners, four demands of three workspaces, two slots, one event, one fault; `CapacityIsSharedOut` says that the limits are kept and no call is idle, `BoundedBypass` that while a workspace waits, every other one is served at most once |
| `promotion` | `DecisionsAreSound`, refinement `Promise`, `ReviewedPairsHold`, liveness `EveryRunEnds` | four runs, one reviewer, two pairs, two changes, two pair events, one fault |
| `catalog` | `NobodyIsMissed`, `CatalogIsDerived`, liveness `EverybodyIsServed` | a PE and two PDBs, two workspaces, two demands, pages of one, two events, one fault: 106 thousand states |
| `projections` | `ProjectionsAreSound`, `SteadyRowsAreShownOnce`, liveness `TransactionsEnd` | two occurrences, two symbols, two groups, two and three reports, pages of one |
| `projections_counts` | `CountsAreExact` must be violated | the same |
| `frozen` | `EvidenceIsHonest`, `PublicNeverFailsTheRun`, `LeakHasCause`, liveness `ExecutionEnds` | four dumps, two pairs, two public sources, four kinds of reply, two failures of commands: 222 thousand states |
| `uploader` | `ReceiptIsTrue`, `RepetitionIsHarmless`, liveness `UploadEnds` | two batches (a multipart dump, an empty file and a small one; one small file), two attempts, two faults, one edit: 420 thousand states |
| `services` | `NoReturn`, `ReplacementIsEarned`, `PublicSymbolJobsAreSound`, `VerdictsStand`, `SourceBooksBalance`, `PermanentMeansProven`, `CredentialsAreCurrent`, `AdminRemains`, `MissesAreProven` | every sequence of replacements among 96 reports; two jobs, two workers and three modules; two files that do not fit into the cache together; two accounts and a service with two credentials and two requests; one request and four modules at the gateway: 660 thousand states |

The five models of `services` share no state: a behaviour is one of the model that `side` names. Types are
checked with the invariants of each module. `projections_counts` is the one finding: two promotions that
change the relations of one symbol each count what they can see, so that a stored count and state, which the
health check compares with the relations, stay wrong; the views count for themselves and are not affected.
The count and the last time of a group are lost in the same way.

**Bounds.** Two planners are enough for a race for one slot: a third can only repeat what the second does.
Two events are needed for a change during the run that an earlier change caused, and for expiry followed by
a change; one fault for a lapsed planning or run lease or a crash at any point (lost and late messages are
not faults: a published run may become overdue at any time). `MaxAttempts` 2 has both a retry and an
exhausted budget. The budgets `events` and `faults` are part of the state; every other counter is bounded by
them. The role and expiry kinds are in different runs to keep each within minutes; the proofs cover all
kinds together. In `uploads` two uploads are an upload and a re-upload to the same or another workspace, or
one upload whose object is replaced; two verifiers are a stale one and its successor; two collectors one
that lost its claim and the one that took it. `MaxClaims` 2 and `MaxPasses` 2 allow a retry of each. In
`slots` four demands over two slots have one workspace with two demands that must not get both, and a page
of two that does not hold every ready demand; in `promotion` four runs let a run be overtaken by two others
and a review, and two pairs are none, one or a conflict. In `catalog` a page of one puts every other step
between two pages, and the two PDBs of one debug id make and unmake a conflict. In `projections` two
occurrences with their symbols in opposite orders have every deadlock there is. In `frozen` three ticks are
a budget the public sources can use up, and one they can not; the failures around the core are tried with
one dump, as they do not look at it. In `uploader` `Attempts` 2 stands for five: a request is repeated once
or gives up, and two faults reach both; `MaxPolls` is at least 1, as the client asks once before it gives
up. In `services` the cache holds either file but not both, so that each is evicted for the other, and one
fault is a lost or a damaged file or a restart at any point; two replicas and three are as many as are tried
and one more. Two jobs and two workers are a job and its successor, a slow worker and the one that takes
over; of three modules two share a PDB and the limit is two. Two accounts that can both be administrators,
and two requests, are what it takes to edit each other away; two credentials are an old and a new one. At
the gateway two modules share a name and not an identity, one is of another kind and one has no identity,
and two faults are a torn write and a restart.

**Fairness.** `AnalysisDemand!Fairness` is weak fairness of the loop in `automatic_main.py` (recovery,
fan-out, claim, every planner step), of deadlines, of the relay's publishing, and of the last transaction of
a worker whose lease is live (its heartbeat and its time limits end it). A message need not reach a worker
and a worker that lost its lease need not finish: recovery has to do. `TaskHandoff!Fairness` is weak
fairness of relays and workers and of the reconciliation command, which the operator's guide asks for.
`ExecutionSlots` has weak fairness of each planner's claims and work, of runs that end, and of deadlines;
`CurrentPromotion` of the worker's steps and of its last transaction; `CatalogFanout` of the two fan-outs
and of planning, which `slots` justifies; `FrozenExecution` of the core's and the worker's own steps, not of
the engine; `UploadClient` of the client and of the requests it waits for, not of the workers.
`CurrentProjections` has strong fairness of each transaction's statements: PostgreSQL queues the waiters of
a row, so that a lock that is free again and again is granted in the end.

**Deadlock** is not an error where a cfg says so: a demand that has come to rest with no events left has
nothing to do, and so has an upload that was settled and collected, a run that has ended, a batch that was
sent, or, in `services`, an occurrence with a report that none of the others may replace. In `projections`
the system never stops, and deadlock is checked.

### Deviations seen while modelling

Besides the finding above, these are behaviours of the code that the models contain, with the statement they
sit uneasily with. The properties are stated so that they hold beside them.

* A worker that crashes after its claim leaves the task open until an operator reconciles;
  `OpenTargetsSettle` assumes that somebody does.
* `poison_task_delivery` is not fenced by a generation: a stale delivery's permanent error ends the run of
  its successor (docs/adr/0006: every terminal result is accepted only from the current generation).
* A change that leaves the target as it was makes the planner adopt the run that has ended, settle, and do
  so again: `RestsOrReplays` (docs/adr/0021).
* The cause of a change that arrives while a run is queued is lost when the claim sets `analysis_running`
  (processor.py:198); `CurrentPromotion!Change` has both outcomes.
* A symbol that arrives while the run of a dump that has expired is still going is never planned.
* Of two requests that complete one upload at the same time, the slower sets an accepted upload back to
  `VERIFYING`; `uploads` therefore has one completing request at a time.
* The payload of an upload that is rejected at completion is never collected (docs/adr/0014), and an
  accepted dump whose cleanup failed and whose retained copy has expired is kept as
  `authoritative_dump_missing` (upload_gc.py:318).
* A module with only a code id (platform/tests/test_missing_symbol_identity_postgres.py:39 has one) is not
  told of a PDB whose new scope makes a pair with its PE visible: `accept_file` logs the PDB's scope without
  a code id, and `fanout_next` (analysis_demands.py:523) compares with it. docs/adr/0018 says that newly
  available pairs trigger reanalysis of the affected occurrences.
* A row of the uploader may be sent to verification a second time, by a complete that was repeated and
  overlapped with the first; it is then judged for what a late put has left there. With two attempts TLC
  finds no receipt that is wrong for it, with three there is one: the proof of `ReceiptIsTrue` found it, and
  the property now speaks of rows that were sent once.
* `claim_execution_slots` locks slots and then, by the foreign key of a new slot, a demand, while
  `bind_execution_slot` runs under the lock of its demand and takes the slot (analysis_scheduler.py:189).
  Row locks of the scheduler are not modelled, so nothing is claimed about it.
* A file that somebody deletes from the cache's directory while it is read loses its entry, and the release
  of its readers then fails and takes download capacity with it; `SourceBooksBalance` is about the time
  before (`srcVanished`). An entry whose file is gone cannot be evicted: the request that wants its room
  fails with an error nobody handles. A cached copy that was damaged is answered as permanently bad although
  replicas may be sound, and a request larger than the cache empties it before it fails. A failure after the
  rename leaves a file that is not counted until the next restart.
* The three behaviours of the gateway, and the two of public-symbol jobs, that are named with their modules
  in section 2.

## 4. Theorems

All theorems hold for any sets of tasks, workers, relays, planners and outcomes, any retry budget and any
number of events and failures, under the assumptions named in the modules (non-empty sets, distinct null
values, `MaxAttempts` at least 1).

*TaskHandoff.* The invariants are not inductive alone. `IInv` adds that nothing is in flight for a task
without its domain row (`InFlight`), that the lock on the intent row admits one claiming worker per task,
whose generation is the successor of the committed one (`ClaimLock`), that a relay about to acknowledge has
published (`AckAfterPublish`), and that only a settled target has a winner. From it follow `TypeCorrect`,
`ClaimsAreDistinct`, `AcknowledgedWasPublished`, `SuccessIsNeverStranded` and `ImplementsFencedTask`.

*AnalysisDemand.* `ActiveRunHoldsTheSlot` is not inductive: a planner that may freeze a target must know
that no run is in progress, which needs the slot to name a run that exists, only the newest run to be
active, and the newest run to carry the demand's generation and at most its attempt. The invariant `IInv`
adds these, and that the runs climb in (generation, attempt) with attempts below `MaxAttempts`. Every action
has one of four shapes (`Quiet`: nothing that the invariant sees changes; `Passes`: the slot changes hands
while no run is in progress; `Starts`: a run begins; `Stops`: the active run ends and leaves the slot); the
proof shows this once per action and the invariant once per shape. From it follow `TypeCorrect`,
`SlotIsExclusive`, `BudgetIsKept` (distinct attempts below the budget are at most that many) and
`Refinement`, the step simulation of `RunLadder`.

`DecisionsAreFresh` and `NothingIsLost` are the other half: a decided demand has seen every change. Their
invariant `FInv` says where a change may be that is not in the target: still behind a cursor, for a demand
that has been planned with all it was told (`TargetFollows`), or in a plan that adoption will refuse, as it
was made at an older revision (`PlansKnow`). Beside it stand that cursors and sequences lag behind what they
follow (`CountsFollow`), that a run in progress leaves its demand open and notes what arrives
(`RunsArePending`, `PlanningIsOpen`), and that a demand is decided only when planned through
(`DecidedIsPlanned`). Every step keeps these but one, the expiry of a dump under its running analysis: so
`NothingIsLost` has as hypothesis that it does not happen (`[][DumpIsKept]_vars`), and `DecisionsAreFresh`
that dumps do not expire at all, which is what TLC checks.

*ExecutionSlots.* That a claim keeps the limits is an argument about an order: the page is a set of demands
each of which has fewer than so many before it. `AheadOrders`, `RanksDiffer` and `BeforeOrders` show that
the rank inside a workspace and the order of the page are strict total orders on the eligible demands,
`FirstAreFew` that a finite set has at most `k` members with fewer than `k` before them, and from these
`CapacityHolds` and `LimitsHold` follow for any number of workspaces, demands and planners.
`CallsAreNotIdle` needs that the page cannot be filled by demands that must not be served (`PageHoldsOne`):
before the first demand of a workspace that is not full there are only first demands of full workspaces,
each of which holds a slot, and fewer slots are held than the page has places. `RotationComesRound` has the
invariant `RotationInv`: what was served since a workspace began to wait, plus the workspaces before it in
the rotation, is less than the number of workspaces. Proving it tightened `BoundedBypass`.

*UploadLifecycle.* That a retained dump is stored is not inductive: `IInv` adds that a worker about to
accept holds the lock of a content whose object is there (`WorkerKnows`), and that an expiry about to delete
an object holds its lock while no workspace retains it (`ExpirerKnows`). From it follow `TypeCorrect`,
`LiveDumpsAreStored` and `ContentsAreTheirNames`, for any number of workspaces that share a content and with
any number of concurrent completions. `WaitingIsNotInVain` and `VerdictsAreFinal` hold while no two requests
complete one upload at the same time (`OneRequest`, a condition on the environment that the code does not
enforce): their invariant `Verdicts` ties the states of upload, task and request to each other.
`OneCompleterSuffices` shows that one client that completes an upload fulfils the condition.

*CurrentPromotion.* `IInv` says that runs are made in the order of their ids for growing generations
(`RunsAreInOrder`), that only the run in progress settles the demand (`RunsAreOfTheDemand`, `OneActive`),
that only runs with a result are decided on (`DecidedIsOver`), that the Current and every prepared candidate
are such runs (`DecidedIsKept`), and that a worker's report is of those the assumptions speak of
(`WorkKnown`). The report of a decided run never changes, so that the comparison that the last transaction
relies on is one with the row it finds: `HandsOfCurrent` is this step, and `DecisionsHold`,
`ReviewsRestOnPairs` and `ImplementsCurrentReport` rest on it. `BusinessIsKept`, `LossesAreExcused` and
`ReplacementsAreEarned` then unfold the rule: the greedy alignment finds only equal keys (`EarliestStep`, by
a least counterexample, as induction is out of reach), the frames it is made of are those of the report
(`ElementsAtPositions`), so a reliable frame that is not counted as lost is found in the candidate with its
texts (`ThreadKeeps`, `FrameIsKept`); and a verdict "promote" leaves no loss of business, and other losses
only under a temporary failure and against a gain (`PromotedAnchors`). They are theorems about
`CurrentReport`'s properties in the implementation (`RuleEarnsReplacement` says the same of the abstract
specification, as the run checks it), for any frames, threads and modules; they assume of a report that it
has these fields and that its frames are a sequence.

`NoReportReturns` says that replacements by rule never lead back to a report that a better one has replaced.
As every single step may lose something, the proof needs an order that they climb (`NotBelow`, `Above`):
roles become clearer; if they stay, no thread loses business anchors or their texts; and if these stay too,
no thread loses the texts of its other frames, and no module its unique selection. That no anchor is lost is
a statement about numbers, and the rule speaks of single frames: the anchors of the old report that the
alignment keeps are carried into the new one by an injection of positions, which makes a comparison of
cardinalities. What improves is strictly above what it replaces (`RuleClimbs`), and what was left stays
below the Current (`HistoryInv`). The texts, reports and modules are any that the comparison can read; the
fields of a frame are finitely many.

*CurrentProjections.* `ProjectionsInv` says that what is committed of an occurrence is what its Current's
report says (`OfTheCurrent`), and that a transaction's draft is, from the statement on that writes a table,
what its own run's report says of that table (`Drafted`): the rows of an occurrence are written by its own
transaction only, so a commit puts a draft of the new Current where that of the old one was. `Drafted` goes
statement by statement, because the groups and symbols it refers to are rows of others, which must be there
by the time they are pointed at. From it follows `ProjectionsStaySound`: the views show the Current, and the
history of memberships has no gap. For `SteadyRowsAreSeenOnce` the invariant `PagingInv` says that a row
that has not changed since the reader began was shown once if the cursor has passed its entry, and not if it
has not. A page is the set of the entries behind the cursor with fewer than `PageSize` between them and it;
that the next cursor has all of them behind it, and nothing else, is an argument about a finite set with a
total order.

*CatalogFanout.* The heart is `Chased`: a demand that is settled is current, or an event that touches it is
still ahead of a cursor, in a later revision or in a later page of the revision that is being fanned out
(`Ahead`, `Coming`, `RoleComing`). It needs that two files that some scope sees have their pair
(`MeetingIsPairing`), that availability is what the bindings say, and that a plan made at the newest
revision is what planning would yield now (`PlansFollow`); then every transaction that changes what a module
resolves to has logged a change that touches the demands concerned. The page lemmas say that a page is the
next rows in order and that nothing lies between two pages. From it follow `NobodyIsPassedBy`,
`StoredAvailability` and `PairsAreThere`, for finite sets of demands and files.

*PublicSymbols.* A verdict stays only because whoever saves one is the worker of the current generation and
has, in its own copy, every verdict that was saved (`WorkerIsSound`); a generation is one worker's
(`ClaimsDiffer`), and a job that is completed has an ended task, so that nobody takes it up (`JobIsSound`).
Each step is about one job; what it must keep of it is collected in `PdbStepIsSound`, and `SoundStepKeeps`
shows once that this is enough. `PublicSymbolJobsHold` and `SavedVerdictsStand` hold for any jobs, keys,
workers, modules and limits.

*FrozenExecution.* `CoreInv` follows the core: before the sources are planned none was asked and the public
PEs have left the other half of the time alone (`Unplanned`); every selection was checked (`Verified`);
public partitions come after all others, and a result is assembled when none waits (`Ordered`); only a
failed run has a reason, and never its own checks (`Reasoned`); each stage has one outcome per source, and
before its partition was answered it says that nothing is known (`OutcomeFacts`); and a symbol has an
outcome "found" of the source it is ascribed to (`SymbolsHold`). `Tidy` says which containers and whether
the volume may be there at each of the worker's steps, unless a failed command has left something
(`excuse`); `Reported` that only the result of a core that is done is reported, and as partial when it is.
`SymbolsAreAscribed`, `PendingIsNotMissing`, `PublicSourcesAreOptional`, `AssemblyAccepts` and
`VolumesAreRemoved` follow for any dumps, pairs, finitely many sources and any answers.

*UploadClient.* `ReceiptsAreTrue`, `FilesAreVerifiedOnce` and `FailuresHaveCauses` need to know at every
step of the client which row it is at and with what (`ClientKnows`), the same of every request, also of one
whose client has given it up (`CallsKnow`), what a row's status says of its parts and object
(`RowsAreHonest`, `Stored`), that a file is completed in one row, and by one request unless two overlap
(`OneRow`, `OneComplete`), that a file which was not edited has one version wherever it is (`OneVersion`),
and that a failure has been counted (`FaultsAreCounted`, `FailuresAreExcused`). Each action is shown to keep
them by lemmas about the frame it leaves alone. The theorems hold for any batches, attempts, parts and
faults.

*SymbolSource.* The books balance because of what a request is at (`RequestIsSound`): the fill of a file has
one request and no entry beside it (`FillsAreKnown`), so that the entry it makes has one reader. Files are
treated one at a time (`FileIsSound`), and a step says of one request what it becomes (`MoveIsSound`), from
which the counts follow by lemmas about cardinalities and about the sum of sizes. The answers are part of
the invariant (`AnswerIsProven`). `SourceBooksAlwaysBalance` and `PermanentIsProven` hold for any files,
sizes, replicas and limits, and finitely many threads.

*Accounts.* That a live credential rests on nothing revoked needs the same of what requests carry: an
identity that was authenticated belongs to a credential which, while it is live, has not been overtaken
(`AuthenticatedIsTrue`), and a login holds the row whose password it looked at, an edit the rows of the
administrators it counted (`LocksAreHeld`). All handlers that commit have one shape (`HandlerWrites`): the
credentials of some accounts are all revoked, some new ones are issued, and no row that somebody else holds
is written. `AnAdminRemains` follows from the counted administrators being locked: nobody else can have
demoted one of them.

*SymbolGateway.* While a gateway learns, every request that Symbolicator holds was given the Microsoft
source (`WaitsForPublic`), unless learning was switched on over one that was not (`gwBlind`); so what a
completed answer reports missing was asked for, or left out as it is known already. `LearnedMissesAreProven`
says this for any modules, seed and restarts.

`ClaimsStaySound`, `SlotAndBudgetHold`, `RetainedDumpsAreKept`, `CapacityUsed`, `DerivedCatalog`,
`HonestEvidence` and `HarmlessRepetition` state the invariants of the runs in the form TLC checks them: each
is the conjunction of parts that are theorems of their own.

**Where the proofs have changed the models.** Where the tools read a definition differently it has been made
definite: `(UNION S) \cup T` has its parentheses, alternatives are guarded disjuncts or IF where CASE would
leave a value open; `Plan` of the core is a set with what was `sent`, and public sources are finite.
`SymbolOrder` and `Observed` of the projections go by position, a page is a set and what was shown a count,
where the library's recursive operators on sequences were before; the abstract report has its memory in
`ReportHistory`; and sets that are counted are assumed to be finite. Where a proof failed for a reason, the
property was wrong and is now stated as it holds: the receipt and the modules with a code id only (see the
deviations), and the gain that `LossExcused` asks for, which is a text for a frame that had none, not a fact
that no other frame had stated.

**Only model-checked.** Liveness (`OpenTargetsSettle`, `RestsOrReplays`, `EveryDemandServed`,
`EveryRunEnds`, `EverybodyIsServed`, `TransactionsEnd`, `ExecutionEnds`, `UploadEnds`), which is out of the
prover's reach with fairness and ENABLED. Every invariant, every action property and every refinement that a
passing run checks is a theorem, two of them under a condition that their statements name (`OneRequest`,
`DumpIsKept`).

## 5. Plan

All modules of the plan are written, and everything that the runs check but liveness is proved. What could
follow:

1. `AnalysisDemand`: the slot of `ExecutionSlots` as a refinement, so that one module's fairness is the
   other's theorem.
2. `PublicSymbols` as an implementation of `FencedTask`, with a result accepted once per generation.
3. A model of what the private source, the gateway and a frozen run do together, with the deadlines of all
   three.

## 6. What is not modelled

The content of dumps, symbols, manifests and results: parsing, unwinding, identities, grouping fingerprints.
HTTP and presentation, including the frontend; metrics and deployment scripts. The object store beyond its
calls failing, and presigned addresses; time beyond deadlines that pass. Database isolation below the
transaction, except for the unlocked reads of `claim_task` and `complete_upload` and for the projections.

In modelled components: reviews of engine upgrades; the mode with `evidence_promotion_enabled` off; the
paused setting; compressed uploads and submissions; changes of a workspace's in-app rules; several
architectures; the expiry of sessions and the rate limit of logins; the order in which the cache evicts;
what the gateway does to requests and answers beyond their sources; the local executor and the older
commands of the core. `PROJECT.json` has the reasons per component and, under `hazards`, the ones no
property covers.
