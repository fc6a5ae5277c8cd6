---------------------------- MODULE PublicSymbols ----------------------------
(***************************************************************************)
(* Fetching the public PDBs of one occurrence's dump into the engine's     *)
(* cache: routes_public_symbols.py creates the job, the task hand-off      *)
(* delivers it, public_symbols.py works through its items under a fenced   *)
(* claim, and public_symbol_recovery.py delivers it again or gives it up.  *)
(*                                                                         *)
(* One step is one committed transaction, one download or one failure.     *)
(* The handler renews no lease, so that recovery and a second worker may   *)
(* overtake a worker that is slow.  The outbox and the broker are those of *)
(* TaskHandoff; here an intent is delivered in one step.                   *)
(***************************************************************************)
EXTENDS Naturals, FiniteSets

CONSTANTS PdbJobs,        \* jobs of the occurrence
          PdbKeys,        \* idempotency keys of the requests
          PdbWorkers,     \* worker threads
          PdbModules,     \* positions of the dump's modules
          PdbIdentity,    \* PdbIdentity[m]: name and debug identity of m's PDB
          PdbRuns,        \* analysis runs of the occurrence
          PdbSkip,        \* PdbSkip[r][m]: why run r's evidence rules m out, or "none"
          PdbVerdicts,    \* the verdicts on a module that happen
          TargetLimit,    \* settings.public_symbol_max_modules
          MaxDeliveries,  \* the deliveries after which recovery gives a job up
          NoPdbJob,       \* neither a job nor a worker's work
          NoPdbRun,       \* the source of a job that was not created
          MaxPdbFaults    \* bound: deliveries repeated, copies lost, dead workers

ASSUME PublicSymbolsAssumption ==
    /\ PdbModules \subseteq Nat
    /\ NoPdbJob \notin PdbJobs
    /\ NoPdbRun \notin PdbRuns
    /\ PdbVerdicts \subseteq {"downloaded", "not_found", "identity_mismatch", "failed"}
    /\ TargetLimit \in Nat
    /\ MaxDeliveries \in Nat
    /\ MaxPdbFaults \in Nat

VARIABLES pdbRequest,  \* public_symbol_requests: the job each key was given
          pdbJob,      \* public_symbol_jobs rows
          pdbTask,     \* intent and execution of each job, and its copies in the queue
          pdbWorker,   \* local state of run_public_symbol_job
          pdbFaults   \* failures left to happen

pdbVars == <<pdbRequest, pdbJob, pdbTask, pdbWorker, pdbFaults>>

-----------------------------------------------------------------------------
ItemStates == {"unknown", "pending", "fetching", "merged", "skipped",
               "downloaded", "not_found", "identity_mismatch", "failed"}
PdbItems == [PdbModules -> ItemStates]
PdbJobRow == [status : {"absent", "queued", "running", "completed", "failed"},
              source : PdbRuns \cup {NoPdbRun}, items : PdbItems, budget : {"left", "spent"}]
PdbTaskRow == [intent : {"absent", "pending", "published", "dead"}, deliveries : Nat,
               copies : Nat, outcome : {"absent", "running", "succeeded"},
               generation : Nat, leased : BOOLEAN]
PdbWorkerState == [pc : {"idle", "start", "next", "fetch"},
                   job : PdbJobs \cup {NoPdbJob}, generation : Nat, items : PdbItems]

NoItems == [m \in PdbModules |-> "unknown"]
PdbIdle == [pc |-> "idle", job |-> NoPdbJob, generation |-> 0, items |-> NoItems]

PdbTypeOK == /\ pdbRequest \in [PdbKeys -> PdbJobs \cup {NoPdbJob}]
             /\ pdbJob \in [PdbJobs -> PdbJobRow]
             /\ pdbTask \in [PdbJobs -> PdbTaskRow]
             /\ pdbWorker \in [PdbWorkers -> PdbWorkerState]
             /\ pdbFaults \in Nat

PdbInit ==
    /\ pdbRequest = [k \in PdbKeys |-> NoPdbJob]
    /\ pdbJob = [j \in PdbJobs |->
          [status |-> "absent", source |-> NoPdbRun, items |-> NoItems, budget |-> "left"]]
    /\ pdbTask = [j \in PdbJobs |->
          [intent |-> "absent", deliveries |-> 0, copies |-> 0,
           outcome |-> "absent", generation |-> 0, leased |-> FALSE]]
    /\ pdbWorker = [w \in PdbWorkers |-> PdbIdle]
    /\ pdbFaults = MaxPdbFaults

PdbActive(j) == pdbJob[j].status \in {"queued", "running"}
PdbEnded(j) == pdbJob[j].status \in {"completed", "failed"}

-----------------------------------------------------------------------------
(* The items of a job. *)

\* The names whose PDBs the modules before m, as far as they are not ruled out, ask for.
NamesBefore(r, m) ==
    {PdbIdentity[i] : i \in {i \in PdbModules : i < m /\ PdbSkip[r][i] = "none"}}

\* Every name is fetched once, for the first module that has it, and no more than
\* TargetLimit names are: a module behind the limit is skipped even when its name
\* is one of those that are fetched.
PdbTargets(r) ==
    [m \in PdbModules |->
        IF PdbSkip[r][m] # "none" \/ Cardinality(NamesBefore(r, m)) >= TargetLimit
        THEN "skipped"
        ELSE IF PdbIdentity[m] \in NamesBefore(r, m) THEN "merged" ELSE "pending"]

Undecided(items) == {m \in PdbModules : items[m] \in {"pending", "fetching"}}
FirstUndecided(items) ==
    CHOOSE m \in Undecided(items) : \A i \in Undecided(items) : m <= i

\* download_pdb: the proxy has the file, has it not, or fails, answers something else or
\* takes too long.
DownloadAnswers == {"downloaded", "not_found", "failed"}

\* A file that came is looked at: it is the one, another one, or it cannot be told in time.
Checked(answer) == IF answer = "downloaded"
                   THEN {"downloaded", "identity_mismatch", "failed"} ELSE {answer}

-----------------------------------------------------------------------------
(* Requests. *)

\* A key that is known is answered with its job and changes nothing.  While a job is
\* active, other keys join it.  A new job is about the Current run, or else the newest:
\* analysis moves on by itself, so that this may be any run at the time.
CreatePublicSymbolJob(k) ==
    /\ pdbRequest[k] = NoPdbJob
    /\ \/ \E j \in PdbJobs :
            /\ PdbActive(j)
            /\ pdbRequest' = [pdbRequest EXCEPT ![k] = j]
            /\ UNCHANGED <<pdbJob, pdbTask>>
       \/ /\ \A i \in PdbJobs : ~PdbActive(i)
          /\ \E j \in PdbJobs, run \in PdbRuns :
               /\ pdbJob[j].status = "absent"
               /\ pdbJob' = [pdbJob EXCEPT ![j].status = "queued", ![j].source = run]
               /\ pdbTask' = [pdbTask EXCEPT ![j].intent = "pending"]
               /\ pdbRequest' = [pdbRequest EXCEPT ![k] = j]
    /\ UNCHANGED <<pdbWorker, pdbFaults>>

\* A relay that dies before it has noted the delivery makes its successor repeat it.
DeliverPublicSymbols(j) ==
    /\ pdbTask[j].intent = "pending"
    /\ \E repeated \in {0, 1} :
         /\ repeated <= pdbFaults
         /\ pdbFaults' = pdbFaults - repeated
         /\ pdbTask' = [pdbTask EXCEPT ![j].intent = "published",
                           ![j].copies = @ + 1 + repeated, ![j].deliveries = @ + 1 + repeated]
    /\ UNCHANGED <<pdbRequest, pdbJob, pdbWorker>>

PdbCopyIsLost(j) ==
    /\ pdbTask[j].copies > 0
    /\ pdbFaults > 0
    /\ pdbFaults' = pdbFaults - 1
    /\ pdbTask' = [pdbTask EXCEPT ![j].copies = @ - 1]
    /\ UNCHANGED <<pdbRequest, pdbJob, pdbWorker>>

-----------------------------------------------------------------------------
(* run_public_symbol_job. *)

PdbLeased(t) == t.outcome = "running" /\ t.leased
PdbTaskFinished(t) == [t EXCEPT !.outcome = "succeeded", !.leased = FALSE]

\* claim_task rejects a copy whose task succeeded or is leased; the claim of a job that
\* has ended meanwhile is finished at once.
\* Mutant: the handler does not look at the job's status.
ClaimEndedToo(w, j, t) ==
    /\ pdbJob' = [pdbJob EXCEPT ![j].status = "running"]
    /\ pdbTask' = [pdbTask EXCEPT ![j] = t]
    /\ pdbWorker' = [pdbWorker EXCEPT ![w] =
          [pc |-> "start", job |-> j, generation |-> t.generation, items |-> pdbJob[j].items]]

PdbClaimed(w, j, t) ==
    \/ /\ ~PdbEnded(j)
       /\ pdbJob' = [pdbJob EXCEPT ![j].status = "running"]
       /\ pdbTask' = [pdbTask EXCEPT ![j] = t]
       /\ pdbWorker' = [pdbWorker EXCEPT ![w] =
             [pc |-> "start", job |-> j, generation |-> t.generation,
              items |-> pdbJob[j].items]]
    \/ /\ PdbEnded(j)
       /\ pdbTask' = [pdbTask EXCEPT ![j] = PdbTaskFinished(t)]
       /\ UNCHANGED <<pdbJob, pdbWorker>>

ClaimPublicSymbolJob(w, j) ==
    /\ pdbWorker[w].pc = "idle"
    /\ pdbTask[j].copies > 0
    /\ LET t == [pdbTask[j] EXCEPT !.copies = @ - 1] IN
       \/ /\ PdbLeased(t) \/ t.outcome = "succeeded"
          /\ pdbTask' = [pdbTask EXCEPT ![j] = t]
          /\ UNCHANGED <<pdbJob, pdbWorker>>
       \/ /\ ~PdbLeased(t) /\ t.outcome # "succeeded"
          /\ PdbClaimed(w, j, [t EXCEPT !.outcome = "running", !.generation = @ + 1,
                                     !.leased = TRUE])
    /\ UNCHANGED <<pdbRequest, pdbFaults>>

\* claim_is_current: the generation is the claim's and the outcome is open; a lease that
\* ran out does not matter.
\* Mutant: the write is not fenced.
AlwaysCurrent(w) == TRUE

PdbClaimIsCurrent(w) ==
    /\ pdbTask[pdbWorker[w].job].generation = pdbWorker[w].generation
    /\ pdbTask[pdbWorker[w].job].outcome = "running"

\* _save_job: the worker goes on only if its claim is still current.
SavedItems(w, items, pc) ==
    LET j == pdbWorker[w].job IN
    \/ /\ PdbClaimIsCurrent(w)
       /\ pdbJob' = [pdbJob EXCEPT ![j].items = items]
       /\ pdbWorker' = [pdbWorker EXCEPT ![w].pc = pc, ![w].items = items]
    \/ /\ ~PdbClaimIsCurrent(w)
       /\ pdbWorker' = [pdbWorker EXCEPT ![w] = PdbIdle]
       /\ UNCHANGED pdbJob

\* The last save of a worker ends the job and its task, unless another worker has it.
SavedFor(w, status) ==
    LET j == pdbWorker[w].job IN
    /\ \/ /\ PdbClaimIsCurrent(w)
          /\ pdbJob' = [pdbJob EXCEPT ![j].items = pdbWorker[w].items, ![j].status = status]
          /\ pdbTask' = [pdbTask EXCEPT ![j] = PdbTaskFinished(@)]
       \/ ~PdbClaimIsCurrent(w) /\ UNCHANGED <<pdbJob, pdbTask>>
    /\ pdbWorker' = [pdbWorker EXCEPT ![w] = PdbIdle]
    /\ UNCHANGED <<pdbRequest, pdbFaults>>

\* The items are those the job has, or follow from the evidence of its source run.
LoadPdbItems(w) ==
    /\ pdbWorker[w].pc = "start"
    /\ pdbWorker' = [pdbWorker EXCEPT ![w].pc = "next",
          ![w].items = IF @ = NoItems THEN PdbTargets(pdbJob[pdbWorker[w].job].source) ELSE @]
    /\ UNCHANGED <<pdbRequest, pdbJob, pdbTask, pdbFaults>>

\* The item is saved as being fetched, or fails unsaved when the job's time is up.
StartPdbItem(w) ==
    LET items == pdbWorker[w].items
        m == FirstUndecided(items) IN
    /\ pdbWorker[w].pc = "next"
    /\ Undecided(items) # {}
    /\ \/ /\ pdbJob[pdbWorker[w].job].budget = "left"
          /\ SavedItems(w, [items EXCEPT ![m] = "fetching"], "fetch")
       \/ /\ pdbJob[pdbWorker[w].job].budget = "spent"
          /\ pdbWorker' = [pdbWorker EXCEPT ![w].items[m] = "failed"]
          /\ UNCHANGED pdbJob
    /\ UNCHANGED <<pdbRequest, pdbTask, pdbFaults>>

\* The download and the identity check have a verdict on the module, which is saved.
FetchPdb(w) ==
    LET items == pdbWorker[w].items IN
    /\ pdbWorker[w].pc = "fetch"
    /\ \E answer \in DownloadAnswers : \E v \in Checked(answer) \cap PdbVerdicts :
          SavedItems(w, [items EXCEPT ![FirstUndecided(items)] = v], "next")
    /\ UNCHANGED <<pdbRequest, pdbTask, pdbFaults>>

CompletePublicSymbolJob(w) ==
    /\ pdbWorker[w].pc = "next"
    /\ Undecided(pdbWorker[w].items) = {}
    /\ SavedFor(w, "completed")

\* The frozen evidence cannot be read or contradicts itself, or an error is not one of a
\* download: what was found so far is saved with the failure.
FailPublicSymbolJob(w) ==
    /\ pdbWorker[w].pc \in {"start", "next", "fetch"}
    /\ SavedFor(w, "failed")

-----------------------------------------------------------------------------
(* Time, crashes and recovery. *)

PdbBudgetRunsOut(j) ==
    /\ pdbJob[j].status = "running"
    /\ pdbJob' = [pdbJob EXCEPT ![j].budget = "spent"]
    /\ UNCHANGED <<pdbRequest, pdbTask, pdbWorker, pdbFaults>>

PdbLeaseLapses(j) ==
    /\ PdbLeased(pdbTask[j])
    /\ pdbTask' = [pdbTask EXCEPT ![j].leased = FALSE]
    /\ UNCHANGED <<pdbRequest, pdbJob, pdbWorker, pdbFaults>>

\* The copy of a dead worker goes back to the queue.
PdbWorkerCrashes(w) ==
    /\ pdbWorker[w].pc # "idle"
    /\ pdbFaults > 0
    /\ pdbFaults' = pdbFaults - 1
    /\ pdbTask' = [pdbTask EXCEPT ![pdbWorker[w].job].copies = @ + 1]
    /\ pdbWorker' = [pdbWorker EXCEPT ![w] = PdbIdle]
    /\ UNCHANGED <<pdbRequest, pdbJob>>

\* A job that nobody works on, after its delivery time-out if it never was claimed, is
\* delivered again; after MaxDeliveries it fails and its intent is dead.
RecoverPublicSymbolJob(j) ==
    /\ PdbActive(j)
    /\ pdbTask[j].intent \in {"published", "dead"}
    /\ ~PdbLeased(pdbTask[j])
    /\ pdbTask[j].outcome # "succeeded"
    /\ \/ /\ pdbTask[j].deliveries < MaxDeliveries
          /\ pdbTask' = [pdbTask EXCEPT ![j].intent = "pending"]
          /\ UNCHANGED pdbJob
       \/ /\ pdbTask[j].deliveries >= MaxDeliveries
          /\ pdbTask' = [pdbTask EXCEPT ![j].intent = "dead"]
          /\ pdbJob' = [pdbJob EXCEPT ![j].status = "failed"]
    /\ UNCHANGED <<pdbRequest, pdbWorker, pdbFaults>>

PdbWorkerStep(w) ==
    \/ LoadPdbItems(w) \/ StartPdbItem(w) \/ FetchPdb(w)
    \/ CompletePublicSymbolJob(w) \/ FailPublicSymbolJob(w)

PdbNext ==
    \/ \E k \in PdbKeys : CreatePublicSymbolJob(k)
    \/ \E j \in PdbJobs : \/ DeliverPublicSymbols(j) \/ PdbCopyIsLost(j)
                          \/ PdbBudgetRunsOut(j) \/ PdbLeaseLapses(j)
                          \/ RecoverPublicSymbolJob(j)
    \/ \E w \in PdbWorkers : \/ \E j \in PdbJobs : ClaimPublicSymbolJob(w, j)
                             \/ PdbWorkerStep(w) \/ PdbWorkerCrashes(w)

PdbSpec == PdbInit /\ [][PdbNext]_pdbVars

-----------------------------------------------------------------------------
(* Properties. *)

OpenItem == {"unknown", "pending", "fetching"}

\* An occurrence has at most one active job, however its jobs ended.  A job that says it
\* is completed has a verdict on every module, and nobody is to work on it again; the
\* task of an active job is not done with, or no delivery would be taken up any more.
PublicSymbolJobsAreSound ==
    /\ PdbTypeOK
    /\ \A i, j \in PdbJobs : PdbActive(i) /\ PdbActive(j) => i = j
    /\ \A j \in PdbJobs :
          /\ pdbJob[j].status = "completed" =>
                /\ \A m \in PdbModules : pdbJob[j].items[m] \notin OpenItem
                /\ pdbTask[j].outcome = "succeeded"
          /\ PdbActive(j) => pdbTask[j].intent # "absent" /\ pdbTask[j].outcome # "succeeded"

\* A verdict that was saved stays, whichever workers a job goes through, overtakes or
\* loses; a job that ended is not taken up again, and a completed one does not change.
VerdictsStand ==
    [][\A j \in PdbJobs :
          /\ \A m \in PdbModules : pdbJob[j].items[m] \notin OpenItem =>
                pdbJob'[j].items[m] = pdbJob[j].items[m]
          /\ PdbEnded(j) => PdbEnded(j)'
          /\ pdbJob[j].status = "completed" => pdbJob'[j].status = "completed"]_pdbVars
=============================================================================
