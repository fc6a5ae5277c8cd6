-------------------------- MODULE UploadLifecycle ---------------------------
(***************************************************************************)
(* A dump from its upload to its deletion: uploads.py (create, complete),  *)
(* verify_upload and _accept_dump of processor.py, dump_content.py (the    *)
(* retained bytes, stored once per sha256), retention.py (their expiry)    *)
(* and upload_gc.py (the staged payloads).                                 *)
(*                                                                         *)
(* One step is a committed transaction, an unlocked read of a row or a     *)
(* call of the object store.  A content stands for its sha256, its length  *)
(* and its bytes.  The hand-off of the verify_upload task is TaskHandoff's *)
(* subject: here its message keeps being delivered until it has succeeded. *)
(***************************************************************************)
EXTENDS Naturals, FiniteSets

CONSTANTS Uploads,     \* rows of uploads, all of kind dmp
          Workspaces,
          Contents,    \* bytes a client may send
          Fitting,     \* those of the declared length
          Declared,    \* those that pass _verify_payload: length, hint, magic
          Dumps,       \* those Core accepts as an x86_64 user minidump
          Completers,  \* concurrent requests to complete an upload
          Verifiers,   \* verify_upload workers
          Expirers,    \* processes in expire_dump_blobs: retention_main, the CLI
          Collectors,  \* processes in sweep_terminal_upload_payloads
          NoUpload, NoWorkspace, NoContent, NoProcess,  \* NULLs
          MaxPuts,     \* bound: PUTs of clients
          MaxClaims,   \* bound: claims of a verification
          MaxPasses,   \* bound: passes of the collectors over a payload
          MaxFaults    \* bound: crashes, failed calls and missed heartbeats

ASSUME UploadAssumption == /\ Declared \subseteq Fitting
                           /\ Fitting \subseteq Contents
                           /\ Dumps \subseteq Contents
                           /\ NoContent \notin Contents
                           /\ NoUpload \notin Uploads
                           /\ NoWorkspace \notin Workspaces
                           /\ NoProcess \notin Verifiers \cup Expirers
                           /\ Verifiers \cap Expirers = {}
                           /\ {MaxPuts, MaxClaims, MaxPasses, MaxFaults} \subseteq Nat

VARIABLES upload,      \* rows of uploads
          task,        \* rows of task_intents and task_executions for verify_upload
          blob,        \* blob[ws][c]: the dump_blobs row of c in ws
          staged,      \* staged[u]: the object under upload_key
          stored,      \* stored[c]: the object under dump-blobs/<c>/original.dmp
          contentLock, \* contentLock[c]: holder of lock_dump_content
          call,        \* local state of complete_upload
          verifier,    \* local state of verify_upload
          expirer,     \* local state of expire_dump_blobs
          collector,   \* local state of sweep_terminal_upload_payloads
          puts, faults \* what may still happen

rows == <<upload, task, blob>>
objects == <<staged, stored>>
procs == <<call, verifier, expirer, collector>>
vars == <<rows, objects, contentLock, procs, puts, faults>>

-----------------------------------------------------------------------------
Terminal == {"ACCEPTED", "REJECTED"}   \* nothing in the code quarantines
Content == Contents \cup {NoContent}

\* No transaction leaves a row UPLOADED: it goes on to VERIFYING in the same one.
\* claim is the number of the collector's pass that holds the payload, 0 for a
\* NULL token; completed says whether completed_at is set.
UploadRow == [status : {"absent", "INITIALIZED", "VERIFYING"} \cup Terminal,
              workspace : Workspaces \cup {NoWorkspace}, sha : Content,
              completed : BOOLEAN, claim : Nat, claim_live : BOOLEAN,
              attempts : Nat, deleted : BOOLEAN]
TaskRow == [intent : BOOLEAN, outcome : {"none", "running", "failed", "succeeded"},
            generation : Nat, lease_live : BOOLEAN]
BlobState == {"none", "live", "due", "deleted"}

CallState == [pc : {"idle", "read", "matches", "differs"}, upload : Uploads \cup {NoUpload}]
VerifierState == [pc : {"idle", "hash", "download", "retain", "settle", "delete", "mark"},
                  upload : Uploads \cup {NoUpload}, generation : Nat,
                  sha : Content, raw : Content, rejected : BOOLEAN]
ExpirerState == [pc : {"idle", "delete", "commit"},
                 workspace : Workspaces \cup {NoWorkspace}, content : Content]
CollectorState == [pc : {"idle", "delete", "mark", "fail"},
                   upload : Uploads \cup {NoUpload}, token : Nat]

NoRow == [status |-> "absent", workspace |-> NoWorkspace, sha |-> NoContent,
          completed |-> FALSE, claim |-> 0, claim_live |-> FALSE,
          attempts |-> 0, deleted |-> FALSE]
NoTask == [intent |-> FALSE, outcome |-> "none", generation |-> 0, lease_live |-> FALSE]
IdleCall == [pc |-> "idle", upload |-> NoUpload]
IdleVerifier == [pc |-> "idle", upload |-> NoUpload, generation |-> 0,
                 sha |-> NoContent, raw |-> NoContent, rejected |-> FALSE]
IdleExpirer == [pc |-> "idle", workspace |-> NoWorkspace, content |-> NoContent]
IdleCollector == [pc |-> "idle", upload |-> NoUpload, token |-> 0]

TypeOK == /\ upload \in [Uploads -> UploadRow]
          /\ task \in [Uploads -> TaskRow]
          /\ blob \in [Workspaces -> [Contents -> BlobState]]
          /\ staged \in [Uploads -> Content]
          /\ stored \in [Contents -> Content]
          /\ contentLock \in [Contents -> Verifiers \cup Expirers \cup {NoProcess}]
          /\ call \in [Completers -> CallState]
          /\ verifier \in [Verifiers -> VerifierState]
          /\ expirer \in [Expirers -> ExpirerState]
          /\ collector \in [Collectors -> CollectorState]
          /\ puts \in Nat /\ faults \in Nat

Init == /\ upload = [u \in Uploads |-> NoRow]
        /\ task = [u \in Uploads |-> NoTask]
        /\ blob = [ws \in Workspaces |-> [c \in Contents |-> "none"]]
        /\ staged = [u \in Uploads |-> NoContent]
        /\ stored = [c \in Contents |-> NoContent]
        /\ contentLock = [c \in Contents |-> NoProcess]
        /\ call = [k \in Completers |-> IdleCall]
        /\ verifier = [v \in Verifiers |-> IdleVerifier]
        /\ expirer = [x \in Expirers |-> IdleExpirer]
        /\ collector = [g \in Collectors |-> IdleCollector]
        /\ puts = MaxPuts /\ faults = MaxFaults

Fault == faults > 0 /\ faults' = faults - 1

Unlocked(c) == contentLock[c] = NoProcess

\* Rows a transaction leaves, and the next step of a process.
WithStatus(row, status) == [row EXCEPT !.status = status]
Released(row) == [row EXCEPT !.claim = 0, !.claim_live = FALSE]
Ended(row, outcome) == [row EXCEPT !.outcome = outcome, !.lease_live = FALSE]
At(state, pc) == [state EXCEPT !.pc = pc]

-----------------------------------------------------------------------------
(* The client, and uploads.py                                              *)

\* initialize_upload: the row, and a URL to PUT to.
InitializeUpload(u, ws) ==
    /\ upload[u].status = "absent"
    /\ upload' = [upload EXCEPT ![u] = [NoRow EXCEPT !.status = "INITIALIZED", !.workspace = ws]]
    /\ UNCHANGED <<task, blob, objects, contentLock, procs, puts, faults>>

\* The URL stays good until its time is up, whatever becomes of the upload.
ClientPut(u, c) ==
    /\ upload[u].status # "absent"
    /\ puts > 0
    /\ puts' = puts - 1
    /\ staged' = [staged EXCEPT ![u] = c]
    /\ UNCHANGED <<rows, stored, contentLock, procs, faults>>

\* Mutant: a completion that was already rejected may be tried again.
CompleteReads_RejectedToo(k, u) ==
    /\ call[k].pc = "idle"
    /\ upload[u].status \in {"INITIALIZED", "REJECTED"}
    /\ call' = [call EXCEPT ![k] = [pc |-> "read", upload |-> u]]
    /\ UNCHANGED <<rows, objects, contentLock, verifier, expirer, collector, puts, faults>>

\* The row is read without a lock.  A row that is past completion is only shown.
CompleteReads(k, u) ==
    /\ call[k].pc = "idle"
    /\ upload[u].status = "INITIALIZED"
    /\ call' = [call EXCEPT ![k] = [pc |-> "read", upload |-> u]]
    /\ UNCHANGED <<rows, objects, contentLock, verifier, expirer, collector, puts, faults>>

\* store.head: an absent object ends the call with CONFLICT.
CompleteHeads(k) ==
    /\ call[k].pc = "read"
    /\ LET c == staged[call[k].upload] IN
         call' = [call EXCEPT ![k] = IF c = NoContent THEN IdleCall
                                     ELSE At(@, IF c \in Fitting THEN "matches" ELSE "differs")]
    /\ UNCHANGED <<rows, objects, contentLock, verifier, expirer, collector, puts, faults>>

\* The transitions are checked against the row as it was read; the UPDATE has
\* no condition.  A rejection leaves completed_at as it is.
CompleteRejects(k) ==
    /\ call[k].pc = "differs"
    /\ upload' = [upload EXCEPT ![call[k].upload] = WithStatus(@, "REJECTED")]
    /\ call' = [call EXCEPT ![k] = IdleCall]
    /\ UNCHANGED <<task, blob, objects, contentLock, verifier, expirer, collector, puts, faults>>

\* Status, completed_at and the intent of verify_upload commit together; an
\* intent that is there already is kept.
CompleteCommits(k) ==
    /\ call[k].pc = "matches"
    /\ LET u == call[k].upload IN
         /\ upload' = [upload EXCEPT ![u] = [WithStatus(@, "VERIFYING") EXCEPT !.completed = TRUE]]
         /\ task' = [task EXCEPT ![u].intent = TRUE]
    /\ call' = [call EXCEPT ![k] = IdleCall]
    /\ UNCHANGED <<blob, objects, contentLock, verifier, expirer, collector, puts, faults>>

\* The request is cut off; what it read is forgotten.
CompleteDies(k) ==
    /\ call[k].pc # "idle"
    /\ Fault
    /\ call' = [call EXCEPT ![k] = IdleCall]
    /\ UNCHANGED <<rows, objects, contentLock, verifier, expirer, collector, puts>>

-----------------------------------------------------------------------------
(* verify_upload                                                           *)

\* claim_is_current and finish_claim
ClaimIsCurrent(v) == LET row == task[verifier[v].upload] IN
                       /\ row.outcome = "running"
                       /\ row.generation = verifier[v].generation

VerifierTo(v, pc) == verifier' = [verifier EXCEPT ![v] = At(@, pc)]
VerifierEnds(v) == verifier' = [verifier EXCEPT ![v] = IdleVerifier]
Unlock(p) == contentLock' = [c \in Contents |-> IF contentLock[c] = p THEN NoProcess
                                                ELSE contentLock[c]]

\* An exception before the verdict ends the claim as failed, if it still is this
\* worker's, and the message is delivered again.  After the verdict it only
\* leaves the cleanup undone.
Raise(v) == /\ task' = IF ClaimIsCurrent(v)
                       THEN [task EXCEPT ![verifier[v].upload] = Ended(@, "failed")]
                       ELSE task
            /\ VerifierEnds(v)

\* The first transaction: a claim, or with the upload settled already its end.
ClaimVerification(v, u) ==
    /\ verifier[v].pc = "idle"
    /\ task[u].intent
    /\ task[u].outcome # "succeeded"
    /\ ~(task[u].outcome = "running" /\ task[u].lease_live)
    /\ task[u].generation < MaxClaims
    /\ LET claimed == [task[u] EXCEPT !.outcome = "running", !.lease_live = TRUE,
                                      !.generation = @ + 1] IN
         IF upload[u].status = "VERIFYING"
           THEN /\ task' = [task EXCEPT ![u] = claimed]
                /\ verifier' = [verifier EXCEPT ![v] =
                     [IdleVerifier EXCEPT !.pc = "hash", !.upload = u,
                                          !.generation = claimed.generation]]
           ELSE /\ task' = [task EXCEPT ![u] = Ended(claimed, "succeeded")]
                /\ UNCHANGED verifier
    /\ UNCHANGED <<upload, blob, objects, contentLock, call, expirer, collector, puts, faults>>

\* stream_sha256 over the staged object, then the checks of the declaration.
HashStaged(v) ==
    /\ verifier[v].pc = "hash"
    /\ LET c == staged[verifier[v].upload] IN
         /\ c # NoContent
         /\ verifier' = [verifier EXCEPT ![v] =
              [At(@, IF c \in Declared THEN "download" ELSE "settle")
                 EXCEPT !.sha = c, !.rejected = c \notin Declared]]
    /\ UNCHANGED <<rows, objects, contentLock, call, expirer, collector, puts, faults>>

\* The object is read a second time, into a file: other bytes than those that
\* were hashed are rejected, and so is what Core finds to be no such dump.
DownloadStaged(v) ==
    /\ verifier[v].pc = "download"
    /\ LET c == staged[verifier[v].upload] IN
         /\ c # NoContent
         /\ verifier' = [verifier EXCEPT ![v] =
              IF c = verifier[v].sha /\ c \in Dumps THEN [At(@, "retain") EXCEPT !.raw = c]
              ELSE [At(@, "settle") EXCEPT !.rejected = TRUE]]
    /\ UNCHANGED <<rows, objects, contentLock, call, expirer, collector, puts, faults>>

\* retain_dump_content, at the start of the last transaction: the file goes
\* under the name of its sha256 unless an object is there, which is then read
\* back, and the lock is kept to the end.
RetainDumpContent(v) ==
    /\ verifier[v].pc = "retain"
    /\ LET c == verifier[v].sha IN
         /\ Unlocked(c)
         /\ stored' = [stored EXCEPT ![c] = IF @ = NoContent THEN verifier[v].raw ELSE @]
         /\ IF stored'[c] = c
              THEN /\ contentLock' = [contentLock EXCEPT ![c] = v]
                   /\ VerifierTo(v, "settle")
                   /\ UNCHANGED task
              ELSE Raise(v) /\ UNCHANGED contentLock
    /\ UNCHANGED <<upload, blob, staged, call, expirer, collector, puts, faults>>

\* _accept_dump: no row yet is a new one, one due or deleted is restored, and a
\* live one is left as it is.
Accepted(state) == "live"

\* The last transaction, once the locks are held.
SettleUpload(v) ==
    /\ verifier[v].pc = "settle"
    /\ LET u == verifier[v].upload
           c == verifier[v].sha
           rejected == verifier[v].rejected
           current == ClaimIsCurrent(v)
           open == current /\ upload[u].status = "VERIFYING" IN
         /\ upload' = IF ~open THEN upload
                      ELSE [upload EXCEPT ![u] =
                              [WithStatus(@, IF rejected THEN "REJECTED" ELSE "ACCEPTED")
                                 EXCEPT !.sha = c]]
         /\ blob' = IF ~open \/ rejected THEN blob
                    ELSE [blob EXCEPT ![upload[u].workspace][c] = Accepted(@)]
         /\ task' = IF ~current THEN task ELSE [task EXCEPT ![u] = Ended(@, "succeeded")]
         /\ IF open THEN VerifierTo(v, "delete") ELSE VerifierEnds(v)
    /\ Unlock(v)
    /\ UNCHANGED <<objects, call, expirer, collector, puts, faults>>

\* The cleanup that follows: the object, then the row.
DeleteStaged(v) ==
    /\ verifier[v].pc = "delete"
    /\ staged' = [staged EXCEPT ![verifier[v].upload] = NoContent]
    /\ VerifierTo(v, "mark")
    /\ UNCHANGED <<rows, stored, contentLock, call, expirer, collector, puts, faults>>

MarkStagedDeleted(v) ==
    /\ verifier[v].pc = "mark"
    /\ upload' = [upload EXCEPT ![verifier[v].upload].deleted = TRUE]
    /\ VerifierEnds(v)
    /\ UNCHANGED <<task, blob, objects, contentLock, call, expirer, collector, puts, faults>>

\* The object store or the database fails the worker, or the object is not there.
VerificationFails(v) ==
    /\ verifier[v].pc # "idle"
    /\ \/ /\ verifier[v].pc \in {"hash", "download"}
          /\ staged[verifier[v].upload] = NoContent
          /\ UNCHANGED faults
       \/ Fault
    /\ Raise(v)
    /\ Unlock(v)
    /\ UNCHANGED <<upload, blob, objects, call, expirer, collector, puts>>

VerifierDies(v) ==
    /\ verifier[v].pc # "idle"
    /\ Fault
    /\ VerifierEnds(v)
    /\ Unlock(v)
    /\ UNCHANGED <<rows, objects, call, expirer, collector, puts>>

\* A lease outlives its deadline: its worker is gone, or its heartbeat failed.
LeaseLapses(u) ==
    /\ task[u].outcome = "running"
    /\ task[u].lease_live
    /\ IF \E v \in Verifiers : verifier[v].upload = u /\ ClaimIsCurrent(v) THEN Fault
       ELSE UNCHANGED faults
    /\ task' = [task EXCEPT ![u].lease_live = FALSE]
    /\ UNCHANGED <<upload, blob, objects, contentLock, procs, puts>>

-----------------------------------------------------------------------------
(* expire_dump_blobs                                                       *)

\* The retention period of a row ends.
RetentionElapses(ws, c) ==
    /\ blob[ws][c] = "live"
    /\ blob' = [blob EXCEPT ![ws][c] = "due"]
    /\ UNCHANGED <<upload, task, objects, contentLock, procs, puts, faults>>

\* Another workspace retains the same object.
Shared(ws, c) == \E other \in Workspaces \ {ws} : blob[other][c] = "live"

\* Mutant: the content lock ends with the decision, before the object goes.
ExpireDumpBlob_LockEnds(x, ws, c) ==
    /\ expirer[x].pc = "idle"
    /\ blob[ws][c] = "due"
    /\ Unlocked(c)
    /\ IF Shared(ws, c)
         THEN /\ blob' = [blob EXCEPT ![ws][c] = "deleted"]
              /\ UNCHANGED expirer
         ELSE /\ expirer' = [expirer EXCEPT ![x] =
                               [pc |-> "delete", workspace |-> ws, content |-> c]]
              /\ UNCHANGED blob
    /\ UNCHANGED <<upload, task, objects, contentLock, call, verifier, collector, puts, faults>>

\* The row is read again under the content lock.  A shared object stays.
ExpireDumpBlob(x, ws, c) ==
    /\ expirer[x].pc = "idle"
    /\ blob[ws][c] = "due"
    /\ Unlocked(c)
    /\ IF Shared(ws, c)
         THEN /\ blob' = [blob EXCEPT ![ws][c] = "deleted"]
              /\ UNCHANGED <<contentLock, expirer>>
         ELSE /\ contentLock' = [contentLock EXCEPT ![c] = x]
              /\ expirer' = [expirer EXCEPT ![x] =
                               [pc |-> "delete", workspace |-> ws, content |-> c]]
              /\ UNCHANGED blob
    /\ UNCHANGED <<upload, task, objects, call, verifier, collector, puts, faults>>

DeleteStored(x) ==
    /\ expirer[x].pc = "delete"
    /\ stored' = [stored EXCEPT ![expirer[x].content] = NoContent]
    /\ expirer' = [expirer EXCEPT ![x] = At(@, "commit")]
    /\ UNCHANGED <<rows, staged, contentLock, call, verifier, collector, puts, faults>>

CommitExpiry(x) ==
    /\ expirer[x].pc = "commit"
    /\ blob' = [blob EXCEPT ![expirer[x].workspace][expirer[x].content] = "deleted"]
    /\ expirer' = [expirer EXCEPT ![x] = IdleExpirer]
    /\ Unlock(x)
    /\ UNCHANGED <<upload, task, objects, call, verifier, collector, puts, faults>>

\* The delete fails, and the row stays due; or the process dies, with the object
\* there or not.
ExpiryFails(x) ==
    /\ expirer[x].pc # "idle"
    /\ Fault
    /\ expirer' = [expirer EXCEPT ![x] = IdleExpirer]
    /\ Unlock(x)
    /\ UNCHANGED <<rows, objects, call, verifier, collector, puts>>

-----------------------------------------------------------------------------
(* sweep_terminal_upload_payloads                                          *)

\* Mutant: an upload whose verification is under way is no exception.
Eligible_NotOnlyTerminal(u) ==
    /\ upload[u].completed
    /\ ~upload[u].deleted
    /\ ~(upload[u].claim # 0 /\ upload[u].claim_live)

\* The candidates' query, and upload_payload_gc_eligibility: for an accepted
\* dump its row must be there and its object hold its bytes.
Eligible(u) ==
    /\ upload[u].status \in Terminal
    /\ upload[u].completed
    /\ ~upload[u].deleted
    /\ ~(upload[u].claim # 0 /\ upload[u].claim_live)
    /\ ~(task[u].outcome = "running" /\ task[u].lease_live)
    /\ upload[u].status = "ACCEPTED" =>
         LET c == upload[u].sha IN
           /\ c # NoContent
           /\ blob[upload[u].workspace][c] \in {"live", "due"}
           /\ stored[c] = c

\* A pass takes the payload for itself; its number stands for its token.
ClaimPayload(g, u) ==
    /\ collector[g].pc = "idle"
    /\ Eligible(u)
    /\ upload[u].attempts < MaxPasses
    /\ LET token == upload[u].attempts + 1 IN
         /\ upload' = [upload EXCEPT ![u] = [@ EXCEPT !.claim = token, !.claim_live = TRUE,
                                                     !.attempts = token]]
         /\ collector' = [collector EXCEPT ![g] =
                            [pc |-> "delete", upload |-> u, token |-> token]]
    /\ UNCHANGED <<task, blob, objects, contentLock, call, verifier, expirer, puts, faults>>

\* An object that is not there fails the first pass and satisfies a later one.
DeletePayload(g) ==
    /\ collector[g].pc = "delete"
    /\ LET u == collector[g].upload IN
         /\ staged' = [staged EXCEPT ![u] = NoContent]
         /\ collector' = [collector EXCEPT ![g] =
              At(@, IF staged[u] = NoContent /\ @.token <= 1 THEN "fail" ELSE "mark")]
    /\ UNCHANGED <<rows, stored, contentLock, call, verifier, expirer, puts, faults>>

HoldsPayload(g) == upload[collector[g].upload].claim = collector[g].token

\* The transaction that ends a pass; one that lost its claim writes nothing.
EndPass(g, pc, deleted) ==
    /\ collector[g].pc = pc
    /\ LET u == collector[g].upload IN
         upload' = IF HoldsPayload(g)
                     THEN [upload EXCEPT ![u] =
                             [Released(@) EXCEPT !.deleted = upload[u].deleted \/ deleted]]
                     ELSE upload
    /\ collector' = [collector EXCEPT ![g] = IdleCollector]
    /\ UNCHANGED <<task, blob, objects, contentLock, call, verifier, expirer, puts, faults>>

MarkPayloadDeleted(g) == EndPass(g, "mark", TRUE)
PayloadDeleteFailed(g) == EndPass(g, "fail", FALSE)

\* A call of the object store raises, before or after it took effect.
StoreFailsCollector(g) ==
    /\ collector[g].pc \in {"delete", "mark"}
    /\ Fault
    /\ collector' = [collector EXCEPT ![g] = At(@, "fail")]
    /\ UNCHANGED <<rows, objects, contentLock, call, verifier, expirer, puts>>

CollectorDies(g) ==
    /\ collector[g].pc # "idle"
    /\ Fault
    /\ collector' = [collector EXCEPT ![g] = IdleCollector]
    /\ UNCHANGED <<rows, objects, contentLock, call, verifier, expirer, puts>>

\* payload_delete_lease_expires_at passes.
PayloadLeaseLapses(u) ==
    /\ upload[u].claim_live
    /\ upload' = [upload EXCEPT ![u].claim_live = FALSE]
    /\ UNCHANGED <<task, blob, objects, contentLock, procs, puts, faults>>

-----------------------------------------------------------------------------
Client == \E u \in Uploads : \/ \E ws \in Workspaces : InitializeUpload(u, ws)
                            \/ \E c \in Contents : ClientPut(u, c)
Complete == \E k \in Completers : \/ \E u \in Uploads : CompleteReads(k, u)
                                  \/ CompleteHeads(k) \/ CompleteRejects(k)
                                  \/ CompleteCommits(k) \/ CompleteDies(k)
Verify == \/ \E v \in Verifiers :
               \/ \E u \in Uploads : ClaimVerification(v, u)
               \/ HashStaged(v) \/ DownloadStaged(v) \/ RetainDumpContent(v)
               \/ SettleUpload(v) \/ DeleteStaged(v) \/ MarkStagedDeleted(v)
               \/ VerificationFails(v) \/ VerifierDies(v)
          \/ \E u \in Uploads : LeaseLapses(u)
Expire == \/ \E ws \in Workspaces, c \in Contents :
               \/ RetentionElapses(ws, c)
               \/ \E x \in Expirers : ExpireDumpBlob(x, ws, c)
          \/ \E x \in Expirers : DeleteStored(x) \/ CommitExpiry(x) \/ ExpiryFails(x)
Collect == \/ \E g \in Collectors :
                \/ \E u \in Uploads : ClaimPayload(g, u)
                \/ DeletePayload(g) \/ MarkPayloadDeleted(g) \/ PayloadDeleteFailed(g)
                \/ StoreFailsCollector(g) \/ CollectorDies(g)
           \/ \E u \in Uploads : PayloadLeaseLapses(u)

Next == Client \/ Complete \/ Verify \/ Expire \/ Collect

Spec == Init /\ [][Next]_vars

-----------------------------------------------------------------------------
(* Safety                                                                  *)

\* A dump_blobs row whose retention is not over has its bytes in the store,
\* whatever re-uploads and expiries of other workspaces interleave: the content
\* lock of retain_dump_content and expire_dump_blobs.
LiveDumpIsStored == \A ws \in Workspaces, c \in Contents : blob[ws][c] = "live" => stored[c] = c

\* An object under dump-blobs/<sha256> never holds other bytes, even when the
\* client replaces the staged object between the two reads of verify_upload;
\* other bytes there would fail every later upload of that dump.
ContentIsItsName == \A c \in Contents : stored[c] \in {c, NoContent}

\* What a workspace retains survives every interleaving of uploads, expiries and
\* collections: rows are well formed, live dumps stored, contents as named.
DumpsAreKept == TypeOK /\ LiveDumpIsStored /\ ContentIsItsName

\* The staged object stays as long as the upload waits for its verdict: neither
\* the worker's cleanup nor a collector takes it from under a retry.
UnverifiedPayloadIsKept ==
    \A u \in Uploads : upload[u].status = "VERIFYING" => staged[u] # NoContent

\* An upload does not wait for a verification that has ended: claim_task would
\* refuse every further delivery.
NoStrandedUpload ==
    \A u \in Uploads : task[u].outcome = "succeeded" => upload[u].status # "VERIFYING"

\* An upload that waits for its verdict can get one: its bytes are there and
\* claim_task still takes its task.
WaitingCanBeVerified == UnverifiedPayloadIsKept /\ NoStrandedUpload

\* A verdict is never taken back or changed (UPLOAD_TRANSITIONS).
VerdictIsFinal == [][\A u \in Uploads : upload[u].status \in Terminal =>
                       /\ upload'[u].status = upload[u].status
                       /\ upload'[u].sha = upload[u].sha]_vars

=============================================================================
