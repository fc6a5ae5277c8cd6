------------------------ MODULE UploadLifecycleProofs -----------------------
(***************************************************************************)
(* For any uploads, workspaces, contents and processes and any number of   *)
(* re-uploads, expiries and failures: a dump that is retained is stored    *)
(* under its name, and nothing else is stored there.  And of what an       *)
(* upload comes to, CurrentProjections: for any occurrences, reports and   *)
(* readers, the projections are those of the Current, and no page shows a  *)
(* row twice or leaves one out.                                            *)
(***************************************************************************)
EXTENDS UploadLifecycle, CurrentProjections, FiniteSetTheorems, NaturalsInduction,
        WellFoundedInduction, TLAPS

\* What a worker's local state says: past its claim it works on an upload, and
\* what it is about to retain is what it hashed.
Consistent(s) == /\ s.pc # "idle" => s.upload \in Uploads
                 /\ s.pc \in {"download", "retain"} => s.sha \in Contents
                 /\ s.pc = "retain" => s.raw = s.sha

\* The worker is about to accept.
Accepting(s) == s.pc = "settle" /\ ~s.rejected

\* What a worker is about to accept is stored, and locked by this worker.
WorkerFact(v) ==
    /\ Consistent(verifier[v])
    /\ Accepting(verifier[v]) => /\ verifier[v].sha \in Contents
                                 /\ contentLock[verifier[v].sha] = v
                                 /\ stored[verifier[v].sha] = verifier[v].sha
WorkerKnows == \A v \in Verifiers : WorkerFact(v)

\* A process that deletes an object holds its lock, and no workspace retains it.
ExpirerFact(x) ==
    expirer[x].pc # "idle" => /\ expirer[x].content \in Contents
                              /\ contentLock[expirer[x].content] = x
                              /\ \A ws \in Workspaces : blob[ws][expirer[x].content] # "live"
ExpirerKnows == \A x \in Expirers : ExpirerFact(x)

IInv == /\ TypeOK
        /\ ContentIsItsName
        /\ LiveDumpIsStored
        /\ WorkerKnows
        /\ ExpirerKnows

USE UploadAssumption

\* The rows and local states the program starts from are well formed.
LEMMA FirstRows ==
  /\ NoRow \in UploadRow /\ NoTask \in TaskRow
  /\ IdleCall \in CallState /\ IdleCall.pc = "idle"
  /\ IdleVerifier \in VerifierState /\ IdleVerifier.pc = "idle"
  /\ IdleExpirer \in ExpirerState /\ IdleExpirer.pc = "idle"
  /\ IdleCollector \in CollectorState
  <1>1. NoRow \in UploadRow  BY DEF NoRow, UploadRow, Terminal, Content
  <1>2. NoTask \in TaskRow  BY DEF NoTask, TaskRow
  <1>3. IdleVerifier \in VerifierState /\ IdleVerifier.pc = "idle"
    BY DEF IdleVerifier, VerifierState, Content
  <1>4. /\ IdleCall \in CallState /\ IdleCall.pc = "idle"
        /\ IdleExpirer \in ExpirerState /\ IdleExpirer.pc = "idle"
        /\ IdleCollector \in CollectorState
    BY DEF IdleCall, CallState, IdleExpirer, ExpirerState, IdleCollector, CollectorState, Content
  <1> QED  BY <1>1, <1>2, <1>3, <1>4

\* Every write to a row of uploads leaves a row.
LEMMA UploadRows ==
  ASSUME NEW row \in UploadRow
  PROVE  /\ \A s \in {"INITIALIZED", "VERIFYING"} \cup Terminal : WithStatus(row, s) \in UploadRow
         /\ \A b \in BOOLEAN : /\ [row EXCEPT !.completed = b] \in UploadRow
                               /\ [row EXCEPT !.deleted = b] \in UploadRow
                               /\ [row EXCEPT !.claim_live = b] \in UploadRow
         /\ \A c \in Content : [row EXCEPT !.sha = c] \in UploadRow
         /\ \A ws \in Workspaces : [row EXCEPT !.workspace = ws] \in UploadRow
         /\ \A n \in Nat : /\ [row EXCEPT !.claim = n] \in UploadRow
                           /\ [row EXCEPT !.attempts = n] \in UploadRow
         /\ row.attempts \in Nat /\ row.deleted \in BOOLEAN
  BY DEF UploadRow, WithStatus, Terminal

\* Every write to a task's row leaves a row.
LEMMA TaskRows ==
  ASSUME NEW row \in TaskRow
  PROVE  /\ \A o \in {"failed", "succeeded", "running"} : Ended(row, o) \in TaskRow
         /\ \A b \in BOOLEAN : /\ [row EXCEPT !.intent = b] \in TaskRow
                               /\ [row EXCEPT !.lease_live = b] \in TaskRow
         /\ row.generation \in Nat
         /\ [row EXCEPT !.outcome = "running", !.lease_live = TRUE,
                        !.generation = @ + 1] \in TaskRow
  <1>1. [row EXCEPT !.generation = @ + 1] \in TaskRow /\ row.generation \in Nat  BY DEF TaskRow
  <1>2. \A r \in TaskRow : [r EXCEPT !.outcome = "running", !.lease_live = TRUE] \in TaskRow
    BY DEF TaskRow
  <1>3. \A b \in BOOLEAN : /\ [row EXCEPT !.intent = b] \in TaskRow
                           /\ [row EXCEPT !.lease_live = b] \in TaskRow
    BY DEF TaskRow
  <1>4. \A o \in {"failed", "succeeded", "running"} : Ended(row, o) \in TaskRow
    BY DEF TaskRow, Ended
  <1> DEFINE next == [row EXCEPT !.generation = @ + 1]
  <1>5. [row EXCEPT !.outcome = "running", !.lease_live = TRUE, !.generation = @ + 1]
          = [next EXCEPT !.outcome = "running", !.lease_live = TRUE]
    BY DEF TaskRow
  <1> HIDE DEF next
  <1>6. next \in TaskRow  BY <1>1 DEF next
  <1> QED  BY <1>1, <1>2, <1>3, <1>4, <1>5, <1>6

\* The steps of a worker of verify_upload.
VerifierPcs == {"hash", "download", "retain", "settle", "delete", "mark"}

\* A worker that goes on to another step keeps what it knows.
LEMMA VerifierStates ==
  ASSUME NEW s \in VerifierState
  PROVE  /\ \A pc \in VerifierPcs : /\ At(s, pc) \in VerifierState
                                    /\ At(s, pc).pc = pc
                                    /\ At(s, pc).upload = s.upload
                                    /\ At(s, pc).sha = s.sha
                                    /\ At(s, pc).raw = s.raw
                                    /\ At(s, pc).rejected = s.rejected
         /\ \A c \in Content : /\ [s EXCEPT !.raw = c] \in VerifierState
                               /\ [s EXCEPT !.raw = c].raw = c
         /\ s.sha \in Content
  BY DEF VerifierState, VerifierPcs, At

\* Every step of expire_dump_blobs and of a collector leaves a local state.
LEMMA OtherStates ==
  /\ \A s \in CallState, pc \in {"read", "matches", "differs"} : At(s, pc) \in CallState
  /\ \A u \in Uploads : [pc |-> "read", upload |-> u] \in CallState
  /\ \A s \in ExpirerState : /\ At(s, "commit") \in ExpirerState
                             /\ At(s, "commit").pc = "commit"
                             /\ At(s, "commit").content = s.content
  /\ \A ws \in Workspaces, c \in Contents :
       [pc |-> "delete", workspace |-> ws, content |-> c] \in ExpirerState
  /\ \A s \in CollectorState, pc \in {"mark", "fail"} : At(s, pc) \in CollectorState
  /\ \A u \in Uploads, n \in Nat :
       [pc |-> "delete", upload |-> u, token |-> n] \in CollectorState
  <1>1. \A s \in CallState, pc \in {"read", "matches", "differs"} : At(s, pc) \in CallState
    BY DEF CallState, At
  <1>2. \A u \in Uploads : [pc |-> "read", upload |-> u] \in CallState  BY DEF CallState
  <1>3. \A s \in ExpirerState : /\ At(s, "commit") \in ExpirerState
                                /\ At(s, "commit").pc = "commit"
                                /\ At(s, "commit").content = s.content
    BY DEF ExpirerState, At
  <1>4. \A ws \in Workspaces, c \in Contents :
          [pc |-> "delete", workspace |-> ws, content |-> c] \in ExpirerState
    BY DEF ExpirerState, Content
  <1>5. \A s \in CollectorState, pc \in {"mark", "fail"} : At(s, pc) \in CollectorState
    BY DEF CollectorState, At
  <1>6. \A u \in Uploads, n \in Nat :
          [pc |-> "delete", upload |-> u, token |-> n] \in CollectorState
    BY DEF CollectorState
  <1> QED  BY <1>1, <1>2, <1>3, <1>4, <1>5, <1>6

\* A fault, and the end of a transaction's locks, keep their types.
LEMMA FaultType == TypeOK /\ Fault => faults' \in Nat
  BY DEF TypeOK, Fault

LEMMA UnlockType ==
  ASSUME TypeOK, NEW p, Unlock(p)
  PROVE  contentLock' \in [Contents -> Verifiers \cup Expirers \cup {NoProcess}]
  BY DEF TypeOK, Unlock

\* An exception keeps the types of the task and of the worker.
LEMMA RaiseType ==
  ASSUME TypeOK, NEW v \in Verifiers, Raise(v)
  PROVE  /\ task' \in [Uploads -> TaskRow]
         /\ verifier' \in [Verifiers -> VerifierState]
         /\ verifier' = [verifier EXCEPT ![v] = IdleVerifier]
  <1>1. verifier' = [verifier EXCEPT ![v] = IdleVerifier]  BY DEF Raise, VerifierEnds
  <1>2. verifier' \in [Verifiers -> VerifierState]  BY <1>1, FirstRows DEF TypeOK
  <1>3. task' \in [Uploads -> TaskRow]
    <2>1. CASE ClaimIsCurrent(v)
      BY <2>1, TaskRows DEF TypeOK, Raise
    <2>2. CASE ~ClaimIsCurrent(v)  BY <2>2 DEF TypeOK, Raise
    <2> QED  BY <2>1, <2>2
  <1> QED  BY <1>1, <1>2, <1>3

-----------------------------------------------------------------------------
(* Type correctness, one step per action                                   *)

LEMMA ClientType == TypeOK /\ Client => TypeOK'
  <1> SUFFICES ASSUME TypeOK, Client PROVE TypeOK'  OBVIOUS
  <1> USE DEF TypeOK, rows, objects, procs
  <1>1. ASSUME NEW u \in Uploads, NEW ws \in Workspaces, InitializeUpload(u, ws) PROVE TypeOK'
    <2> DEFINE made == WithStatus(NoRow, "INITIALIZED")
    <2>1. made \in UploadRow  BY FirstRows, UploadRows
    <2>2. [NoRow EXCEPT !.status = "INITIALIZED", !.workspace = ws] = [made EXCEPT !.workspace = ws]
      BY DEF WithStatus
    <2>3. [NoRow EXCEPT !.status = "INITIALIZED", !.workspace = ws] \in UploadRow
      <3> HIDE DEF made
      <3> QED  BY <2>1, <2>2, UploadRows
    <2> QED  BY <1>1, <2>3 DEF InitializeUpload
  <1>2. ASSUME NEW u \in Uploads, NEW c \in Contents, ClientPut(u, c) PROVE TypeOK'
    BY <1>2 DEF ClientPut, Content
  <1> QED  BY <1>1, <1>2 DEF Client

LEMMA CompleteType == TypeOK /\ Complete => TypeOK'
  <1> SUFFICES ASSUME TypeOK, NEW k \in Completers,
                      \/ \E u \in Uploads : CompleteReads(k, u)
                      \/ CompleteHeads(k) \/ CompleteRejects(k)
                      \/ CompleteCommits(k) \/ CompleteDies(k)
               PROVE  TypeOK'
    BY DEF Complete
  <1> USE DEF TypeOK, rows, objects, procs
  <1>1. ASSUME NEW u \in Uploads, CompleteReads(k, u) PROVE TypeOK'
    BY <1>1, OtherStates DEF CompleteReads
  <1>2. ASSUME CompleteHeads(k) PROVE TypeOK'
    BY <1>2, OtherStates, FirstRows DEF CompleteHeads
  <1>3. ASSUME CompleteRejects(k) PROVE TypeOK'
    BY <1>3, UploadRows, FirstRows DEF CompleteRejects, Terminal
  <1>4. ASSUME CompleteCommits(k) PROVE TypeOK'
    <2>1. ASSUME NEW row \in UploadRow
          PROVE  [WithStatus(row, "VERIFYING") EXCEPT !.completed = TRUE] \in UploadRow
      BY UploadRows
    <2>2. upload' \in [Uploads -> UploadRow]  BY <1>4, <2>1 DEF CompleteCommits
    <2>3. task' \in [Uploads -> TaskRow]  BY <1>4, TaskRows DEF CompleteCommits
    <2> QED  BY <1>4, <2>2, <2>3, FirstRows DEF CompleteCommits
  <1>5. ASSUME CompleteDies(k) PROVE TypeOK'
    BY <1>5, FirstRows, FaultType DEF CompleteDies
  <1> QED  BY <1>1, <1>2, <1>3, <1>4, <1>5

LEMMA VerifyType == TypeOK /\ WorkerKnows /\ Verify => TypeOK'
  <1> USE DEF TypeOK, rows, objects, procs
  <1>1. ASSUME TypeOK, WorkerKnows, NEW v \in Verifiers,
               \/ \E u \in Uploads : ClaimVerification(v, u)
               \/ HashStaged(v) \/ DownloadStaged(v) \/ RetainDumpContent(v)
               \/ SettleUpload(v) \/ DeleteStaged(v) \/ MarkStagedDeleted(v)
               \/ VerificationFails(v) \/ VerifierDies(v)
        PROVE  TypeOK'
    <2>1. verifier[v] \in VerifierState  BY <1>1
    <2>2. verifier[v].pc # "idle" => verifier[v].upload \in Uploads
      BY <1>1 DEF WorkerKnows, WorkerFact, Consistent
    <2>3. \A pc \in VerifierPcs : VerifierTo(v, pc) => verifier' \in [Verifiers -> VerifierState]
      BY <1>1, <2>1, VerifierStates DEF VerifierTo
    <2>4. VerifierEnds(v) => verifier' \in [Verifiers -> VerifierState]
      BY <1>1, FirstRows DEF VerifierEnds
    <2>5. ASSUME NEW u \in Uploads, ClaimVerification(v, u) PROVE TypeOK'
      <3> DEFINE claimed == [task[u] EXCEPT !.outcome = "running", !.lease_live = TRUE,
                                            !.generation = @ + 1]
                 next == [IdleVerifier EXCEPT !.pc = "hash", !.upload = u,
                                              !.generation = claimed.generation]
      <3>1. claimed \in TaskRow /\ Ended(claimed, "succeeded") \in TaskRow
        <4>1. claimed \in TaskRow  BY <1>1, TaskRows
        <4> HIDE DEF claimed
        <4> QED  BY <4>1, TaskRows
      <3>2. next \in VerifierState
        <4>1. claimed.generation \in Nat  BY <3>1, TaskRows
        <4> HIDE DEF claimed
        <4> QED  BY <4>1 DEF IdleVerifier, VerifierState, Content
      <3>3. \/ /\ task' = [task EXCEPT ![u] = claimed]
               /\ verifier' = [verifier EXCEPT ![v] = next]
            \/ /\ task' = [task EXCEPT ![u] = Ended(claimed, "succeeded")]
               /\ UNCHANGED verifier
        BY <2>5 DEF ClaimVerification
      <3>4. UNCHANGED <<upload, blob, objects, contentLock, call, expirer, collector, puts, faults>>
        BY <2>5 DEF ClaimVerification
      <3> HIDE DEF claimed, next
      <3>5. task' \in [Uploads -> TaskRow] /\ verifier' \in [Verifiers -> VerifierState]
        BY <1>1, <3>1, <3>2, <3>3
      <3> QED  BY <1>1, <3>4, <3>5
    <2>6. ASSUME HashStaged(v) PROVE TypeOK'
      <3> DEFINE c == staged[verifier[v].upload]
                 moved == At(verifier[v], IF c \in Declared THEN "download" ELSE "settle")
                 next == [moved EXCEPT !.sha = c, !.rejected = c \notin Declared]
      <3>1. c \in Content  BY <1>1, <2>2, <2>6 DEF HashStaged
      <3>2. moved \in VerifierState
        <4> HIDE DEF c
        <4> QED  BY <2>1, VerifierStates DEF VerifierPcs
      <3>3. next \in VerifierState
        <4> HIDE DEF moved, c
        <4> QED  BY <3>1, <3>2 DEF VerifierState
      <3>4. verifier' = [verifier EXCEPT ![v] = next]  BY <2>6 DEF HashStaged
      <3> HIDE DEF next
      <3> QED  BY <1>1, <2>6, <3>3, <3>4 DEF HashStaged
    <2>7. ASSUME DownloadStaged(v) PROVE TypeOK'
      <3> DEFINE c == staged[verifier[v].upload]
                 kept == [At(verifier[v], "retain") EXCEPT !.raw = c]
                 refused == [At(verifier[v], "settle") EXCEPT !.rejected = TRUE]
      <3>1. c \in Content  BY <1>1, <2>2, <2>7 DEF DownloadStaged
      <3>2. /\ At(verifier[v], "retain") \in VerifierState
            /\ At(verifier[v], "settle") \in VerifierState
        BY <2>1, VerifierStates DEF VerifierPcs
      <3>3. kept \in VerifierState
        <4> HIDE DEF c
        <4> QED  BY <3>1, <3>2, VerifierStates
      <3>4. refused \in VerifierState  BY <3>2 DEF VerifierState
      <3>5. \/ verifier' = [verifier EXCEPT ![v] = kept]
            \/ verifier' = [verifier EXCEPT ![v] = refused]
        BY <2>7 DEF DownloadStaged
      <3> HIDE DEF kept, refused
      <3> QED  BY <1>1, <2>7, <3>3, <3>4, <3>5 DEF DownloadStaged
    <2>8. ASSUME RetainDumpContent(v) PROVE TypeOK'
      <3>1. verifier[v].sha \in Contents /\ verifier[v].raw \in Content
        BY <1>1, <2>8 DEF WorkerKnows, WorkerFact, Consistent, RetainDumpContent, Content
      <3>2. stored' \in [Contents -> Content]  BY <1>1, <2>8, <3>1 DEF RetainDumpContent
      <3>3. /\ task' \in [Uploads -> TaskRow] /\ verifier' \in [Verifiers -> VerifierState]
            /\ contentLock' \in [Contents -> Verifiers \cup Expirers \cup {NoProcess}]
        <4>1. CASE Raise(v) /\ UNCHANGED contentLock  BY <1>1, <4>1, RaiseType
        <4>2. CASE /\ contentLock' = [contentLock EXCEPT ![verifier[v].sha] = v]
                   /\ VerifierTo(v, "settle") /\ UNCHANGED task
          BY <1>1, <4>2, <2>3 DEF VerifierPcs
        <4> QED  BY <2>8, <4>1, <4>2 DEF RetainDumpContent
      <3> QED  BY <1>1, <2>8, <3>2, <3>3 DEF RetainDumpContent
    <2>9. ASSUME SettleUpload(v) PROVE TypeOK'
      <3> DEFINE u == verifier[v].upload
                 c == verifier[v].sha
                 settled(row, status) == [WithStatus(row, status) EXCEPT !.sha = c]
      <3>1. c \in Content  BY <2>1, VerifierStates
      <3>2. ASSUME NEW row \in UploadRow, NEW status \in Terminal
            PROVE  settled(row, status) \in UploadRow
        BY <3>1, <3>2, UploadRows
      <3>3. \/ upload' = upload
            \/ \E status \in Terminal : upload' = [upload EXCEPT ![u] = settled(@, status)]
        BY <2>9 DEF SettleUpload, Terminal
      <3>4. upload' \in [Uploads -> UploadRow]
        <4> HIDE DEF settled, u
        <4> QED  BY <1>1, <3>2, <3>3
      <3>5. blob' \in [Workspaces -> [Contents -> BlobState]]
        BY <1>1, <2>9 DEF SettleUpload, Accepted, BlobState
      <3>6. task' \in [Uploads -> TaskRow]  BY <1>1, <2>9, TaskRows DEF SettleUpload
      <3>7. verifier' \in [Verifiers -> VerifierState]
        BY <2>3, <2>4, <2>9 DEF SettleUpload, VerifierPcs
      <3>8. contentLock' \in [Contents -> Verifiers \cup Expirers \cup {NoProcess}]
        BY <1>1, <2>9, UnlockType DEF SettleUpload
      <3>9. UNCHANGED <<objects, call, expirer, collector, puts, faults>>  BY <2>9 DEF SettleUpload
      <3> HIDE DEF u, c, settled
      <3> QED  BY <1>1, <3>4, <3>5, <3>6, <3>7, <3>8, <3>9
    <2>10. ASSUME DeleteStaged(v) PROVE TypeOK'
      BY <1>1, <2>10, <2>3 DEF DeleteStaged, VerifierPcs, Content
    <2>11. ASSUME MarkStagedDeleted(v) PROVE TypeOK'
      BY <1>1, <2>11, <2>4, UploadRows DEF MarkStagedDeleted
    <2>12. ASSUME VerificationFails(v) PROVE TypeOK'
      <3>1. faults' \in Nat  BY <1>1, <2>12, FaultType DEF VerificationFails
      <3> QED  BY <1>1, <2>12, <3>1, RaiseType, UnlockType DEF VerificationFails
    <2>13. ASSUME VerifierDies(v) PROVE TypeOK'
      BY <1>1, <2>13, <2>4, FaultType, UnlockType DEF VerifierDies
    <2> QED  BY <1>1, <2>5, <2>6, <2>7, <2>8, <2>9, <2>10, <2>11, <2>12, <2>13
  <1>2. ASSUME TypeOK, NEW u \in Uploads, LeaseLapses(u) PROVE TypeOK'
    <2>1. faults' \in Nat  BY <1>2, FaultType DEF LeaseLapses
    <2>2. task' \in [Uploads -> TaskRow]  BY <1>2, TaskRows DEF LeaseLapses
    <2> QED  BY <1>2, <2>1, <2>2 DEF LeaseLapses
  <1> QED  BY <1>1, <1>2 DEF Verify

LEMMA ExpireType == TypeOK /\ Expire => TypeOK'
  <1> SUFFICES ASSUME TypeOK, Expire PROVE TypeOK'  OBVIOUS
  <1> USE DEF TypeOK, rows, objects, procs
  <1>1. ASSUME NEW ws \in Workspaces, NEW c \in Contents, RetentionElapses(ws, c) PROVE TypeOK'
    BY <1>1 DEF RetentionElapses, BlobState
  <1>2. ASSUME NEW ws \in Workspaces, NEW c \in Contents, NEW x \in Expirers,
               ExpireDumpBlob(x, ws, c)
        PROVE  TypeOK'
    <2>1. UNCHANGED <<upload, task, objects, call, verifier, collector, puts, faults>>
      BY <1>2 DEF ExpireDumpBlob
    <2>2. /\ blob' \in [Workspaces -> [Contents -> BlobState]]
          /\ contentLock' \in [Contents -> Verifiers \cup Expirers \cup {NoProcess}]
          /\ expirer' \in [Expirers -> ExpirerState]
      <3>1. CASE Shared(ws, c)
        <4>1. /\ blob' = [blob EXCEPT ![ws][c] = "deleted"]
              /\ UNCHANGED <<contentLock, expirer>>
          BY <1>2, <3>1 DEF ExpireDumpBlob
        <4> QED  BY <4>1 DEF BlobState
      <3>2. CASE ~Shared(ws, c)
        <4> DEFINE next == [pc |-> "delete", workspace |-> ws, content |-> c]
        <4>1. /\ contentLock' = [contentLock EXCEPT ![c] = x]
              /\ expirer' = [expirer EXCEPT ![x] = next]
              /\ UNCHANGED blob
          BY <1>2, <3>2 DEF ExpireDumpBlob
        <4>2. next \in ExpirerState  BY OtherStates
        <4> HIDE DEF next
        <4> QED  BY <4>1, <4>2
      <3> QED  BY <3>1, <3>2
    <2> QED  BY <2>1, <2>2
  <1>3. ASSUME NEW x \in Expirers, DeleteStored(x) PROVE TypeOK'
    BY <1>3, OtherStates DEF DeleteStored, Content
  <1>4. ASSUME NEW x \in Expirers, CommitExpiry(x) PROVE TypeOK'
    <2>1. blob' \in [Workspaces -> [Contents -> BlobState]]
      BY <1>4 DEF CommitExpiry, BlobState
    <2>2. contentLock' \in [Contents -> Verifiers \cup Expirers \cup {NoProcess}]
      BY <1>4, UnlockType DEF CommitExpiry
    <2> QED  BY <1>4, <2>1, <2>2, FirstRows DEF CommitExpiry
  <1>5. ASSUME NEW x \in Expirers, ExpiryFails(x) PROVE TypeOK'
    <2>1. faults' \in Nat  BY <1>5, FaultType DEF ExpiryFails
    <2>2. contentLock' \in [Contents -> Verifiers \cup Expirers \cup {NoProcess}]
      BY <1>5, UnlockType DEF ExpiryFails
    <2> QED  BY <1>5, <2>1, <2>2, FirstRows DEF ExpiryFails
  <1> QED  BY <1>1, <1>2, <1>3, <1>4, <1>5 DEF Expire

LEMMA CollectType == TypeOK /\ Collect => TypeOK'
  <1> SUFFICES ASSUME TypeOK, Collect PROVE TypeOK'  OBVIOUS
  <1> USE DEF TypeOK, rows, objects, procs
  <1>1. ASSUME NEW g \in Collectors, NEW u \in Uploads, ClaimPayload(g, u) PROVE TypeOK'
    <2> DEFINE token == upload[u].attempts + 1
               held == [[upload[u] EXCEPT !.claim = token] EXCEPT !.claim_live = TRUE]
    <2>1. token \in Nat  BY UploadRows
    <2> HIDE DEF token
    <2>2. held \in UploadRow  BY <2>1, UploadRows
    <2>3. [held EXCEPT !.attempts = token] \in UploadRow
      <3> HIDE DEF held
      <3> QED  BY <2>1, <2>2, UploadRows
    <2>4. upload' = [upload EXCEPT ![u] = [held EXCEPT !.attempts = token]]
      BY <1>1 DEF ClaimPayload, token
    <2>5. collector' \in [Collectors -> CollectorState]
      BY <1>1, <2>1, OtherStates DEF ClaimPayload, token
    <2>6. UNCHANGED <<task, blob, objects, contentLock, call, verifier, expirer, puts, faults>>
      BY <1>1 DEF ClaimPayload
    <2> HIDE DEF held
    <2> QED  BY <2>3, <2>4, <2>5, <2>6
  <1>2. ASSUME NEW g \in Collectors, DeletePayload(g) PROVE TypeOK'
    BY <1>2, OtherStates DEF DeletePayload, Content
  <1>3. ASSUME NEW g \in Collectors, NEW pc, NEW deleted \in BOOLEAN, EndPass(g, pc, deleted)
        PROVE  TypeOK'
    <2> DEFINE ended(row) == [Released(row) EXCEPT !.deleted = row.deleted \/ deleted]
    <2>1. ASSUME NEW row \in UploadRow PROVE ended(row) \in UploadRow
      <3> DEFINE claimed == [row EXCEPT !.claim = 0]
                 free == [claimed EXCEPT !.claim_live = FALSE]
                 gone == row.deleted \/ deleted
                 last == [free EXCEPT !.deleted = gone]
      <3>1. gone \in BOOLEAN  OBVIOUS
      <3>2. ended(row) = last  BY DEF Released
      <3> HIDE DEF gone
      <3>3. claimed \in UploadRow  BY <2>1, UploadRows
      <3> HIDE DEF claimed
      <3>4. free \in UploadRow  BY <3>3, UploadRows
      <3> HIDE DEF free
      <3>5. last \in UploadRow  BY <3>1, <3>4, UploadRows
      <3> HIDE DEF last, ended
      <3> QED  BY <3>2, <3>5
    <2>2. \/ upload' = upload
          \/ upload' = [upload EXCEPT ![collector[g].upload] = ended(@)]
      BY <1>3 DEF EndPass, Released
    <2>3. collector' = [collector EXCEPT ![g] = IdleCollector]  BY <1>3 DEF EndPass
    <2>4. UNCHANGED <<task, blob, objects, contentLock, call, verifier, expirer, puts, faults>>
      BY <1>3 DEF EndPass
    <2> HIDE DEF ended
    <2> QED  BY <2>1, <2>2, <2>3, <2>4, FirstRows
  <1>4. ASSUME NEW g \in Collectors, StoreFailsCollector(g) PROVE TypeOK'
    BY <1>4, OtherStates, FaultType DEF StoreFailsCollector
  <1>5. ASSUME NEW g \in Collectors, CollectorDies(g) PROVE TypeOK'
    BY <1>5, FirstRows, FaultType DEF CollectorDies
  <1>6. ASSUME NEW u \in Uploads, PayloadLeaseLapses(u) PROVE TypeOK'
    BY <1>6, UploadRows DEF PayloadLeaseLapses
  <1> QED
    BY <1>1, <1>2, <1>3, <1>4, <1>5, <1>6 DEF Collect, MarkPayloadDeleted, PayloadDeleteFailed

LEMMA InitType == Init => TypeOK
  BY FirstRows DEF Init, TypeOK, Content, BlobState

LEMMA TypeStep == TypeOK /\ WorkerKnows /\ [Next]_vars => TypeOK'
  <1>1. TypeOK /\ UNCHANGED vars => TypeOK'
    BY DEF TypeOK, vars, rows, objects, procs
  <1> QED  BY <1>1, ClientType, CompleteType, VerifyType, ExpireType, CollectType DEF Next

-----------------------------------------------------------------------------
(* The invariant                                                           *)

\* A step of p leaves the other processes alone, and what they have locked.
OnlyItsOwn(p) ==
    /\ \A v \in Verifiers \ {p} : verifier'[v] = verifier[v]
    /\ \A x \in Expirers \ {p} : expirer'[x] = expirer[x]
    /\ \A c \in Contents : contentLock[c] \notin {p, NoProcess} =>
         /\ contentLock'[c] = contentLock[c]
         /\ stored'[c] = stored[c]
         /\ \A ws \in Workspaces : blob'[ws][c] = "live" => blob[ws][c] = "live"

\* The content lock keeps what the other processes know true: a step has to be
\* justified for its own process only.
LEMMA LockProtects ==
  ASSUME IInv, TypeOK', ContentIsItsName', LiveDumpIsStored',
         NEW p \in Verifiers \cup Expirers \cup {NoProcess}, OnlyItsOwn(p),
         p \in Verifiers => WorkerFact(p)',
         p \in Expirers => ExpirerFact(p)'
  PROVE  IInv'
  <1>1. ASSUME NEW v \in Verifiers PROVE WorkerFact(v)'
    <2>1. CASE v = p  BY <2>1
    <2>2. CASE v # p
      <3>1. verifier'[v] = verifier[v]  BY <2>2 DEF OnlyItsOwn
      <3>2. WorkerFact(v)  BY DEF IInv, WorkerKnows
      <3>3. Consistent(verifier'[v])  BY <3>1, <3>2 DEF WorkerFact
      <3>4. CASE Accepting(verifier[v])
        <4> DEFINE c == verifier[v].sha
        <4>1. c \in Contents /\ contentLock[c] = v /\ stored[c] = c
          BY <3>2, <3>4 DEF WorkerFact
        <4>2. contentLock[c] \notin {p, NoProcess}  BY <2>2, <4>1
        <4>3. contentLock'[c] = v /\ stored'[c] = c  BY <4>1, <4>2 DEF OnlyItsOwn
        <4> QED  BY <3>1, <3>3, <4>1, <4>3 DEF WorkerFact
      <3>5. CASE ~Accepting(verifier[v])  BY <3>1, <3>3, <3>5 DEF WorkerFact
      <3> QED  BY <3>4, <3>5
    <2> QED  BY <2>1, <2>2
  <1>2. ASSUME NEW x \in Expirers PROVE ExpirerFact(x)'
    <2>1. CASE x = p  BY <2>1
    <2>2. CASE x # p
      <3>1. expirer'[x] = expirer[x]  BY <2>2 DEF OnlyItsOwn
      <3>2. ExpirerFact(x)  BY DEF IInv, ExpirerKnows
      <3>3. CASE expirer[x].pc # "idle"
        <4> DEFINE c == expirer[x].content
        <4>1. /\ c \in Contents /\ contentLock[c] = x
              /\ \A ws \in Workspaces : blob[ws][c] # "live"
          BY <3>2, <3>3 DEF ExpirerFact
        <4>2. contentLock[c] \notin {p, NoProcess}  BY <2>2, <4>1
        <4>3. /\ contentLock'[c] = x
              /\ \A ws \in Workspaces : blob'[ws][c] # "live"
          BY <4>1, <4>2 DEF OnlyItsOwn
        <4> QED  BY <3>1, <4>1, <4>3 DEF ExpirerFact
      <3>4. CASE expirer[x].pc = "idle"  BY <3>1, <3>4 DEF ExpirerFact
      <3> QED  BY <3>3, <3>4
    <2> QED  BY <2>1, <2>2
  <1>3. WorkerKnows'  BY <1>1 DEF WorkerKnows
  <1>4. ExpirerKnows'  BY <1>2 DEF ExpirerKnows
  <1> QED  BY <1>3, <1>4 DEF IInv

\* The steps of clients, requests and collectors leave all of it alone.
LEMMA Bystanders ==
  ASSUME IInv, TypeOK', UNCHANGED <<blob, stored, contentLock, verifier, expirer>>
  PROVE  IInv'
  BY DEF IInv, ContentIsItsName, LiveDumpIsStored, WorkerKnows, ExpirerKnows,
     WorkerFact, ExpirerFact

\* So does a worker that goes on, or gives up and loses its locks, with nothing
\* to accept.
LEMMA WorkerGoesOn ==
  ASSUME IInv, TypeOK', NEW v \in Verifiers, NEW s,
         verifier' = [verifier EXCEPT ![v] = s], Consistent(s), ~Accepting(s),
         UNCHANGED contentLock \/ Unlock(v), UNCHANGED <<blob, stored, expirer>>
  PROVE  IInv'
  <1>1. ContentIsItsName' /\ LiveDumpIsStored'
    BY DEF IInv, ContentIsItsName, LiveDumpIsStored
  <1>2. verifier'[v] = s  BY DEF IInv, TypeOK
  <1>3. OnlyItsOwn(v)
    <2>1. \A w \in Verifiers \ {v} : verifier'[w] = verifier[w]  BY DEF IInv, TypeOK
    <2>2. ASSUME NEW c \in Contents, contentLock[c] \notin {v, NoProcess}
          PROVE  contentLock'[c] = contentLock[c]
      BY <2>2 DEF Unlock
    <2> QED  BY <2>1, <2>2 DEF OnlyItsOwn
  <1>4. WorkerFact(v)'  BY <1>2 DEF WorkerFact
  <1> QED  BY <1>1, <1>3, <1>4, LockProtects

\* A worker that is done, and one whose claim is over, knows nothing.
LEMMA IdleKnowsNothing == Consistent(IdleVerifier) /\ ~Accepting(IdleVerifier)
  BY FirstRows DEF Consistent, Accepting

LEMMA InitIInv == Init => IInv
  <1> SUFFICES ASSUME Init PROVE IInv  OBVIOUS
  <1>1. TypeOK  BY InitType
  <1>2. ContentIsItsName /\ LiveDumpIsStored  BY DEF Init, ContentIsItsName, LiveDumpIsStored
  <1>3. WorkerKnows  BY IdleKnowsNothing DEF Init, WorkerKnows, WorkerFact
  <1>4. ExpirerKnows  BY FirstRows DEF Init, ExpirerKnows, ExpirerFact
  <1> QED  BY <1>1, <1>2, <1>3, <1>4 DEF IInv

\* A worker claims, reads the staged object twice, and retains it.
LEMMA VerifyStep ==
  ASSUME IInv, TypeOK', NEW v \in Verifiers,
         \/ \E u \in Uploads : ClaimVerification(v, u)
         \/ HashStaged(v) \/ DownloadStaged(v) \/ RetainDumpContent(v)
         \/ SettleUpload(v) \/ DeleteStaged(v) \/ MarkStagedDeleted(v)
         \/ VerificationFails(v) \/ VerifierDies(v)
  PROVE  IInv'
  <1> DEFINE s == verifier[v]
  <1>1. s \in VerifierState /\ verifier \in [Verifiers -> VerifierState]  BY DEF IInv, TypeOK
  <1>2. WorkerFact(v)  BY DEF IInv, WorkerKnows
  <1>3. \A pc \in VerifierPcs : /\ At(s, pc) \in VerifierState
                                /\ At(s, pc).pc = pc
                                /\ At(s, pc).upload = s.upload
                                /\ At(s, pc).sha = s.sha
                                /\ At(s, pc).raw = s.raw
                                /\ At(s, pc).rejected = s.rejected
    BY <1>1, VerifierStates
  <1>4. ASSUME NEW u \in Uploads, ClaimVerification(v, u) PROVE IInv'
    <2> DEFINE next == [IdleVerifier EXCEPT !.pc = "hash", !.upload = u,
                          !.generation = [task[u] EXCEPT !.outcome = "running", !.lease_live = TRUE,
                                                         !.generation = @ + 1].generation]
    <2>1. next.pc = "hash" /\ next.upload = u  BY DEF IdleVerifier
    <2>2. verifier' = verifier \/ verifier' = [verifier EXCEPT ![v] = next]
      BY <1>4 DEF ClaimVerification
    <2>3. UNCHANGED <<blob, stored, contentLock, expirer>>
      BY <1>4 DEF ClaimVerification, objects
    <2> HIDE DEF next
    <2>4. Consistent(next) /\ ~Accepting(next)  BY <2>1 DEF Consistent, Accepting
    <2> QED  BY <2>2, <2>3, <2>4, Bystanders, WorkerGoesOn
  <1>5. ASSUME HashStaged(v) PROVE IInv'
    <2> DEFINE c == staged[s.upload]
               pc == IF c \in Declared THEN "download" ELSE "settle"
               next == [At(s, pc) EXCEPT !.sha = c, !.rejected = c \notin Declared]
    <2>1. verifier' = [verifier EXCEPT ![v] = next]  BY <1>5 DEF HashStaged
    <2>2. s.upload \in Uploads  BY <1>2, <1>5 DEF WorkerFact, Consistent, HashStaged
    <2>3. At(s, pc) \in VerifierState /\ At(s, pc).pc = pc /\ At(s, pc).upload = s.upload
      BY <1>3 DEF VerifierPcs
    <2>4. /\ next.pc = pc /\ next.upload = s.upload
          /\ next.sha = c /\ next.rejected = (c \notin Declared)
      <3> HIDE DEF c, pc
      <3> QED  BY <2>3 DEF VerifierState
    <2>5. c \in Declared => c \in Contents  OBVIOUS
    <2> HIDE DEF c, next
    <2>6. Consistent(next) /\ ~Accepting(next)
      BY <2>2, <2>4, <2>5 DEF Consistent, Accepting
    <2> QED  BY <1>5, <2>1, <2>6, WorkerGoesOn DEF HashStaged, rows, objects
  <1>6. ASSUME DownloadStaged(v) PROVE IInv'
    <2> DEFINE c == staged[s.upload]
               kept == [At(s, "retain") EXCEPT !.raw = c]
               refused == [At(s, "settle") EXCEPT !.rejected = TRUE]
    <2>1. s.upload \in Uploads /\ s.sha \in Contents
      BY <1>2, <1>6 DEF WorkerFact, Consistent, DownloadStaged
    <2>2. \/ verifier' = [verifier EXCEPT ![v] = kept] /\ c = s.sha
          \/ verifier' = [verifier EXCEPT ![v] = refused]
      BY <1>6 DEF DownloadStaged
    <2>3. c = s.sha => Consistent(kept) /\ ~Accepting(kept)
      <3>1. /\ kept.pc = "retain" /\ kept.upload = s.upload
            /\ kept.sha = s.sha /\ kept.raw = c
        BY <1>3 DEF VerifierState, VerifierPcs
      <3> HIDE DEF c, kept
      <3> QED  BY <2>1, <3>1 DEF Consistent, Accepting
    <2>4. Consistent(refused) /\ ~Accepting(refused)
      <3>1. refused.pc = "settle" /\ refused.upload = s.upload /\ refused.rejected
        BY <1>3 DEF VerifierState, VerifierPcs
      <3> HIDE DEF refused
      <3> QED  BY <2>1, <3>1 DEF Consistent, Accepting
    <2>5. UNCHANGED <<blob, stored, contentLock, expirer>>
      BY <1>6 DEF DownloadStaged, rows, objects
    <2> HIDE DEF c, kept, refused
    <2> QED  BY <2>2, <2>3, <2>4, <2>5, WorkerGoesOn
  <1>7. ASSUME RetainDumpContent(v) PROVE IInv'
    <2> DEFINE c == s.sha
    <2>1. s.upload \in Uploads /\ c \in Contents /\ s.raw = c
      BY <1>2, <1>7 DEF WorkerFact, Consistent, RetainDumpContent
    <2>2. contentLock[c] = NoProcess  BY <1>7 DEF RetainDumpContent, Unlocked
    <2>3. stored' = [stored EXCEPT ![c] = IF @ = NoContent THEN c ELSE @]
      BY <1>7, <2>1 DEF RetainDumpContent
    <2>4. stored'[c] = c /\ \A d \in Contents : d # c => stored'[d] = stored[d]
      BY <2>1, <2>3 DEF IInv, TypeOK, ContentIsItsName
    <2>5. /\ contentLock' = [contentLock EXCEPT ![c] = v]
          /\ verifier' = [verifier EXCEPT ![v] = At(s, "settle")]
      BY <1>7, <2>4 DEF RetainDumpContent, VerifierTo
    <2>6. UNCHANGED <<blob, expirer>>  BY <1>7 DEF RetainDumpContent
    <2>7. ContentIsItsName' /\ LiveDumpIsStored'
      BY <2>4, <2>6 DEF IInv, ContentIsItsName, LiveDumpIsStored
    <2>8. contentLock'[c] = v /\ \A d \in Contents : d # c => contentLock'[d] = contentLock[d]
      BY <2>1, <2>5 DEF IInv, TypeOK
    <2>9. verifier'[v] = At(s, "settle") /\ \A w \in Verifiers : w # v => verifier'[w] = verifier[w]
      BY <1>1, <2>5
    <2>10. OnlyItsOwn(v)  BY <2>2, <2>4, <2>6, <2>8, <2>9 DEF OnlyItsOwn
    <2>11. WorkerFact(v)'
      <3>1. /\ At(s, "settle").pc = "settle" /\ At(s, "settle").sha = c
            /\ At(s, "settle").upload = s.upload
        BY <1>3 DEF VerifierPcs
      <3>2. Consistent(At(s, "settle"))  BY <2>1, <3>1 DEF Consistent
      <3> HIDE DEF c
      <3> QED  BY <2>1, <2>4, <2>8, <2>9, <3>1, <3>2 DEF WorkerFact
    <2> QED  BY <2>7, <2>10, <2>11, LockProtects
  <1>8. ASSUME SettleUpload(v) PROVE IInv'
    <2> DEFINE c == s.sha
               ws == upload[s.upload].workspace
    <2>1. s.upload \in Uploads  BY <1>2, <1>8 DEF WorkerFact, Consistent, SettleUpload
    <2>2. \/ UNCHANGED blob
          \/ ~s.rejected /\ blob' = [blob EXCEPT ![ws][c] = "live"]
      BY <1>8 DEF SettleUpload, Accepted
    <2>3. Unlock(v) /\ UNCHANGED <<stored, expirer>>  BY <1>8 DEF SettleUpload, objects
    <2>4. \E t : verifier' = [verifier EXCEPT ![v] = t] /\ Consistent(t) /\ ~Accepting(t)
      <3>1. CASE VerifierTo(v, "delete")
        <4>1. At(s, "delete").pc = "delete" /\ At(s, "delete").upload = s.upload
          BY <1>3 DEF VerifierPcs
        <4>2. Consistent(At(s, "delete")) /\ ~Accepting(At(s, "delete"))
          BY <2>1, <4>1 DEF Consistent, Accepting
        <4> QED  BY <3>1, <4>2 DEF VerifierTo
      <3>2. CASE VerifierEnds(v)  BY <3>2, IdleKnowsNothing DEF VerifierEnds
      <3> QED  BY <1>8, <3>1, <3>2 DEF SettleUpload
    <2>5. CASE UNCHANGED blob  BY <2>3, <2>4, <2>5, WorkerGoesOn
    <2>6. CASE ~s.rejected /\ blob' = [blob EXCEPT ![ws][c] = "live"]
      <3>1. c \in Contents /\ contentLock[c] = v /\ stored[c] = c
        BY <1>2, <1>8, <2>6 DEF WorkerFact, Accepting, SettleUpload
      <3>2. ASSUME NEW w \in Workspaces, NEW d \in Contents, blob'[w][d] = "live"
            PROVE  d = c \/ blob[w][d] = "live"
        BY <2>6, <3>2 DEF IInv, TypeOK
      <3>3. ContentIsItsName' /\ LiveDumpIsStored'
        BY <2>3, <3>1, <3>2 DEF IInv, ContentIsItsName, LiveDumpIsStored
      <3>4. PICK t : verifier' = [verifier EXCEPT ![v] = t] /\ Consistent(t) /\ ~Accepting(t)
        BY <2>4
      <3>5. verifier'[v] = t /\ \A w \in Verifiers : w # v => verifier'[w] = verifier[w]
        BY <1>1, <3>4
      <3>6. WorkerFact(v)'  BY <3>4, <3>5 DEF WorkerFact
      <3>7. OnlyItsOwn(v)
        <4>1. ASSUME NEW d \in Contents, contentLock[d] \notin {v, NoProcess}
              PROVE  contentLock'[d] = contentLock[d] /\ d # c
          BY <2>3, <3>1, <4>1 DEF Unlock
        <4> HIDE DEF c, ws
        <4> QED  BY <2>3, <3>2, <3>5, <4>1 DEF OnlyItsOwn
      <3> QED  BY <3>3, <3>6, <3>7, LockProtects
    <2> QED  BY <2>2, <2>5, <2>6
  <1>9. ASSUME DeleteStaged(v) PROVE IInv'
    <2>1. At(s, "mark").pc = "mark" /\ At(s, "mark").upload = s.upload
      BY <1>3 DEF VerifierPcs
    <2>2. s.upload \in Uploads  BY <1>2, <1>9 DEF WorkerFact, Consistent, DeleteStaged
    <2>3. Consistent(At(s, "mark")) /\ ~Accepting(At(s, "mark"))
      BY <2>1, <2>2 DEF Consistent, Accepting
    <2> QED  BY <1>9, <2>3, WorkerGoesOn DEF DeleteStaged, VerifierTo, rows
  <1>10. ASSUME MarkStagedDeleted(v) PROVE IInv'
    BY <1>10, IdleKnowsNothing, WorkerGoesOn DEF MarkStagedDeleted, VerifierEnds, objects
  <1>11. ASSUME VerificationFails(v) PROVE IInv'
    <2>1. verifier' = [verifier EXCEPT ![v] = IdleVerifier]
      BY <1>11 DEF VerificationFails, Raise, VerifierEnds
    <2> QED  BY <1>11, <2>1, IdleKnowsNothing, WorkerGoesOn DEF VerificationFails, objects
  <1>12. ASSUME VerifierDies(v) PROVE IInv'
    BY <1>12, IdleKnowsNothing, WorkerGoesOn DEF VerifierDies, VerifierEnds, rows, objects
  <1> QED  BY <1>4, <1>5, <1>6, <1>7, <1>8, <1>9, <1>10, <1>11, <1>12

\* A dump expires, or its expiry fails.
LEMMA ExpireStep ==
  ASSUME IInv, TypeOK', Expire
  PROVE  IInv'
  <1>1. ASSUME NEW ws \in Workspaces, NEW c \in Contents, RetentionElapses(ws, c) PROVE IInv'
    <2>1. \A w \in Workspaces, d \in Contents : blob'[w][d] = "live" => blob[w][d] = "live"
      BY <1>1 DEF RetentionElapses, IInv, TypeOK
    <2>2. UNCHANGED <<stored, contentLock, verifier, expirer>>
      BY <1>1 DEF RetentionElapses, objects, procs
    <2>3. ContentIsItsName' /\ LiveDumpIsStored'
      BY <2>1, <2>2 DEF IInv, ContentIsItsName, LiveDumpIsStored
    <2>4. OnlyItsOwn(NoProcess)  BY <2>1, <2>2 DEF OnlyItsOwn
    <2> QED  BY <2>3, <2>4, LockProtects
  <1>2. ASSUME NEW ws \in Workspaces, NEW c \in Contents, NEW x \in Expirers,
               ExpireDumpBlob(x, ws, c)
        PROVE  IInv'
    <2>1. contentLock[c] = NoProcess /\ UNCHANGED <<stored, verifier>>
      BY <1>2 DEF ExpireDumpBlob, Unlocked, objects
    <2>2. CASE Shared(ws, c)
      <3>1. blob' = [blob EXCEPT ![ws][c] = "deleted"] /\ UNCHANGED <<contentLock, expirer>>
        BY <1>2, <2>2 DEF ExpireDumpBlob
      <3>2. \A w \in Workspaces, d \in Contents : blob'[w][d] = "live" => blob[w][d] = "live"
        BY <3>1 DEF IInv, TypeOK
      <3>3. ContentIsItsName' /\ LiveDumpIsStored'
        BY <2>1, <3>2 DEF IInv, ContentIsItsName, LiveDumpIsStored
      <3>4. OnlyItsOwn(NoProcess)  BY <2>1, <3>1, <3>2 DEF OnlyItsOwn
      <3> QED  BY <3>3, <3>4, LockProtects
    <2>3. CASE ~Shared(ws, c)
      <3> DEFINE next == [pc |-> "delete", workspace |-> ws, content |-> c]
      <3>1. /\ contentLock' = [contentLock EXCEPT ![c] = x]
            /\ expirer' = [expirer EXCEPT ![x] = next]
            /\ UNCHANGED blob
        BY <1>2, <2>3 DEF ExpireDumpBlob
      <3>2. contentLock'[c] = x /\ \A d \in Contents : d # c => contentLock'[d] = contentLock[d]
        BY <3>1 DEF IInv, TypeOK
      <3>3. expirer'[x] = next /\ \A y \in Expirers : y # x => expirer'[y] = expirer[y]
        BY <3>1 DEF IInv, TypeOK
      <3>4. \A w \in Workspaces : blob[w][c] # "live"
        BY <1>2, <2>3 DEF Shared, ExpireDumpBlob
      <3>5. ContentIsItsName' /\ LiveDumpIsStored'
        BY <2>1, <3>1 DEF IInv, ContentIsItsName, LiveDumpIsStored
      <3>6. OnlyItsOwn(x)  BY <2>1, <3>1, <3>2, <3>3 DEF OnlyItsOwn
      <3>7. ExpirerFact(x)'  BY <3>1, <3>2, <3>3, <3>4 DEF ExpirerFact
      <3> QED  BY <3>5, <3>6, <3>7, LockProtects
    <2> QED  BY <2>2, <2>3
  <1>3. ASSUME NEW x \in Expirers, DeleteStored(x) PROVE IInv'
    <2> DEFINE c == expirer[x].content
               next == At(expirer[x], "commit")
    <2>1. /\ c \in Contents /\ contentLock[c] = x
          /\ \A w \in Workspaces : blob[w][c] # "live"
      BY <1>3 DEF IInv, ExpirerKnows, ExpirerFact, DeleteStored
    <2>2. stored' = [stored EXCEPT ![c] = NoContent] /\ expirer' = [expirer EXCEPT ![x] = next]
      BY <1>3 DEF DeleteStored
    <2>3. UNCHANGED <<blob, contentLock, verifier>>  BY <1>3 DEF DeleteStored, rows
    <2>4. next.content = c  BY OtherStates DEF IInv, TypeOK
    <2> HIDE DEF c, next
    <2>5. \A d \in Contents : stored'[d] = IF d = c THEN NoContent ELSE stored[d]
      BY <2>2 DEF IInv, TypeOK
    <2>6. ContentIsItsName' /\ LiveDumpIsStored'
      BY <2>1, <2>3, <2>5 DEF IInv, ContentIsItsName, LiveDumpIsStored
    <2>7. expirer'[x] = next /\ \A y \in Expirers : y # x => expirer'[y] = expirer[y]
      BY <2>2 DEF IInv, TypeOK
    <2>8. OnlyItsOwn(x)  BY <2>1, <2>3, <2>5, <2>7 DEF OnlyItsOwn
    <2>9. ExpirerFact(x)'  BY <2>1, <2>3, <2>4, <2>7 DEF ExpirerFact
    <2> QED  BY <2>6, <2>8, <2>9, LockProtects
  <1>4. ASSUME NEW x \in Expirers, expirer' = [expirer EXCEPT ![x] = IdleExpirer], Unlock(x),
               UNCHANGED <<stored, verifier>>,
               \A w \in Workspaces, d \in Contents : blob'[w][d] = "live" => blob[w][d] = "live"
        PROVE  IInv'
    <2>1. ContentIsItsName' /\ LiveDumpIsStored'
      BY <1>4 DEF IInv, ContentIsItsName, LiveDumpIsStored
    <2>2. expirer'[x] = IdleExpirer /\ \A y \in Expirers : y # x => expirer'[y] = expirer[y]
      BY <1>4 DEF IInv, TypeOK
    <2>3. OnlyItsOwn(x)  BY <1>4, <2>2 DEF OnlyItsOwn, Unlock
    <2>4. ExpirerFact(x)'  BY <2>2, FirstRows DEF ExpirerFact
    <2> QED  BY <2>1, <2>3, <2>4, LockProtects
  <1>5. ASSUME NEW x \in Expirers, CommitExpiry(x) PROVE IInv'
    <2>1. \A w \in Workspaces, d \in Contents : blob'[w][d] = "live" => blob[w][d] = "live"
      BY <1>5 DEF CommitExpiry, IInv, TypeOK
    <2> QED  BY <1>4, <1>5, <2>1 DEF CommitExpiry, objects
  <1>6. ASSUME NEW x \in Expirers, ExpiryFails(x) PROVE IInv'
    BY <1>4, <1>6 DEF ExpiryFails, rows, objects
  <1> QED  BY <1>1, <1>2, <1>3, <1>5, <1>6 DEF Expire

\* Every step keeps the invariant.
LEMMA InvariantStep == IInv /\ [Next]_vars => IInv'
  <1> SUFFICES ASSUME IInv, [Next]_vars PROVE IInv'  OBVIOUS
  <1>1. TypeOK'  BY TypeStep DEF IInv
  <1>2. CASE UNCHANGED vars
    BY <1>1, <1>2, Bystanders DEF vars, rows, objects, procs
  <1>3. ASSUME Client PROVE IInv'
    <2>1. UNCHANGED <<blob, stored, contentLock, verifier, expirer>>
      BY <1>3 DEF Client, InitializeUpload, ClientPut, rows, objects, procs
    <2> QED  BY <1>1, <2>1, Bystanders
  <1>4. ASSUME Complete PROVE IInv'
    <2>1. UNCHANGED <<blob, stored, contentLock, verifier, expirer>>
      BY <1>4 DEF Complete, CompleteReads, CompleteHeads, CompleteRejects, CompleteCommits,
         CompleteDies, rows, objects
    <2> QED  BY <1>1, <2>1, Bystanders
  <1>5. ASSUME NEW u \in Uploads, LeaseLapses(u) PROVE IInv'
    <2>1. UNCHANGED <<blob, stored, contentLock, verifier, expirer>>
      BY <1>5 DEF LeaseLapses, objects, procs
    <2> QED  BY <1>1, <2>1, Bystanders
  <1>6. ASSUME Collect PROVE IInv'
    <2>1. UNCHANGED <<blob, stored, contentLock, verifier, expirer>>
      BY <1>6 DEF Collect, ClaimPayload, DeletePayload, MarkPayloadDeleted, PayloadDeleteFailed,
         EndPass, StoreFailsCollector, CollectorDies, PayloadLeaseLapses, rows, objects, procs
    <2> QED  BY <1>1, <2>1, Bystanders
  <1> QED
    BY <1>1, <1>2, <1>3, <1>4, <1>5, <1>6, VerifyStep, ExpireStep DEF Next, Verify

LEMMA Invariance == Spec => []IInv
  BY InitIInv, InvariantStep, PTL DEF Spec

-----------------------------------------------------------------------------
\* Every row, object, lock and local state keeps its type (TypeOK).
THEOREM TypeCorrect == Spec => []TypeOK
  <1>1. IInv => TypeOK  BY DEF IInv
  <1> QED  BY <1>1, Invariance, PTL

\* The content lock of retain_dump_content and expire_dump_blobs protects what a
\* workspace retains: a live dump_blobs row has its bytes in the store.
THEOREM LiveDumpsAreStored == Spec => []LiveDumpIsStored
  <1>1. IInv => LiveDumpIsStored  BY DEF IInv
  <1> QED  BY <1>1, Invariance, PTL

\* verify_upload's comparison of what it downloads with what it hashed keeps
\* other bytes out of dump-blobs/<sha256>.
THEOREM ContentsAreTheirNames == Spec => []ContentIsItsName
  <1>1. IInv => ContentIsItsName  BY DEF IInv
  <1> QED  BY <1>1, Invariance, PTL

\* What a workspace retains is stored under its own name, for every number of
\* uploads, workspaces and processes.
THEOREM RetainedDumpsAreKept == Spec => []DumpsAreKept
  <1>1. IInv => DumpsAreKept  BY DEF IInv, DumpsAreKept
  <1> QED  BY <1>1, Invariance, PTL
-----------------------------------------------------------------------------
(* Verdicts                                                                *)

\* An upload past its completion.
Asked == {"VERIFYING"} \cup Terminal

\* No upload is being completed by two requests at the same time: complete_upload
\* checks its transitions against an unlocked read, and nothing else keeps a slow
\* request from writing over what a faster one, and then its worker, has decided.
OneRequest == \A k, l \in Completers :
    /\ call[k].pc # "idle" /\ call[l].pc # "idle"
    /\ call[k].upload = call[l].upload
    => k = l

\* What a request has read is still so, and an object it has seen is still there.
RequestFact(k) ==
    call[k].pc # "idle" => /\ call[k].upload \in Uploads
                           /\ upload[call[k].upload].status = "INITIALIZED"
                           /\ call[k].pc # "read" => staged[call[k].upload] # NoContent

\* A task belongs to a completed upload, and one that has ended to a settled one;
\* an upload without a verdict has its payload.
UploadFact(u) ==
    /\ task[u].intent \/ task[u].outcome # "none" => upload[u].status \in Asked
    /\ task[u].outcome = "succeeded" => upload[u].status \in Terminal
    /\ upload[u].status = "VERIFYING" => staged[u] # NoContent

\* A worker has a completed upload before it, and cleans up after a settled one.
WorkFact(v) ==
    verifier[v].pc # "idle" =>
        /\ verifier[v].upload \in Uploads
        /\ upload[verifier[v].upload].status \in Asked
        /\ verifier[v].pc \in {"delete", "mark"} => upload[verifier[v].upload].status \in Terminal

\* So does a collector.
PassFact(g) == collector[g].pc # "idle" => /\ collector[g].upload \in Uploads
                                           /\ upload[collector[g].upload].status \in Terminal

Verdicts == /\ \A k \in Completers : RequestFact(k)
            /\ \A u \in Uploads : UploadFact(u)
            /\ \A v \in Verifiers : WorkFact(v)
            /\ \A g \in Collectors : PassFact(g)

\* A row moves from its completion to its verdict, and a verdict stands.
RowsAdvance == \A u \in Uploads :
    /\ upload[u].status \in Asked => upload'[u].status \in Asked
    /\ upload[u].status \in Terminal => /\ upload'[u].status = upload[u].status
                                        /\ upload'[u].sha = upload[u].sha

\* A payload goes only when its upload is settled.
PayloadsStay == \A u \in Uploads :
    staged[u] # NoContent /\ upload[u].status \notin Terminal => staged'[u] # NoContent

\* A step keeps the rest if it justifies the rows and tasks it writes and the
\* processes it moves, and no request works on a row it writes.
LEMMA VerdictsFollow ==
  ASSUME Verdicts, RowsAdvance, PayloadsStay,
         \A u \in Uploads : \/ upload'[u].status = upload[u].status /\ task'[u] = task[u]
                            \/ UploadFact(u)',
         \A k \in Completers : \/ /\ call'[k] = call[k]
                                  /\ call[k].pc # "idle" => upload'[call[k].upload].status = "INITIALIZED"
                               \/ RequestFact(k)',
         \A v \in Verifiers : verifier'[v] = verifier[v] \/ WorkFact(v)',
         \A g \in Collectors : collector'[g] = collector[g] \/ PassFact(g)'
  PROVE  Verdicts'
  <1>1. ASSUME NEW u \in Uploads PROVE UploadFact(u)'
    BY DEF Verdicts, UploadFact, PayloadsStay, Asked, Terminal
  <1>2. ASSUME NEW k \in Completers PROVE RequestFact(k)'
    BY DEF Verdicts, RequestFact, PayloadsStay, Terminal
  <1>3. ASSUME NEW v \in Verifiers PROVE WorkFact(v)'
    <2>1. CASE WorkFact(v)'  BY <2>1
    <2>2. CASE verifier'[v] = verifier[v]
      BY <2>2 DEF Verdicts, WorkFact, RowsAdvance
    <2> QED  BY <2>1, <2>2
  <1>4. ASSUME NEW g \in Collectors PROVE PassFact(g)'
    BY DEF Verdicts, PassFact, RowsAdvance
  <1> QED  BY <1>1, <1>2, <1>3, <1>4 DEF Verdicts

\* A step that writes no status.
StatusesStay == \A u \in Uploads : /\ upload'[u].status = upload[u].status
                                   /\ upload'[u].sha = upload[u].sha

LEMMA SameVerdicts ==
  ASSUME Verdicts, PayloadsStay, StatusesStay,
         \A u \in Uploads : task'[u] = task[u] \/ UploadFact(u)',
         \A k \in Completers : call'[k] = call[k] \/ RequestFact(k)',
         \A v \in Verifiers : verifier'[v] = verifier[v] \/ WorkFact(v)',
         \A g \in Collectors : collector'[g] = collector[g] \/ PassFact(g)'
  PROVE  Verdicts' /\ RowsAdvance
  <1>1. RowsAdvance  BY DEF RowsAdvance, StatusesStay
  <1>2. \A k \in Completers : \/ /\ call'[k] = call[k]
                                 /\ call[k].pc # "idle" => upload'[call[k].upload].status = "INITIALIZED"
                              \/ RequestFact(k)'
    BY DEF Verdicts, RequestFact, StatusesStay
  <1>3. \A u \in Uploads : \/ upload'[u].status = upload[u].status /\ task'[u] = task[u]
                           \/ UploadFact(u)'
    BY DEF StatusesStay
  <1> QED  BY <1>1, <1>2, <1>3, VerdictsFollow

\* What a write to a row of uploads leaves of its status and its sha256.
LEMMA RowWrites ==
  ASSUME NEW row \in UploadRow
  PROVE  /\ \A s : WithStatus(row, s).status = s /\ WithStatus(row, s).sha = row.sha
         /\ \A b : /\ [row EXCEPT !.completed = b].status = row.status
                   /\ [row EXCEPT !.deleted = b].status = row.status
                   /\ [row EXCEPT !.deleted = b].sha = row.sha
                   /\ [row EXCEPT !.claim_live = b].status = row.status
                   /\ [row EXCEPT !.claim_live = b].sha = row.sha
         /\ \A s, b : [WithStatus(row, s) EXCEPT !.completed = b].status = s
         /\ \A s, c : [WithStatus(row, s) EXCEPT !.sha = c].status = s
         /\ \A n, m, b : /\ [row EXCEPT !.claim = n, !.claim_live = b, !.attempts = m].status = row.status
                         /\ [row EXCEPT !.claim = n, !.claim_live = b, !.attempts = m].sha = row.sha
         /\ \A b : /\ [Released(row) EXCEPT !.deleted = b].status = row.status
                   /\ [Released(row) EXCEPT !.deleted = b].sha = row.sha
  BY DEF UploadRow, WithStatus, Released

\* A client makes a row, or writes to its URL.
LEMMA ClientVerdicts ==
  ASSUME IInv, Verdicts, Client
  PROVE  Verdicts' /\ RowsAdvance
  <1> USE DEF rows, objects, procs
  <1>1. ASSUME NEW u \in Uploads, NEW ws \in Workspaces, InitializeUpload(u, ws)
        PROVE  Verdicts' /\ RowsAdvance
    <2> DEFINE made == [NoRow EXCEPT !.status = "INITIALIZED", !.workspace = ws]
    <2>1. made.status = "INITIALIZED"  BY DEF NoRow
    <2>2. upload[u].status = "absent" /\ upload' = [upload EXCEPT ![u] = made]
      BY <1>1 DEF InitializeUpload
    <2> HIDE DEF made
    <2>3. upload'[u].status = "INITIALIZED" /\ \A w \in Uploads : w # u => upload'[w] = upload[w]
      BY <2>1, <2>2 DEF IInv, TypeOK
    <2>4. RowsAdvance  BY <2>2, <2>3 DEF RowsAdvance, Asked, Terminal
    <2>5. UNCHANGED <<task, staged, call, verifier, collector>>  BY <1>1 DEF InitializeUpload
    <2>6. UploadFact(u)'  BY <2>2, <2>3, <2>5 DEF Verdicts, UploadFact, Asked, Terminal
    <2>7. \A k \in Completers : call[k].pc # "idle" => upload'[call[k].upload].status = "INITIALIZED"
      BY <2>2, <2>3 DEF Verdicts, RequestFact
    <2> QED  BY <2>3, <2>4, <2>5, <2>6, <2>7, VerdictsFollow DEF PayloadsStay
  <1>2. ASSUME NEW u \in Uploads, NEW c \in Contents, ClientPut(u, c)
        PROVE  Verdicts' /\ RowsAdvance
    <2>1. PayloadsStay  BY <1>2 DEF ClientPut, PayloadsStay, IInv, TypeOK
    <2> QED  BY <1>2, <2>1, SameVerdicts DEF ClientPut, StatusesStay
  <1> QED  BY <1>1, <1>2 DEF Client

\* A request reads, looks at the object and commits; it alone completes its upload.
LEMMA CompleteVerdicts ==
  ASSUME IInv, Verdicts, OneRequest, Complete
  PROVE  Verdicts' /\ RowsAdvance
  <1> SUFFICES ASSUME NEW k \in Completers,
                      \/ \E u \in Uploads : CompleteReads(k, u)
                      \/ CompleteHeads(k) \/ CompleteRejects(k)
                      \/ CompleteCommits(k) \/ CompleteDies(k)
               PROVE  Verdicts' /\ RowsAdvance
    BY DEF Complete
  <1> USE DEF rows, objects, procs
  <1> DEFINE u == call[k].upload
  <1>1. /\ call \in [Completers -> CallState] /\ call[k] \in CallState
        /\ upload \in [Uploads -> UploadRow]
    BY DEF IInv, TypeOK
  <1>2. call[k].pc # "idle" => /\ u \in Uploads /\ upload[u].status = "INITIALIZED"
                               /\ call[k].pc # "read" => staged[u] # NoContent
    BY DEF Verdicts, RequestFact
  <1>3. ASSUME NEW w \in Uploads, CompleteReads(k, w) PROVE Verdicts' /\ RowsAdvance
    <2>1. RequestFact(k)'  BY <1>1, <1>3 DEF CompleteReads, RequestFact
    <2>2. \A l \in Completers : call'[l] = call[l] \/ RequestFact(l)'
      BY <1>1, <1>3, <2>1 DEF CompleteReads
    <2> QED  BY <1>3, <2>2, SameVerdicts DEF CompleteReads, PayloadsStay, StatusesStay
  <1>4. ASSUME CompleteHeads(k) PROVE Verdicts' /\ RowsAdvance
    <2>1. call'[k].pc # "idle" => call'[k].upload = u /\ staged[u] # NoContent
      BY <1>1, <1>4, FirstRows DEF CompleteHeads, At, CallState
    <2>2. RequestFact(k)'  BY <1>2, <1>4, <2>1 DEF CompleteHeads, RequestFact
    <2>3. \A l \in Completers : call'[l] = call[l] \/ RequestFact(l)'
      BY <1>1, <1>4, <2>2 DEF CompleteHeads
    <2> QED  BY <1>4, <2>3, SameVerdicts DEF CompleteHeads, PayloadsStay, StatusesStay
  <1>5. ASSUME NEW s \in {"REJECTED", "VERIFYING"}, call[k].pc \notin {"idle", "read"},
               upload'[u].status = s, \A w \in Uploads : w # u => upload'[w] = upload[w],
               \A w \in Uploads : w # u => task'[w] = task[w],
               s = "REJECTED" => task'[u] = task[u],
               task'[u].outcome = task[u].outcome,
               call' = [call EXCEPT ![k] = IdleCall],
               UNCHANGED <<staged, verifier, collector>>
        PROVE  Verdicts' /\ RowsAdvance
    <2>1. RowsAdvance  BY <1>2, <1>5 DEF RowsAdvance, Asked, Terminal
    <2>2. ASSUME NEW w \in Uploads, w = u PROVE UploadFact(w)'
      BY <1>2, <1>5, <2>2 DEF Verdicts, UploadFact, Asked, Terminal
    <2>3. RequestFact(k)'  BY <1>1, <1>5, FirstRows DEF RequestFact
    <2>4. ASSUME NEW l \in Completers, l # k, call[l].pc # "idle"
          PROVE  upload'[call[l].upload].status = "INITIALIZED"
      BY <1>2, <1>5, <2>4 DEF OneRequest, Verdicts, RequestFact
    <2>5. \A l \in Completers : l # k => call'[l] = call[l]  BY <1>1, <1>5
    <2>6. \A w \in Uploads : \/ upload'[w].status = upload[w].status /\ task'[w] = task[w]
                             \/ UploadFact(w)'
      BY <1>5, <2>2
    <2> HIDE DEF u
    <2> QED  BY <1>5, <2>1, <2>3, <2>4, <2>5, <2>6, VerdictsFollow DEF PayloadsStay
  <1>6. ASSUME CompleteRejects(k) PROVE Verdicts' /\ RowsAdvance
    <2>1. upload'[u].status = "REJECTED" /\ \A w \in Uploads : w # u => upload'[w] = upload[w]
      BY <1>1, <1>2, <1>6, RowWrites DEF CompleteRejects
    <2> QED  BY <1>5, <1>6, <2>1 DEF CompleteRejects
  <1>7. ASSUME CompleteCommits(k) PROVE Verdicts' /\ RowsAdvance
    <2>1. upload'[u].status = "VERIFYING" /\ \A w \in Uploads : w # u => upload'[w] = upload[w]
      BY <1>1, <1>2, <1>7, RowWrites DEF CompleteCommits
    <2>2. task'[u].outcome = task[u].outcome /\ \A w \in Uploads : w # u => task'[w] = task[w]
      BY <1>2, <1>7 DEF CompleteCommits, IInv, TypeOK, TaskRow
    <2> QED  BY <1>5, <1>7, <2>1, <2>2 DEF CompleteCommits
  <1>8. ASSUME CompleteDies(k) PROVE Verdicts' /\ RowsAdvance
    <2>1. \A l \in Completers : call'[l] = call[l] \/ RequestFact(l)'
      BY <1>1, <1>8, FirstRows DEF CompleteDies, RequestFact
    <2> QED  BY <1>8, <2>1, SameVerdicts DEF CompleteDies, PayloadsStay, StatusesStay
  <1> QED  BY <1>3, <1>4, <1>6, <1>7, <1>8

\* What a write to a task's row leaves of its intent and its outcome.
LEMMA TaskWrites ==
  ASSUME NEW row \in TaskRow
  PROVE  /\ \A o \in {"failed", "succeeded"} : /\ Ended(row, o).intent = row.intent
                                               /\ Ended(row, o).outcome = o
         /\ /\ [row EXCEPT !.lease_live = FALSE].intent = row.intent
            /\ [row EXCEPT !.lease_live = FALSE].outcome = row.outcome
         /\ /\ [row EXCEPT !.outcome = "running", !.lease_live = TRUE,
                           !.generation = @ + 1].intent = row.intent
            /\ [row EXCEPT !.outcome = "running", !.lease_live = TRUE,
                           !.generation = @ + 1].outcome = "running"
  BY DEF TaskRow, Ended

\* A worker goes on with its upload, or gives it up; its task may fail with it.
LEMMA WorkerVerdicts ==
  ASSUME IInv, Verdicts, PayloadsStay, StatusesStay, NEW v \in Verifiers, NEW s,
         verifier[v].pc # "idle",
         verifier' = [verifier EXCEPT ![v] = s],
         s.pc # "idle" => /\ s.upload = verifier[v].upload
                          /\ \/ s.pc \notin {"delete", "mark"}
                             \/ upload[verifier[v].upload].status \in Terminal,
         UNCHANGED task \/ Raise(v),
         UNCHANGED <<call, collector>>
  PROVE  Verdicts' /\ RowsAdvance
  <1> DEFINE u == verifier[v].upload
  <1>1. /\ u \in Uploads /\ upload[u].status \in Asked
        /\ verifier \in [Verifiers -> VerifierState] /\ task \in [Uploads -> TaskRow]
    BY DEF Verdicts, WorkFact, IInv, TypeOK
  <1>2. WorkFact(v)'  BY <1>1 DEF WorkFact, StatusesStay
  <1>3. \A w \in Verifiers : verifier'[w] = verifier[w] \/ WorkFact(w)'  BY <1>1, <1>2
  <1>4. ASSUME NEW w \in Uploads, task'[w] # task[w] PROVE UploadFact(w)'
    <2>1. Raise(v)  BY <1>4
    <2>2. w = u /\ task'[w] = Ended(task[w], "failed")  BY <1>1, <1>4, <2>1 DEF Raise
    <2>3. task'[w].outcome = "failed"
      <3>1. task[w] \in TaskRow  BY <1>1
      <3> QED  BY <2>2, <3>1, TaskWrites
    <2> QED
      BY <1>1, <2>2, <2>3 DEF UploadFact, StatusesStay, PayloadsStay, Verdicts, Asked, Terminal
  <1> QED  BY <1>3, <1>4, SameVerdicts

\* A worker settles an upload that is still waiting, and only such a one.
LEMMA VerifyVerdicts ==
  ASSUME IInv, Verdicts, Verify
  PROVE  Verdicts' /\ RowsAdvance
  <1> USE DEF rows, objects, procs
  <1>1. /\ verifier \in [Verifiers -> VerifierState] /\ task \in [Uploads -> TaskRow]
        /\ upload \in [Uploads -> UploadRow] /\ staged \in [Uploads -> Content]
    BY DEF IInv, TypeOK
  <1>2. \A v \in Verifiers : verifier[v].pc # "idle" =>
          /\ verifier[v].upload \in Uploads
          /\ upload[verifier[v].upload].status \in Asked
    BY DEF Verdicts, WorkFact
  <1>3. ASSUME NEW v \in Verifiers, NEW pc \in VerifierPcs
        PROVE  At(verifier[v], pc).pc = pc /\ At(verifier[v], pc).upload = verifier[v].upload
    BY <1>1, VerifierStates
  <1>4. ASSUME NEW v \in Verifiers, NEW u \in Uploads, ClaimVerification(v, u)
        PROVE  Verdicts' /\ RowsAdvance
    <2> DEFINE claimed == [task[u] EXCEPT !.outcome = "running", !.lease_live = TRUE,
                                          !.generation = @ + 1]
               next == [IdleVerifier EXCEPT !.pc = "hash", !.upload = u,
                                            !.generation = claimed.generation]
    <2>1. upload[u].status \in Asked  BY <1>4 DEF ClaimVerification, Verdicts, UploadFact
    <2>2. \/ upload[u].status = "VERIFYING" /\ task' = [task EXCEPT ![u] = claimed]
             /\ verifier' = [verifier EXCEPT ![v] = next]
          \/ upload[u].status # "VERIFYING" /\ task' = [task EXCEPT ![u] = Ended(claimed, "succeeded")]
             /\ UNCHANGED verifier
      BY <1>4 DEF ClaimVerification
    <2>3. /\ claimed.intent = task[u].intent /\ claimed.outcome = "running"
          /\ Ended(claimed, "succeeded").outcome = "succeeded"
      <3>1. claimed \in TaskRow /\ claimed.intent = task[u].intent /\ claimed.outcome = "running"
        BY <1>1, TaskRows, TaskWrites
      <3> HIDE DEF claimed
      <3> QED  BY <3>1, TaskWrites
    <2>4. next.pc = "hash" /\ next.upload = u  BY DEF IdleVerifier
    <2>5. UNCHANGED <<upload, staged, call, collector>>  BY <1>4 DEF ClaimVerification
    <2> HIDE DEF claimed, next
    <2>6. UploadFact(u)'
      BY <1>1, <2>1, <2>2, <2>3, <2>5 DEF Verdicts, UploadFact, Asked, Terminal
    <2>7. \A w \in Verifiers : verifier'[w] = verifier[w] \/ WorkFact(w)'
      BY <1>1, <2>1, <2>2, <2>4, <2>5 DEF WorkFact
    <2>8. \A w \in Uploads : task'[w] = task[w] \/ UploadFact(w)'  BY <1>1, <2>2, <2>6
    <2> QED  BY <2>5, <2>7, <2>8, SameVerdicts DEF PayloadsStay, StatusesStay
  <1>5. ASSUME NEW v \in Verifiers, HashStaged(v) PROVE Verdicts' /\ RowsAdvance
    <2> DEFINE c == staged[verifier[v].upload]
               pc == IF c \in Declared THEN "download" ELSE "settle"
               next == [At(verifier[v], pc) EXCEPT !.sha = c, !.rejected = c \notin Declared]
    <2>1. verifier' = [verifier EXCEPT ![v] = next]  BY <1>5 DEF HashStaged
    <2>2. At(verifier[v], pc) \in VerifierState  BY <1>1, VerifierStates DEF VerifierPcs
    <2>3. next.pc = pc /\ next.upload = verifier[v].upload
      <3>1. At(verifier[v], pc).pc = pc /\ At(verifier[v], pc).upload = verifier[v].upload
        BY <1>3 DEF VerifierPcs
      <3> HIDE DEF c, pc
      <3> QED  BY <2>2, <3>1 DEF VerifierState
    <2>4. pc \notin {"delete", "mark"}  OBVIOUS
    <2>5. PayloadsStay /\ StatusesStay  BY <1>5 DEF HashStaged, PayloadsStay, StatusesStay
    <2> HIDE DEF next, pc, c
    <2> QED  BY <1>5, <2>1, <2>3, <2>4, <2>5, WorkerVerdicts DEF HashStaged
  <1>6. ASSUME NEW v \in Verifiers, DownloadStaged(v) PROVE Verdicts' /\ RowsAdvance
    <2> DEFINE kept == [At(verifier[v], "retain") EXCEPT !.raw = staged[verifier[v].upload]]
               refused == [At(verifier[v], "settle") EXCEPT !.rejected = TRUE]
    <2>1. \/ verifier' = [verifier EXCEPT ![v] = kept]
          \/ verifier' = [verifier EXCEPT ![v] = refused]
      BY <1>6 DEF DownloadStaged
    <2>2. /\ At(verifier[v], "retain") \in VerifierState /\ At(verifier[v], "settle") \in VerifierState
      BY <1>1, VerifierStates DEF VerifierPcs
    <2>3. /\ kept.pc = "retain" /\ kept.upload = verifier[v].upload
          /\ refused.pc = "settle" /\ refused.upload = verifier[v].upload
      BY <1>3, <2>2 DEF VerifierPcs, VerifierState
    <2>4. PayloadsStay /\ StatusesStay  BY <1>6 DEF DownloadStaged, PayloadsStay, StatusesStay
    <2> HIDE DEF kept, refused
    <2> QED  BY <1>6, <2>1, <2>3, <2>4, WorkerVerdicts DEF DownloadStaged
  <1>7. ASSUME NEW v \in Verifiers, RetainDumpContent(v) PROVE Verdicts' /\ RowsAdvance
    <2>1. \/ VerifierTo(v, "settle") /\ UNCHANGED task
          \/ Raise(v)
      BY <1>7 DEF RetainDumpContent
    <2>2. PayloadsStay /\ StatusesStay  BY <1>7 DEF RetainDumpContent, PayloadsStay, StatusesStay
    <2>3. At(verifier[v], "settle").pc = "settle" /\ At(verifier[v], "settle").upload = verifier[v].upload
      BY <1>3 DEF VerifierPcs
    <2> QED
      BY <1>7, <2>1, <2>2, <2>3, WorkerVerdicts, FirstRows
      DEF RetainDumpContent, VerifierTo, VerifierEnds, Raise
  <1>8. ASSUME NEW v \in Verifiers, SettleUpload(v) PROVE Verdicts' /\ RowsAdvance
    <2> DEFINE u == verifier[v].upload
               c == verifier[v].sha
               settled(row, status) == [WithStatus(row, status) EXCEPT !.sha = c]
               open == ClaimIsCurrent(v) /\ upload[u].status = "VERIFYING"
    <2>1. u \in Uploads /\ upload[u].status \in Asked  BY <1>2, <1>8 DEF SettleUpload
    <2>2. UNCHANGED <<staged, call, collector>>  BY <1>8 DEF SettleUpload
    <2>3. PayloadsStay  BY <2>2 DEF PayloadsStay
    <2>4. CASE open
      <3>1. PICK status \in Terminal : upload' = [upload EXCEPT ![u] = settled(@, status)]
        BY <1>8, <2>4 DEF SettleUpload, Terminal
      <3>2. /\ upload'[u].status \in Terminal
            /\ \A w \in Uploads : w # u => upload'[w] = upload[w]
        BY <1>1, <2>1, <3>1, RowWrites
      <3>3. RowsAdvance  BY <2>4, <3>2 DEF RowsAdvance, Asked, Terminal
      <3>4. task' = [task EXCEPT ![u] = Ended(@, "succeeded")]
            /\ verifier' = [verifier EXCEPT ![v] = At(@, "delete")]
        BY <1>8, <2>4 DEF SettleUpload, VerifierTo
      <3>5. ASSUME NEW w \in Uploads PROVE w # u => task'[w] = task[w]  BY <1>1, <3>4
      <3>6. ASSUME NEW w \in Uploads, w = u PROVE UploadFact(w)'
        BY <3>2, <3>6 DEF UploadFact, Asked, Terminal
      <3>7. \A w \in Uploads : \/ upload'[w].status = upload[w].status /\ task'[w] = task[w]
                               \/ UploadFact(w)'
        BY <3>2, <3>5, <3>6
      <3>8. \A k \in Completers : call[k].pc # "idle" => upload'[call[k].upload].status = "INITIALIZED"
        BY <2>4, <3>2 DEF Verdicts, RequestFact
      <3>9. verifier'[v].pc = "delete" /\ verifier'[v].upload = u
        BY <1>1, <1>3, <3>4 DEF VerifierPcs
      <3> HIDE DEF u, c, settled
      <3>10. \A w \in Verifiers : verifier'[w] = verifier[w] \/ WorkFact(w)'
        BY <1>1, <2>1, <3>2, <3>4, <3>9 DEF WorkFact, Asked
      <3> QED  BY <2>2, <2>3, <3>3, <3>7, <3>8, <3>10, VerdictsFollow
    <2>5. CASE ~open
      <3>1. UNCHANGED upload /\ VerifierEnds(v)  BY <1>8, <2>5 DEF SettleUpload
      <3>2. \/ UNCHANGED task
            \/ task' = [task EXCEPT ![u] = Ended(@, "succeeded")] /\ upload[u].status # "VERIFYING"
        BY <1>8, <2>5 DEF SettleUpload
      <3>3. ASSUME NEW w \in Uploads, task'[w] # task[w] PROVE UploadFact(w)'
        <4>1. w = u /\ upload[w].status \in Terminal /\ upload'[w].status = upload[w].status
          BY <1>1, <2>1, <3>1, <3>2, <3>3 DEF Asked
        <4> QED  BY <4>1 DEF UploadFact, Asked, Terminal
      <3>4. \A w \in Verifiers : verifier'[w] = verifier[w] \/ WorkFact(w)'
        BY <1>1, <3>1, FirstRows DEF VerifierEnds, WorkFact
      <3> HIDE DEF u
      <3> QED  BY <2>2, <2>3, <3>1, <3>3, <3>4, SameVerdicts DEF StatusesStay
    <2> QED  BY <2>4, <2>5
  <1>9. ASSUME NEW v \in Verifiers, DeleteStaged(v) PROVE Verdicts' /\ RowsAdvance
    <2>1. upload[verifier[v].upload].status \in Terminal
      BY <1>9 DEF DeleteStaged, Verdicts, WorkFact
    <2>2. PayloadsStay  BY <1>1, <1>9, <2>1 DEF DeleteStaged, PayloadsStay
    <2>3. At(verifier[v], "mark").pc = "mark" /\ At(verifier[v], "mark").upload = verifier[v].upload
      BY <1>3 DEF VerifierPcs
    <2> QED  BY <1>9, <2>1, <2>2, <2>3, WorkerVerdicts DEF DeleteStaged, VerifierTo, StatusesStay
  <1>10. ASSUME NEW v \in Verifiers, MarkStagedDeleted(v) PROVE Verdicts' /\ RowsAdvance
    <2>1. StatusesStay  BY <1>1, <1>10, RowWrites DEF MarkStagedDeleted, StatusesStay
    <2> QED
      BY <1>10, <2>1, WorkerVerdicts, FirstRows
      DEF MarkStagedDeleted, VerifierEnds, PayloadsStay
  <1>11. ASSUME NEW v \in Verifiers, VerificationFails(v) PROVE Verdicts' /\ RowsAdvance
    <2>1. verifier' = [verifier EXCEPT ![v] = IdleVerifier]
      BY <1>11 DEF VerificationFails, Raise, VerifierEnds
    <2> QED
      BY <1>11, <2>1, WorkerVerdicts, FirstRows DEF VerificationFails, PayloadsStay, StatusesStay
  <1>12. ASSUME NEW v \in Verifiers, VerifierDies(v) PROVE Verdicts' /\ RowsAdvance
    BY <1>12, WorkerVerdicts, FirstRows DEF VerifierDies, VerifierEnds, PayloadsStay, StatusesStay
  <1>13. ASSUME NEW u \in Uploads, LeaseLapses(u) PROVE Verdicts' /\ RowsAdvance
    <2>1. \A w \in Uploads : /\ task'[w].intent = task[w].intent
                             /\ task'[w].outcome = task[w].outcome
      BY <1>1, <1>13, TaskWrites DEF LeaseLapses
    <2>2. UNCHANGED <<upload, staged, call, verifier, collector>>  BY <1>13 DEF LeaseLapses
    <2>3. \A w \in Uploads : UploadFact(w)'  BY <2>1, <2>2 DEF Verdicts, UploadFact
    <2> QED  BY <2>2, <2>3, SameVerdicts DEF PayloadsStay, StatusesStay
  <1> QED
    BY <1>4, <1>5, <1>6, <1>7, <1>8, <1>9, <1>10, <1>11, <1>12, <1>13 DEF Verify

\* Retention and expiry touch no upload.
LEMMA ExpireVerdicts ==
  ASSUME Verdicts, Expire
  PROVE  Verdicts' /\ RowsAdvance
  <1>1. UNCHANGED <<upload, task, staged, call, verifier, collector>>
    BY DEF Expire, RetentionElapses, ExpireDumpBlob, DeleteStored, CommitExpiry, ExpiryFails,
       rows, objects, procs
  <1> QED  BY <1>1, SameVerdicts DEF PayloadsStay, StatusesStay

\* A collector takes the payloads of settled uploads only.
LEMMA CollectVerdicts ==
  ASSUME IInv, Verdicts, Collect
  PROVE  Verdicts' /\ RowsAdvance
  <1> USE DEF rows, objects, procs
  <1>1. /\ collector \in [Collectors -> CollectorState]
        /\ upload \in [Uploads -> UploadRow] /\ staged \in [Uploads -> Content]
    BY DEF IInv, TypeOK
  <1>2. ASSUME NEW g \in Collectors, NEW s, collector' = [collector EXCEPT ![g] = s],
               s.pc # "idle" => /\ s.upload \in Uploads
                                /\ upload[s.upload].status \in Terminal,
               StatusesStay, PayloadsStay, UNCHANGED <<task, call, verifier>>
        PROVE  Verdicts' /\ RowsAdvance
    <2>1. PassFact(g)'  BY <1>1, <1>2 DEF PassFact, StatusesStay
    <2>2. \A h \in Collectors : collector'[h] = collector[h] \/ PassFact(h)'
      BY <1>1, <1>2, <2>1
    <2> QED  BY <1>2, <2>2, SameVerdicts
  <1>3. \A g \in Collectors : collector[g].pc # "idle" =>
          /\ collector[g].upload \in Uploads
          /\ upload[collector[g].upload].status \in Terminal
    BY DEF Verdicts, PassFact
  <1>4. \A g \in Collectors : \A pc \in {"mark", "fail"} :
          At(collector[g], pc).upload = collector[g].upload
    BY <1>1 DEF CollectorState, At
  <1>5. ASSUME NEW g \in Collectors, NEW u \in Uploads, ClaimPayload(g, u)
        PROVE  Verdicts' /\ RowsAdvance
    <2>1. StatusesStay  BY <1>1, <1>5, RowWrites DEF ClaimPayload, StatusesStay
    <2> DEFINE s == [pc |-> "delete", upload |-> u, token |-> upload[u].attempts + 1]
    <2>2. upload[u].status \in Terminal /\ collector' = [collector EXCEPT ![g] = s]
      BY <1>5 DEF ClaimPayload, Eligible
    <2>3. s.upload = u  OBVIOUS
    <2> HIDE DEF s
    <2> QED  BY <1>2, <1>5, <2>1, <2>2, <2>3 DEF ClaimPayload, PayloadsStay
  <1>6. ASSUME NEW g \in Collectors, DeletePayload(g) PROVE Verdicts' /\ RowsAdvance
    <2>1. /\ collector[g].upload \in Uploads
          /\ upload[collector[g].upload].status \in Terminal
      BY <1>3, <1>6 DEF DeletePayload
    <2>2. PayloadsStay  BY <1>1, <1>6, <2>1 DEF DeletePayload, PayloadsStay
    <2>3. \E pc \in {"mark", "fail"} : collector' = [collector EXCEPT ![g] = At(@, pc)]
      BY <1>6 DEF DeletePayload
    <2>4. StatusesStay /\ UNCHANGED <<task, call, verifier>>
      BY <1>6 DEF DeletePayload, StatusesStay
    <2> QED  BY <1>2, <1>4, <2>1, <2>2, <2>3, <2>4
  <1>7. ASSUME NEW g \in Collectors, NEW pc, NEW deleted, EndPass(g, pc, deleted)
        PROVE  Verdicts' /\ RowsAdvance
    <2>1. StatusesStay  BY <1>1, <1>7, RowWrites DEF EndPass, StatusesStay
    <2> QED  BY <1>2, <1>7, <2>1, FirstRows DEF EndPass, PayloadsStay, IdleCollector
  <1>8. ASSUME NEW g \in Collectors, StoreFailsCollector(g) PROVE Verdicts' /\ RowsAdvance
    <2>1. StatusesStay /\ PayloadsStay  BY <1>8 DEF StoreFailsCollector, StatusesStay, PayloadsStay
    <2>2. /\ collector[g].upload \in Uploads
          /\ upload[collector[g].upload].status \in Terminal
      BY <1>3, <1>8 DEF StoreFailsCollector
    <2> QED  BY <1>2, <1>4, <1>8, <2>1, <2>2 DEF StoreFailsCollector
  <1>9. ASSUME NEW g \in Collectors, CollectorDies(g) PROVE Verdicts' /\ RowsAdvance
    <2>1. StatusesStay /\ PayloadsStay  BY <1>9 DEF CollectorDies, StatusesStay, PayloadsStay
    <2> QED  BY <1>2, <1>9, <2>1 DEF CollectorDies, IdleCollector
  <1>10. ASSUME NEW u \in Uploads, PayloadLeaseLapses(u) PROVE Verdicts' /\ RowsAdvance
    <2>1. StatusesStay  BY <1>1, <1>10, RowWrites DEF PayloadLeaseLapses, StatusesStay
    <2> QED  BY <1>10, <2>1, SameVerdicts DEF PayloadLeaseLapses, PayloadsStay
  <1> QED
    BY <1>5, <1>6, <1>7, <1>8, <1>9, <1>10
    DEF Collect, MarkPayloadDeleted, PayloadDeleteFailed

LEMMA InitVerdicts == Init => Verdicts
  BY FirstRows DEF Init, Verdicts, RequestFact, UploadFact, WorkFact, PassFact, NoRow, NoTask,
     IdleCollector

\* Every step keeps the invariant of the verdicts, and takes none back.
LEMMA VerdictsStep == IInv /\ Verdicts /\ OneRequest /\ [Next]_vars => Verdicts' /\ RowsAdvance
  <1> SUFFICES ASSUME IInv, Verdicts, OneRequest, [Next]_vars PROVE Verdicts' /\ RowsAdvance
    OBVIOUS
  <1>1. CASE UNCHANGED vars
    BY <1>1, SameVerdicts DEF vars, rows, objects, procs, PayloadsStay, StatusesStay
  <1> QED
    BY <1>1, ClientVerdicts, CompleteVerdicts, VerifyVerdicts, ExpireVerdicts, CollectVerdicts
    DEF Next

\* An upload that waits for its verdict has its payload and a task that can
\* still be claimed, as long as no upload is completed by two requests at once.
THEOREM WaitingIsNotInVain == Spec /\ []OneRequest => []WaitingCanBeVerified
  <1>1. Verdicts => WaitingCanBeVerified
    BY DEF Verdicts, UploadFact, WaitingCanBeVerified, UnverifiedPayloadIsKept, NoStrandedUpload,
       Terminal
  <1> QED  BY <1>1, Invariance, InitVerdicts, VerdictsStep, PTL DEF Spec

\* Under the same condition no verdict is taken back or changed, whatever workers
\* and collectors come late.
THEOREM VerdictsAreFinal == Spec /\ []OneRequest => VerdictIsFinal
  <1>1. RowsAdvance => \A u \in Uploads : upload[u].status \in Terminal =>
                         /\ upload'[u].status = upload[u].status
                         /\ upload'[u].sha = upload[u].sha
    BY DEF RowsAdvance
  <1> QED  BY <1>1, Invariance, InitVerdicts, VerdictsStep, PTL DEF Spec, VerdictIsFinal

\* A client that completes its uploads one request after the other meets the
\* condition by itself.
THEOREM OneCompleterSuffices ==
  ASSUME NEW k0, Completers = {k0}
  PROVE  Spec => []WaitingCanBeVerified /\ VerdictIsFinal
  <1>1. OneRequest  BY DEF OneRequest
  <1> QED  BY <1>1, WaitingIsNotInVain, VerdictsAreFinal, PTL
-----------------------------------------------------------------------------
(* CurrentProjections: what promotions write, and what readers see of it. *)

HIDE UploadAssumption

\* What a run's report makes of the relations and of the membership.
RelationsBy(c, r) == {[symbol |-> x.symbol, reason |-> x.status, run |-> r] : x \in Observed(c)}
MemberBy(c, r) == IF c.exact = None THEN None ELSE [group |-> c.exact, run |-> r]

\* What is committed of an occurrence is its Current's, and the rows it points
\* to are there.
OfTheCurrent(o) ==
    /\ IF current[o] = 0
       THEN relations[o] = {} /\ member[o] = None /\ projected[o] = None
       ELSE /\ current[o] \in 1..Len(Reports[o])
            /\ relations[o] = RelationsBy(Reports[o][current[o]], current[o])
            /\ member[o] = MemberBy(Reports[o][current[o]], current[o])
            /\ projected[o] = [run |-> current[o], missing |-> Names(relations[o])]
    /\ \A x \in relations[o] : symbol[x.symbol] # None
    /\ member[o] # None => group[member[o].group] # None

\* The rows as a transaction sees them that has written t.
SymbolIn(t, s) == IF t.symbols[s] # None THEN t.symbols[s] ELSE symbol[s]
GroupIn(t, g) == IF t.groups[g] # None THEN t.groups[g] ELSE group[g]

\* What transaction t of o will commit is its run's, from the statement on that
\* writes it; and the rows that its next statements write are there.
SymbolsDrafted(o, t) ==
    LET c == Reports[o][t.run] IN
    IF t.phase = "lock"
    THEN \A x \in Observed(c) : t.symbols[x.symbol] # None \/ \E n \in t.todo : n.symbol = x.symbol
    ELSE /\ t.relations = RelationsBy(c, t.run)
         /\ \A x \in t.relations : t.symbols[x.symbol] # None
         /\ t.phase = "rows" => \A n \in t.todo : SymbolIn(t, n.symbol) # None
GroupDrafted(o, t) ==
    LET c == Reports[o][t.run] IN
    IF t.phase \in {"lock", "count", "rows"} THEN t.member = member[o]
    ELSE /\ t.member = MemberBy(c, t.run)
         /\ t.phase = "insert" => t.target = c.exact
         /\ t.phase # "insert" /\ c.exact # None => GroupIn(t, c.exact) # None
         /\ t.phase # "commit" => t.target # None
         /\ t.phase \in {"recount", "load", "store"} /\ t.target # c.exact => group[t.target] # None
         /\ t.phase = "load" => t.target # c.exact
         /\ t.phase \in {"flush", "store"} \/ (t.phase = "recount" /\ t.target = c.exact)
              => t.loaded # None /\ GroupIn(t, t.target) # None
         /\ t.phase = "flush" => t.target = c.exact
Drafted(o, t) == t.phase # "idle" =>
    /\ t.run \in 1..Len(Reports[o])
    /\ Unbroken(t.history, t.member)
    /\ SymbolsDrafted(o, t) /\ GroupDrafted(o, t)

ProjectionsInv ==
    /\ ProjectionsTypeOK
    /\ \A o \in Occurrences : OfTheCurrent(o)
    /\ HistoryIsUnbroken
    /\ \A o \in Occurrences : Drafted(o, txn[o])

\* A row of the reader's view that was steady was shown if the cursor has passed
\* it, and not otherwise.
PagingInv ==
    /\ reader.phase # "idle" => reader.view \in Views
    /\ reader.phase # "idle" => \A x \in reader.steady :
         /\ EntryOf(x, reader.view) = {} => reader.shown[x] = 0
         /\ \A e \in EntryOf(x, reader.view) : reader.shown[x] = IF After(e) THEN 0 ELSE 1
    /\ reader.phase = "done" => \A x \in reader.steady :
         \A e \in EntryOf(x, reader.view) : ~After(e)
-----------------------------------------------------------------------------
Module == [symbol : Symbols, status : Nat, file : Nat]
Report == [modules : Seq(Module), exact : Groups \cup {None}]

LEMMA LeastOf ==
  ASSUME NEW S \in SUBSET Nat, S # {}
  PROVE  \E m \in S : \A n \in S : m <= n
  <1> DEFINE less == OpToRel(<, Nat)
  <1>1. \A x, y \in Nat : <<x, y>> \in less <=> x < y  BY DEF OpToRel
  <1>2. IsWellFoundedOn(less, Nat)  BY NatLessThanWellFounded
  <1> HIDE DEF less
  <1>3. PICK m \in S : \A n \in S : ~(<<n, m>> \in less)  BY <1>2, WFMin
  <1>4. \A n \in S : ~(n < m)  BY <1>1, <1>3
  <1> QED  BY <1>4

LEMMA ReportsAreReports ==
  ASSUME NEW o \in Occurrences, NEW r \in 1..Len(Reports[o])
  PROVE  Reports[o][r] \in Report
  <1>1. Reports[o] \in Seq(Report)  BY ProjectionsAssumption DEF Report, Module
  <1> QED  BY <1>1

\* What is observed of a report is of its missing modules.
LEMMA ObservedModules ==
  ASSUME NEW c \in Report
  PROVE  \A x \in Observed(c) : x \in Module /\ x.status \in Missing
  <1>1. c.modules \in Seq(Module)  BY DEF Report
  <1>2. \A i \in DOMAIN c.modules : c.modules[i] \in Module  BY <1>1
  <1> QED  BY <1>2 DEF Observed, MissingModules

\* Every missing identity has its turn.
LEMMA EverySymbolHasATurn ==
  ASSUME NEW c \in Report
  PROVE  /\ SymbolOrder(c) \subseteq Turn
         /\ \A x \in Observed(c) : \E n \in SymbolOrder(c) : n.symbol = x.symbol
  <1>1. c.modules \in Seq(Module)  BY DEF Report
  <1>2. \A i \in DOMAIN c.modules : c.modules[i] \in Module /\ i \in Nat  BY <1>1
  <1>3. \A i \in DOMAIN c.modules : c.modules[i].symbol \in Symbols  BY <1>2 DEF Module
  <1>4. SymbolOrder(c) \subseteq Turn
    BY <1>2, <1>3 DEF SymbolOrder, MissingModules, Turn
  <1>5. ASSUME NEW i \in MissingModules(c)
        PROVE  \E j \in MissingModules(c) : /\ c.modules[j].symbol = c.modules[i].symbol
                                            /\ \A k \in OfTheSameSymbol(c, j) : j <= k
    <2>1. i \in OfTheSameSymbol(c, i)  BY DEF OfTheSameSymbol
    <2>2. OfTheSameSymbol(c, i) \in SUBSET Nat  BY <1>2 DEF OfTheSameSymbol, MissingModules
    <2>3. PICK j \in OfTheSameSymbol(c, i) : \A k \in OfTheSameSymbol(c, i) : j <= k
      BY <2>1, <2>2, LeastOf
    <2>4. j \in MissingModules(c) /\ c.modules[j].symbol = c.modules[i].symbol
      BY <2>3 DEF OfTheSameSymbol
    <2>5. OfTheSameSymbol(c, j) = OfTheSameSymbol(c, i)  BY <2>4 DEF OfTheSameSymbol
    <2> QED  BY <2>3, <2>4, <2>5
  <1>6. ASSUME NEW x \in Observed(c) PROVE \E n \in SymbolOrder(c) : n.symbol = x.symbol
    <2>1. PICK i \in MissingModules(c) : x = c.modules[i]  BY DEF Observed
    <2>2. PICK j \in MissingModules(c) : /\ c.modules[j].symbol = c.modules[i].symbol
                                         /\ \A k \in OfTheSameSymbol(c, j) : j <= k
      BY <1>5
    <2>3. [at |-> j, symbol |-> c.modules[j].symbol] \in SymbolOrder(c)  BY <2>2 DEF SymbolOrder
    <2> QED  BY <2>1, <2>2, <2>3
  <1> QED  BY <1>4, <1>6

\* The relations that a run's report makes.
LEMMA FreshRelationsAre ==
  ASSUME ProjectionsTypeOK, NEW o \in Occurrences, NEW r \in 1..Len(Reports[o])
  PROVE  /\ RelationsBy(Reports[o][r], r) \in SUBSET Relation
         /\ \A x \in RelationsBy(Reports[o][r], r) : x.run = r
         /\ Names(RelationsBy(Reports[o][r], r)) = Names(Observed(Reports[o][r]))
         /\ MemberBy(Reports[o][r], r) \in MemberRow \cup {None}
         /\ txn[o].run = r => FreshRelations(o) = RelationsBy(Reports[o][r], r)
  <1> DEFINE c == Reports[o][r]
  <1>1. c \in Report  BY ReportsAreReports
  <1>2. r \in Nat  BY ProjectionsAssumption
  <1>3. \A x \in Observed(c) : x.symbol \in Symbols /\ x.status \in Missing
    BY <1>1, ObservedModules DEF Module
  <1>4. RelationsBy(c, r) \in SUBSET Relation  BY <1>2, <1>3 DEF RelationsBy, Relation
  <1>5. \A x \in RelationsBy(c, r) : x.run = r  BY DEF RelationsBy
  <1>6. Names(RelationsBy(c, r)) = Names(Observed(c))
    <2>1. ASSUME NEW x \in Observed(c)
          PROVE  \E y \in RelationsBy(c, r) : y.symbol = x.symbol
      <3>1. [symbol |-> x.symbol, reason |-> x.status, run |-> r] \in RelationsBy(c, r)
        BY DEF RelationsBy
      <3> QED  BY <3>1
    <2>2. \A y \in RelationsBy(c, r) : \E x \in Observed(c) : y.symbol = x.symbol
      BY DEF RelationsBy
    <2> QED  BY <2>1, <2>2 DEF Names
  <1>7. MemberBy(c, r) \in MemberRow \cup {None}
    BY <1>1, <1>2 DEF MemberBy, MemberRow, Report
  <1>8. txn[o].run = r => FreshRelations(o) = RelationsBy(c, r)
    BY DEF FreshRelations, RelationsBy, ReportOf
  <1> QED  BY <1>4, <1>5, <1>6, <1>7, <1>8

\* A statement of one transaction touches nothing else.
LEMMA StatementKeeps ==
  ASSUME ProjectionsInv, NEW o \in Occurrences, NEW t \in Transaction,
         txn' = [txn EXCEPT ![o] = t], UNCHANGED committed, Drafted(o, t)
  PROVE  ProjectionsInv'
  <1> USE DEF committed
  <1>1. ProjectionsTypeOK'  BY DEF ProjectionsInv, ProjectionsTypeOK
  <1>2. \A p \in Occurrences : OfTheCurrent(p)'
    BY DEF ProjectionsInv, OfTheCurrent
  <1>3. HistoryIsUnbroken'  BY DEF ProjectionsInv, HistoryIsUnbroken
  <1>4. ASSUME NEW p \in Occurrences PROVE Drafted(p, txn[p])'
    <2>1. txn'[p] = IF p = o THEN t ELSE txn[p]  BY DEF ProjectionsInv, ProjectionsTypeOK
    <2>2. Drafted(p, txn'[p])
      BY <2>1 DEF ProjectionsInv
    <2> QED  BY <2>2 DEF Drafted, SymbolsDrafted, GroupDrafted, SymbolIn, GroupIn
  <1> QED  BY <1>1, <1>2, <1>3, <1>4 DEF ProjectionsInv

LEMMA NoTransactionIsOne == NoTransaction \in Transaction /\ NoTransaction.phase = "idle"
  BY DEF NoTransaction, Transaction, Phases, Turn, Relation

\* The fields of a transaction.
LEMMA TransactionFields ==
  ASSUME NEW t \in Transaction
  PROVE  /\ t.phase \in Phases /\ t.run \in Nat /\ t.todo \in SUBSET Turn
         /\ t.counts \in [Symbols -> Nat]
         /\ t.symbols \in [Symbols -> SymbolRow \cup {None}]
         /\ t.groups \in [Groups -> GroupRow \cup {None}]
         /\ t.relations \in SUBSET Relation /\ t.member \in MemberRow \cup {None}
         /\ t.history \in Seq(HistoryRow) /\ t.target \in Groups \cup {None}
         /\ t.loaded \in GroupRow \cup {None} /\ t.number \in Nat
  BY DEF Transaction

\* A transaction that ends without a commit.
LEMMA UndoneSteps ==
  ASSUME ProjectionsInv, NEW o \in Occurrences, End(o)
  PROVE  ProjectionsInv'
  <1>1. Drafted(o, NoTransaction)  BY NoTransactionIsOne DEF Drafted
  <1> QED  BY <1>1, NoTransactionIsOne, StatementKeeps DEF End

LEMMA BeginSteps ==
  ASSUME ProjectionsInv, NEW o \in Occurrences, Begin(o)
  PROVE  ProjectionsInv'
  <1>1. PICK r \in (current[o] + 1)..Len(Reports[o]) :
          txn' = [txn EXCEPT ![o] = [NoTransaction EXCEPT
                   !.phase = "lock", !.run = r, !.todo = SymbolOrder(Reports[o][r]),
                   !.relations = relations[o], !.member = member[o],
                   !.history = history[o]]]
    BY DEF Begin
  <1> DEFINE t == [NoTransaction EXCEPT
                   !.phase = "lock", !.run = r, !.todo = SymbolOrder(Reports[o][r]),
                   !.relations = relations[o], !.member = member[o],
                   !.history = history[o]]
  <1>2. /\ current[o] \in Nat /\ relations[o] \in SUBSET Relation
        /\ member[o] \in MemberRow \cup {None} /\ history[o] \in Seq(HistoryRow)
    BY DEF ProjectionsInv, ProjectionsTypeOK
  <1>3. r \in 1..Len(Reports[o]) /\ r \in Nat
    <2>1. Len(Reports[o]) \in Nat  BY ProjectionsAssumption
    <2> QED  BY <1>2, <2>1
  <1>4. SymbolOrder(Reports[o][r]) \subseteq Turn
    BY <1>3, ReportsAreReports, EverySymbolHasATurn
  <1>5. t \in Transaction
    BY <1>2, <1>3, <1>4, NoTransactionIsOne DEF Transaction, Phases
  <1>6. /\ t.phase = "lock" /\ t.run = r /\ t.todo = SymbolOrder(Reports[o][r])
        /\ t.member = member[o] /\ t.history = history[o]
    BY DEF NoTransaction
  <1> HIDE DEF t
  <1>7. Drafted(o, t)
    <2>1. SymbolsDrafted(o, t)
      BY <1>3, <1>6, ReportsAreReports, EverySymbolHasATurn DEF SymbolsDrafted
    <2>2. GroupDrafted(o, t)  BY <1>6 DEF GroupDrafted
    <2>3. Unbroken(t.history, t.member)  BY <1>6 DEF ProjectionsInv, HistoryIsUnbroken
    <2> QED  BY <1>3, <1>6, <2>1, <2>2, <2>3 DEF Drafted
  <1>8. txn' = [txn EXCEPT ![o] = t]  BY <1>1 DEF t
  <1> QED  BY <1>5, <1>7, <1>8, StatementKeeps DEF Begin

\* What is known of a transaction at work.
LEMMA AtWork ==
  ASSUME ProjectionsInv, NEW o \in Occurrences
  PROVE  /\ txn[o] \in Transaction
         /\ Drafted(o, txn[o])
         /\ txn[o].phase # "idle" =>
              /\ txn[o].run \in 1..Len(Reports[o])
              /\ ReportOf(o) \in Report /\ ReportOf(o) = Reports[o][txn[o].run]
              /\ FreshRelations(o) = RelationsBy(ReportOf(o), txn[o].run)
              /\ FreshRelations(o) \in SUBSET Relation
              /\ SymbolsDrafted(o, txn[o]) /\ GroupDrafted(o, txn[o])
              /\ Unbroken(txn[o].history, txn[o].member)
         /\ \A s \in Symbols : SymbolOf(o, s) = SymbolIn(txn[o], s) /\ SymbolOf(o, s) \in SymbolRow \cup {None}
         /\ \A g \in Groups : GroupOf(o, g) = GroupIn(txn[o], g) /\ GroupOf(o, g) \in GroupRow \cup {None}
  <1>1. txn[o] \in Transaction /\ Drafted(o, txn[o])
    BY DEF ProjectionsInv, ProjectionsTypeOK
  <1>2. symbol \in [Symbols -> SymbolRow \cup {None}] /\ group \in [Groups -> GroupRow \cup {None}]
    BY DEF ProjectionsInv, ProjectionsTypeOK
  <1>3. \A s \in Symbols : SymbolOf(o, s) = SymbolIn(txn[o], s) /\ SymbolOf(o, s) \in SymbolRow \cup {None}
    BY <1>1, <1>2, TransactionFields DEF SymbolOf, SymbolIn
  <1>4. \A g \in Groups : GroupOf(o, g) = GroupIn(txn[o], g) /\ GroupOf(o, g) \in GroupRow \cup {None}
    BY <1>1, <1>2, TransactionFields DEF GroupOf, GroupIn
  <1>5. ASSUME txn[o].phase # "idle"
        PROVE  /\ txn[o].run \in 1..Len(Reports[o])
               /\ ReportOf(o) \in Report /\ ReportOf(o) = Reports[o][txn[o].run]
               /\ FreshRelations(o) = RelationsBy(ReportOf(o), txn[o].run)
               /\ FreshRelations(o) \in SUBSET Relation
               /\ SymbolsDrafted(o, txn[o]) /\ GroupDrafted(o, txn[o])
               /\ Unbroken(txn[o].history, txn[o].member)
    <2>1. /\ txn[o].run \in 1..Len(Reports[o])
          /\ SymbolsDrafted(o, txn[o]) /\ GroupDrafted(o, txn[o])
          /\ Unbroken(txn[o].history, txn[o].member)
      BY <1>1, <1>5 DEF Drafted
    <2>2. ReportOf(o) = Reports[o][txn[o].run]  BY DEF ReportOf
    <2> QED  BY <2>1, <2>2, ReportsAreReports, FreshRelationsAre DEF ProjectionsInv
  <1> QED  BY <1>1, <1>3, <1>4, <1>5

\* A row with new times is a row.
LEMMA RowsOfSymbols ==
  ASSUME NEW o \in Occurrences, NEW x \in Module
  PROVE  /\ NewSymbol(o, x) \in SymbolRow
         /\ \A row \in SymbolRow : SeenAgain(row, o, x) \in SymbolRow
  <1>1. OccurredAt[o] \in Nat /\ x.file \in Nat  BY ProjectionsAssumption DEF Module
  <1>2. NewSymbol(o, x) \in SymbolRow  BY <1>1 DEF NewSymbol, SymbolRow
  <1>3. ASSUME NEW row \in SymbolRow PROVE SeenAgain(row, o, x) \in SymbolRow
    <2>1. row.first \in Nat /\ row.last \in Nat /\ row.file \in Nat  BY DEF SymbolRow
    <2>2. /\ LesserOf(row.first, OccurredAt[o]) \in Nat
          /\ GreaterOf(row.last, OccurredAt[o]) \in Nat
          /\ LesserOf(row.file, x.file) \in Nat
      BY <1>1, <2>1 DEF LesserOf, GreaterOf
    <2> QED  BY <2>2 DEF SeenAgain, SymbolRow
  <1> QED  BY <1>2, <1>3

LEMMA EnsureSteps ==
  ASSUME ProjectionsInv, NEW o \in Occurrences, EnsureSymbolRow(o)
  PROVE  ProjectionsInv'
  <1>1. PICK n \in First(txn[o].todo), x \in Observed(ReportOf(o)) :
          /\ x.symbol = n.symbol
          /\ txn' = [txn EXCEPT
                      ![o].symbols[n.symbol] =
                          IF SymbolOf(o, n.symbol) = None THEN NewSymbol(o, x)
                          ELSE SeenAgain(SymbolOf(o, n.symbol), o, x),
                      ![o].todo = @ \ {n}]
    BY DEF EnsureSymbolRow
  <1> DEFINE s == n.symbol
             row == IF SymbolOf(o, s) = None THEN NewSymbol(o, x)
                    ELSE SeenAgain(SymbolOf(o, s), o, x)
             t == [txn[o] EXCEPT !.symbols[s] = row, !.todo = @ \ {n}]
  <1>2. txn[o].phase = "lock" /\ txn[o].phase # "idle"  BY DEF EnsureSymbolRow
  <1>3. txn[o] \in Transaction  BY AtWork
  <1>4. x \in Module /\ s \in Symbols
    BY <1>1, <1>2, AtWork, ObservedModules DEF Module
  <1>5. row \in SymbolRow
    <2>1. SymbolOf(o, s) \in SymbolRow \cup {None}  BY <1>4, AtWork
    <2> QED  BY <1>4, <2>1, RowsOfSymbols
  <1> HIDE DEF row
  <1>6. t \in Transaction
    BY <1>3, <1>4, <1>5 DEF Transaction
  <1>7. /\ t.phase = "lock" /\ t.run = txn[o].run /\ t.member = txn[o].member
        /\ t.history = txn[o].history /\ t.todo = txn[o].todo \ {n}
        /\ t.symbols = [txn[o].symbols EXCEPT ![s] = row]
    BY <1>2, <1>3 DEF Transaction
  <1>8. txn' = [txn EXCEPT ![o] = t]
    BY <1>1 DEF row
  <1> HIDE DEF t
  <1>9. Drafted(o, t)
    <2>1. SymbolsDrafted(o, t)
      <3>1. ASSUME NEW y \in Observed(ReportOf(o))
            PROVE  t.symbols[y.symbol] # None \/ \E m \in t.todo : m.symbol = y.symbol
        <4>1. y.symbol \in Symbols
          BY <1>2, AtWork, ObservedModules DEF Module
        <4>2. txn[o].symbols[y.symbol] # None \/ \E m \in txn[o].todo : m.symbol = y.symbol
          BY <1>2, AtWork DEF SymbolsDrafted
        <4>3. row # None  BY <1>5, NoneAssumption
        <4> QED  BY <1>3, <1>4, <1>7, <4>1, <4>2, <4>3, TransactionFields
      <3> QED  BY <1>2, <1>7, <3>1, AtWork DEF SymbolsDrafted
    <2>2. GroupDrafted(o, t)  BY <1>2, <1>7, AtWork DEF GroupDrafted
    <2> QED  BY <1>2, <1>7, <2>1, <2>2, AtWork DEF Drafted
  <1> QED  BY <1>6, <1>8, <1>9, StatementKeeps DEF EnsureSymbolRow

LEMMA WriteRelationsSteps ==
  ASSUME ProjectionsInv, NEW o \in Occurrences, WriteRelations(o)
  PROVE  ProjectionsInv'
  <1> DEFINE t == [txn[o] EXCEPT !.phase = "count", !.relations = ReplacedRelations(o)]
  <1>1. txn[o].phase = "lock" /\ txn[o].phase # "idle" /\ txn[o].todo = {}
    BY DEF WriteRelations
  <1>2. txn[o] \in Transaction  BY AtWork
  <1>3. /\ ReplacedRelations(o) = RelationsBy(ReportOf(o), txn[o].run)
        /\ ReplacedRelations(o) \in SUBSET Relation
    BY <1>1, AtWork DEF ReplacedRelations
  <1>4. t \in Transaction  BY <1>2, <1>3 DEF Transaction, Phases
  <1>5. /\ t.phase = "count" /\ t.run = txn[o].run /\ t.member = txn[o].member
        /\ t.history = txn[o].history /\ t.symbols = txn[o].symbols
        /\ t.relations = ReplacedRelations(o)
    BY <1>2 DEF Transaction
  <1>6. txn' = [txn EXCEPT ![o] = t]  BY DEF WriteRelations
  <1> HIDE DEF t
  <1>7. Drafted(o, t)
    <2>1. \A x \in Observed(ReportOf(o)) : txn[o].symbols[x.symbol] # None
      BY <1>1, AtWork DEF SymbolsDrafted
    <2>2. \A x \in t.relations : t.symbols[x.symbol] # None
      BY <1>3, <1>5, <2>1 DEF RelationsBy
    <2>3. SymbolsDrafted(o, t)  BY <1>1, <1>3, <1>5, <2>2, AtWork DEF SymbolsDrafted
    <2>4. GroupDrafted(o, t)  BY <1>1, <1>5, AtWork DEF GroupDrafted
    <2> QED  BY <1>1, <1>5, <2>3, <2>4, AtWork DEF Drafted
  <1> QED  BY <1>4, <1>6, <1>7, StatementKeeps DEF WriteRelations

LEMMA CountRelationsSteps ==
  ASSUME ProjectionsInv, NEW o \in Occurrences, CountRelations(o)
  PROVE  ProjectionsInv'
  <1> DEFINE S == Names(relations[o]) \cup Names(txn[o].relations)
             counts == [s \in Symbols |-> Cardinality(Visible(o, s))]
  <1>1. PICK at \in Injection(S, 1..Cardinality(S)) :
          txn' = [txn EXCEPT ![o].phase = "rows",
                             ![o].todo = {[at |-> at[s], symbol |-> s] : s \in S},
                             ![o].counts = counts]
    BY DEF CountRelations
  <1> DEFINE todo == {[at |-> at[s], symbol |-> s] : s \in S}
             t == [txn[o] EXCEPT !.phase = "rows", !.todo = todo, !.counts = counts]
  <1>2. txn[o].phase = "count"  BY DEF CountRelations
  <1>3. txn[o] \in Transaction  BY AtWork
  <1>4. relations[o] \in SUBSET Relation /\ txn[o].relations \in SUBSET Relation
    BY <1>3, TransactionFields DEF ProjectionsInv, ProjectionsTypeOK
  <1>5. S \subseteq Symbols /\ IsFiniteSet(S) /\ Cardinality(S) \in Nat
    <2>1. S \subseteq Symbols  BY <1>4 DEF Names, Relation
    <2> QED  BY <2>1, ProjectionsAssumption, FS_Subset, FS_CardinalityType
  <1>6. todo \in SUBSET Turn
    <2>1. at \in [S -> 1..Cardinality(S)]  BY <1>1 DEF Injection
    <2>2. \A s \in S : at[s] \in Nat  BY <1>5, <2>1
    <2> QED  BY <1>5, <2>2 DEF Turn
  <1>7. counts \in [Symbols -> Nat]
    <2>1. \A s \in Symbols : Visible(o, s) \subseteq Occurrences  BY DEF Visible
    <2> QED  BY <2>1, ProjectionsAssumption, FS_Subset, FS_CardinalityType
  <1>8. \A n \in todo : n.symbol \in S  OBVIOUS
  <1> HIDE DEF counts, todo
  <1>9. t \in Transaction  BY <1>3, <1>6, <1>7 DEF Transaction, Phases
  <1>10. /\ t.phase = "rows" /\ t.run = txn[o].run /\ t.member = txn[o].member
         /\ t.history = txn[o].history /\ t.symbols = txn[o].symbols
         /\ t.relations = txn[o].relations /\ t.todo = todo
    BY <1>3 DEF Transaction
  <1>11. txn' = [txn EXCEPT ![o] = t]  BY <1>1 DEF todo
  <1> HIDE DEF t
  <1>12. Drafted(o, t)
    <2>1. \A s \in S : SymbolIn(t, s) # None
      <3>1. \A x \in relations[o] : symbol[x.symbol] # None
        BY DEF ProjectionsInv, OfTheCurrent
      <3>2. \A x \in txn[o].relations : txn[o].symbols[x.symbol] # None
        BY <1>2, AtWork DEF SymbolsDrafted
      <3> QED  BY <1>10, <3>1, <3>2 DEF SymbolIn, Names
    <2>2. SymbolsDrafted(o, t)
      BY <1>2, <1>8, <1>10, <2>1, AtWork DEF SymbolsDrafted
    <2>3. GroupDrafted(o, t)  BY <1>2, <1>10, AtWork DEF GroupDrafted
    <2> QED  BY <1>2, <1>10, <2>2, <2>3, AtWork DEF Drafted
  <1> QED  BY <1>9, <1>11, <1>12, StatementKeeps DEF CountRelations

LEMMA UpdateSteps ==
  ASSUME ProjectionsInv, NEW o \in Occurrences, UpdateSymbolRow(o)
  PROVE  ProjectionsInv'
  <1>1. PICK n \in First(txn[o].todo) :
          txn' = [txn EXCEPT
                   ![o].symbols[n.symbol] = [SymbolOf(o, n.symbol) EXCEPT
                       !.count = txn[o].counts[n.symbol],
                       !.status = IF txn[o].counts[n.symbol] > 0 THEN "open" ELSE "resolved"],
                   ![o].todo = @ \ {n}]
    BY DEF UpdateSymbolRow
  <1> DEFINE s == n.symbol
             row == [SymbolOf(o, s) EXCEPT
                       !.count = txn[o].counts[s],
                       !.status = IF txn[o].counts[s] > 0 THEN "open" ELSE "resolved"]
             t == [txn[o] EXCEPT !.symbols[s] = row, !.todo = @ \ {n}]
  <1>2. txn[o].phase = "rows"  BY DEF UpdateSymbolRow
  <1>3. txn[o] \in Transaction  BY AtWork
  <1>4. n \in txn[o].todo /\ s \in Symbols
    BY <1>3, TransactionFields DEF First, Turn
  <1>5. row \in SymbolRow
    <2>1. SymbolOf(o, s) \in SymbolRow
      BY <1>2, <1>4, AtWork DEF SymbolsDrafted
    <2>2. txn[o].counts[s] \in Nat  BY <1>3, <1>4, TransactionFields
    <2> QED  BY <2>1, <2>2 DEF SymbolRow
  <1> HIDE DEF row
  <1>6. t \in Transaction  BY <1>3, <1>4, <1>5 DEF Transaction
  <1>7. /\ t.phase = "rows" /\ t.run = txn[o].run /\ t.member = txn[o].member
        /\ t.history = txn[o].history /\ t.todo = txn[o].todo \ {n}
        /\ t.relations = txn[o].relations
        /\ t.symbols = [txn[o].symbols EXCEPT ![s] = row]
    BY <1>2, <1>3 DEF Transaction
  <1>8. txn' = [txn EXCEPT ![o] = t]  BY <1>1 DEF row
  <1> HIDE DEF t
  <1>9. Drafted(o, t)
    <2>1. row # None  BY <1>5, NoneAssumption
    <2>2. txn[o].symbols \in [Symbols -> SymbolRow \cup {None}]  BY <1>3, TransactionFields
    <2>3. \A z \in Symbols : /\ txn[o].symbols[z] # None => t.symbols[z] # None
                             /\ SymbolIn(txn[o], z) # None => SymbolIn(t, z) # None
      BY <1>4, <1>7, <2>1, <2>2 DEF SymbolIn
    <2>4. \A x \in txn[o].relations : x.symbol \in Symbols
      BY <1>3, TransactionFields DEF Relation
    <2>5. \A m \in txn[o].todo : m.symbol \in Symbols  BY <1>3, TransactionFields DEF Turn
    <2>6. SymbolsDrafted(o, t)
      BY <1>2, <1>7, <2>3, <2>4, <2>5, AtWork DEF SymbolsDrafted
    <2>7. GroupDrafted(o, t)  BY <1>2, <1>7, AtWork DEF GroupDrafted
    <2> QED  BY <1>2, <1>7, <2>6, <2>7, AtWork DEF Drafted
  <1> QED  BY <1>6, <1>8, <1>9, StatementKeeps DEF UpdateSymbolRow

\* A change of the membership that is recorded leaves the history unbroken.
LEMMA RecordedIsUnbroken ==
  ASSUME NEW t \in Transaction, NEW action \in {"assign", "move", "unclassify"},
         NEW g \in Groups \cup {None}, Unbroken(t.history, t.member)
  PROVE  LET u == Record(t, action, g) IN
         /\ u \in Transaction
         /\ u.member = IF g = None THEN None ELSE [group |-> g, run |-> t.run]
         /\ Unbroken(u.history, u.member)
         /\ u.phase = t.phase /\ u.run = t.run /\ u.todo = t.todo /\ u.symbols = t.symbols
         /\ u.groups = t.groups /\ u.relations = t.relations /\ u.target = t.target
         /\ u.loaded = t.loaded
  <1> DEFINE u == Record(t, action, g)
             m == IF g = None THEN None ELSE [group |-> g, run |-> t.run]
             was == IF t.member = None THEN None ELSE t.member.group
             e == [previous |-> was, group |-> g, run |-> t.run, action |-> action]
             h == Append(t.history, e)
  <1>1. /\ t.run \in Nat /\ t.member \in MemberRow \cup {None} /\ t.history \in Seq(HistoryRow)
    BY TransactionFields
  <1>2. was \in Groups \cup {None}  BY <1>1 DEF MemberRow
  <1>3. m \in MemberRow \cup {None}  BY <1>1 DEF MemberRow
  <1>4. e \in HistoryRow  BY <1>1, <1>2 DEF HistoryRow
  <1>5. h \in Seq(HistoryRow)  BY <1>1, <1>4
  <1>6. u = [t EXCEPT !.member = m, !.history = h]  BY DEF Record
  <1>7. u \in Transaction  BY <1>3, <1>5, <1>6 DEF Transaction
  <1>8. /\ u.member = m /\ u.history = h
        /\ u.phase = t.phase /\ u.run = t.run /\ u.todo = t.todo /\ u.symbols = t.symbols
        /\ u.groups = t.groups /\ u.relations = t.relations /\ u.target = t.target
        /\ u.loaded = t.loaded
    BY <1>6 DEF Transaction
  <1>9. Unbroken(h, m)
    <2>1. /\ Len(h) = Len(t.history) + 1 /\ Len(t.history) \in Nat
          /\ \A i \in 1..Len(t.history) : h[i] = t.history[i]
          /\ h[Len(h)] = e
      BY <1>1, <1>4
    <2>2. DOMAIN h = 1..Len(h) /\ DOMAIN t.history = 1..Len(t.history)  BY <1>1, <1>5
    <2>3. /\ \A i \in 1..Len(t.history) :
               t.history[i].previous = IF i = 1 THEN None ELSE t.history[i - 1].group
          /\ was = IF Len(t.history) + 1 = 1 THEN None ELSE t.history[Len(t.history) + 1 - 1].group
      BY <2>2 DEF Unbroken
    <2>4. ASSUME NEW i \in 1..Len(h)
          PROVE  h[i].previous = IF i = 1 THEN None ELSE h[i - 1].group
      <3>1. CASE i \in 1..Len(t.history)
        <4>1. i # 1 => i - 1 \in 1..Len(t.history)  BY <2>1, <3>1
        <4> QED  BY <2>1, <2>3, <3>1, <4>1
      <3>2. CASE i = Len(h)
        <4>1. h[i].previous = was  BY <2>1, <3>2
        <4>2. i # 1 => i - 1 \in 1..Len(t.history) /\ i - 1 = Len(t.history) + 1 - 1
          BY <2>1, <3>2
        <4>3. i = 1 => was = None  BY <2>1, <2>3, <3>2
        <4>4. i # 1 => was = h[i - 1].group  BY <2>1, <2>3, <3>2, <4>2
        <4> QED  BY <4>1, <4>3, <4>4
      <3> QED  BY <2>1, <3>1, <3>2
    <2>5. (IF Len(h) + 1 = 1 THEN None ELSE h[Len(h) + 1 - 1].group)
            = IF m = None THEN None ELSE m.group
      <3>1. Len(h) + 1 # 1 /\ Len(h) + 1 - 1 = Len(h)  BY <2>1
      <3>2. h[Len(h)].group = g  BY <2>1
      <3>3. g = IF m = None THEN None ELSE m.group
        <4>1. g # None => [group |-> g, run |-> t.run] \in MemberRow  BY <1>1 DEF MemberRow
        <4> QED  BY <4>1, NoneAssumption
      <3> QED  BY <3>1, <3>2, <3>3
    <2> QED  BY <2>2, <2>4, <2>5 DEF Unbroken
  <1> QED  BY <1>7, <1>8, <1>9

\* From the last row on, the relations are written.
LEMMA RelationsStay ==
  ASSUME NEW o \in Occurrences, NEW t \in Transaction, NEW u \in Transaction,
         SymbolsDrafted(o, t), t.phase # "lock", u.phase \notin {"lock", "rows"},
         u.run = t.run, u.relations = t.relations, u.symbols = t.symbols
  PROVE  SymbolsDrafted(o, u)
  BY DEF SymbolsDrafted

LEMMA LeaveSteps ==
  ASSUME ProjectionsInv, NEW o \in Occurrences, LeaveGroup(o)
  PROVE  ProjectionsInv'
  <1> DEFINE t == txn[o]
             v == Record(t, "unclassify", None)
             u == IF t.member = None THEN [t EXCEPT !.phase = "commit"]
                  ELSE [v EXCEPT !.phase = "recount", !.target = t.member.group]
  <1>1. t.phase = "rows" /\ ReportOf(o).exact = None /\ txn' = [txn EXCEPT ![o] = u]
    BY DEF LeaveGroup
  <1>2. t \in Transaction /\ Unbroken(t.history, t.member) /\ t.run \in 1..Len(Reports[o])
        /\ ReportOf(o) = Reports[o][t.run] /\ t.member = member[o]
    BY <1>1, AtWork DEF GroupDrafted
  <1>3. MemberBy(ReportOf(o), t.run) = None  BY <1>1 DEF MemberBy
  <1> HIDE DEF t
  <1>4. CASE t.member = None
    <2>a. u = [t EXCEPT !.phase = "commit"]  BY <1>4
    <2> HIDE DEF u
    <2>b. t \in Transaction  BY <1>2
    <2>c. u \in Transaction  BY <2>a, <2>b DEF Transaction, Phases
    <2>d. u.phase = "commit" /\ u.run = t.run /\ u.member = t.member
          /\ u.history = t.history /\ u.relations = t.relations /\ u.symbols = t.symbols
      BY <2>a, <2>b DEF Transaction
    <2>1. u \in Transaction /\ u.phase = "commit" /\ u.run = t.run /\ u.member = None
          /\ u.history = t.history /\ u.relations = t.relations /\ u.symbols = t.symbols
      BY <2>c, <2>d, <1>4
    <2>2. SymbolsDrafted(o, u)
      <3>1. SymbolsDrafted(o, t)  BY <1>1, AtWork DEF t
      <3> QED  BY <1>1, <1>2, <2>1, <3>1, RelationsStay
    <2>3. GroupDrafted(o, u)  BY <1>1, <1>2, <1>3, <2>1 DEF GroupDrafted
    <2>4. Drafted(o, u)  BY <1>2, <1>4, <2>1, <2>2, <2>3 DEF Drafted
    <2> QED  BY <1>1, <2>1, <2>4, StatementKeeps DEF LeaveGroup
  <1>5. CASE t.member # None
    <2>1. /\ v \in Transaction /\ v.member = None /\ Unbroken(v.history, v.member)
          /\ v.run = t.run /\ v.symbols = t.symbols /\ v.relations = t.relations
          /\ v.groups = t.groups
      BY <1>2, RecordedIsUnbroken
    <2>2. t.member \in MemberRow  BY <1>2, <1>5, TransactionFields
    <2>3. t.member.group \in Groups  BY <2>2 DEF MemberRow
    <2> HIDE DEF v
    <2>4. u \in Transaction
      BY <1>5, <2>1, <2>3 DEF Transaction, Phases
    <2>5. /\ u.phase = "recount" /\ u.target = t.member.group /\ u.run = t.run
          /\ u.member = None /\ u.history = v.history /\ u.symbols = t.symbols
          /\ u.relations = t.relations
      BY <1>5, <2>1 DEF Transaction
    <2> HIDE DEF u
    <2>6. SymbolsDrafted(o, u)
      <3>1. SymbolsDrafted(o, t)  BY <1>1, AtWork DEF t
      <3> QED  BY <1>1, <1>2, <2>4, <2>5, <3>1, RelationsStay
    <2>7. group[t.member.group] # None
      BY <1>2, <1>5 DEF ProjectionsInv, OfTheCurrent
    <2>8. t.member.group # None  BY <2>3, ProjectionsAssumption
    <2>9. GroupDrafted(o, u)
      BY <1>1, <1>2, <1>3, <2>5, <2>7, <2>8 DEF GroupDrafted
    <2>10. Drafted(o, u)  BY <1>2, <2>1, <2>5, <2>6, <2>9 DEF Drafted
    <2> QED  BY <1>1, <2>4, <2>10, StatementKeeps DEF LeaveGroup
  <1> QED  BY <1>4, <1>5

LEMMA JoinSteps ==
  ASSUME ProjectionsInv, NEW o \in Occurrences, JoinGroup(o)
  PROVE  ProjectionsInv'
  <1> DEFINE t == txn[o]
             g == ReportOf(o).exact
             action == IF t.member # None /\ t.member.group # g THEN "move" ELSE "assign"
             v == Record(t, action, g)
             u == [v EXCEPT !.target = g, !.loaded = group[g],
                            !.phase = IF group[g] = None THEN "insert" ELSE "flush"]
  <1>1. t.phase = "rows" /\ g # None /\ txn' = [txn EXCEPT ![o] = u]
    BY DEF JoinGroup
  <1>2. t \in Transaction /\ Unbroken(t.history, t.member) /\ t.run \in 1..Len(Reports[o])
        /\ ReportOf(o) = Reports[o][t.run] /\ ReportOf(o) \in Report
    BY <1>1, AtWork
  <1>3. g \in Groups /\ action \in {"assign", "move", "unclassify"}
    BY <1>1, <1>2 DEF Report
  <1>4. group[g] \in GroupRow \cup {None}  BY <1>3 DEF ProjectionsInv, ProjectionsTypeOK
  <1>5. SymbolsDrafted(o, t)  BY <1>1, AtWork
  <1>6. MemberBy(ReportOf(o), t.run) = [group |-> g, run |-> t.run]  BY <1>1 DEF MemberBy
  <1> HIDE DEF t, g, action
  <1>7. /\ v \in Transaction /\ v.member = [group |-> g, run |-> t.run]
        /\ Unbroken(v.history, v.member)
        /\ v.run = t.run /\ v.symbols = t.symbols /\ v.relations = t.relations
        /\ v.groups = t.groups
    BY <1>1, <1>2, <1>3, RecordedIsUnbroken
  <1> HIDE DEF v
  <1>8. u \in Transaction  BY <1>3, <1>4, <1>7 DEF Transaction, Phases
  <1>9. /\ u.phase = IF group[g] = None THEN "insert" ELSE "flush"
        /\ u.target = g /\ u.loaded = group[g] /\ u.run = t.run
        /\ u.member = [group |-> g, run |-> t.run] /\ u.history = v.history
        /\ u.symbols = t.symbols /\ u.relations = t.relations /\ u.groups = t.groups
    BY <1>7 DEF Transaction
  <1> HIDE DEF u
  <1>10. SymbolsDrafted(o, u)  BY <1>1, <1>2, <1>5, <1>8, <1>9, RelationsStay
  <1>11. group[g] # None => GroupIn(u, g) # None  BY DEF GroupIn
  <1>12. GroupDrafted(o, u)
    BY <1>1, <1>2, <1>6, <1>9, <1>11 DEF GroupDrafted, g
  <1>13. Drafted(o, u)  BY <1>2, <1>7, <1>9, <1>10, <1>12 DEF Drafted
  <1> QED  BY <1>1, <1>8, <1>13, StatementKeeps DEF JoinGroup

LEMMA InsertSteps ==
  ASSUME ProjectionsInv, NEW o \in Occurrences, InsertGroup(o)
  PROVE  ProjectionsInv'
  <1> DEFINE t == txn[o]
             g == t.target
             row == [first |-> OccurredAt[o], last |-> OccurredAt[o], count |-> 0]
             u == [t EXCEPT !.groups[g] = row, !.phase = "recount", !.loaded = row]
  <1>1. t.phase = "insert" /\ txn' = [txn EXCEPT ![o] = u]  BY DEF InsertGroup
  <1>2. t \in Transaction /\ Unbroken(t.history, t.member) /\ t.run \in 1..Len(Reports[o])
        /\ SymbolsDrafted(o, t) /\ GroupDrafted(o, t)
    BY <1>1, AtWork
  <1>3. g \in Groups
    BY <1>1, <1>2, TransactionFields DEF GroupDrafted
  <1>4. row \in GroupRow /\ row # None
    <2>1. row \in GroupRow  BY ProjectionsAssumption DEF GroupRow
    <2> QED  BY <2>1, NoneAssumption
  <1> HIDE DEF t, row
  <1>5. u \in Transaction  BY <1>2, <1>3, <1>4 DEF Transaction, Phases
  <1>6. /\ u.phase = "recount" /\ u.target = g /\ u.loaded = row /\ u.run = t.run
        /\ u.member = t.member /\ u.history = t.history
        /\ u.symbols = t.symbols /\ u.relations = t.relations
        /\ u.groups = [t.groups EXCEPT ![g] = row]
    BY <1>2 DEF Transaction
  <1> HIDE DEF u
  <1>7. SymbolsDrafted(o, u)  BY <1>1, <1>2, <1>5, <1>6, RelationsStay
  <1>8. GroupIn(u, g) # None
    BY <1>2, <1>3, <1>4, <1>6, TransactionFields DEF GroupIn
  <1>9. GroupDrafted(o, u)
    BY <1>1, <1>2, <1>4, <1>6, <1>8 DEF GroupDrafted
  <1>10. Drafted(o, u)  BY <1>2, <1>6, <1>7, <1>9 DEF Drafted
  <1> QED  BY <1>1, <1>5, <1>10, StatementKeeps DEF InsertGroup

LEMMA FlushSteps ==
  ASSUME ProjectionsInv, NEW o \in Occurrences, FlushGroup(o)
  PROVE  ProjectionsInv'
  <1> DEFINE t == txn[o]
             g == t.target
             row == IF Wants(o) = {} THEN t.groups[g]
                    ELSE [GroupOf(o, g) EXCEPT !.last = OccurredAt[o]]
             u == [t EXCEPT !.groups[g] = row, !.phase = "recount"]
  <1>1. t.phase = "flush" /\ txn' = [txn EXCEPT ![o] = u]  BY DEF FlushGroup
  <1>2. t \in Transaction /\ Unbroken(t.history, t.member) /\ t.run \in 1..Len(Reports[o])
        /\ SymbolsDrafted(o, t) /\ GroupDrafted(o, t)
    BY <1>1, AtWork
  <1>3. g \in Groups /\ g # None
    BY <1>1, <1>2, TransactionFields DEF GroupDrafted
  <1>4. GroupOf(o, g) \in GroupRow
    <2>1. GroupIn(t, g) # None  BY <1>1, <1>2 DEF GroupDrafted
    <2> QED  BY <1>3, <2>1, AtWork
  <1>5. row \in GroupRow \cup {None} /\ (row = t.groups[g] \/ row # None)
    <2>1. [GroupOf(o, g) EXCEPT !.last = OccurredAt[o]] \in GroupRow
      BY <1>4, ProjectionsAssumption DEF GroupRow
    <2>2. t.groups[g] \in GroupRow \cup {None}  BY <1>2, <1>3, TransactionFields
    <2> QED  BY <2>1, <2>2, NoneAssumption
  <1>6. \A x \in Groups : x = g \/ x # g  OBVIOUS
  <1> HIDE DEF t, row
  <1>7. u \in Transaction  BY <1>2, <1>3, <1>5 DEF Transaction, Phases
  <1>8. /\ u.phase = "recount" /\ u.target = g /\ u.loaded = t.loaded /\ u.run = t.run
        /\ u.member = t.member /\ u.history = t.history
        /\ u.symbols = t.symbols /\ u.relations = t.relations
        /\ u.groups = [t.groups EXCEPT ![g] = row]
    BY <1>2 DEF Transaction
  <1> HIDE DEF u
  <1>9. SymbolsDrafted(o, u)  BY <1>1, <1>2, <1>7, <1>8, RelationsStay
  <1>10. \A x \in Groups : GroupIn(t, x) # None => GroupIn(u, x) # None
    <2>1. t.groups \in [Groups -> GroupRow \cup {None}]  BY <1>2, TransactionFields
    <2>2. \A x \in Groups : t.groups[x] # None => u.groups[x] # None
      BY <1>3, <1>5, <1>8, <2>1
    <2> QED  BY <1>3, <1>5, <1>8, <2>1, <2>2 DEF GroupIn
  <1>11. GroupDrafted(o, u)
    BY <1>1, <1>2, <1>3, <1>8, <1>10 DEF GroupDrafted
  <1>12. Drafted(o, u)  BY <1>2, <1>8, <1>9, <1>11 DEF Drafted
  <1> QED  BY <1>1, <1>7, <1>12, StatementKeeps DEF FlushGroup

LEMMA CountGroupSteps ==
  ASSUME ProjectionsInv, NEW o \in Occurrences, CountGroup(o)
  PROVE  ProjectionsInv'
  <1> DEFINE t == txn[o]
             n == Cardinality(Members(o, t.target))
             u == [t EXCEPT !.number = n,
                            !.phase = IF t.target = ReportOf(o).exact THEN "store" ELSE "load"]
  <1>1. t.phase = "recount" /\ txn' = [txn EXCEPT ![o] = u]  BY DEF CountGroup
  <1>2. t \in Transaction /\ Unbroken(t.history, t.member) /\ t.run \in 1..Len(Reports[o])
        /\ SymbolsDrafted(o, t) /\ GroupDrafted(o, t) /\ ReportOf(o) = Reports[o][t.run]
    BY <1>1, AtWork
  <1>3. n \in Nat
    <2>1. Members(o, t.target) \subseteq Occurrences  BY DEF Members
    <2> QED  BY <2>1, ProjectionsAssumption, FS_Subset, FS_CardinalityType
  <1> HIDE DEF t, n
  <1>4. u \in Transaction  BY <1>2, <1>3 DEF Transaction, Phases
  <1>5. /\ u.phase = IF t.target = ReportOf(o).exact THEN "store" ELSE "load"
        /\ u.target = t.target /\ u.loaded = t.loaded /\ u.run = t.run
        /\ u.member = t.member /\ u.history = t.history
        /\ u.symbols = t.symbols /\ u.relations = t.relations /\ u.groups = t.groups
    BY <1>2 DEF Transaction
  <1> HIDE DEF u
  <1>6. SymbolsDrafted(o, u)  BY <1>1, <1>2, <1>4, <1>5, RelationsStay
  <1>7. GroupDrafted(o, u)
    BY <1>1, <1>2, <1>5 DEF GroupDrafted, GroupIn
  <1>8. Drafted(o, u)  BY <1>2, <1>5, <1>6, <1>7 DEF Drafted
  <1> QED  BY <1>1, <1>4, <1>8, StatementKeeps DEF CountGroup

LEMMA LoadSteps ==
  ASSUME ProjectionsInv, NEW o \in Occurrences, LoadGroup(o)
  PROVE  ProjectionsInv'
  <1> DEFINE t == txn[o]
             u == [t EXCEPT !.loaded = group[t.target], !.phase = "store"]
  <1>1. t.phase = "load" /\ txn' = [txn EXCEPT ![o] = u]  BY DEF LoadGroup
  <1>2. t \in Transaction /\ Unbroken(t.history, t.member) /\ t.run \in 1..Len(Reports[o])
        /\ SymbolsDrafted(o, t) /\ GroupDrafted(o, t) /\ ReportOf(o) = Reports[o][t.run]
    BY <1>1, AtWork
  <1>3. t.target \in Groups /\ group[t.target] # None
    BY <1>1, <1>2, TransactionFields DEF GroupDrafted
  <1>4. group[t.target] \in GroupRow \cup {None}
    BY <1>3 DEF ProjectionsInv, ProjectionsTypeOK
  <1> HIDE DEF t
  <1>5. u \in Transaction  BY <1>2, <1>4 DEF Transaction, Phases
  <1>6. /\ u.phase = "store" /\ u.target = t.target /\ u.loaded = group[t.target]
        /\ u.run = t.run /\ u.member = t.member /\ u.history = t.history
        /\ u.symbols = t.symbols /\ u.relations = t.relations /\ u.groups = t.groups
    BY <1>2 DEF Transaction
  <1> HIDE DEF u
  <1>7. SymbolsDrafted(o, u)  BY <1>1, <1>2, <1>5, <1>6, RelationsStay
  <1>8. GroupDrafted(o, u)
    BY <1>1, <1>2, <1>3, <1>6 DEF GroupDrafted, GroupIn
  <1>9. Drafted(o, u)  BY <1>2, <1>6, <1>7, <1>8 DEF Drafted
  <1> QED  BY <1>1, <1>5, <1>9, StatementKeeps DEF LoadGroup

LEMMA StoreSteps ==
  ASSUME ProjectionsInv, NEW o \in Occurrences, StoreGroupCount(o)
  PROVE  ProjectionsInv'
  <1> DEFINE t == txn[o]
             g == t.target
             again == g = ReportOf(o).exact /\ LeftGroup(o) \notin {None, g}
             row == IF Wants(o) = {} THEN t.groups[g]
                    ELSE [GroupOf(o, g) EXCEPT !.count = t.number]
             goal == IF again THEN LeftGroup(o) ELSE g
             u == [t EXCEPT !.groups[g] = row,
                            !.phase = IF again THEN "recount" ELSE "commit",
                            !.target = goal]
  <1>1. t.phase = "store" /\ txn' = [txn EXCEPT ![o] = u]  BY DEF StoreGroupCount
  <1>2. t \in Transaction /\ Unbroken(t.history, t.member) /\ t.run \in 1..Len(Reports[o])
        /\ SymbolsDrafted(o, t) /\ GroupDrafted(o, t) /\ ReportOf(o) = Reports[o][t.run]
        /\ ReportOf(o) \in Report
    BY <1>1, AtWork
  <1>3. g \in Groups /\ g # None
    BY <1>1, <1>2, TransactionFields DEF GroupDrafted
  <1>4. GroupOf(o, g) \in GroupRow
    <2>1. GroupIn(t, g) # None  BY <1>1, <1>2 DEF GroupDrafted
    <2> QED  BY <1>3, <2>1, AtWork
  <1>5. row \in GroupRow \cup {None} /\ (row = t.groups[g] \/ row # None)
    <2>1. t.number \in Nat /\ t.groups[g] \in GroupRow \cup {None}
      BY <1>2, <1>3, TransactionFields
    <2>2. [GroupOf(o, g) EXCEPT !.count = t.number] \in GroupRow
      BY <1>4, <2>1 DEF GroupRow
    <2> QED  BY <2>1, <2>2, NoneAssumption
  <1>6. again => LeftGroup(o) \in Groups /\ LeftGroup(o) # None /\ group[LeftGroup(o)] # None
    <2>1. member[o] \in MemberRow \cup {None}  BY DEF ProjectionsInv, ProjectionsTypeOK
    <2>2. member[o] # None => group[member[o].group] # None
      BY DEF ProjectionsInv, OfTheCurrent
    <2> QED  BY <2>1, <2>2 DEF LeftGroup, MemberRow
  <1> HIDE DEF t, row
  <1>7. u \in Transaction  BY <1>2, <1>3, <1>5, <1>6 DEF Transaction, Phases
  <1>8. /\ u.phase = IF again THEN "recount" ELSE "commit"
        /\ u.target = goal /\ u.loaded = t.loaded /\ u.run = t.run
        /\ u.member = t.member /\ u.history = t.history
        /\ u.symbols = t.symbols /\ u.relations = t.relations
        /\ u.groups = [t.groups EXCEPT ![g] = row]
    BY <1>2 DEF Transaction
  <1> HIDE DEF u
  <1>9. SymbolsDrafted(o, u)  BY <1>1, <1>2, <1>7, <1>8, RelationsStay
  <1>10. \A x \in Groups : GroupIn(t, x) # None => GroupIn(u, x) # None
    <2>1. t.groups \in [Groups -> GroupRow \cup {None}]  BY <1>2, TransactionFields
    <2>2. \A x \in Groups : t.groups[x] # None => u.groups[x] # None
      BY <1>3, <1>5, <1>8, <2>1
    <2> QED  BY <1>3, <1>5, <1>8, <2>1, <2>2 DEF GroupIn
  <1>11. ReportOf(o).exact # None => ReportOf(o).exact \in Groups  BY <1>2 DEF Report
  <1>12. GroupDrafted(o, u)
    BY <1>1, <1>2, <1>3, <1>6, <1>8, <1>10, <1>11 DEF GroupDrafted
  <1>13. Drafted(o, u)  BY <1>2, <1>8, <1>9, <1>12 DEF Drafted
  <1> QED  BY <1>1, <1>7, <1>13, StatementKeeps DEF StoreGroupCount

LEMMA CommitSteps ==
  ASSUME ProjectionsInv, NEW o \in Occurrences, Commit(o)
  PROVE  ProjectionsInv'
  <1> DEFINE t == txn[o]
             c == ReportOf(o)
  <1>1. /\ t.phase = "commit"
        /\ current' = [current EXCEPT ![o] = t.run]
        /\ relations' = [relations EXCEPT ![o] = t.relations]
        /\ projected' = [projected EXCEPT ![o] = [run |-> t.run, missing |-> Names(t.relations)]]
        /\ symbol' = [s \in Symbols |-> SymbolOf(o, s)]
        /\ group' = [g \in Groups |-> GroupOf(o, g)]
        /\ member' = [member EXCEPT ![o] = t.member]
        /\ history' = [history EXCEPT ![o] = t.history]
        /\ txn' = [txn EXCEPT ![o] = NoTransaction]
    BY DEF Commit
  <1>2. \E S \in SUBSET reader.steady : reader' = [reader EXCEPT !.steady = S]
    <2>1. PICK v \in {reader.view} :
            reader' = [reader EXCEPT !.steady = {x \in @ : EntryOf(x, v) = EntryOf(x, v)'}]
      BY DEF Commit
    <2> DEFINE S == {x \in reader.steady : EntryOf(x, v) = EntryOf(x, v)'}
    <2>2. S \in SUBSET reader.steady  OBVIOUS
    <2>3. reader' = [reader EXCEPT !.steady = S]  BY <2>1
    <2> QED  BY <2>2, <2>3
  <1>3. ProjectionsTypeOK  BY DEF ProjectionsInv
  <1>4. /\ t \in Transaction /\ t.run \in 1..Len(Reports[o]) /\ c = Reports[o][t.run]
        /\ SymbolsDrafted(o, t) /\ GroupDrafted(o, t) /\ Unbroken(t.history, t.member)
        /\ c \in Report
        /\ \A s \in Symbols : SymbolOf(o, s) \in SymbolRow \cup {None}
        /\ \A g \in Groups : GroupOf(o, g) \in GroupRow \cup {None}
    BY <1>1, AtWork
  <1>5. /\ t.relations = RelationsBy(c, t.run) /\ t.member = MemberBy(c, t.run)
        /\ \A x \in t.relations : t.symbols[x.symbol] # None
        /\ c.exact # None => GroupIn(t, c.exact) # None
    BY <1>1, <1>4 DEF SymbolsDrafted, GroupDrafted
  <1>6. /\ \A s \in Symbols : symbol[s] # None \/ t.symbols[s] # None => symbol'[s] # None
        /\ \A g \in Groups : group[g] # None \/ GroupIn(t, g) # None => group'[g] # None
    BY <1>1 DEF SymbolOf, GroupOf, GroupIn
  <1>7. t.run \in Nat /\ t.run # 0
    <2>1. Len(Reports[o]) \in Nat  BY ProjectionsAssumption
    <2> QED  BY <1>4, <2>1
  <1>8. /\ t.relations \in SUBSET Relation /\ t.member \in MemberRow \cup {None}
        /\ t.history \in Seq(HistoryRow)
    BY <1>4, TransactionFields
  <1>9. Names(t.relations) \subseteq Symbols  BY <1>8 DEF Names, Relation
  <1> HIDE DEF t, c
  <1>10. ProjectionsTypeOK'
    <2>1. current' \in [Occurrences -> Nat]  BY <1>1, <1>3, <1>7 DEF ProjectionsTypeOK
    <2>2. relations' \in [Occurrences -> SUBSET Relation]
      BY <1>1, <1>3, <1>8 DEF ProjectionsTypeOK
    <2>3. projected' \in [Occurrences -> StateRow \cup {None}]
      <3>1. [run |-> t.run, missing |-> Names(t.relations)] \in StateRow
        BY <1>7, <1>9 DEF StateRow
      <3> QED  BY <1>1, <1>3, <3>1 DEF ProjectionsTypeOK
    <2>4. symbol' \in [Symbols -> SymbolRow \cup {None}]  BY <1>1, <1>4
    <2>5. group' \in [Groups -> GroupRow \cup {None}]  BY <1>1, <1>4
    <2>6. member' \in [Occurrences -> MemberRow \cup {None}]
      BY <1>1, <1>3, <1>8 DEF ProjectionsTypeOK
    <2>7. history' \in [Occurrences -> Seq(HistoryRow)]
      BY <1>1, <1>3, <1>8 DEF ProjectionsTypeOK
    <2>8. txn' \in [Occurrences -> Transaction]
      BY <1>1, <1>3, NoTransactionIsOne DEF ProjectionsTypeOK
    <2>9. reader' \in Reader  BY <1>2, <1>3 DEF ProjectionsTypeOK, Reader
    <2> QED  BY <2>1, <2>2, <2>3, <2>4, <2>5, <2>6, <2>7, <2>8, <2>9 DEF ProjectionsTypeOK
  <1>11. ASSUME NEW p \in Occurrences PROVE OfTheCurrent(p)'
    <2>1. CASE p = o
      <3>1. /\ current'[o] = t.run /\ relations'[o] = t.relations /\ member'[o] = t.member
            /\ projected'[o] = [run |-> t.run, missing |-> Names(t.relations)]
        BY <1>1, <1>3 DEF ProjectionsTypeOK
      <3>2. \A x \in relations'[o] : symbol'[x.symbol] # None
        BY <1>5, <1>6, <1>8, <3>1 DEF Relation
      <3>3. member'[o] # None => group'[member'[o].group] # None
        <4>1. member'[o] # None => c.exact # None /\ member'[o].group = c.exact
          BY <1>5, <3>1 DEF MemberBy
        <4>2. c.exact # None => c.exact \in Groups  BY <1>4 DEF Report
        <4> QED  BY <1>5, <1>6, <4>1, <4>2
      <3> QED  BY <1>4, <1>5, <1>7, <2>1, <3>1, <3>2, <3>3 DEF OfTheCurrent
    <2>2. CASE p # o
      <3>1. /\ current'[p] = current[p] /\ relations'[p] = relations[p]
            /\ member'[p] = member[p] /\ projected'[p] = projected[p]
        BY <1>1, <1>3, <2>2 DEF ProjectionsTypeOK
      <3>2. OfTheCurrent(p)  BY DEF ProjectionsInv
      <3>3. relations[p] \in SUBSET Relation /\ member[p] \in MemberRow \cup {None}
        BY <1>3 DEF ProjectionsTypeOK
      <3>4. \A x \in relations'[p] : symbol'[x.symbol] # None
        BY <1>6, <3>1, <3>2, <3>3 DEF OfTheCurrent, Relation
      <3>5. member'[p] # None => group'[member'[p].group] # None
        BY <1>6, <3>1, <3>2, <3>3 DEF OfTheCurrent, MemberRow
      <3> QED  BY <3>1, <3>2, <3>4, <3>5 DEF OfTheCurrent
    <2> QED  BY <2>1, <2>2
  <1>12. HistoryIsUnbroken'
    <2>1. ASSUME NEW p \in Occurrences PROVE Unbroken(history'[p], member'[p])
      <3>1. CASE p = o  BY <1>1, <1>3, <1>4, <3>1 DEF ProjectionsTypeOK
      <3>2. CASE p # o
        BY <1>1, <1>3, <3>2 DEF ProjectionsTypeOK, ProjectionsInv, HistoryIsUnbroken
      <3> QED  BY <3>1, <3>2
    <2> QED  BY <2>1 DEF HistoryIsUnbroken, Unbroken
  <1>13. ASSUME NEW p \in Occurrences PROVE Drafted(p, txn[p])'
    <2>1. CASE p = o
      <3>1. txn'[p] = NoTransaction  BY <1>1, <1>3, <2>1 DEF ProjectionsTypeOK
      <3> QED  BY <3>1, NoTransactionIsOne DEF Drafted
    <2>2. CASE p # o
      <3> DEFINE u == txn[p]
      <3>1. txn'[p] = u /\ member'[p] = member[p]
        BY <1>1, <1>3, <2>2 DEF ProjectionsTypeOK
      <3>2. u \in Transaction /\ Drafted(p, u)  BY AtWork
      <3>3. /\ \A s \in Symbols : SymbolIn(u, s) # None => SymbolIn(u, s)' # None
            /\ \A g \in Groups : GroupIn(u, g) # None => GroupIn(u, g)' # None
            /\ \A g \in Groups : group[g] # None => group'[g] # None
        BY <1>6, <3>1 DEF SymbolIn, GroupIn
      <3>4. u.phase # "idle" => Reports[p][u.run] \in Report
        BY <3>2, ReportsAreReports DEF Drafted
      <3>5. u.phase # "idle" => SymbolsDrafted(p, txn[p])'
        <4>1. \A n \in u.todo : n.symbol \in Symbols  BY <3>2, TransactionFields DEF Turn
        <4> QED  BY <3>1, <3>2, <3>3, <4>1 DEF Drafted, SymbolsDrafted
      <3>6. u.phase # "idle" => GroupDrafted(p, txn[p])'
        <4>1. u.target # None => u.target \in Groups  BY <3>2, TransactionFields
        <4>2. u.phase # "idle" /\ Reports[p][u.run].exact # None => Reports[p][u.run].exact \in Groups
          BY <3>4 DEF Report
        <4> QED  BY <3>1, <3>2, <3>3, <4>1, <4>2 DEF Drafted, GroupDrafted
      <3>7. u.phase # "idle" => u.run \in 1..Len(Reports[p]) /\ Unbroken(u.history, u.member)
        BY <3>2 DEF Drafted
      <3>8. u.phase # "idle" => Unbroken(txn[p].history, txn[p].member)'
        BY <3>1, <3>7 DEF Unbroken
      <3> QED  BY <3>1, <3>5, <3>6, <3>7, <3>8 DEF Drafted
    <2> QED  BY <2>1, <2>2
  <1> QED  BY <1>10, <1>11, <1>12, <1>13 DEF ProjectionsInv

\* A client that pages writes nothing.
LEMMA ReaderKeeps ==
  ASSUME ProjectionsInv, reader' \in Reader,
         UNCHANGED <<current, relations, projected, symbol, group, member, history, txn>>
  PROVE  ProjectionsInv'
  <1>1. ProjectionsTypeOK'  BY DEF ProjectionsInv, ProjectionsTypeOK
  <1>2. \A o \in Occurrences : OfTheCurrent(o)'  BY DEF ProjectionsInv, OfTheCurrent
  <1>3. HistoryIsUnbroken'  BY DEF ProjectionsInv, HistoryIsUnbroken, Unbroken
  <1>4. ASSUME NEW o \in Occurrences PROVE Drafted(o, txn[o])'
    <2>1. Drafted(o, txn[o])  BY DEF ProjectionsInv
    <2> QED
      BY <2>1 DEF Drafted, SymbolsDrafted, GroupDrafted, SymbolIn, GroupIn, Unbroken
  <1> QED  BY <1>1, <1>2, <1>3, <1>4 DEF ProjectionsInv

LEMMA ProjectionsInitInv == ProjectionsInit => ProjectionsInv
  <1> SUFFICES ASSUME ProjectionsInit PROVE ProjectionsInv  OBVIOUS
  <1> USE DEF ProjectionsInit
  <1>1. NoReader \in Reader  BY DEF NoReader, Reader, Items
  <1>2. ProjectionsTypeOK  BY <1>1, NoTransactionIsOne DEF ProjectionsTypeOK
  <1>3. \A o \in Occurrences : OfTheCurrent(o)  BY DEF OfTheCurrent
  <1>4. HistoryIsUnbroken
    <2>1. Unbroken(<<>>, None)  BY DEF Unbroken
    <2> QED  BY <2>1 DEF HistoryIsUnbroken
  <1>5. \A o \in Occurrences : Drafted(o, txn[o])  BY NoTransactionIsOne DEF Drafted
  <1> QED  BY <1>2, <1>3, <1>4, <1>5 DEF ProjectionsInv

-----------------------------------------------------------------------------
(* What a client is shown.                                                 *)

\* A view has finitely many entries, and one at most of a row.
LEMMA EntriesAreFew ==
  ASSUME ProjectionsTypeOK, NEW view
  PROVE  /\ Entries(view) \subseteq Entry /\ IsFiniteSet(Entries(view))
         /\ \A e, f \in Entries(view) : e[3] = f[3] => e = f
  <1>1. \A s \in Symbols : Cardinality(Affected(s)) \in Nat /\ Id[s] \in Nat
    <2>1. \A s \in Symbols : Affected(s) \subseteq Occurrences  BY DEF Affected
    <2> QED  BY <2>1, ProjectionsAssumption, FS_Subset, FS_CardinalityType
  <1>2. \A o \in Occurrences : OccurredAt[o] \in Nat /\ Id[o] \in Nat
    BY ProjectionsAssumption
  <1>3. CASE view = "issues"
    <2> DEFINE f == [s \in Issues |-> <<Cardinality(Affected(s)), Id[s], s>>]
    <2>1. Issues \subseteq Symbols /\ IsFiniteSet(Issues)
      BY ProjectionsAssumption, FS_Subset DEF Issues
    <2>2. Entries(view) = {<<Cardinality(Affected(s)), Id[s], s>> : s \in Issues}
      BY <1>3 DEF Entries
    <2>3. Entries(view) \subseteq Entry  BY <1>1, <2>1, <2>2 DEF Entry, Items
    <2>4. f \in Surjection(Issues, Entries(view))  BY <2>2 DEF Surjection
    <2>5. IsFiniteSet(Entries(view))  BY <2>1, <2>4, FS_Surjection
    <2> QED  BY <2>2, <2>3, <2>5
  <1>4. CASE view # "issues"
    <2> DEFINE S == {p \in Occurrences : Matches(p, view)}
               f == [o \in S |-> <<OccurredAt[o], Id[o], o>>]
    <2>1. S \subseteq Occurrences /\ IsFiniteSet(S)  BY ProjectionsAssumption, FS_Subset
    <2>2. Entries(view) = {<<OccurredAt[o], Id[o], o>> : o \in S}
      BY <1>4 DEF Entries
    <2>3. Entries(view) \subseteq Entry  BY <1>2, <2>1, <2>2 DEF Entry, Items
    <2>4. f \in Surjection(S, Entries(view))  BY <2>2 DEF Surjection
    <2>5. IsFiniteSet(Entries(view))  BY <2>1, <2>4, FS_Surjection
    <2> QED  BY <2>2, <2>3, <2>5
  <1> QED  BY <1>3, <1>4

\* The order of a view is strict, and leaves no two of its rows beside each other.
LEMMA PrecedesOrders ==
  ASSUME ProjectionsTypeOK
  PROVE  /\ \A e \in Entry : ~Precedes(e, e)
         /\ \A e, f, g \in Entry : Precedes(e, f) /\ Precedes(f, g) => Precedes(e, g)
         /\ \A e, f \in Entries(reader.view) : e = f \/ Precedes(e, f) \/ Precedes(f, e)
  <1>1. \A e \in Entry : e[1] \in Nat /\ e[2] \in Nat /\ e = <<e[1], e[2], e[3]>>
    BY DEF Entry
  <1>2. \A e \in Entry : ~Precedes(e, e)  BY <1>1 DEF Precedes
  <1>3. \A e, f, g \in Entry : Precedes(e, f) /\ Precedes(f, g) => Precedes(e, g)
    BY <1>1 DEF Precedes
  <1>4. ASSUME NEW e \in Entries(reader.view), NEW f \in Entries(reader.view)
        PROVE  e = f \/ Precedes(e, f) \/ Precedes(f, e)
    <2>1. e \in Entry /\ f \in Entry  BY EntriesAreFew
    <2>2. e[2] = Id[e[3]] /\ f[2] = Id[f[3]]
          /\ (\/ e[3] \in Symbols /\ f[3] \in Symbols
              \/ e[3] \in Occurrences /\ f[3] \in Occurrences)
      BY DEF Entries, Issues
    <2>3. e[2] = f[2] => e[3] = f[3]
      <3>1. \A x, y \in Symbols : Id[x] = Id[y] => x = y  BY ProjectionsAssumption
      <3>2. \A x, y \in Occurrences : Id[x] = Id[y] => x = y  BY ProjectionsAssumption
      <3> QED  BY <2>2, <3>1, <3>2
    <2>4. e[2] = f[2] => e = f  BY <2>3, EntriesAreFew
    <2> QED  BY <1>1, <2>1, <2>4 DEF Precedes
  <1> QED  BY <1>2, <1>3, <1>4

\* A page ends with its last row, and what is left comes after that.
LEMMA PageIsFirst ==
  ASSUME ProjectionsTypeOK, Page # {}
  PROVE  LET last == CHOOSE e \in Page : \A f \in Page \ {e} : Precedes(f, e) IN
         /\ last \in Page
         /\ \A f \in Page \ {last} : Precedes(f, last)
         /\ \A f \in Rows \ Page : Precedes(last, f)
  <1> DEFINE before(e) == {f \in Rows : Precedes(f, e)}
             size(e) == Cardinality(before(e))
             left == {PageSize - size(e) : e \in Page}
  <1>1. Rows \subseteq Entries(reader.view) /\ Rows \subseteq Entry /\ IsFiniteSet(Rows)
    <2>1. Rows \subseteq Entries(reader.view)  BY DEF Rows
    <2> QED  BY <2>1, EntriesAreFew, FS_Subset
  <1>2. \A e \in Rows : size(e) \in Nat /\ IsFiniteSet(before(e))
    <2>1. \A e \in Rows : before(e) \subseteq Rows  OBVIOUS
    <2> QED  BY <1>1, <2>1, FS_Subset, FS_CardinalityType
  <1>3. Page = {e \in Rows : size(e) < PageSize}  BY DEF Page
  <1>4. ASSUME NEW e \in Rows, NEW f \in Rows, Precedes(e, f) PROVE size(e) < size(f)
    <2>1. e \notin before(e)  BY <1>1, PrecedesOrders
    <2>2. before(e) \cup {e} \subseteq before(f)  BY <1>1, <1>4, PrecedesOrders
    <2>3. Cardinality(before(e) \cup {e}) = size(e) + 1
      BY <1>2, <2>1, FS_AddElement
    <2>4. Cardinality(before(e) \cup {e}) <= size(f)  BY <1>2, <2>2, FS_Subset
    <2> QED  BY <1>2, <2>3, <2>4
  <1>5. PICK last \in Page : \A f \in Page : size(f) <= size(last)
    <2>1. \A e \in Page : PageSize - size(e) \in Nat
      BY <1>2, <1>3, ProjectionsAssumption
    <2>2. left \in SUBSET Nat /\ left # {}  BY <2>1
    <2>3. PICK n \in left : \A m \in left : n <= m
      <3> HIDE DEF left
      <3> QED  BY <2>2, LeastOf
    <2>4. PICK e \in Page : n = PageSize - size(e)  OBVIOUS
    <2>5. \A f \in Page : PageSize - size(e) <= PageSize - size(f)  BY <2>3, <2>4
    <2>6. \A f \in Page : size(f) \in Nat  BY <1>2, <1>3
    <2> HIDE DEF size, left
    <2> QED  BY <2>4, <2>5, <2>6, ProjectionsAssumption
  <1>6. \A f \in Page \ {last} : Precedes(f, last)
    <2>1. ASSUME NEW f \in Page \ {last}, Precedes(last, f) PROVE FALSE
      <3>1. size(last) < size(f)  BY <1>3, <1>4, <2>1
      <3> QED  BY <1>2, <1>3, <1>5, <2>1, <3>1
    <2> HIDE DEF size
    <2> QED  BY <1>1, <1>3, <2>1, PrecedesOrders
  <1>7. \A e \in Page : (\A f \in Page \ {e} : Precedes(f, e)) => e = last
    <2> HIDE DEF size
    <2> QED  BY <1>1, <1>3, <1>6, PrecedesOrders
  <1>8. last = CHOOSE e \in Page : \A f \in Page \ {e} : Precedes(f, e)
    BY <1>6, <1>7
  <1>9. ASSUME NEW f \in Rows \ Page PROVE Precedes(last, f)
    <2>1. ~Precedes(f, last)
      <3>1. SUFFICES ASSUME Precedes(f, last) PROVE FALSE  OBVIOUS
      <3>2. size(f) < size(last)  BY <1>3, <1>4, <3>1
      <3> QED  BY <1>2, <1>3, <3>2, ProjectionsAssumption
    <2>2. f # last  OBVIOUS
    <2> HIDE DEF size
    <2> QED  BY <1>1, <1>3, <2>1, <2>2, PrecedesOrders
  <1> HIDE DEF before, size, left
  <1> QED  BY <1>6, <1>8, <1>9

\* What a view shows follows from the pointers, relations, symbols and memberships.
LEMMA EntriesStay ==
  ASSUME UNCHANGED <<current, relations, symbol, member>>
  PROVE  \A v, x : EntryOf(x, v)' = EntryOf(x, v)
  <1>1. \A s : Affected(s)' = Affected(s)  BY DEF Affected
  <1>2. Issues' = Issues  BY <1>1 DEF Issues
  <1>3. \A o : SeenIssues(o)' = SeenIssues(o)  BY <1>1, <1>2 DEF SeenIssues
  <1>4. \A o : SeenGroup(o)' = SeenGroup(o)  BY DEF SeenGroup
  <1>5. \A o, v : Matches(o, v)' = Matches(o, v)  BY <1>3, <1>4 DEF Matches
  <1>6. \A v : Entries(v)' = Entries(v)  BY <1>1, <1>2, <1>5 DEF Entries
  <1> QED  BY <1>6 DEF EntryOf

\* The writes of others leave the views that were steady as they are.
LEMMA UnreadKeeps ==
  ASSUME PagingInv, UNCHANGED reader,
         UNCHANGED <<current, relations, symbol, member>>
  PROVE  PagingInv'
  <1>1. reader' = reader  OBVIOUS
  <1>2. \A v, x : EntryOf(x, v)' = EntryOf(x, v)  BY EntriesStay
  <1>3. \A e : After(e)' = After(e)  BY DEF After, Precedes
  <1> QED  BY <1>1, <1>2, <1>3 DEF PagingInv

LEMMA OpenViewSteps ==
  ASSUME OpenView
  PROVE  PagingInv' /\ reader' \in Reader
  <1>1. PICK v \in Views : reader' = [NoReader EXCEPT !.phase = "reading", !.view = v,
                                                      !.steady = Items]
    BY DEF OpenView
  <1>2. /\ reader'.phase = "reading" /\ reader'.view = v /\ reader'.steady = Items
        /\ reader'.after = None /\ reader'.shown = [x \in Items |-> 0]
    BY <1>1 DEF NoReader
  <1>3. reader' \in Reader  BY <1>1 DEF NoReader, Reader
  <1>4. \A e : After(e)'  BY <1>2 DEF After
  <1>5. \A x \in Items : reader'.shown[x] = 0  BY <1>2
  <1> QED  BY <1>2, <1>3, <1>4, <1>5 DEF PagingInv

\* A page shows the rows between the old cursor and the new one.
LEMMA NextPageSteps ==
  ASSUME ProjectionsTypeOK, PagingInv, NextPage
  PROVE  PagingInv' /\ reader' \in Reader
  <1> DEFINE last == CHOOSE e \in Page : \A f \in Page \ {e} : Precedes(f, e)
             v == reader.view
  <1>1. /\ reader.phase = "reading"
        /\ reader' = [reader EXCEPT
              !.shown = [x \in Items |-> IF \E e \in Page : e[3] = x THEN @[x] + 1 ELSE @[x]],
              !.after = IF Page = {} THEN @ ELSE last,
              !.phase = IF Page = Rows THEN "done" ELSE "reading"]
        /\ UNCHANGED <<current, relations, symbol, member>>
    BY DEF NextPage
  <1>2. /\ reader \in Reader /\ reader.shown \in [Items -> Nat] /\ reader.steady \subseteq Items
        /\ reader.after \in Entry \cup {None} /\ reader.view \in Views \cup {None}
    BY DEF ProjectionsTypeOK, Reader
  <1>3. Page \subseteq Rows /\ Rows \subseteq Entries(v) /\ Entries(v) \subseteq Entry
    BY EntriesAreFew DEF Page, Rows
  <1>4. Page # {} => /\ last \in Page
                     /\ \A f \in Page \ {last} : Precedes(f, last)
                     /\ \A f \in Rows \ Page : Precedes(last, f)
    BY PageIsFirst
  <1>5. \A e \in Entries(v) : e \in Rows <=> After(e)  BY DEF Rows
  <1>6. None \notin Entry  BY NoneAssumption
  <1> HIDE DEF last
  <1>7. /\ reader'.view = v /\ reader'.steady = reader.steady
        /\ reader'.after = IF Page = {} THEN reader.after ELSE last
        /\ reader'.phase = IF Page = Rows THEN "done" ELSE "reading"
        /\ \A x \in Items : reader'.shown[x] = IF \E e \in Page : e[3] = x
                                               THEN reader.shown[x] + 1 ELSE reader.shown[x]
    BY <1>1, <1>2 DEF Reader
  <1>8. reader' \in Reader
    <2>1. reader'.shown \in [Items -> Nat]  BY <1>1, <1>2 DEF Reader
    <2>2. reader'.after \in Entry \cup {None}  BY <1>2, <1>3, <1>4, <1>7
    <2>3. reader' \in [phase : {"idle", "reading", "done"}, view : Views \cup {None},
                       after : Entry \cup {None}, shown : [Items -> Nat], steady : SUBSET Items]
      BY <1>1, <1>2, <2>1, <2>2 DEF Reader
    <2> QED  BY <2>3 DEF Reader
  <1>9. \A e : After(e)' <=> reader'.after = None \/ Precedes(reader'.after, e)
    BY <1>7 DEF After, Precedes
  <1>10. ASSUME NEW e \in Entries(v)
         PROVE  /\ e \in Page => ~After(e)'
                /\ e \notin Page => After(e)' = After(e)
    <2>1. e \in Entry  BY <1>3
    <2>2. CASE Page = {}  BY <1>7, <1>9, <2>2 DEF After
    <2>3. CASE Page # {}
      <3>1. last \in Entry /\ last \in Rows /\ reader'.after = last /\ last # None
        BY <1>3, <1>4, <1>6, <1>7, <2>3
      <3>2. e \in Page => ~Precedes(last, e)
        BY <1>4, <2>1, <2>3, <3>1, PrecedesOrders
      <3>3. e \in Rows \ Page => Precedes(last, e)  BY <1>4, <2>3
      <3>4. e \notin Rows => ~Precedes(last, e)
        <4>1. SUFFICES ASSUME e \notin Rows, Precedes(last, e) PROVE FALSE  OBVIOUS
        <4>2. reader.after # None /\ ~Precedes(reader.after, e)
          BY <1>5, <4>1 DEF After
        <4>3. Precedes(reader.after, last)  BY <1>3, <1>5, <3>1, <4>2 DEF After
        <4> QED  BY <1>2, <2>1, <3>1, <4>1, <4>2, <4>3, PrecedesOrders
      <3>5. After(e)' <=> Precedes(last, e)  BY <1>9, <3>1
      <3>6. e \in Page => ~After(e)'  BY <3>2, <3>5
      <3>7. e \notin Page => (After(e)' <=> e \in Rows)  BY <3>3, <3>4, <3>5
      <3> QED  BY <1>5, <3>6, <3>7 DEF After, Precedes
    <2> QED  BY <2>2, <2>3
  <1>11. \A u, x : EntryOf(x, u)' = EntryOf(x, u)  BY <1>1, EntriesStay
  <1>12. \A x : \A e \in EntryOf(x, v) : e \in Entries(v) /\ e[3] = x  BY DEF EntryOf
  <1>13. ASSUME NEW x \in reader.steady
         PROVE  /\ EntryOf(x, v) = {} => reader'.shown[x] = 0
                /\ \A e \in EntryOf(x, v) : reader'.shown[x] = IF After(e)' THEN 0 ELSE 1
                /\ Page = Rows => \A e \in EntryOf(x, v) : ~After(e)'
    <2>1. x \in Items /\ reader.shown[x] \in Nat  BY <1>2
    <2>2. /\ EntryOf(x, v) = {} => reader.shown[x] = 0
          /\ \A e \in EntryOf(x, v) : reader.shown[x] = IF After(e) THEN 0 ELSE 1
      BY <1>1 DEF PagingInv
    <2>3. EntryOf(x, v) = {} => reader'.shown[x] = 0
      <3>1. EntryOf(x, v) = {} => ~\E e \in Page : e[3] = x  BY <1>3 DEF EntryOf
      <3> QED  BY <1>7, <2>1, <2>2, <3>1
    <2>4. ASSUME NEW e \in EntryOf(x, v)
          PROVE  /\ reader'.shown[x] = IF After(e)' THEN 0 ELSE 1
                 /\ Page = Rows => ~After(e)'
      <3>1. (\E f \in Page : f[3] = x) <=> e \in Page
        BY <1>3, <1>12, EntriesAreFew
      <3>2. e \in Entries(v)  BY <1>12
      <3>3. CASE e \in Page
        <4>1. After(e) /\ ~After(e)'  BY <1>3, <1>5, <1>10, <3>2, <3>3
        <4>2. reader'.shown[x] = reader.shown[x] + 1  BY <1>7, <2>1, <3>1, <3>3
        <4> QED  BY <2>1, <2>2, <4>1, <4>2
      <3>4. CASE e \notin Page
        <4>1. After(e)' = After(e)  BY <1>10, <3>2, <3>4
        <4>2. reader'.shown[x] = reader.shown[x]  BY <1>7, <2>1, <3>1, <3>4
        <4>3. Page = Rows => ~After(e)  BY <1>5, <3>2, <3>4
        <4> QED  BY <2>2, <4>1, <4>2, <4>3
      <3> QED  BY <3>3, <3>4
    <2> QED  BY <2>3, <2>4
  <1>14. v \in Views  BY <1>1 DEF PagingInv
  <1>15. reader'.phase = "done" => Page = Rows  BY <1>7
  <1>16. PagingInv'  BY <1>7, <1>11, <1>13, <1>14, <1>15 DEF PagingInv
  <1> QED  BY <1>8, <1>16

LEMMA CommitPages ==
  ASSUME ProjectionsTypeOK, PagingInv, NEW o \in Occurrences, Commit(o)
  PROVE  PagingInv'
  <1>1. PICK v \in {reader.view} :
          reader' = [reader EXCEPT !.steady = {x \in @ : EntryOf(x, v) = EntryOf(x, v)'}]
    BY DEF Commit
  <1>2. reader \in Reader  BY DEF ProjectionsTypeOK
  <1>3. /\ reader'.phase = reader.phase /\ reader'.view = v /\ reader.view = v
        /\ reader'.after = reader.after /\ reader'.shown = reader.shown
        /\ \A x \in reader'.steady : x \in reader.steady /\ EntryOf(x, v)' = EntryOf(x, v)
    BY <1>1, <1>2 DEF Reader
  <1>4. \A e : After(e)' = After(e)  BY <1>3 DEF After, Precedes
  <1> QED  BY <1>3, <1>4 DEF PagingInv

\* A step of a transaction before its commit, or one that ends without.
LEMMA UncommittedSteps ==
  ASSUME PagingInv, UNCHANGED committed
  PROVE  PagingInv'
  BY UnreadKeeps DEF committed

LEMMA ProjectionsSteps ==
  ASSUME ProjectionsInv, PagingInv, [ProjectionsNext]_projectionVars
  PROVE  ProjectionsInv' /\ PagingInv'
  <1> USE DEF ProjectionsInv
  <1>1. ASSUME NEW o \in Occurrences, Begin(o) \/ Step(o) \/ Rollback(o)
        PROVE  ProjectionsInv' /\ PagingInv'
    <2>1. CASE Begin(o)  BY <2>1, BeginSteps, UncommittedSteps DEF Begin
    <2>2. CASE EnsureSymbolRow(o)
      BY <2>2, EnsureSteps, UncommittedSteps DEF EnsureSymbolRow
    <2>3. CASE WriteRelations(o)
      BY <2>3, WriteRelationsSteps, UncommittedSteps DEF WriteRelations
    <2>4. CASE CountRelations(o)
      BY <2>4, CountRelationsSteps, UncommittedSteps DEF CountRelations
    <2>5. CASE UpdateSymbolRow(o)  BY <2>5, UpdateSteps, UncommittedSteps DEF UpdateSymbolRow
    <2>6. CASE LeaveGroup(o)  BY <2>6, LeaveSteps, UncommittedSteps DEF LeaveGroup
    <2>7. CASE JoinGroup(o)  BY <2>7, JoinSteps, UncommittedSteps DEF JoinGroup
    <2>8. CASE InsertGroup(o)  BY <2>8, InsertSteps, UncommittedSteps DEF InsertGroup
    <2>9. CASE FlushGroup(o)  BY <2>9, FlushSteps, UncommittedSteps DEF FlushGroup
    <2>10. CASE CountGroup(o)  BY <2>10, CountGroupSteps, UncommittedSteps DEF CountGroup
    <2>11. CASE LoadGroup(o)  BY <2>11, LoadSteps, UncommittedSteps DEF LoadGroup
    <2>12. CASE StoreGroupCount(o)
      BY <2>12, StoreSteps, UncommittedSteps DEF StoreGroupCount
    <2>13. CASE Commit(o)
      <3>1. ProjectionsInv'  BY <2>13, CommitSteps
      <3>2. ProjectionsTypeOK  BY DEF ProjectionsInv
      <3> QED  BY <2>13, <3>1, <3>2, CommitPages
    <2>14. CASE DuplicateGroup(o) \/ DeadlockVictim(o) \/ Rollback(o)
      <3>1. End(o)  BY <2>14 DEF DuplicateGroup, DeadlockVictim, Rollback
      <3> QED  BY <3>1, UndoneSteps, UncommittedSteps DEF End
    <2> QED
      BY <1>1, <2>1, <2>2, <2>3, <2>4, <2>5, <2>6, <2>7, <2>8, <2>9, <2>10, <2>11, <2>12,
         <2>13, <2>14 DEF Step
  <1>2. CASE OpenView  BY <1>2, OpenViewSteps, ReaderKeeps DEF OpenView
  <1>3. CASE NextPage
    <2>1. ProjectionsTypeOK  BY DEF ProjectionsInv
    <2> QED  BY <1>3, <2>1, NextPageSteps, ReaderKeeps DEF NextPage
  <1>4. CASE CloseView
    <2>1. reader' \in Reader /\ reader'.phase = "idle"
      BY <1>4 DEF CloseView, NoReader, Reader
    <2>2. PagingInv'  BY <2>1 DEF PagingInv
    <2> QED  BY <1>4, <2>1, <2>2, ReaderKeeps DEF CloseView
  <1>5. CASE UNCHANGED projectionVars
    <2>1. ProjectionsTypeOK  BY DEF ProjectionsInv
    <2>2. reader' \in Reader  BY <1>5, <2>1 DEF projectionVars, ProjectionsTypeOK
    <2>3. PagingInv'  BY <1>5, UnreadKeeps DEF projectionVars
    <2> QED  BY <1>5, <2>2, <2>3, ReaderKeeps DEF projectionVars
  <1> QED  BY <1>1, <1>2, <1>3, <1>4, <1>5 DEF ProjectionsNext

LEMMA ProjectionsStart == ProjectionsInit => ProjectionsInv /\ PagingInv
  <1> SUFFICES ASSUME ProjectionsInit PROVE PagingInv  BY ProjectionsInitInv
  <1>1. reader.phase = "idle"  BY DEF ProjectionsInit, NoReader
  <1> QED  BY <1>1 DEF PagingInv

\* What the readers see of an occurrence is its Current's.
LEMMA ViewsAreOfTheCurrent == ASSUME ProjectionsInv PROVE ProjectionsAreSound
  <1>1. ProjectionsTypeOK  BY DEF ProjectionsInv
  <1>2. \A o \in Occurrences : OfTheCurrent(o)  BY DEF ProjectionsInv
  <1>3. ASSUME NEW o \in Occurrences, current[o] = 0
        PROVE  relations[o] = {} /\ member[o] = None
    BY <1>2, <1>3 DEF OfTheCurrent
  <1>4. ASSUME NEW o \in Occurrences, current[o] # 0
        PROVE  /\ projected[o] # None /\ projected[o].run = current[o]
               /\ \A x \in relations[o] : x.run = current[o]
               /\ member[o] # None => member[o].run = current[o]
               /\ SeenIssues(o) = Names(Observed(CurrentReportOf(o)))
               /\ projected[o].missing = SeenIssues(o)
               /\ SeenGroup(o) = CurrentReportOf(o).exact
    <2> DEFINE r == current[o]
               c == CurrentReportOf(o)
    <2>1. /\ r \in 1..Len(Reports[o]) /\ c = Reports[o][r]
          /\ relations[o] = RelationsBy(c, r) /\ member[o] = MemberBy(c, r)
          /\ projected[o] = [run |-> r, missing |-> Names(relations[o])]
          /\ \A x \in relations[o] : symbol[x.symbol] # None
      BY <1>2, <1>4 DEF OfTheCurrent, CurrentReportOf
    <2>2. /\ \A x \in relations[o] : x.run = r /\ x.symbol \in Symbols
          /\ Names(relations[o]) = Names(Observed(c))
      BY <1>1, <2>1, FreshRelationsAre DEF Relation
    <2>3. projected[o] # None
      <3>1. projected[o] \in StateRow \cup {None}  BY <1>1 DEF ProjectionsTypeOK
      <3>2. Names(relations[o]) \subseteq Symbols  BY <2>2 DEF Names
      <3>3. r \in Nat  BY <1>1 DEF ProjectionsTypeOK
      <3>4. [run |-> r, missing |-> Names(relations[o])] \in StateRow
        BY <3>2, <3>3 DEF StateRow
      <3> QED  BY <2>1, <3>4, NoneAssumption
    <2>4. SeenIssues(o) = Names(relations[o])
      <3>1. \A s \in Symbols : o \in Affected(s) <=> s \in Names(relations[o])
        BY <2>2 DEF Affected, Names
      <3>2. \A s \in Names(relations[o]) : s \in Symbols /\ symbol[s] # None
        BY <2>1, <2>2 DEF Names
      <3> QED  BY <3>1, <3>2 DEF SeenIssues, Issues
    <2>5. member[o] # None => member[o].run = r /\ member[o].group = c.exact
      BY <2>1 DEF MemberBy
    <2>6. member[o] = None => c.exact = None
      <3>1. CASE c.exact = None  BY <3>1
      <3>2. CASE c.exact # None
        <4>1. c.exact \in Groups /\ r \in Nat
          BY <1>1, <2>1, <3>2, ReportsAreReports DEF Report, ProjectionsTypeOK
        <4>2. [group |-> c.exact, run |-> r] \in MemberRow  BY <4>1 DEF MemberRow
        <4> QED  BY <2>1, <3>2, <4>2, NoneAssumption DEF MemberBy
      <3> QED  BY <3>1, <3>2
    <2>7. SeenGroup(o) = c.exact  BY <2>5, <2>6 DEF SeenGroup
    <2> QED  BY <2>1, <2>2, <2>3, <2>4, <2>5, <2>7
  <1>5. MissingProjections = {} /\ StaleRelations = {} /\ StaleMemberships = {}
    BY <1>3, <1>4 DEF MissingProjections, StaleRelations, StaleMemberships
  <1>6. ProjectionsAreOfTheCurrent  BY <1>4, <1>5 DEF ProjectionsAreOfTheCurrent
  <1> QED  BY <1>1, <1>6 DEF ProjectionsAreSound, ViewsAreSound, ProjectionsInv

\* What a steady row was shown is the number of its entries.
LEMMA ShownOnce == ASSUME ProjectionsTypeOK, PagingInv PROVE SteadyRowsAreShownOnce
  <1> SUFFICES ASSUME reader.phase = "done", NEW x \in reader.steady
               PROVE  reader.shown[x] = Cardinality(EntryOf(x, reader.view))
    BY DEF SteadyRowsAreShownOnce
  <1>1. CASE EntryOf(x, reader.view) = {}  BY <1>1, FS_EmptySet DEF PagingInv
  <1>2. CASE EntryOf(x, reader.view) # {}
    <2>1. PICK e : e \in EntryOf(x, reader.view)  BY <1>2
    <2>2. EntryOf(x, reader.view) = {e}  BY <2>1, EntriesAreFew DEF EntryOf
    <2>3. reader.shown[x] = 1  BY <2>1 DEF PagingInv
    <2> QED  BY <2>2, <2>3, FS_Singleton
  <1> QED  BY <1>1, <1>2

\* Whatever promotions overlap, are undone or kill each other, the readers and the
\* health check find exactly the projections of what is Current, and the history
\* of an occurrence tells every membership it had.
THEOREM ProjectionsStaySound == ProjectionsSpec => []ProjectionsAreSound
  <1>1. ProjectionsInit => ProjectionsInv /\ PagingInv  BY ProjectionsStart
  <1>2. ProjectionsInv /\ PagingInv /\ [ProjectionsNext]_projectionVars
        => (ProjectionsInv /\ PagingInv)'
    BY ProjectionsSteps
  <1>3. ProjectionsInv => ProjectionsAreSound  BY ViewsAreOfTheCurrent
  <1> QED  BY <1>1, <1>2, <1>3, PTL DEF ProjectionsSpec

\* A client that follows the cursors of a view is shown every row once whose
\* entry did not change meanwhile: no commit between two pages makes the cursor
\* skip or repeat it.
THEOREM SteadyRowsAreSeenOnce == ProjectionsSpec => []SteadyRowsAreShownOnce
  <1>1. ProjectionsInit => ProjectionsInv /\ PagingInv  BY ProjectionsStart
  <1>2. ProjectionsInv /\ PagingInv /\ [ProjectionsNext]_projectionVars
        => (ProjectionsInv /\ PagingInv)'
    BY ProjectionsSteps
  <1>3. ProjectionsInv /\ PagingInv => SteadyRowsAreShownOnce
    BY ShownOnce DEF ProjectionsInv
  <1> QED  BY <1>1, <1>2, <1>3, PTL DEF ProjectionsSpec
=============================================================================
