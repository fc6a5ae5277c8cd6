---------------------------- MODULE UploadClient ----------------------------
(***************************************************************************)
(* The command line uploader against the upload API and the object store:  *)
(* one batch of files, uploaded one after the other.  Every request is     *)
(* tried several times, so the server may see it again after it took       *)
(* effect, or work on it while the client already repeats it, and every    *)
(* attempt to send a file opens it anew.                                   *)
(*                                                                         *)
(* A file's bytes are a version number, which stands for their SHA-256 and *)
(* for the ETag of each part; an edit keeps the length.                    *)
(***************************************************************************)
EXTENDS Naturals, Sequences

CONSTANTS Batches,    \* batches of files, in order: [multi, parts, empty, dump]
          Attempts,   \* REQUEST_ATTEMPTS
          MaxPolls,   \* bound: queries of the status before the deadline passes
          MaxFaults,  \* bound: failures of the network, the server or the disk
          MaxEdits    \* bound: times a file is changed while it is uploaded

ASSUME BatchIsPossible ==
    /\ \A b \in Batches :
          /\ b \in Seq([multi : BOOLEAN, parts : Nat \ {0}, empty : BOOLEAN, dump : BOOLEAN])
          /\ b # <<>> /\ \A i \in 1..Len(b) : ~b[i].multi => b[i].parts = 1
    /\ Attempts \in Nat \ {0} /\ {MaxFaults, MaxEdits} \subseteq Nat
    /\ MaxPolls \in Nat \ {0}  \* the deadline starts when complete has answered

VARIABLES batch,    \* the files found
          disk,     \* version of each file's bytes
          client,   \* the uploader
          receipt,  \* the receipt file
          rows,     \* uploads, in order of their creation
          calls,    \* requests on their way or being worked on
          hits,     \* history: the faults that befell each file's upload
          causes    \* history: what else may keep a file from being accepted

vars == <<batch, disk, client, receipt, rows, calls, hits, causes>>

Files == 1..Len(batch)
Working == {"resolve", "init", "put", "complete", "poll"}

Init == /\ batch \in Batches
        /\ disk = [i \in Files |-> 0]
        /\ client \in {[step |-> "start", public |-> p, file |-> 1, hash |-> 0, row |-> 0,
                       etags |-> <<>>, polls |-> 0, attempt |-> 0, waiting |-> FALSE,
                       ok |-> FALSE] : p \in BOOLEAN}
        /\ receipt = <<>> /\ rows = <<>> /\ calls = {}
        /\ hits = [i \in Files |-> 0] /\ causes = {}

File == batch[client.file]
Faults == LET sum[i \in 0..Len(batch)] == IF i = 0 THEN 0 ELSE sum[i - 1] + hits[i]
          IN  sum[Len(batch)]
Fault == Faults < MaxFaults /\ hits' = [hits EXCEPT ![client.file] = @ + 1]
Blame(cause) == causes' = causes \cup {<<client.file, cause>>}

-----------------------------------------------------------------------------
(* The client's program.                                                   *)

To(k, step) == [k EXCEPT !.step = step, !.attempt = 0, !.waiting = FALSE]

\* The upload of this file, or before any file the whole run, is given up.
Failed(k) == IF k.step = "resolve" THEN To(k, "aborted") ELSE [To(k, "record") EXCEPT !.ok = FALSE]

\* Mutant: the last attempt is not made.
Retried_OneLess(k) ==
    IF k.attempt + 2 < Attempts THEN [k EXCEPT !.attempt = @ + 1, !.waiting = FALSE]
    ELSE Failed(k)

\* A transport error or a server error: the same request again, if attempts are left.
Retried(k) == IF k.attempt + 1 < Attempts THEN [k EXCEPT !.attempt = @ + 1, !.waiting = FALSE]
              ELSE Failed(k)

\* A batch with a dump is not sent to the public space.
Start ==
    /\ client.step = "start"
    /\ \/ /\ client.public /\ \E i \in Files : batch[i].dump
          /\ client' = To(client, "aborted")
       \/ /\ ~(client.public /\ \E i \in Files : batch[i].dump)
          /\ client' = To(client, IF client.public THEN "hash" ELSE "resolve")
    /\ UNCHANGED <<batch, disk, receipt, rows, calls, hits, causes>>

HashFile ==
    /\ client.step = "hash"
    /\ client' = IF File.empty THEN Failed(client)
                 ELSE [To(client, "init") EXCEPT !.hash = disk[client.file],
                                                 !.row = 0, !.etags = <<>>, !.polls = MaxPolls]
    /\ UNCHANGED <<batch, disk, receipt, rows, calls, hits, causes>>

\* The request of the client's step: a part is read from the file as it is now.
Request == [kind |-> client.step, file |-> client.file, row |-> client.row,
            hash |-> client.hash, etags |-> client.etags, attempt |-> client.attempt,
            bytes |-> disk[client.file], stage |-> "sent", mine |-> TRUE]

Send ==
    /\ client.step \in Working /\ ~client.waiting
    /\ calls' = calls \cup {Request}
    /\ client' = [client EXCEPT !.waiting = TRUE]
    /\ UNCHANGED <<batch, disk, receipt, rows, hits, causes>>

\* The receipt on disk is replaced as a whole, after every file.
Record ==
    /\ client.step = "record"
    /\ receipt' = Append(receipt, [ok |-> client.ok, row |-> client.row, hash |-> client.hash])
    /\ client' = IF client.file = Len(batch) THEN To(client, "done")
                 ELSE [To(client, "hash") EXCEPT !.file = @ + 1]
    /\ UNCHANGED <<batch, disk, rows, calls, hits, causes>>

\* It cannot be written, already before anything outside changes or after a file.
RecordFails ==
    /\ client.step = "record" \/ (client.step = "hash" /\ client.file = 1)
    /\ Fault
    /\ client' = To(client, "aborted")
    /\ UNCHANGED <<batch, disk, receipt, rows, calls, causes>>

ClientStep == Start \/ HashFile \/ Send \/ Record

\* The file is written to by somebody else.
Edit ==
    /\ client.step \in Working /\ disk[client.file] < MaxEdits
    /\ disk' = [disk EXCEPT ![client.file] = @ + 1]
    /\ Blame("edited")
    /\ UNCHANGED <<batch, client, receipt, rows, calls, hits>>

-----------------------------------------------------------------------------
(* Answers.                                                                *)

\* Mutant: the deadline for the verification is not looked at.
TimeIsUp_Never(k) == FALSE

TimeIsUp(k) == k.polls = 0

\* What the client does with the status of its upload.
Seen(k, status) ==
    CASE status = "ACCEPTED" -> [To(k, "record") EXCEPT !.ok = TRUE]
      [] status = "REJECTED" -> Failed(k)
      [] OTHER -> IF TimeIsUp(k) THEN Failed(k)
                  ELSE [To(k, "poll") EXCEPT !.polls = IF @ = 0 THEN 0 ELSE @ - 1]

\* A call is over: its answer reaches the client if it still waits for it.
Answered(c, next) ==
    /\ calls' = calls \ {c}
    /\ client' = IF c.mine THEN next ELSE client

\* The call is over but the client only learns that it failed: the answer is lost
\* on the way, or never comes from a server that went down.
Lost(c) == /\ c.mine /\ Fault /\ calls' = calls \ {c} /\ client' = Retried(client)

\* Done with the server's work on a call: the answer arrives or is lost.
Finished(c, next) == (Answered(c, next) /\ UNCHANGED hits) \/ Lost(c)

-----------------------------------------------------------------------------
(* The server and the object store.                                        *)

\* The workspaces are listed; their names may not single one out.
Workspaces(c) ==
    /\ c.kind = "resolve"
    /\ \/ Finished(c, To(client, "hash"))
       \/ Answered(c, Failed(client)) /\ UNCHANGED hits
    /\ UNCHANGED <<batch, disk, receipt, rows, causes>>

NewRow(c) == [file |-> c.file, hint |-> c.hash, status |-> "INITIALIZED", messages |-> 0,
              open |-> batch[c.file].multi, parts |-> <<>>, object |-> <<>>, verified |-> <<>>]

\* Every init makes a row of its own, with a multipart upload for a large file.
InitializeUpload(c) ==
    /\ c.kind = "init"
    /\ rows' = Append(rows, NewRow(c))
    /\ Finished(c, [To(client, "put") EXCEPT !.row = Len(rows')])
    /\ UNCHANGED <<batch, disk, receipt, causes>>

Row(c) == rows[c.row]
Part(c) == Len(c.etags) + 1

\* Parts sent again replace those sent before.
PutPart(parts, p, bytes) == [q \in 1..(IF p > Len(parts) THEN p ELSE Len(parts)) |->
                                IF q = p THEN bytes ELSE parts[q]]

\* A part, or the whole object, is stored; no part is once its upload is complete.
StoreObject(c) ==
    /\ c.kind = "put"
    /\ IF batch[c.file].multi
       THEN /\ Row(c).open
            /\ rows' = [rows EXCEPT ![c.row].parts = PutPart(@, Part(c), c.bytes)]
       ELSE rows' = [rows EXCEPT ![c.row].object = <<c.bytes>>]
    /\ Finished(c, [To(client, IF Part(c) = File.parts THEN "complete" ELSE "put")
                       EXCEPT !.etags = Append(@, c.bytes)])
    /\ UNCHANGED <<batch, disk, receipt, causes>>

StoreRefuses(c) ==
    /\ c.kind = "put" /\ batch[c.file].multi /\ ~Row(c).open
    /\ Answered(c, Failed(client))
    /\ UNCHANGED <<batch, disk, receipt, rows, hits, causes>>

Goes(c, stage) == calls' = (calls \ {c}) \cup {[c EXCEPT !.stage = stage]}

\* Mutant: an upload that is being verified is completed once more.
Completed_Terminal(c) == Row(c).status \in {"ACCEPTED", "REJECTED"}

Completed(c) == Row(c).status \in {"ACCEPTED", "REJECTED", "VERIFYING"}

\* complete reads the row, and answers at once when it was completed before.
CompleteReads(c) ==
    /\ c.kind = "complete" /\ c.stage = "sent"
    /\ IF Completed(c) THEN Finished(c, Seen(client, Row(c).status))
       ELSE /\ Goes(c, IF batch[c.file].multi THEN "assemble" ELSE "commit")
            /\ UNCHANGED <<client, hits>>
    /\ UNCHANGED <<batch, disk, receipt, rows, causes>>

\* The store puts the parts together if they are those named; the upload of the
\* parts is then gone, and whoever completes it again gets an internal error.
Assemble(c) ==
    /\ c.kind = "complete" /\ c.stage = "assemble"
    /\ IF Row(c).open /\ Row(c).parts = c.etags
       THEN /\ rows' = [rows EXCEPT ![c.row].open = FALSE, ![c.row].object = c.etags]
            /\ Goes(c, "commit") /\ UNCHANGED client
       ELSE Answered(c, Retried(client)) /\ UNCHANGED rows
    /\ UNCHANGED <<batch, disk, receipt, hits, causes>>

\* The row goes to verification with a message, whatever it has become meanwhile.
CompleteCommits(c) ==
    /\ c.kind = "complete" /\ c.stage = "commit"
    /\ rows' = [rows EXCEPT ![c.row].status = "VERIFYING", ![c.row].messages = @ + 1]
    /\ Finished(c, Seen(client, "VERIFYING"))
    /\ UNCHANGED <<batch, disk, receipt, causes>>

\* complete has looked for the object in vain: it was verified and removed.
ObjectIsGone(c) ==
    /\ c.kind = "complete" /\ c.stage = "commit" /\ Row(c).object = <<>>
    /\ Answered(c, Failed(client))
    /\ UNCHANGED <<batch, disk, receipt, rows, hits, causes>>

GetUpload(c) ==
    /\ c.kind = "poll"
    /\ Finished(c, Seen(client, Row(c).status))
    /\ causes' = IF client'.step = "record" /\ Row(c).status = "VERIFYING"
                 THEN causes \cup {<<client.file, "late">>} ELSE causes
    /\ UNCHANGED <<batch, disk, receipt, rows>>

Serve(c) == \/ Workspaces(c) \/ InitializeUpload(c) \/ StoreObject(c) \/ StoreRefuses(c)
            \/ CompleteReads(c) \/ Assemble(c) \/ CompleteCommits(c) \/ ObjectIsGone(c)
            \/ GetUpload(c)

\* The request fails on its way or the server goes down before the next effect:
\* between assembling an object and committing the row, the object stays behind.
CallDies(c) ==
    /\ Lost(c)
    /\ IF c.stage = "commit" /\ batch[c.file].multi THEN Blame("halfway") ELSE UNCHANGED causes
    /\ UNCHANGED <<batch, disk, receipt, rows>>

\* The client stops waiting, the server does not stop working.
TimesOut(c) ==
    /\ c.mine /\ Fault
    /\ calls' = (calls \ {c}) \cup {[c EXCEPT !.mine = FALSE]}
    /\ client' = Retried(client)
    /\ IF c.kind = "complete" THEN Blame("overlap") ELSE UNCHANGED causes
    /\ UNCHANGED <<batch, disk, receipt, rows>>

\* A request is refused for good: a presigned URL or the token ran out.
Refuses(c) ==
    /\ c.mine /\ c.stage = "sent" /\ Fault
    /\ Answered(c, Failed(client)) /\ Blame("refused")
    /\ UNCHANGED <<batch, disk, receipt, rows>>

\* Mutant: a worker accepts whatever the object holds.
Genuine_Any(r) == TRUE

\* The bytes are those the client declared.
Genuine(r) == \A p \in 1..Len(rows[r].object) : rows[r].object[p] = rows[r].hint

\* A worker verifies the object and removes it.
Verify(r) ==
    /\ rows[r].status = "VERIFYING" /\ rows[r].object # <<>>
    /\ rows' = [rows EXCEPT ![r].status = IF Genuine(r) THEN "ACCEPTED" ELSE "REJECTED",
                            ![r].verified = rows[r].object, ![r].object = <<>>]
    /\ UNCHANGED <<batch, disk, client, receipt, calls, hits, causes>>

\* The uploader's process is stopped.
ClientDies ==
    /\ client.step \notin {"done", "aborted", "dead"} /\ Fault
    /\ client' = To(client, "dead")
    /\ calls' = {[c EXCEPT !.mine = FALSE] : c \in calls}
    /\ UNCHANGED <<batch, disk, receipt, rows, causes>>

Next == \/ ClientStep \/ RecordFails \/ Edit \/ ClientDies
        \/ \E c \in calls : Serve(c) \/ CallDies(c) \/ TimesOut(c) \/ Refuses(c)
        \/ \E r \in 1..Len(rows) : Verify(r)

\* The client goes on, and every call it waits for is answered or times out.
Fairness == WF_vars(ClientStep) /\ WF_vars(\E c \in calls : c.mine /\ Serve(c))

Spec == Init /\ [][Next]_vars /\ Fairness
-----------------------------------------------------------------------------
(* Properties.                                                             *)

\* A file the receipt calls accepted was sent to verification under the row the
\* receipt names, and accepted for the bytes the client hashed, though each attempt
\* and each part was read from the file anew (upload_one and put_file_range against
\* verify_upload's comparison with the hint).  A row that is sent to verification
\* once more may afterwards be judged for what a put that came late has left there.
ReceiptIsTrue ==
    \A i \in 1..Len(receipt) : receipt[i].ok =>
            LET row == rows[receipt[i].row]
            IN  /\ row.file = i /\ row.hint = receipt[i].hash /\ row.messages > 0
                /\ row.messages = 1 =>
                      /\ row.status = "ACCEPTED" /\ Len(row.verified) = batch[i].parts
                      /\ \A p \in 1..Len(row.verified) : row.verified[p] = receipt[i].hash

\* However often its requests are repeated, a file is sent to verification under one
\* row only, and at most once: an init whose answer was lost leaves a row that
\* nobody completes, and a repeated complete finds the row completed.  It may happen
\* again under this row if the client gave up on a complete while the server still
\* worked on it.
VerifiedOnce ==
    \A r, s \in 1..Len(rows) : rows[r].file = rows[s].file =>
            /\ r # s => rows[r].messages = 0 \/ rows[s].messages = 0
            /\ <<rows[r].file, "overlap">> \notin causes => rows[r].messages <= 1

\* A file fails only for a reason: it is empty or was written to meanwhile, a
\* request of its own was refused for good or met as many faults as there are
\* attempts, the verification took too long, or a complete was cut off after the
\* object was assembled or overlapped its own repetition.  Every other lost
\* answer, server error or time-out is absorbed by the attempts.
FailureHasCause ==
    \A i \in 1..Len(receipt) :
            receipt[i].ok \/ batch[i].empty \/ hits[i] >= Attempts
                \/ \E cause \in {"edited", "refused", "late", "halfway", "overlap"} :
                      <<i, cause>> \in causes

\* Repeating a request does neither too much nor too little.
RepetitionIsHarmless == VerifiedOnce /\ FailureHasCause

\* The run ends, whether or not the files are ever verified.
UploadEnds == <>(client.step \in {"done", "aborted", "dead"})
=============================================================================
