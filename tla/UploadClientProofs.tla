------------------------- MODULE UploadClientProofs -------------------------
(***************************************************************************)
(* UploadClient: the receipt is true, a file is verified once and fails    *)
(* only for a reason, for batches of any length, any number of attempts    *)
(* and any faults.                                                         *)
(***************************************************************************)
EXTENDS UploadClient, TLAPS

Steps == Working \cup {"start", "hash", "record", "done", "aborted", "dead"}
\* The steps of a file whose parts are all stored.
Late == {"complete", "poll", "record", "aborted", "dead"}

ClientType == [step : Steps, public : BOOLEAN, file : Nat, hash : Nat, row : Nat,
               etags : Seq(Nat), polls : Nat, attempt : Nat, waiting : BOOLEAN, ok : BOOLEAN]
RowType == [file : Nat, hint : Nat,
            status : {"INITIALIZED", "VERIFYING", "ACCEPTED", "REJECTED"}, messages : Nat,
            open : BOOLEAN, parts : Seq(Nat), object : Seq(Nat), verified : Seq(Nat)]
CallType == [kind : Working, file : Nat, row : Nat, hash : Nat, etags : Seq(Nat),
             attempt : Nat, bytes : Nat, stage : {"sent", "assemble", "commit"},
             mine : BOOLEAN]
EntryType == [ok : BOOLEAN, row : Nat, hash : Nat]

Typed == /\ batch \in Batches
         /\ disk \in [Files -> Nat]
         /\ client \in ClientType /\ client.file \in Files
         /\ receipt \in Seq(EntryType)
         /\ Len(receipt) = IF client.step = "done" THEN client.file ELSE client.file - 1
         /\ rows \in Seq(RowType)
         /\ calls \subseteq CallType
         /\ hits \in [Files -> Nat]
         /\ client.attempt < Attempts
-----------------------------------------------------------------------------
(* The rows                                                                *)

SentToVerification(row) == row.messages > 0
\* What is known of a row in which its file was accepted.
Confirmed(row) == /\ SentToVerification(row)
                  /\ row.messages = 1 => row.status = "ACCEPTED"

RowIsHonest(row) ==
    /\ row.file \in Files
    /\ SentToVerification(row) <=> row.status # "INITIALIZED"
    /\ row.object # <<>> => Len(row.object) = batch[row.file].parts
    /\ row.status = "ACCEPTED" => /\ Len(row.verified) = batch[row.file].parts
                                  /\ \A p \in 1..Len(row.verified) : row.verified[p] = row.hint
    /\ Len(row.parts) <= batch[row.file].parts
RowsAreHonest == \A r \in 1..Len(rows) : RowIsHonest(rows[r])
-----------------------------------------------------------------------------
(* The client, its calls and the receipt                                   *)

RowOf(r, f) == r \in 1..Len(rows) /\ rows[r].file = f

ClientKnows ==
    /\ (client.step \in {"put", "complete", "poll"} \/ (client.step = "record" /\ client.ok))
         => RowOf(client.row, client.file) /\ rows[client.row].hint = client.hash
    /\ client.step = "put" =>
         /\ Len(client.etags) < File.parts
         /\ File.multi => Len(client.etags) <= Len(rows[client.row].parts)
    /\ client.step \in {"complete", "poll"} => Len(client.etags) = File.parts
    /\ client.step = "complete" /\ File.multi => Len(rows[client.row].parts) = File.parts
    /\ client.step = "poll" => SentToVerification(rows[client.row])
    /\ client.step = "init" => client.etags = <<>>
    /\ client.step \in {"init", "put", "complete"} => client.polls > 0
    /\ client.step = "record" /\ client.ok => Confirmed(rows[client.row])
    /\ client.waiting => client.step \in Working

CallFits(c) ==
    /\ c.file \in 1..client.file
    /\ c.kind \in {"put", "complete", "poll"} => RowOf(c.row, c.file)
    /\ c.kind = "put" => /\ Len(c.etags) < batch[c.file].parts
                         /\ batch[c.file].multi => Len(c.etags) <= Len(rows[c.row].parts)
    /\ c.kind = "complete" =>
         /\ Len(c.etags) = batch[c.file].parts
         /\ batch[c.file].multi => Len(rows[c.row].parts) = batch[c.file].parts
    /\ c.stage # "sent" => c.kind = "complete"
    /\ c.stage = "assemble" => batch[c.file].multi
CallKnows(c) ==
    /\ CallFits(c)
    /\ c.mine => /\ client.waiting /\ client.step = c.kind
                 /\ client.file = c.file /\ client.row = c.row
                 /\ client.hash = c.hash /\ client.etags = c.etags
CallsKnow == /\ \A c \in calls : CallKnows(c)
             /\ \A c, d \in calls : c.mine /\ d.mine => c = d

EntryIsTrue(i) ==
    receipt[i].ok => /\ RowOf(receipt[i].row, i)
                     /\ rows[receipt[i].row].hint = receipt[i].hash
                     /\ Confirmed(rows[receipt[i].row])
ReceiptHolds == \A i \in 1..Len(receipt) : EntryIsTrue(i)
-----------------------------------------------------------------------------
(* One row per file, and one message                                       *)

\* The row in which a file is, or was, to be completed.
TheRow(f) == IF f <= Len(receipt) THEN receipt[f].row ELSE client.row
Overlap(f) == <<f, "overlap">> \in causes

OneRow ==
    /\ \A c \in calls : c.kind = "complete"
         => /\ c.row = TheRow(c.file)
            /\ c.file > Len(receipt) => client.step \in Late
    /\ \A r \in 1..Len(rows) : SentToVerification(rows[r])
         => /\ r = TheRow(rows[r].file)
            /\ rows[r].file > Len(receipt) => rows[r].file = client.file /\ client.step \in Late

OneComplete ==
    /\ \A c, d \in calls : /\ c.kind = "complete" /\ d.kind = "complete"
                           /\ c.file = d.file /\ ~ Overlap(c.file)
                           => c = d
    /\ \A c \in calls : c.kind = "complete" /\ ~ Overlap(c.file)
         => /\ c.mine \/ client.step = "dead"
            /\ c.stage # "sent" => ~ SentToVerification(rows[c.row])
    /\ \A r \in 1..Len(rows) : ~ Overlap(rows[r].file) => rows[r].messages <= 1
-----------------------------------------------------------------------------
(* Why a file may fail                                                     *)

Edited(f) == <<f, "edited">> \in causes
Zeros(s) == \A p \in 1..Len(s) : s[p] = 0
\* Without an edit there is one version, 0.
DiskIsOne == \A f \in Files : ~ Edited(f) => disk[f] = 0
ClientIsOne == ~ Edited(client.file) =>
                 /\ client.step \in {"init", "put", "complete", "poll"} => client.hash = 0
                 /\ client.step \in {"put", "complete", "poll"} => Zeros(client.etags)
CallsAreOne == \A c \in calls : ~ Edited(c.file) =>
                 /\ c.kind \in {"put", "complete"} => c.bytes = 0 /\ Zeros(c.etags)
                 /\ c.kind = "init" => c.hash = 0
RowsAreOne == \A r \in 1..Len(rows) : ~ Edited(rows[r].file) =>
                 /\ rows[r].hint = 0 /\ Zeros(rows[r].parts) /\ Zeros(rows[r].object)
                 /\ rows[r].status # "REJECTED"
OneVersion == DiskIsOne /\ ClientIsOne /\ CallsAreOne /\ RowsAreOne

Halfway(f) == <<f, "halfway">> \in causes
\* Where the parts of a row or its object are before it is sent to verification.
OpenOrSent ==
    \A r \in 1..Len(rows) :
        /\ ~ rows[r].open /\ batch[rows[r].file].multi
        /\ ~ Overlap(rows[r].file) /\ ~ Halfway(rows[r].file)
        => \/ SentToVerification(rows[r])
           \/ \E c \in calls : /\ c.kind = "complete" /\ c.stage = "commit"
                               /\ c.row = r /\ c.file = rows[r].file
CallsHaveObjects ==
    \A c \in calls : c.kind = "complete" /\ ~ Overlap(c.file) =>
        /\ ~ batch[c.file].multi /\ ~ SentToVerification(rows[c.row])
             => rows[c.row].object # <<>>
        /\ c.stage = "commit" => rows[c.row].object # <<>>
ClientHasObject ==
    /\ client.step = "complete" /\ ~ Overlap(client.file) /\ ~ File.multi
    /\ ~ SentToVerification(rows[client.row])
    => rows[client.row].object # <<>>
Stored == OpenOrSent /\ CallsHaveObjects /\ ClientHasObject

\* What accounts for a file that fails.
Excused(f) == \/ batch[f].empty \/ hits[f] >= Attempts
              \/ \E cause \in {"edited", "refused", "late", "halfway", "overlap"} :
                    <<f, cause>> \in causes
FaultsAreCounted ==
    client.attempt <= hits[client.file] \/ Excused(client.file)
RecordIsExcused == client.step = "record" => client.ok \/ Excused(client.file)
FailuresAreExcused == /\ \A i \in 1..Len(receipt) : receipt[i].ok \/ Excused(i)
                      /\ RecordIsExcused

IInv == /\ Typed /\ RowsAreHonest /\ ClientKnows /\ CallsKnow /\ ReceiptHolds
        /\ OneRow /\ OneComplete
        /\ OneVersion /\ Stored /\ FaultsAreCounted /\ FailuresAreExcused
-----------------------------------------------------------------------------
(* Files, and what the client does with an answer                          *)

FileType == [multi : BOOLEAN, parts : Nat \ {0}, empty : BOOLEAN, dump : BOOLEAN]

LEMMA FilesTyped ==
    ASSUME Typed
    PROVE  /\ batch \in Seq(FileType) /\ Len(batch) \in Nat
           /\ \A f \in Files : /\ batch[f] \in FileType /\ f \in Nat
                               /\ batch[f].parts \in Nat /\ batch[f].parts > 0
                               /\ ~ batch[f].multi => batch[f].parts = 1
  <1>1. batch \in Seq(FileType) /\ \A f \in 1..Len(batch) : ~ batch[f].multi => batch[f].parts = 1
    BY BatchIsPossible DEF Typed, FileType
  <1>2. \A f \in Files : batch[f] \in FileType  BY <1>1 DEF Files
  <1>3. \A x \in FileType : x.parts \in Nat /\ x.parts > 0  BY DEF FileType
  <1> QED  BY <1>1, <1>2, <1>3 DEF Files

SameFile(n, k) == n.public = k.public /\ n.file = k.file /\ n.hash = k.hash /\ n.row = k.row

LEMMA ToTyped ==
    ASSUME NEW k \in ClientType, NEW s \in Steps
    PROVE  LET n == To(k, s) IN
           /\ n \in ClientType /\ n.step = s /\ ~ n.waiting /\ n.attempt = 0
           /\ SameFile(n, k) /\ n.etags = k.etags /\ n.polls = k.polls /\ n.ok = k.ok
  BY DEF To, ClientType, SameFile

LEMMA WithOk ==
    ASSUME NEW k \in ClientType
    PROVE  /\ LET n == [k EXCEPT !.ok = TRUE] IN
              /\ n \in ClientType /\ n.step = k.step /\ (~ k.waiting => ~ n.waiting) /\ n.ok
              /\ n.attempt = k.attempt /\ SameFile(n, k)
           /\ LET n == [k EXCEPT !.ok = FALSE] IN
              /\ n \in ClientType /\ n.step = k.step /\ (~ k.waiting => ~ n.waiting) /\ ~ n.ok
              /\ n.attempt = k.attempt /\ SameFile(n, k)
  BY DEF ClientType, SameFile

\* Why a client's attempt at a file ends.
GivenUp(n, k) ==
    /\ n \in ClientType /\ ~ n.waiting /\ n.attempt = 0 /\ SameFile(n, k)
    /\ IF k.step = "resolve" THEN n.step = "aborted" ELSE n.step = "record" /\ ~ n.ok

LEMMA FailedGivesUp == ASSUME NEW k \in ClientType PROVE GivenUp(Failed(k), k)
  <1>1. CASE k.step = "resolve"
    <2>1. "aborted" \in Steps  BY DEF Steps
    <2> QED  BY <1>1, <2>1, ToTyped DEF Failed, GivenUp
  <1>2. CASE k.step # "resolve"
    <2> DEFINE n == To(k, "record")
    <2>1. "record" \in Steps  BY DEF Steps
    <2>2. /\ n \in ClientType /\ n.step = "record" /\ ~ n.waiting /\ n.attempt = 0
          /\ SameFile(n, k)
      BY <2>1, ToTyped
    <2>3. Failed(k) = [n EXCEPT !.ok = FALSE]  BY <1>2 DEF Failed
    <2> HIDE DEF n
    <2> DEFINE m == [n EXCEPT !.ok = FALSE]
    <2>4. /\ m \in ClientType /\ m.step = "record" /\ ~ m.waiting /\ ~ m.ok
          /\ m.attempt = 0 /\ SameFile(m, n)
      BY <2>2, WithOk
    <2> HIDE DEF m
    <2>5. GivenUp(m, k)  BY <1>2, <2>2, <2>4 DEF GivenUp, SameFile
    <2> QED  BY <2>3, <2>5 DEF m
  <1> QED  BY <1>1, <1>2

\* The same request once more.
Again(n, k) ==
    /\ n \in ClientType /\ ~ n.waiting /\ SameFile(n, k)
    /\ n.step = k.step /\ n.etags = k.etags /\ n.polls = k.polls /\ n.ok = k.ok
    /\ n.attempt = k.attempt + 1 /\ n.attempt < Attempts

LEMMA RetriedTyped ==
    ASSUME NEW k \in ClientType
    PROVE  \/ Again(Retried(k), k)
           \/ GivenUp(Retried(k), k) /\ k.attempt + 1 >= Attempts
  <1>1. k.attempt \in Nat /\ k.attempt + 1 \in Nat /\ Attempts \in Nat
    BY BatchIsPossible DEF ClientType
  <1>2. CASE k.attempt + 1 < Attempts
    <2>1. ASSUME NEW a \in Nat
          PROVE  LET n == [k EXCEPT !.attempt = a, !.waiting = FALSE] IN
                 /\ n \in ClientType /\ ~ n.waiting /\ SameFile(n, k)
                 /\ n.step = k.step /\ n.etags = k.etags /\ n.polls = k.polls /\ n.ok = k.ok
                 /\ n.attempt = a
      BY DEF ClientType, SameFile
    <2> QED  BY <1>1, <1>2, <2>1 DEF Retried, Again
  <1>3. CASE ~ (k.attempt + 1 < Attempts)
    BY <1>1, <1>3, FailedGivesUp DEF Retried
  <1> QED  BY <1>2, <1>3

\* The upload is verified already, or its status is to be asked for.
Accepted(n, k) == /\ n \in ClientType /\ ~ n.waiting /\ n.attempt = 0 /\ SameFile(n, k)
                  /\ n.step = "record" /\ n.ok
Polls(n, k) == /\ n \in ClientType /\ ~ n.waiting /\ n.attempt = 0 /\ SameFile(n, k)
               /\ n.step = "poll" /\ n.etags = k.etags

LEMMA SeenTyped ==
    ASSUME NEW k \in ClientType, NEW status
    PROVE  LET n == Seen(k, status) IN
           \/ status = "ACCEPTED" /\ Accepted(n, k)
           \/ status = "REJECTED" /\ GivenUp(n, k)
           \/ status \notin {"ACCEPTED", "REJECTED"} /\ k.polls = 0 /\ GivenUp(n, k)
           \/ status \notin {"ACCEPTED", "REJECTED"} /\ k.polls # 0 /\ Polls(n, k)
  <1>1. "record" \in Steps /\ "poll" \in Steps  BY DEF Steps, Working
  <1>2. CASE status = "ACCEPTED"
    <2> DEFINE m == To(k, "record")
    <2>1. /\ m \in ClientType /\ m.step = "record" /\ ~ m.waiting /\ m.attempt = 0
          /\ SameFile(m, k)
      BY <1>1, ToTyped
    <2>2. Seen(k, status) = [m EXCEPT !.ok = TRUE]  BY <1>2 DEF Seen
    <2> HIDE DEF m
    <2> DEFINE n == [m EXCEPT !.ok = TRUE]
    <2>3. /\ n \in ClientType /\ n.step = "record" /\ ~ n.waiting /\ n.ok
          /\ n.attempt = 0 /\ SameFile(n, m)
      BY <2>1, WithOk
    <2> HIDE DEF n
    <2>4. Accepted(n, k)  BY <2>1, <2>3 DEF Accepted, SameFile
    <2> QED  BY <1>2, <2>2, <2>4 DEF n
  <1>3. CASE status = "REJECTED"
    BY <1>3, FailedGivesUp DEF Seen
  <1>4. CASE status \notin {"ACCEPTED", "REJECTED"} /\ TimeIsUp(k)
    BY <1>4, FailedGivesUp DEF Seen, TimeIsUp
  <1>5. CASE status \notin {"ACCEPTED", "REJECTED"} /\ ~ TimeIsUp(k)
    <2> DEFINE m == To(k, "poll")
    <2>1. /\ m \in ClientType /\ m.step = "poll" /\ ~ m.waiting /\ m.attempt = 0
          /\ SameFile(m, k) /\ m.etags = k.etags /\ m.polls = k.polls
      BY <1>1, ToTyped
    <2>2. k.polls \in Nat /\ k.polls # 0  BY <1>5 DEF TimeIsUp, ClientType
    <2>3. Seen(k, status) = [m EXCEPT !.polls = k.polls - 1]  BY <1>5, <2>1, <2>2 DEF Seen
    <2>4. k.polls - 1 \in Nat  BY <2>2
    <2> HIDE DEF m
    <2>5. ASSUME NEW q \in Nat
          PROVE  LET n == [m EXCEPT !.polls = q] IN
                 /\ n \in ClientType /\ n.step = "poll" /\ ~ n.waiting /\ n.attempt = 0
                 /\ SameFile(n, m) /\ n.etags = m.etags
      BY <2>1 DEF ClientType, SameFile
    <2> QED  BY <1>5, <2>1, <2>2, <2>3, <2>4, <2>5 DEF Polls, SameFile
  <1> QED  BY <1>2, <1>3, <1>4, <1>5
-----------------------------------------------------------------------------
(* Steps that end calls or leave them alone                                *)

Improves(old, new) ==
    /\ new.file = old.file /\ new.hint = old.hint
    /\ Len(old.parts) <= Len(new.parts) /\ old.messages <= new.messages
    /\ old.status = "ACCEPTED" /\ new.messages = old.messages => new.status = "ACCEPTED"
RowsGrow ==
    /\ rows' \in Seq(RowType) /\ Len(rows) <= Len(rows')
    /\ \A r \in 1..Len(rows) : Improves(rows[r], rows'[r])

\* What a step may do to the rows.
RowsImprove ==
    /\ RowsGrow /\ RowsAreHonest' /\ RowsAreOne'
    /\ \A r \in 1..Len(rows) :
         /\ rows[r].object # <<>> /\ ~ SentToVerification(rows[r]) => rows'[r].object # <<>>
         /\ \/ rows'[r].messages = rows[r].messages
            \/ /\ rows'[r].messages = rows[r].messages + 1
               /\ \E c \in calls \ calls' :
                     c.kind = "complete" /\ c.stage = "commit" /\ c.row = r
    /\ \A r \in 1..Len(rows') : r > Len(rows) => rows'[r].messages = 0
\* Most of them leave the multipart uploads as they are.
RowsMove ==
    /\ RowsImprove
    /\ \A r \in 1..Len(rows) : rows'[r].open <=> rows[r].open
    /\ \A r \in 1..Len(rows') :
         r > Len(rows) /\ batch[rows'[r].file].multi => rows'[r].open

\* What they may do around the rows and the client.
Around ==
    /\ UNCHANGED <<batch, receipt, disk>> /\ causes \subseteq causes'
    /\ hits' \in [Files -> Nat] /\ \A f \in Files : hits[f] <= hits'[f]

\* And to the client.
ClientMoves ==
    /\ client' \in ClientType /\ client'.file = client.file
    /\ client'.attempt < Attempts
    /\ client'.step = "done" <=> client.step = "done"
    /\ client.step = "dead" => client'.step = "dead"
    /\ client.step \in Late => client'.step \in Late /\ client'.row = client.row
    /\ ClientKnows' /\ ClientIsOne' /\ ClientHasObject'
    /\ FaultsAreCounted' /\ RecordIsExcused'

LEMMA RowTyped ==
    ASSUME Typed, NEW r \in 1..Len(rows)
    PROVE  rows[r] \in RowType /\ rows[r].messages \in Nat /\ rows[r].file \in Nat
           /\ Len(rows[r].parts) \in Nat
  <1>1. rows[r] \in RowType  BY DEF Typed
  <1>2. \A x \in RowType : x.messages \in Nat /\ x.file \in Nat /\ x.parts \in Seq(Nat)
    BY DEF RowType
  <1> QED  BY <1>1, <1>2

LEMMA GrowKeeps ==
    ASSUME Typed, RowsGrow, NEW r \in 1..Len(rows)
    PROVE  /\ r \in 1..Len(rows')
           /\ SentToVerification(rows[r]) => SentToVerification(rows'[r])
           /\ Confirmed(rows[r]) => Confirmed(rows'[r])
           /\ \A f : RowOf(r, f) => RowOf(r, f)'
           /\ rows'[r].hint = rows[r].hint
           /\ rows'[r].messages \in Nat /\ rows[r].messages \in Nat
  <1>1. rows'[r] \in RowType /\ Len(rows) \in Nat /\ Len(rows') \in Nat
        /\ rows[r].messages \in Nat /\ rows'[r].messages \in Nat
    <2>1. Len(rows) \in Nat /\ Len(rows') \in Nat /\ r \in 1..Len(rows')
      BY DEF Typed, RowsGrow
    <2>2. rows'[r] \in RowType /\ rows[r] \in RowType  BY <2>1 DEF Typed, RowsGrow
    <2>3. \A x \in RowType : x.messages \in Nat  BY DEF RowType
    <2> QED  BY <2>1, <2>2, <2>3
  <1>2. Improves(rows[r], rows'[r])  BY DEF RowsGrow
  <1>3. r \in 1..Len(rows')  BY <1>1 DEF RowsGrow
  <1> QED  BY <1>1, <1>2, <1>3 DEF Improves, SentToVerification, Confirmed, RowOf

LEMMA ReceiptKept ==
    ASSUME Typed, ReceiptHolds, RowsGrow, receipt' = receipt
    PROVE  ReceiptHolds'
  <1> SUFFICES ASSUME NEW i \in 1..Len(receipt), receipt[i].ok
               PROVE  /\ RowOf(receipt[i].row, i)'
                      /\ rows'[receipt[i].row].hint = receipt[i].hash
                      /\ Confirmed(rows'[receipt[i].row])
    BY DEF ReceiptHolds, EntryIsTrue
  <1>1. /\ RowOf(receipt[i].row, i) /\ rows[receipt[i].row].hint = receipt[i].hash
        /\ Confirmed(rows[receipt[i].row])
    BY DEF ReceiptHolds, EntryIsTrue
  <1>2. receipt[i].row \in 1..Len(rows)  BY <1>1 DEF RowOf
  <1> QED  BY <1>1, <1>2, GrowKeeps

LEMMA ExcusedGrows ==
    ASSUME Typed, batch' = batch, causes \subseteq causes', hits' \in [Files -> Nat],
           \A f \in Files : hits[f] <= hits'[f], NEW f \in Files, Excused(f)
    PROVE  Excused(f)'
  <1>1. hits[f] \in Nat /\ hits'[f] \in Nat /\ hits[f] <= hits'[f] /\ Attempts \in Nat
    BY BatchIsPossible DEF Typed
  <1> QED  BY <1>1 DEF Excused

LEMMA CallKept ==
    ASSUME IInv, RowsImprove, batch' = batch, client'.file \in Nat,
           client.file <= client'.file, NEW c \in calls
    PROVE  CallFits(c)'
  <1>1. CallKnows(c) /\ c \in CallType /\ c.file \in Files
    BY FilesTyped DEF IInv, CallsKnow, CallKnows, CallFits, Typed, Files
  <1>2. c.file \in 1..client'.file
    <2>1. c.file \in 1..client.file /\ client.file \in Nat
      BY <1>1 DEF CallKnows, CallFits, IInv, Typed, ClientType
    <2> QED  BY <2>1
  <1>3. ASSUME RowOf(c.row, c.file)
        PROVE  /\ RowOf(c.row, c.file)'
               /\ Len(rows[c.row].parts) <= Len(rows'[c.row].parts)
               /\ Len(rows'[c.row].parts) <= batch[c.file].parts
               /\ Len(rows[c.row].parts) \in Nat /\ Len(rows'[c.row].parts) \in Nat
    <2>1. c.row \in 1..Len(rows)  BY <1>3 DEF RowOf
    <2>2. RowOf(c.row, c.file)' /\ c.row \in 1..Len(rows')
      BY <1>3, <2>1, GrowKeeps DEF RowsImprove, IInv
    <2>3. rows'[c.row].file = c.file  BY <2>2 DEF RowOf
    <2>4. Len(rows[c.row].parts) <= Len(rows'[c.row].parts)
      BY <2>1 DEF RowsImprove, RowsGrow, Improves
    <2>5. Len(rows'[c.row].parts) <= batch[c.file].parts
      BY <2>2, <2>3 DEF RowsImprove, RowsAreHonest, RowIsHonest
    <2>6. rows'[c.row] \in RowType /\ rows[c.row] \in RowType
      BY <2>1, <2>2 DEF RowsImprove, RowsGrow, IInv, Typed
    <2>7. \A x \in RowType : Len(x.parts) \in Nat  BY DEF RowType
    <2> QED  BY <2>2, <2>4, <2>5, <2>6, <2>7
  <1>4. Len(c.etags) \in Nat /\ batch[c.file].parts \in Nat
    <2>1. \A x \in CallType : Len(x.etags) \in Nat  BY DEF CallType
    <2> QED  BY <1>1, <2>1, FilesTyped DEF IInv
  <1> QED  BY <1>1, <1>2, <1>3, <1>4 DEF CallKnows, CallFits

LEMMA CallsStayKnown ==
    ASSUME IInv, calls' \subseteq calls, RowsImprove, Around, ClientMoves,
           client' = client \/ \A d \in calls' : ~ d.mine
    PROVE  CallsKnow'
  <1>1. client'.file \in Nat /\ client.file <= client'.file /\ batch' = batch
    BY DEF IInv, Typed, ClientType, ClientMoves, Around
  <1>2. \A c \in calls' : CallKnows(c)'
    <2>1. \A c \in calls' : CallFits(c)' /\ CallKnows(c)
      BY <1>1, CallKept DEF IInv, CallsKnow
    <2> QED  BY <2>1 DEF CallKnows
  <1>3. \A c, d \in calls' : c.mine /\ d.mine => c = d  BY DEF IInv, CallsKnow
  <1> QED  BY <1>2, <1>3 DEF CallsKnow

\* Nobody but the call that commits sends a row to verification.
LEMMA SentBefore ==
    ASSUME IInv, RowsImprove, NEW r \in 1..Len(rows'), SentToVerification(rows'[r])
    PROVE  /\ r \in 1..Len(rows) /\ rows'[r].file = rows[r].file
           /\ \/ SentToVerification(rows[r])
              \/ \E c \in calls \ calls' :
                    c.kind = "complete" /\ c.stage = "commit" /\ c.row = r
  <1>1. rows'[r].messages > 0  BY DEF SentToVerification
  <1>2. r \in Nat /\ Len(rows) \in Nat /\ ~ (r > Len(rows))
    BY <1>1 DEF RowsImprove, RowsGrow, IInv, Typed
  <1>3. r \in 1..Len(rows)  BY <1>2
  <1> QED  BY <1>1, <1>3 DEF RowsImprove, RowsGrow, Improves, SentToVerification

\* Every request was made before, whatever has become of it.
SameRequest(d, c) == /\ d.kind = c.kind /\ d.file = c.file /\ d.row = c.row
                     /\ d.hash = c.hash /\ d.etags = c.etags /\ d.bytes = c.bytes
CallsFollow == calls' \subseteq CallType /\ \A d \in calls' : \E c \in calls : SameRequest(d, c)

LEMMA FewerFollow == ASSUME Typed, calls' \subseteq calls PROVE CallsFollow
  BY DEF Typed, CallsFollow, SameRequest

LEMMA RowStaysTheOne ==
    ASSUME IInv, CallsFollow, RowsImprove, Around, ClientMoves
    PROVE  OneRow'
  <1>1. \A f \in Nat : (f > Len(receipt) => client.step \in Late) => TheRow(f)' = TheRow(f)
    <2> SUFFICES ASSUME NEW f \in Nat, f > Len(receipt) => client.step \in Late
                 PROVE  TheRow(f)' = TheRow(f)
      OBVIOUS
    <2>1. Len(receipt) \in Nat /\ receipt' = receipt  BY DEF IInv, Typed, Around
    <2>2. CASE f <= Len(receipt)  BY <2>1, <2>2 DEF TheRow
    <2>3. CASE f > Len(receipt)
      <3>1. client'.row = client.row  BY <2>3 DEF ClientMoves
      <3> QED  BY <2>1, <2>3, <3>1 DEF TheRow
    <2> QED  BY <2>1, <2>2, <2>3
  <1>2. ASSUME NEW c \in calls', c.kind = "complete"
        PROVE  c.row = TheRow(c.file)' /\ (c.file > Len(receipt') => client'.step \in Late)
    <2>0. PICK d \in calls : SameRequest(c, d)  BY <1>2 DEF CallsFollow
    <2>1. c.row = TheRow(c.file) /\ (c.file > Len(receipt) => client.step \in Late)
      BY <1>2, <2>0 DEF IInv, OneRow, SameRequest
    <2>2. c.file \in Nat  BY <1>2 DEF CallsFollow, CallType
    <2> QED  BY <1>1, <2>1, <2>2 DEF Around, ClientMoves
  <1>3. ASSUME NEW r \in 1..Len(rows'), SentToVerification(rows'[r])
        PROVE  /\ r = TheRow(rows[r].file)'
               /\ rows'[r].file > Len(receipt')
                    => rows'[r].file = client'.file /\ client'.step \in Late
    <2>1. /\ r \in 1..Len(rows) /\ rows'[r].file = rows[r].file
          /\ \/ SentToVerification(rows[r])
             \/ \E c \in calls \ calls' : c.kind = "complete" /\ c.row = r
      BY <1>3, SentBefore
    <2>2. /\ r = TheRow(rows[r].file)
          /\ rows[r].file > Len(receipt) => rows[r].file = client.file /\ client.step \in Late
      <3>1. CASE SentToVerification(rows[r])  BY <2>1, <3>1 DEF IInv, OneRow
      <3>2. ASSUME NEW c \in calls, c.kind = "complete", c.row = r
            PROVE  /\ r = TheRow(rows[r].file)
                   /\ rows[r].file > Len(receipt)
                        => rows[r].file = client.file /\ client.step \in Late
        <4>1. rows[r].file = c.file /\ c.file \in 1..client.file
          BY <3>2 DEF IInv, CallsKnow, CallKnows, CallFits, RowOf
        <4>2. Len(receipt) >= client.file - 1 /\ client.file \in Nat /\ Len(receipt) \in Nat
          BY DEF IInv, Typed, ClientType
        <4>3. c.file > Len(receipt) => c.file = client.file  BY <4>1, <4>2
        <4> QED  BY <3>2, <4>1, <4>3 DEF IInv, OneRow
      <3> QED  BY <2>1, <3>1, <3>2
    <2>3. rows[r].file \in Nat  BY <2>1, RowTyped DEF IInv
    <2>4. TheRow(rows[r].file)' = TheRow(rows[r].file)
      <3> DEFINE f == rows[r].file
      <3>1. \A g \in Nat : f = g => TheRow(g)' = r
        BY <1>1, <2>2
      <3> QED  BY <2>1, <2>2, <2>3, <3>1 DEF TheRow
    <2> QED  BY <2>1, <2>2, <2>4 DEF Around, ClientMoves
  <1> QED  BY <1>2, <1>3 DEF OneRow

LEMMA OverlapGrows == ASSUME Around, NEW f PROVE Overlap(f) => Overlap(f)'
  BY DEF Around, Overlap

LEMMA CompletesStayOne ==
    ASSUME IInv, calls' \subseteq calls, RowsImprove, Around, ClientMoves,
           client' = client \/ \A d \in calls' : ~ d.mine
    PROVE  OneComplete'
  <1>1. \A c, d \in calls' : /\ c.kind = "complete" /\ d.kind = "complete"
                             /\ c.file = d.file /\ ~ Overlap(c.file)'
                             => c = d
    BY OverlapGrows DEF IInv, OneComplete
  <1>2. ASSUME NEW c \in calls', c.kind = "complete", ~ Overlap(c.file)'
        PROVE  /\ c.mine \/ client'.step = "dead"
               /\ c.stage # "sent" => ~ SentToVerification(rows'[c.row])
    <2>1. ~ Overlap(c.file)  BY <1>2, OverlapGrows
    <2>2. /\ c.mine \/ client.step = "dead"
          /\ c.stage # "sent" => ~ SentToVerification(rows[c.row])
      BY <1>2, <2>1 DEF IInv, OneComplete
    <2>3. RowOf(c.row, c.file)  BY <1>2 DEF IInv, CallsKnow, CallKnows, CallFits
    <2>4. ASSUME c.stage # "sent", SentToVerification(rows'[c.row]) PROVE FALSE
      <3>1. c.row \in 1..Len(rows) /\ c.row \in 1..Len(rows')
        BY <2>3, GrowKeeps DEF IInv, RowsImprove, RowOf
      <3>2. PICK d \in calls \ calls' : d.kind = "complete" /\ d.row = c.row
        BY <2>2, <2>4, <3>1, SentBefore
      <3>3. d.file = c.file
        <4>1. RowOf(d.row, d.file)  BY <3>2 DEF IInv, CallsKnow, CallKnows, CallFits
        <4> QED  BY <2>3, <3>2, <4>1 DEF RowOf
      <3> QED  BY <1>2, <2>1, <3>2, <3>3 DEF IInv, OneComplete
    <2> QED  BY <2>2, <2>4 DEF ClientMoves
  <1>3. ASSUME NEW r \in 1..Len(rows'), ~ Overlap(rows[r].file)'
        PROVE  rows'[r].messages <= 1
    <2>1. CASE r > Len(rows)  BY <2>1 DEF RowsImprove
    <2>2. CASE ~ (r > Len(rows))
      <3>1. r \in 1..Len(rows)  BY <2>2 DEF IInv, Typed, RowsImprove, RowsGrow
      <3>2. rows'[r].file = rows[r].file /\ rows[r].messages \in Nat
        BY <3>1, RowTyped DEF RowsImprove, RowsGrow, Improves, IInv
      <3>3. ~ Overlap(rows[r].file)  BY <1>3, <3>2 DEF Overlap, Around
      <3>4. rows[r].messages <= 1  BY <3>1, <3>3 DEF IInv, OneComplete
      <3>5. CASE rows'[r].messages = rows[r].messages  BY <3>4, <3>5
      <3>6. CASE rows'[r].messages # rows[r].messages
        <4>1. PICK c \in calls \ calls' : c.kind = "complete" /\ c.stage = "commit" /\ c.row = r
          BY <3>1, <3>6 DEF RowsImprove
        <4>2. rows'[r].messages = rows[r].messages + 1  BY <3>1, <3>6 DEF RowsImprove
        <4>3. rows[r].file = c.file  BY <4>1 DEF IInv, CallsKnow, CallKnows, CallFits, RowOf
        <4>4. ~ SentToVerification(rows[r])
          BY <3>3, <4>1, <4>3 DEF IInv, OneComplete
        <4> QED  BY <3>2, <4>2, <4>4 DEF SentToVerification
      <3> QED  BY <3>5, <3>6
    <2> QED  BY <2>1, <2>2
  <1> QED  BY <1>1, <1>2, <1>3 DEF OneComplete

\* An object that is assembled is accounted for when its call ends.
CommitsAreKept ==
    \A c \in calls \ calls' :
        c.kind = "complete" /\ c.stage = "commit" /\ batch[c.file].multi
          => SentToVerification(rows'[c.row]) \/ Overlap(c.file)' \/ Halfway(c.file)'

LEMMA StoredKept ==
    ASSUME IInv, calls' \subseteq calls, RowsMove, Around, ClientMoves, CommitsAreKept
    PROVE  Stored'
  <1>1. OpenOrSent'
    <2> SUFFICES ASSUME NEW r \in 1..Len(rows'),
                        ~ rows'[r].open, batch[rows'[r].file].multi,
                        ~ Overlap(rows[r].file)', ~ Halfway(rows[r].file)'
                 PROVE  \/ SentToVerification(rows'[r])
                        \/ \E c \in calls' : /\ c.kind = "complete" /\ c.stage = "commit"
                                             /\ c.row = r /\ c.file = rows'[r].file
      BY DEF OpenOrSent, Around
    <2>1. r \in 1..Len(rows)  BY DEF IInv, Typed, RowsMove, RowsImprove, RowsGrow
    <2>2. rows'[r].file = rows[r].file /\ (rows'[r].open <=> rows[r].open)
      BY <2>1 DEF RowsMove, RowsImprove, RowsGrow, Improves
    <2>3. ~ Overlap(rows[r].file) /\ ~ Halfway(rows[r].file)
      BY <2>2 DEF Overlap, Halfway, Around
    <2>4. CASE SentToVerification(rows[r])
      BY <2>1, <2>4, GrowKeeps DEF IInv, RowsMove, RowsImprove
    <2>5. CASE ~ SentToVerification(rows[r])
      <3>1. PICK c \in calls : /\ c.kind = "complete" /\ c.stage = "commit"
                               /\ c.row = r /\ c.file = rows[r].file
        BY <2>1, <2>2, <2>3, <2>5 DEF IInv, Stored, OpenOrSent
      <3>2. CASE c \in calls'  BY <2>2, <3>1, <3>2
      <3>3. CASE c \notin calls'
        BY <2>2, <3>1, <3>3 DEF CommitsAreKept, Overlap, Halfway
      <3> QED  BY <3>2, <3>3
    <2> QED  BY <2>4, <2>5
  <1>2. CallsHaveObjects'
    <2> SUFFICES ASSUME NEW c \in calls', c.kind = "complete", ~ Overlap(c.file)'
                 PROVE  /\ ~ batch[c.file].multi /\ ~ SentToVerification(rows'[c.row])
                             => rows'[c.row].object # <<>>
                        /\ c.stage = "commit" => rows'[c.row].object # <<>>
      BY DEF CallsHaveObjects, Around
    <2>1. c.row \in 1..Len(rows)  BY DEF IInv, CallsKnow, CallKnows, CallFits, RowOf
    <2>2. ~ Overlap(c.file)  BY OverlapGrows
    <2>3. SentToVerification(rows[c.row]) => SentToVerification(rows'[c.row])
      BY <2>1, GrowKeeps DEF IInv, RowsMove, RowsImprove
    <2>4. c.stage = "commit" => ~ SentToVerification(rows[c.row])
      BY <2>2 DEF IInv, OneComplete
    <2>5. /\ ~ batch[c.file].multi /\ ~ SentToVerification(rows[c.row])
               => rows[c.row].object # <<>>
          /\ c.stage = "commit" => rows[c.row].object # <<>>
      BY <2>2 DEF IInv, Stored, CallsHaveObjects
    <2>6. rows[c.row].object # <<>> /\ ~ SentToVerification(rows[c.row])
            => rows'[c.row].object # <<>>
      BY <2>1 DEF RowsMove, RowsImprove
    <2> QED  BY <2>3, <2>4, <2>5, <2>6
  <1> QED  BY <1>1, <1>2 DEF Stored, ClientMoves

LEMMA StepKeeps ==
    ASSUME IInv, CallsFollow, RowsImprove, Around, ClientMoves,
           CallsKnow', OneComplete', Stored'
    PROVE  IInv'
  <1>1. Typed'
    BY DEF IInv, Typed, CallsFollow, RowsImprove, RowsGrow, Around, ClientMoves, Files
  <1>2. RowsAreHonest'  BY DEF RowsImprove
  <1>3. ClientKnows'  BY DEF ClientMoves
  <1>4. ReceiptHolds'  BY ReceiptKept DEF IInv, RowsImprove, Around
  <1>5. OneRow'  BY RowStaysTheOne
  <1>6. OneVersion'
    <2>1. DiskIsOne'  BY DEF IInv, OneVersion, DiskIsOne, Around, Edited, Files
    <2>2. CallsAreOne'
      BY DEF IInv, OneVersion, CallsAreOne, CallsFollow, SameRequest, Around, Edited
    <2> QED  BY <2>1, <2>2 DEF OneVersion, RowsImprove, ClientMoves
  <1>7. FaultsAreCounted'  BY DEF ClientMoves
  <1>8. FailuresAreExcused'
    <2> SUFFICES ASSUME NEW i \in 1..Len(receipt), ~ receipt[i].ok PROVE Excused(i)'
      BY DEF FailuresAreExcused, ClientMoves, Around
    <2>1. Excused(i)  BY DEF IInv, FailuresAreExcused
    <2>2. i \in Files
      <3>1. Len(receipt) <= client.file /\ client.file \in 1..Len(batch) /\ Len(receipt) \in Nat
        BY DEF IInv, Typed, Files
      <3> QED  BY <3>1, FilesTyped DEF IInv, Files
    <2> QED  BY <2>1, <2>2, ExcusedGrows DEF IInv, Around
  <1> QED  BY <1>1, <1>2, <1>3, <1>4, <1>5, <1>6, <1>7, <1>8 DEF IInv

LEMMA EndKeeps ==
    ASSUME IInv, calls' \subseteq calls, RowsMove, Around, ClientMoves, CommitsAreKept,
           client' = client \/ \A d \in calls' : ~ d.mine
    PROVE  IInv'
  <1>1. RowsImprove /\ CallsFollow  BY FewerFollow DEF RowsMove, IInv
  <1>2. CallsKnow' /\ OneComplete' /\ Stored'
    BY <1>1, CallsStayKnown, CompletesStayOne, StoredKept
  <1> QED  BY <1>1, <1>2, StepKeeps
-----------------------------------------------------------------------------
(* What happens to the rows                                                *)

RowIsOne(row) == /\ row.hint = 0 /\ Zeros(row.parts) /\ Zeros(row.object)
                 /\ row.status # "REJECTED"

LEMMA RowsStill == ASSUME IInv, Around, rows' = rows PROVE RowsMove
  <1>1. rows \in Seq(RowType) /\ Len(rows) \in Nat  BY DEF IInv, Typed
  <1>2. ASSUME NEW r \in 1..Len(rows) PROVE Improves(rows[r], rows[r])
    <2>1. rows[r].messages \in Nat /\ Len(rows[r].parts) \in Nat  BY RowTyped DEF IInv
    <2> QED  BY <2>1 DEF Improves
  <1>3. RowsAreHonest'  BY DEF IInv, RowsAreHonest, RowIsHonest, Around, Files
  <1>4. RowsAreOne'  BY DEF IInv, OneVersion, RowsAreOne, Around, Edited
  <1>5. \A r \in 1..Len(rows) : ~ (r > Len(rows))  BY <1>1
  <1> QED  BY <1>1, <1>2, <1>3, <1>4, <1>5 DEF RowsMove, RowsImprove, RowsGrow

LEMMA RowChanges ==
    ASSUME IInv, Around, NEW r \in 1..Len(rows), NEW new \in RowType,
           rows' = [rows EXCEPT ![r] = new],
           Improves(rows[r], new), RowIsHonest(new),
           RowIsOne(new) \/ <<new.file, "edited">> \in causes',
           new.open <=> rows[r].open,
           new.object # <<>> \/ rows[r].object = <<>> \/ SentToVerification(rows[r]),
           \/ new.messages = rows[r].messages
           \/ /\ new.messages = rows[r].messages + 1
              /\ \E c \in calls \ calls' :
                    c.kind = "complete" /\ c.stage = "commit" /\ c.row = r
    PROVE  RowsMove
  <1>1. rows \in Seq(RowType) /\ Len(rows) \in Nat  BY DEF IInv, Typed
  <1>2. /\ rows' \in Seq(RowType) /\ Len(rows') = Len(rows)
        /\ rows'[r] = new /\ \A s \in 1..Len(rows) : s # r => rows'[s] = rows[s]
    BY <1>1
  <1>3. ASSUME NEW s \in 1..Len(rows) PROVE Improves(rows[s], rows[s])
    <2>1. rows[s].messages \in Nat /\ Len(rows[s].parts) \in Nat  BY RowTyped DEF IInv
    <2> QED  BY <2>1 DEF Improves
  <1>4. RowsGrow
    <2>1. \A s \in 1..Len(rows) : Improves(rows[s], rows'[s])  BY <1>2, <1>3
    <2> QED  BY <1>1, <1>2, <2>1 DEF RowsGrow
  <1>5. RowsAreHonest'
    <2>1. \A s \in 1..Len(rows) : RowIsHonest(rows[s])  BY DEF IInv, RowsAreHonest
    <2>2. \A s \in 1..Len(rows) : RowIsHonest(rows'[s])  BY <1>2, <2>1
    <2> QED  BY <1>2, <2>2 DEF RowsAreHonest, RowIsHonest, Around, Files
  <1>6. RowsAreOne'
    <2>1. \A s \in 1..Len(rows) : RowIsOne(rows[s]) \/ <<rows[s].file, "edited">> \in causes'
      BY DEF IInv, OneVersion, RowsAreOne, RowIsOne, Around, Edited
    <2>2. \A s \in 1..Len(rows) : RowIsOne(rows'[s]) \/ <<rows'[s].file, "edited">> \in causes'
      BY <1>2, <2>1
    <2> QED  BY <1>2, <2>2 DEF RowsAreOne, RowIsOne, Edited
  <1>7. \A s \in 1..Len(rows') : ~ (s > Len(rows))  BY <1>1, <1>2
  <1>8. ASSUME NEW s \in 1..Len(rows)
        PROVE  /\ rows'[s].open <=> rows[s].open
               /\ rows[s].object # <<>> /\ ~ SentToVerification(rows[s]) => rows'[s].object # <<>>
               /\ \/ rows'[s].messages = rows[s].messages
                  \/ /\ rows'[s].messages = rows[s].messages + 1
                     /\ \E c \in calls \ calls' :
                           c.kind = "complete" /\ c.stage = "commit" /\ c.row = s
    <2>1. CASE s = r  BY <1>2, <2>1
    <2>2. CASE s # r  BY <1>2, <2>2
    <2> QED  BY <2>1, <2>2
  <1> QED  BY <1>4, <1>5, <1>6, <1>7, <1>8 DEF RowsMove, RowsImprove
-----------------------------------------------------------------------------
(* What happens to the client                                              *)

LEMMA ClientTyped ==
    ASSUME Typed
    PROVE  /\ client.step \in Steps /\ client.file \in Nat /\ client.row \in Nat
           /\ client.attempt \in Nat /\ client.hash \in Nat /\ client.polls \in Nat
           /\ client.etags \in Seq(Nat) /\ Len(client.etags) \in Nat
           /\ hits[client.file] \in Nat /\ Attempts \in Nat
  <1>1. \A x \in ClientType : /\ x.step \in Steps /\ x.file \in Nat /\ x.row \in Nat
                              /\ x.attempt \in Nat /\ x.hash \in Nat /\ x.polls \in Nat
                              /\ x.etags \in Seq(Nat) /\ Len(x.etags) \in Nat
    BY DEF ClientType
  <1> QED  BY <1>1, BatchIsPossible DEF Typed

\* The client's row, once it is known.
LEMMA RowKept ==
    ASSUME IInv, RowsImprove, Around, NEW r, NEW f, RowOf(r, f)
    PROVE  /\ r \in 1..Len(rows) /\ r \in 1..Len(rows') /\ RowOf(r, f)'
           /\ rows'[r].hint = rows[r].hint
           /\ SentToVerification(rows[r]) => SentToVerification(rows'[r])
           /\ Confirmed(rows[r]) => Confirmed(rows'[r])
           /\ Len(rows[r].parts) <= Len(rows'[r].parts)
           /\ Len(rows'[r].parts) <= batch[f].parts
           /\ Len(rows[r].parts) \in Nat /\ Len(rows'[r].parts) \in Nat
           /\ rows[r].object # <<>> /\ ~ SentToVerification(rows'[r]) => rows'[r].object # <<>>
  <1>1. r \in 1..Len(rows) /\ rows[r].file = f  BY DEF RowOf
  <1>2. /\ r \in 1..Len(rows') /\ RowOf(r, f)' /\ rows'[r].hint = rows[r].hint
        /\ SentToVerification(rows[r]) => SentToVerification(rows'[r])
        /\ Confirmed(rows[r]) => Confirmed(rows'[r])
    BY <1>1, GrowKeeps DEF IInv, RowsImprove
  <1>3. rows'[r] \in RowType /\ rows[r] \in RowType
    BY <1>1, <1>2 DEF IInv, Typed, RowsImprove, RowsGrow
  <1>4. \A x \in RowType : Len(x.parts) \in Nat  BY DEF RowType
  <1>5. Len(rows[r].parts) <= Len(rows'[r].parts)
    BY <1>1 DEF RowsImprove, RowsGrow, Improves
  <1>6. rows'[r].file = f  BY <1>2 DEF RowOf
  <1>7. Len(rows'[r].parts) <= batch[f].parts
    BY <1>2, <1>6 DEF RowsImprove, RowsAreHonest, RowIsHonest, Around
  <1>8. rows[r].object # <<>> /\ ~ SentToVerification(rows[r]) => rows'[r].object # <<>>
    BY <1>1 DEF RowsImprove
  <1> QED  BY <1>1, <1>2, <1>3, <1>4, <1>5, <1>7, <1>8

LEMMA KnowsKept ==
    ASSUME IInv, RowsImprove, Around, SameFile(client', client),
           client'.step = client.step, client'.etags = client.etags,
           client'.polls = client.polls, client'.ok = client.ok,
           client'.waiting => client.waiting
    PROVE  ClientKnows' /\ ClientIsOne' /\ ClientHasObject'
  <1>1. client'.file = client.file /\ client'.row = client.row /\ client'.hash = client.hash
        /\ batch' = batch /\ File' = File
    BY DEF SameFile, Around, File
  <1>2. ClientKnows  BY DEF IInv
  <1>3. Len(client.etags) \in Nat /\ File.parts \in Nat
    BY ClientTyped, FilesTyped DEF IInv, Typed, File
  <1>4. ClientKnows'
    <2>1. CASE client.step \in {"put", "complete", "poll"} \/ (client.step = "record" /\ client.ok)
      <3>1. RowOf(client.row, client.file)  BY <1>2, <2>1 DEF ClientKnows
      <3> DEFINE r == client.row
      <3>2. /\ RowOf(r, client.file)' /\ rows'[r].hint = rows[r].hint
            /\ SentToVerification(rows[r]) => SentToVerification(rows'[r])
            /\ Confirmed(rows[r]) => Confirmed(rows'[r])
            /\ Len(rows[r].parts) <= Len(rows'[r].parts)
            /\ Len(rows'[r].parts) <= File.parts
            /\ Len(rows[r].parts) \in Nat /\ Len(rows'[r].parts) \in Nat
        BY <1>1, <3>1, RowKept DEF File
      <3> QED  BY <1>1, <1>2, <1>3, <3>2 DEF ClientKnows, RowOf
    <2>2. CASE ~ (client.step \in {"put", "complete", "poll"} \/ (client.step = "record" /\ client.ok))
      BY <1>1, <1>2, <2>2 DEF ClientKnows
    <2> QED  BY <2>1, <2>2
  <1>5. ClientIsOne'
    BY <1>1 DEF IInv, OneVersion, ClientIsOne, Edited, Around
  <1>6. ClientHasObject'
    <2> SUFFICES ASSUME client.step = "complete", ~ Overlap(client.file)', ~ File.multi,
                        ~ SentToVerification(rows'[client.row])
                 PROVE  rows'[client.row].object # <<>>
      BY <1>1 DEF ClientHasObject
    <2>1. RowOf(client.row, client.file)  BY <1>2 DEF ClientKnows
    <2>2. ~ Overlap(client.file)  BY <1>1 DEF Overlap, Around
    <2>3. ~ SentToVerification(rows[client.row]) => rows[client.row].object # <<>>
      BY <2>2 DEF IInv, Stored, ClientHasObject
    <2> QED  BY <2>1, <2>3, RowKept
  <1> QED  BY <1>4, <1>5, <1>6

\* The file at hand exists, and what accounts for its failing stays.
LEMMA FileAtHand ==
    ASSUME IInv, Around, client'.file = client.file
    PROVE  /\ client.file \in Files /\ (Excused(client.file) => Excused(client.file)')
           /\ hits[client.file] <= hits'[client.file] /\ hits'[client.file] \in Nat
  <1>1. client.file \in Files  BY DEF IInv, Typed
  <1>2. \A f \in Files : Excused(f) => Excused(f)'  BY ExcusedGrows DEF IInv, Around
  <1>3. Excused(client.file) => Excused(client.file)'  BY <1>1, <1>2 DEF Excused
  <1> QED  BY <1>1, <1>3 DEF Around

LEMMA ClientStays ==
    ASSUME IInv, RowsImprove, Around, client' = client
    PROVE  ClientMoves
  <1>1. ClientKnows' /\ ClientIsOne' /\ ClientHasObject'  BY KnowsKept DEF SameFile
  <1>2. FaultsAreCounted'
    <2>1. client.attempt \in Nat /\ hits[client.file] \in Nat  BY ClientTyped DEF IInv
    <2> QED  BY <2>1, FileAtHand DEF IInv, FaultsAreCounted
  <1>3. RecordIsExcused'
    BY FileAtHand DEF IInv, FailuresAreExcused, RecordIsExcused
  <1>4. client \in ClientType /\ client.attempt < Attempts  BY DEF IInv, Typed
  <1> QED  BY <1>1, <1>2, <1>3, <1>4 DEF ClientMoves

LEMMA ClientTriesAgain ==
    ASSUME IInv, RowsMove, Around, Again(client', client), client.step \in Working,
           hits'[client.file] = hits[client.file] + 1 \/ Excused(client.file)'
    PROVE  ClientMoves
  <1>1. ClientKnows' /\ ClientIsOne' /\ ClientHasObject'  BY KnowsKept DEF Again, RowsMove
  <1>2. client'.file = client.file /\ client'.row = client.row  BY DEF Again, SameFile
  <1>3. FaultsAreCounted'
    <2>1. /\ client.attempt \in Nat /\ hits[client.file] \in Nat
          /\ client'.attempt = client.attempt + 1
      BY ClientTyped DEF IInv, Again
    <2>2. CASE Excused(client.file)'  BY <2>2 DEF FaultsAreCounted
    <2>3. CASE hits'[client.file] = hits[client.file] + 1
      <3>1. CASE client.attempt <= hits[client.file]
        BY <1>2, <2>1, <2>3, <3>1 DEF FaultsAreCounted
      <3>2. CASE Excused(client.file)
        BY <1>2, <3>2, FileAtHand DEF FaultsAreCounted
      <3> QED  BY <3>1, <3>2 DEF IInv, FaultsAreCounted
    <2> QED  BY <2>2, <2>3
  <1>4. RecordIsExcused'  BY DEF RecordIsExcused, Again, Working
  <1>5. client'.step \notin {"done", "dead"} /\ client.step \notin {"done", "dead"}
    BY DEF Again, Working
  <1> QED  BY <1>1, <1>2, <1>3, <1>4, <1>5 DEF ClientMoves, Again

LEMMA ClientGivesUp ==
    ASSUME IInv, RowsMove, Around, GivenUp(client', client),
           client.step \in Working \cup {"hash"},
           client.step = "resolve" \/ Excused(client.file)'
    PROVE  ClientMoves
  <1>1. client'.file = client.file /\ client'.row = client.row  BY DEF GivenUp, SameFile
  <1>2. client'.step \in {"record", "aborted"} /\ (client'.step = "record" => ~ client'.ok)
    BY DEF GivenUp
  <1>3. ClientKnows' /\ ClientIsOne' /\ ClientHasObject'
    BY <1>2 DEF ClientKnows, ClientIsOne, ClientHasObject, GivenUp
  <1>4. FaultsAreCounted' /\ client'.attempt < Attempts
    <2>1. client'.attempt = 0 /\ Attempts > 0  BY BatchIsPossible DEF GivenUp
    <2> QED  BY <1>1, <2>1, FileAtHand DEF FaultsAreCounted
  <1>5. RecordIsExcused'
    <2>1. CASE client.step = "resolve"  BY <2>1 DEF RecordIsExcused, GivenUp
    <2>2. CASE Excused(client.file)'  BY <1>1, <2>2 DEF RecordIsExcused
    <2> QED  BY <2>1, <2>2
  <1> QED  BY <1>1, <1>2, <1>3, <1>4, <1>5 DEF ClientMoves, GivenUp, Late, Working

LEMMA ClientIsTold ==
    ASSUME IInv, RowsMove, Around, client.step \in {"complete", "poll"},
           \/ Accepted(client', client) /\ Confirmed(rows'[client.row])
           \/ Polls(client', client) /\ SentToVerification(rows'[client.row])
    PROVE  ClientMoves
  <1>1. client'.file = client.file /\ client'.row = client.row /\ client'.hash = client.hash
    BY DEF Accepted, Polls, SameFile
  <1>2. client' \in ClientType /\ client'.attempt = 0 /\ ~ client'.waiting
        /\ client'.step \in {"record", "poll"}
    BY DEF Accepted, Polls
  <1>3. /\ RowOf(client.row, client.file) /\ rows[client.row].hint = client.hash
        /\ Len(client.etags) = File.parts
    BY DEF IInv, ClientKnows
  <1>4. RowOf(client.row, client.file)' /\ rows'[client.row].hint = rows[client.row].hint
    <2>1. \A r, f : RowOf(r, f) => RowOf(r, f)' /\ rows'[r].hint = rows[r].hint
      BY RowKept DEF RowsMove
    <2> QED  BY <1>1, <1>3, <2>1 DEF RowOf
  <1>5. client'.step = "poll" => client'.etags = client.etags /\ SentToVerification(rows'[client.row])
    BY DEF Accepted, Polls
  <1>6. client'.step = "record" => client'.ok /\ Confirmed(rows'[client.row])
    BY DEF Accepted, Polls
  <1>7. ClientKnows'
    BY <1>1, <1>2, <1>3, <1>4, <1>5, <1>6 DEF ClientKnows, File, Around
  <1>8. ClientIsOne'
    BY <1>1, <1>2, <1>5 DEF ClientIsOne, IInv, OneVersion, Edited, Around
  <1>9. ClientHasObject' /\ RecordIsExcused'
    BY <1>2, <1>6 DEF ClientHasObject, RecordIsExcused
  <1>10. FaultsAreCounted' /\ client'.attempt < Attempts
    <2>1. client'.attempt = 0 /\ Attempts > 0  BY <1>2, BatchIsPossible
    <2> QED  BY <1>1, <2>1, FileAtHand DEF FaultsAreCounted
  <1> QED  BY <1>1, <1>2, <1>7, <1>8, <1>9, <1>10 DEF ClientMoves, Late

\* Between files, or when the run ends early.
LEMMA ClientTurns ==
    ASSUME IInv, RowsMove, Around, NEW s \in {"resolve", "hash", "aborted", "dead"},
           client' = To(client, s), client.step \notin {"done", "dead"},
           s \in {"resolve", "hash"} => client.step \notin Late
    PROVE  ClientMoves
  <1>1. s \in Steps  BY DEF Steps, Working
  <1>2. /\ client' \in ClientType /\ client'.step = s /\ ~ client'.waiting
        /\ client'.attempt = 0 /\ SameFile(client', client)
    BY <1>1, ToTyped DEF IInv, Typed
  <1>3. ClientKnows' /\ ClientIsOne' /\ ClientHasObject' /\ RecordIsExcused'
    BY <1>2 DEF ClientKnows, ClientIsOne, ClientHasObject, RecordIsExcused
  <1>4. FaultsAreCounted' /\ client'.attempt < Attempts
    <2>1. client'.attempt = 0 /\ Attempts > 0  BY <1>2, BatchIsPossible
    <2> QED  BY <1>2, <2>1, FileAtHand DEF FaultsAreCounted, SameFile
  <1> QED  BY <1>2, <1>3, <1>4 DEF ClientMoves, Late, SameFile
-----------------------------------------------------------------------------
(* A call ends                                                             *)

Nearby == UNCHANGED <<batch, receipt, disk>> /\ causes \subseteq causes'

LEMMA FaultFree == ASSUME IInv, Nearby, UNCHANGED hits PROVE Around
  <1>1. hits \in [Files -> Nat]  BY DEF IInv, Typed
  <1>2. \A f \in Files : hits[f] <= hits[f]  BY <1>1
  <1> QED  BY <1>1, <1>2 DEF Around, Nearby

LEMMA FaultCounts ==
    ASSUME IInv, Nearby, Fault
    PROVE  Around /\ hits'[client.file] = hits[client.file] + 1
  <1>1. hits \in [Files -> Nat] /\ client.file \in Files  BY DEF IInv, Typed
  <1>2. hits' = [hits EXCEPT ![client.file] = @ + 1]  BY DEF Fault
  <1>3. \A f \in Files : hits[f] <= hits'[f] /\ hits'[f] \in Nat  BY <1>1, <1>2
  <1>4. hits' \in [Files -> Nat]  BY <1>1, <1>2
  <1> QED  BY <1>1, <1>2, <1>3, <1>4 DEF Around, Nearby

LEMMA CallEnds ==
    ASSUME IInv, NEW c \in calls, calls' = calls \ {c},
           RowsMove, Around, CommitsAreKept, client' = client \/ (c.mine /\ ClientMoves)
    PROVE  IInv'
  <1>1. ClientMoves /\ calls' \subseteq calls  BY ClientStays DEF RowsMove
  <1>2. client' = client \/ \A d \in calls' : ~ d.mine  BY DEF IInv, CallsKnow
  <1> QED  BY <1>1, <1>2, EndKeeps

LEMMA MineIsKnown ==
    ASSUME IInv, NEW c \in calls, c.mine
    PROVE  /\ client.waiting /\ client.step = c.kind /\ c.kind \in Working
           /\ client.file = c.file /\ client.row = c.row
           /\ client.hash = c.hash /\ client.etags = c.etags
           /\ client \in ClientType /\ c.file \in Files
  <1>1. c.kind \in Working
    <2>1. c \in CallType  BY DEF IInv, Typed
    <2>2. \A x \in CallType : x.kind \in Working  BY DEF CallType
    <2> QED  BY <2>1, <2>2
  <1> QED  BY <1>1 DEF IInv, CallsKnow, CallKnows, CallFits, Typed

LEMMA RetryMoves ==
    ASSUME IInv, Around, RowsMove, hits'[client.file] = hits[client.file] + 1,
           client' = Retried(client), client.step \in Working
    PROVE  ClientMoves
  <1>1. client \in ClientType  BY DEF IInv, Typed
  <1>2. CASE Again(client', client)  BY <1>2, ClientTriesAgain
  <1>3. CASE GivenUp(client', client) /\ client.attempt + 1 >= Attempts
    <2>1. client'.file = client.file  BY <1>3 DEF GivenUp, SameFile
    <2>2. Excused(client.file)'
      <3>1. /\ client.attempt \in Nat /\ hits[client.file] \in Nat /\ Attempts \in Nat
        BY ClientTyped DEF IInv
      <3>2. CASE Excused(client.file)  BY <2>1, <3>2, FileAtHand
      <3>3. CASE client.attempt <= hits[client.file]
        <4>1. hits'[client.file] >= Attempts  BY <1>3, <3>1, <3>3
        <4> QED  BY <2>1, <4>1 DEF Excused
      <3> QED  BY <3>2, <3>3 DEF IInv, FaultsAreCounted
    <2> QED  BY <1>3, <2>2, ClientGivesUp
  <1> QED  BY <1>1, <1>2, <1>3, RetriedTyped

LEMMA LostKeeps ==
    ASSUME IInv, NEW c \in calls, Lost(c), RowsMove, Nearby, CommitsAreKept
    PROVE  IInv'
  <1>1. c.mine /\ Fault /\ calls' = calls \ {c} /\ client' = Retried(client)  BY DEF Lost
  <1>2. Around /\ hits'[client.file] = hits[client.file] + 1  BY <1>1, FaultCounts
  <1>3. client.step \in Working  BY <1>1, MineIsKnown
  <1> QED  BY <1>1, <1>2, <1>3, RetryMoves, CallEnds

\* Only a call that was about to commit leaves something behind.
LEMMA NotCommitting ==
    ASSUME NEW c \in calls, calls' \subseteq calls, calls \ calls' \subseteq {c},
           c.kind # "complete" \/ c.stage # "commit"
    PROVE  CommitsAreKept
  BY DEF CommitsAreKept

LEMMA Finishing ==
    ASSUME IInv, NEW c \in calls, NEW next, Finished(c, next), Nearby
    PROVE  /\ Around /\ calls' = calls \ {c}
           /\ Lost(c) \/ client' = client \/ (c.mine /\ client' = next)
  <1>1. CASE Lost(c)  BY <1>1, FaultCounts DEF Lost
  <1>2. CASE Answered(c, next) /\ UNCHANGED hits  BY <1>2, FaultFree DEF Answered
  <1> QED  BY <1>1, <1>2 DEF Finished

LEMMA WorkspacesKeeps == ASSUME IInv, NEW c \in calls, Workspaces(c) PROVE IInv'
  <1>1. c.kind = "resolve" /\ Nearby /\ rows' = rows  BY DEF Workspaces, Nearby
  <1>2. /\ Around /\ calls' = calls \ {c}
        /\ \/ Lost(c) \/ client' = client
           \/ c.mine /\ client' \in {To(client, "hash"), Failed(client)}
    <2>1. CASE Finished(c, To(client, "hash"))  BY <1>1, <2>1, Finishing
    <2>2. CASE Answered(c, Failed(client)) /\ UNCHANGED hits
      BY <1>1, <2>2, FaultFree DEF Answered
    <2> QED  BY <2>1, <2>2 DEF Workspaces
  <1>3. RowsMove /\ CommitsAreKept  BY <1>1, <1>2, RowsStill, NotCommitting
  <1>4. CASE Lost(c)  BY <1>1, <1>3, <1>4, LostKeeps
  <1>5. CASE client' = client  BY <1>2, <1>3, <1>5, CallEnds
  <1>6. CASE c.mine /\ client' \in {To(client, "hash"), Failed(client)}
    <2>1. client.step = "resolve" /\ client \in ClientType  BY <1>1, <1>6, MineIsKnown
    <2>2. ClientMoves
      <3>1. CASE client' = To(client, "hash")
        BY <1>2, <1>3, <2>1, <3>1, ClientTurns DEF Late
      <3>2. CASE client' = Failed(client)
        BY <1>2, <1>3, <2>1, <3>2, FailedGivesUp, ClientGivesUp DEF Working
      <3> QED  BY <1>6, <3>1, <3>2
    <2> QED  BY <1>2, <1>3, <1>6, <2>2, CallEnds
  <1> QED  BY <1>2, <1>4, <1>5, <1>6

LEMMA NewRowTyped ==
    ASSUME IInv, NEW c \in calls
    PROVE  LET n == NewRow(c) IN
           /\ n \in RowType /\ n.file = c.file /\ n.hint = c.hash /\ n.messages = 0
           /\ n.status = "INITIALIZED" /\ n.parts = <<>> /\ n.object = <<>>
           /\ n.open <=> batch[c.file].multi
  <1>1. c.file \in Nat /\ c.hash \in Nat
    <2>1. c \in CallType  BY DEF IInv, Typed
    <2>2. \A x \in CallType : x.file \in Nat /\ x.hash \in Nat  BY DEF CallType
    <2> QED  BY <2>1, <2>2
  <1>2. c.file \in Files
    BY FilesTyped DEF IInv, CallsKnow, CallKnows, CallFits, Typed, Files
  <1>3. batch[c.file].multi \in BOOLEAN
    <2>1. \A x \in FileType : x.multi \in BOOLEAN  BY DEF FileType
    <2> QED  BY <1>2, <2>1, FilesTyped DEF IInv
  <1>4. <<>> \in Seq(Nat)  OBVIOUS
  <1>5. NewRow(c) \in RowType  BY <1>1, <1>3, <1>4 DEF NewRow, RowType
  <1> QED  BY <1>5 DEF NewRow

LEMMA CallFile ==
    ASSUME IInv, NEW c \in calls
    PROVE  c.file \in Files /\ c.file <= client.file /\ batch[c.file].parts \in Nat
           /\ batch[c.file].parts > 0 /\ (~ batch[c.file].multi => batch[c.file].parts = 1)
  BY FilesTyped DEF IInv, CallsKnow, CallKnows, CallFits, Typed, Files

LEMMA RowAppended ==
    ASSUME IInv, Around, NEW c \in calls, c.kind = "init", rows' = Append(rows, NewRow(c))
    PROVE  RowsMove /\ Len(rows') = Len(rows) + 1 /\ Len(rows) \in Nat
           /\ rows'[Len(rows')] = NewRow(c)
  <1> DEFINE n == NewRow(c)
  <1>1. /\ n \in RowType /\ n.file = c.file /\ n.hint = c.hash /\ n.messages = 0
        /\ n.status = "INITIALIZED" /\ n.parts = <<>> /\ n.object = <<>>
        /\ n.open <=> batch[c.file].multi
    BY NewRowTyped
  <1>2. rows \in Seq(RowType) /\ Len(rows) \in Nat  BY DEF IInv, Typed
  <1>3. rows' = Append(rows, n)  OBVIOUS
  <1> HIDE DEF n
  <1>4. /\ rows' \in Seq(RowType) /\ Len(rows') = Len(rows) + 1 /\ rows'[Len(rows')] = n
        /\ \A r \in 1..Len(rows) : rows'[r] = rows[r]
        /\ \A r \in 1..Len(rows') : r > Len(rows) <=> r = Len(rows')
        /\ \A r \in 1..Len(rows') : r \in 1..Len(rows) \/ r = Len(rows')
        /\ \A r \in 1..Len(rows) : ~ (r > Len(rows))
    BY <1>1, <1>2, <1>3
  <1>5. ASSUME NEW r \in 1..Len(rows) PROVE Improves(rows[r], rows[r])
    <2>1. rows[r].messages \in Nat /\ Len(rows[r].parts) \in Nat  BY RowTyped DEF IInv
    <2> QED  BY <2>1 DEF Improves
  <1>6. RowsGrow  BY <1>2, <1>4, <1>5 DEF RowsGrow
  <1>7. RowsAreHonest'
    <2>1. RowIsHonest(n)
      BY <1>1, CallFile DEF RowIsHonest, SentToVerification
    <2>2. \A r \in 1..Len(rows') : RowIsHonest(rows'[r])
      BY <1>4, <2>1 DEF IInv, RowsAreHonest
    <2> QED  BY <2>2 DEF RowsAreHonest, RowIsHonest, Around, Files
  <1>8. RowsAreOne'
    <2>1. RowIsOne(n) \/ <<n.file, "edited">> \in causes'
      <3>1. n.hint = 0 \/ <<n.file, "edited">> \in causes'
        BY <1>1 DEF IInv, OneVersion, CallsAreOne, Edited, Around
      <3> QED  BY <1>1, <3>1 DEF RowIsOne, Zeros
    <2>2. \A r \in 1..Len(rows) : RowIsOne(rows[r]) \/ <<rows[r].file, "edited">> \in causes'
      BY DEF IInv, OneVersion, RowsAreOne, RowIsOne, Around, Edited
    <2>3. \A r \in 1..Len(rows') : RowIsOne(rows'[r]) \/ <<rows'[r].file, "edited">> \in causes'
      BY <1>4, <2>1, <2>2
    <2> QED  BY <2>3 DEF RowsAreOne, RowIsOne, Edited
  <1>9. RowsMove  BY <1>1, <1>4, <1>6, <1>7, <1>8 DEF RowsMove, RowsImprove
  <1> QED  BY <1>2, <1>4, <1>9 DEF n

LEMMA InitializeKeeps == ASSUME IInv, NEW c \in calls, InitializeUpload(c) PROVE IInv'
  <1> DEFINE next == [To(client, "put") EXCEPT !.row = Len(rows')]
  <1>1. c.kind = "init" /\ Nearby /\ rows' = Append(rows, NewRow(c)) /\ Finished(c, next)
    BY DEF InitializeUpload, Nearby
  <1>2. /\ Around /\ calls' = calls \ {c}
        /\ Lost(c) \/ client' = client \/ (c.mine /\ client' = next)
    BY <1>1, Finishing
  <1>3. /\ RowsMove /\ CommitsAreKept /\ Len(rows') = Len(rows) + 1 /\ Len(rows) \in Nat
        /\ rows'[Len(rows')] = NewRow(c)
    BY <1>1, <1>2, RowAppended, NotCommitting
  <1>4. CASE Lost(c)  BY <1>1, <1>3, <1>4, LostKeeps
  <1>5. CASE client' = client  BY <1>2, <1>3, <1>5, CallEnds
  <1>6. CASE c.mine /\ client' = next
    <2>1. /\ client.step = "init" /\ client \in ClientType
          /\ client.file = c.file /\ client.hash = c.hash
      BY <1>1, <1>6, MineIsKnown
    <2>2. client.etags = <<>> /\ client.polls > 0  BY <2>1 DEF IInv, ClientKnows
    <2> DEFINE m == To(client, "put")
    <2>3. /\ m \in ClientType /\ m.step = "put" /\ ~ m.waiting /\ m.attempt = 0
          /\ SameFile(m, client) /\ m.etags = client.etags /\ m.polls = client.polls
      <3>1. "put" \in Steps  BY DEF Steps, Working
      <3> QED  BY <2>1, <3>1, ToTyped
    <2> HIDE DEF m
    <2>4. ASSUME NEW r \in Nat
          PROVE  LET n == [m EXCEPT !.row = r] IN
                 /\ n \in ClientType /\ n.step = "put" /\ ~ n.waiting /\ n.attempt = 0
                 /\ n.file = m.file /\ n.hash = m.hash /\ n.row = r
                 /\ n.etags = m.etags /\ n.polls = m.polls
      BY <2>3 DEF ClientType
    <2>5. client' = [m EXCEPT !.row = Len(rows')] /\ Len(rows') \in Nat  BY <1>3, <1>6 DEF m
    <2>6. /\ client' \in ClientType /\ client'.step = "put" /\ ~ client'.waiting
          /\ client'.attempt = 0 /\ client'.file = c.file /\ client'.hash = c.hash
          /\ client'.row = Len(rows') /\ client'.etags = <<>> /\ client'.polls > 0
      BY <2>1, <2>2, <2>3, <2>4, <2>5 DEF SameFile
    <2>7. NewRow(c).file = c.file /\ NewRow(c).hint = c.hash /\ NewRow(c).parts = <<>>
      BY NewRowTyped
    <2>8. RowOf(client.row, client.file)' /\ rows'[client'.row].hint = client'.hash
      BY <1>3, <2>6, <2>7 DEF RowOf
    <2>9. ClientKnows'
      <3>1. File' = batch[c.file] /\ File'.parts > 0 /\ File'.parts \in Nat
        BY <1>2, <2>6, CallFile DEF File, Around
      <3>2. Len(rows'[client'.row].parts) = 0 /\ Len(client'.etags) = 0
        BY <1>3, <2>6, <2>7
      <3> QED  BY <2>6, <2>8, <3>1, <3>2 DEF ClientKnows, RowOf
    <2>10. ClientIsOne'
      <3>1. Edited(c.file)' \/ c.hash = 0
        BY <1>1, <1>2 DEF IInv, OneVersion, CallsAreOne, Edited, Around
      <3> QED  BY <2>6, <3>1 DEF ClientIsOne, Edited, Zeros
    <2>11. FaultsAreCounted' /\ client'.attempt < Attempts
      <3>1. client'.attempt = 0 /\ Attempts > 0  BY <2>6, BatchIsPossible
      <3> QED  BY <1>2, <2>1, <2>6, <3>1, FileAtHand DEF FaultsAreCounted
    <2>12. ClientMoves
      BY <2>1, <2>6, <2>9, <2>10, <2>11
         DEF ClientMoves, Late, ClientHasObject, RecordIsExcused
    <2> QED  BY <1>2, <1>3, <1>6, <2>12, CallEnds
  <1> QED  BY <1>2, <1>4, <1>5, <1>6

LEMMA PutPartTyped ==
    ASSUME NEW parts \in Seq(Nat), NEW p \in Nat, p > 0, p <= Len(parts) + 1, NEW b \in Nat
    PROVE  LET n == PutPart(parts, p, b) IN
           /\ n \in Seq(Nat)
           /\ Len(n) = IF p > Len(parts) THEN p ELSE Len(parts)
           /\ Zeros(parts) /\ b = 0 => Zeros(n)
  <1> DEFINE l == IF p > Len(parts) THEN p ELSE Len(parts)
  <1>1. l \in Nat /\ Len(parts) \in Nat  OBVIOUS
  <1>2. ASSUME NEW q \in 1..l PROVE q # p => q \in 1..Len(parts) /\ parts[q] \in Nat
    BY <1>2
  <1>3. ASSUME NEW q \in 1..l PROVE (IF q = p THEN b ELSE parts[q]) \in Nat
    BY <1>2
  <1> HIDE DEF l
  <1> DEFINE n == [q \in 1..l |-> IF q = p THEN b ELSE parts[q]]
  <1>4. n \in Seq(Nat) /\ Len(n) = l  BY <1>1, <1>3
  <1>5. ASSUME Zeros(parts), b = 0 PROVE Zeros(n)
    BY <1>2, <1>4, <1>5 DEF Zeros
  <1>6. PutPart(parts, p, b) = n  BY DEF PutPart, l
  <1> HIDE DEF n
  <1> QED  BY <1>4, <1>5, <1>6 DEF l

LEMMA CallTyped ==
    ASSUME Typed, NEW c \in calls
    PROVE  /\ c \in CallType /\ c.kind \in Working /\ c.file \in Nat /\ c.row \in Nat
           /\ c.hash \in Nat /\ c.etags \in Seq(Nat) /\ Len(c.etags) \in Nat
           /\ c.bytes \in Nat /\ c.stage \in {"sent", "assemble", "commit"}
  <1>1. c \in CallType  BY DEF Typed
  <1>2. \A x \in CallType :
           /\ x.kind \in Working /\ x.file \in Nat /\ x.row \in Nat
           /\ x.hash \in Nat /\ x.etags \in Seq(Nat) /\ Len(x.etags) \in Nat
           /\ x.bytes \in Nat /\ x.stage \in {"sent", "assemble", "commit"}
    BY DEF CallType
  <1> QED  BY <1>1, <1>2

LEMMA RowFields ==
    ASSUME NEW x \in RowType
    PROVE  /\ x.messages \in Nat /\ x.file \in Nat /\ x.hint \in Nat
           /\ x.parts \in Seq(Nat) /\ Len(x.parts) \in Nat
           /\ x.object \in Seq(Nat) /\ Len(x.object) \in Nat
           /\ x.status \in {"INITIALIZED", "VERIFYING", "ACCEPTED", "REJECTED"}
  BY DEF RowType

\* A row whose parts, or whose object, are stored anew.
LEMMA RowStored ==
    ASSUME NEW x \in RowType, NEW s \in Seq(Nat)
    PROVE  /\ LET n == [x EXCEPT !.parts = s] IN
              /\ n \in RowType /\ n.parts = s /\ n.file = x.file /\ n.hint = x.hint
              /\ n.status = x.status /\ n.messages = x.messages /\ (n.open <=> x.open)
              /\ n.object = x.object /\ n.verified = x.verified
           /\ LET n == [x EXCEPT !.object = s] IN
              /\ n \in RowType /\ n.object = s /\ n.file = x.file /\ n.hint = x.hint
              /\ n.status = x.status /\ n.messages = x.messages /\ (n.open <=> x.open)
              /\ n.parts = x.parts /\ n.verified = x.verified
  BY DEF RowType

LEMMA StoreMovesRows ==
    ASSUME IInv, Around, NEW c \in calls, c.kind = "put",
           IF batch[c.file].multi
           THEN /\ Row(c).open
                /\ rows' = [rows EXCEPT ![c.row].parts = PutPart(@, Part(c), c.bytes)]
           ELSE rows' = [rows EXCEPT ![c.row].object = <<c.bytes>>]
    PROVE  /\ RowsMove
           /\ batch[c.file].multi => Len(rows'[c.row].parts) >= Part(c)
           /\ ~ batch[c.file].multi => rows'[c.row].object # <<>>
  <1> DEFINE r == c.row
             x == rows[r]
             f == c.file
  <1>1. /\ RowOf(r, f) /\ Len(c.etags) < batch[f].parts
        /\ batch[f].multi => Len(c.etags) <= Len(x.parts)
    BY DEF IInv, CallsKnow, CallKnows, CallFits
  <1>2. r \in 1..Len(rows) /\ x.file = f  BY <1>1 DEF RowOf
  <1>3. x \in RowType /\ rows \in Seq(RowType)  BY <1>2, RowTyped DEF IInv, Typed
  <1>4. /\ Len(c.etags) \in Nat /\ c.bytes \in Nat /\ Part(c) = Len(c.etags) + 1
        /\ batch[f].parts \in Nat /\ (~ batch[f].multi => batch[f].parts = 1)
    BY CallTyped, CallFile DEF IInv, Part
  <1>5. x.parts \in Seq(Nat) /\ Len(x.parts) \in Nat /\ x.messages \in Nat  BY <1>3, RowFields
  <1>6. RowIsHonest(x)  BY <1>2 DEF IInv, RowsAreHonest
  <1>7. (RowIsOne(x) /\ c.bytes = 0) \/ <<f, "edited">> \in causes'
    <2>1. CASE Edited(f)  BY <2>1 DEF Edited, Around
    <2>2. CASE ~ Edited(f)
      BY <1>2, <2>2 DEF IInv, OneVersion, RowsAreOne, CallsAreOne, RowIsOne
    <2> QED  BY <2>1, <2>2
  <1>8. CASE batch[f].multi
    <2> DEFINE s == PutPart(x.parts, Part(c), c.bytes)
               n == [x EXCEPT !.parts = s]
    <2>1. /\ s \in Seq(Nat) /\ Len(s) = IF Part(c) > Len(x.parts) THEN Part(c) ELSE Len(x.parts)
          /\ Zeros(x.parts) /\ c.bytes = 0 => Zeros(s)
      <3>1. Part(c) \in Nat /\ Part(c) > 0 /\ Part(c) <= Len(x.parts) + 1
        BY <1>1, <1>4, <1>5, <1>8
      <3> QED  BY <1>4, <1>5, <3>1, PutPartTyped
    <2>2. rows' = [rows EXCEPT ![r] = n]  BY <1>2, <1>3, <1>8
    <2>3. Len(s) >= Part(c) /\ Len(x.parts) <= Len(s) /\ Len(s) <= batch[f].parts
      <3>1. Len(x.parts) <= batch[f].parts  BY <1>2, <1>6 DEF RowIsHonest
      <3>2. Part(c) <= batch[f].parts  BY <1>1, <1>4
      <3> HIDE DEF s
      <3> QED  BY <1>4, <1>5, <2>1, <3>1, <3>2
    <2> HIDE DEF s
    <2>4. /\ n \in RowType /\ n.parts = s /\ n.file = x.file /\ n.hint = x.hint
          /\ n.status = x.status /\ n.messages = x.messages /\ (n.open <=> x.open)
          /\ n.object = x.object /\ n.verified = x.verified
      BY <1>3, <2>1, RowStored
    <2> HIDE DEF n
    <2>5. Improves(x, n)  BY <1>5, <2>3, <2>4 DEF Improves
    <2>6. RowIsHonest(n)  BY <1>2, <1>6, <2>3, <2>4 DEF RowIsHonest, SentToVerification
    <2>7. RowIsOne(n) \/ <<n.file, "edited">> \in causes'
      BY <1>2, <1>7, <2>1, <2>4 DEF RowIsOne
    <2>8. RowsMove  BY <1>2, <2>2, <2>4, <2>5, <2>6, <2>7, RowChanges
    <2>9. rows'[r] = n  BY <1>2, <1>3, <2>2
    <2> QED  BY <1>8, <2>3, <2>4, <2>8, <2>9
  <1>9. CASE ~ batch[f].multi
    <2> DEFINE s == <<c.bytes>>
               n == [x EXCEPT !.object = s]
    <2>1. s \in Seq(Nat) /\ Len(s) = 1 /\ s # <<>> /\ (c.bytes = 0 => Zeros(s))
      BY <1>4 DEF Zeros
    <2>2. rows' = [rows EXCEPT ![r] = n]  BY <1>2, <1>3, <1>9
    <2> HIDE DEF s
    <2>4. /\ n \in RowType /\ n.object = s /\ n.file = x.file /\ n.hint = x.hint
          /\ n.status = x.status /\ n.messages = x.messages /\ (n.open <=> x.open)
          /\ n.parts = x.parts /\ n.verified = x.verified
      BY <1>3, <2>1, RowStored
    <2> HIDE DEF n
    <2>5. Improves(x, n)  BY <1>5, <2>4 DEF Improves
    <2>6. RowIsHonest(n)
      BY <1>2, <1>4, <1>6, <1>9, <2>1, <2>4 DEF RowIsHonest, SentToVerification
    <2>7. RowIsOne(n) \/ <<n.file, "edited">> \in causes'
      BY <1>2, <1>7, <2>1, <2>4 DEF RowIsOne
    <2>8. RowsMove  BY <1>2, <2>1, <2>2, <2>4, <2>5, <2>6, <2>7, RowChanges
    <2>9. rows'[r] = n  BY <1>2, <1>3, <2>2
    <2> QED  BY <1>9, <2>1, <2>4, <2>8, <2>9
  <1> QED  BY <1>8, <1>9

LEMMA WithEtags ==
    ASSUME NEW k \in ClientType, NEW s \in Seq(Nat)
    PROVE  LET n == [k EXCEPT !.etags = s] IN
           /\ n \in ClientType /\ n.step = k.step /\ (n.waiting => k.waiting)
           /\ n.attempt = k.attempt /\ SameFile(n, k) /\ n.etags = s /\ n.polls = k.polls
  BY DEF ClientType, SameFile

LEMMA AppendZero ==
    ASSUME NEW s \in Seq(Nat), NEW b \in Nat
    PROVE  /\ Append(s, b) \in Seq(Nat) /\ Len(Append(s, b)) = Len(s) + 1
           /\ Zeros(s) /\ b = 0 => Zeros(Append(s, b))
  BY DEF Zeros

LEMMA StoreKeeps == ASSUME IInv, NEW c \in calls, StoreObject(c) PROVE IInv'
  <1> DEFINE s == IF Part(c) = File.parts THEN "complete" ELSE "put"
             next == [To(client, s) EXCEPT !.etags = Append(@, c.bytes)]
  <1>1. c.kind = "put" /\ Nearby /\ Finished(c, next)  BY DEF StoreObject, Nearby
  <1>2. /\ Around /\ calls' = calls \ {c}
        /\ Lost(c) \/ client' = client \/ (c.mine /\ client' = next)
    BY <1>1, Finishing
  <1>3. /\ RowsMove /\ CommitsAreKept
        /\ batch[c.file].multi => Len(rows'[c.row].parts) >= Part(c)
        /\ ~ batch[c.file].multi => rows'[c.row].object # <<>>
    BY <1>1, <1>2, StoreMovesRows, NotCommitting DEF StoreObject
  <1>4. CASE Lost(c)  BY <1>1, <1>3, <1>4, LostKeeps
  <1>5. CASE client' = client  BY <1>2, <1>3, <1>5, CallEnds
  <1>6. CASE c.mine /\ client' = next
    <2>1. /\ client.step = "put" /\ client \in ClientType
          /\ client.file = c.file /\ client.row = c.row /\ client.etags = c.etags
      BY <1>1, <1>6, MineIsKnown
    <2>2. /\ RowOf(client.row, client.file) /\ rows[client.row].hint = client.hash
          /\ Len(client.etags) < File.parts /\ client.polls > 0
      BY <2>1 DEF IInv, ClientKnows
    <2>3. s \in Steps /\ s \in {"put", "complete"}  BY DEF Steps, Working
    <2> DEFINE m == To(client, s)
               e == Append(client.etags, c.bytes)
    <2>4. /\ m \in ClientType /\ m.step = s /\ ~ m.waiting /\ m.attempt = 0
          /\ SameFile(m, client) /\ m.etags = client.etags /\ m.polls = client.polls
      BY <2>1, <2>3, ToTyped
    <2>5. /\ e \in Seq(Nat) /\ Len(e) = Part(c) /\ Part(c) = Len(client.etags) + 1
          /\ Zeros(client.etags) /\ c.bytes = 0 => Zeros(e)
          /\ Len(client.etags) \in Nat /\ Part(c) \in Nat
      BY <2>1, AppendZero, CallTyped, ClientTyped DEF IInv, Part
    <2> HIDE DEF m, e
    <2>6. client' = [m EXCEPT !.etags = e]  BY <1>6, <2>4 DEF m, e
    <2>7. /\ client' \in ClientType /\ client'.step = s /\ ~ client'.waiting
          /\ client'.attempt = 0 /\ SameFile(client', m)
          /\ client'.etags = e /\ client'.polls = m.polls
      <3> DEFINE n == [m EXCEPT !.etags = e]
      <3>1. /\ n \in ClientType /\ n.step = m.step /\ (n.waiting => m.waiting)
            /\ n.attempt = m.attempt /\ SameFile(n, m) /\ n.etags = e /\ n.polls = m.polls
        BY <2>4, <2>5, WithEtags
      <3> HIDE DEF n
      <3>2. client' = n  BY <2>6 DEF n
      <3> QED  BY <2>4, <3>1, <3>2
    <2>8. /\ client'.file = c.file /\ client'.row = c.row /\ client'.hash = client.hash
          /\ client'.polls > 0
      BY <2>1, <2>2, <2>4, <2>7 DEF SameFile
    <2>9. /\ RowOf(c.row, c.file)' /\ rows'[c.row].hint = client.hash
          /\ Len(rows'[c.row].parts) <= batch[c.file].parts /\ Len(rows'[c.row].parts) \in Nat
      BY <1>2, <1>3, <2>1, <2>2, RowKept DEF RowsMove
    <2>10. /\ File = batch[c.file] /\ File' = batch[c.file] /\ File.parts \in Nat
           /\ ~ File.multi => File.parts = 1
      BY <1>2, <2>1, <2>8, CallFile DEF File, Around
    <2> HIDE DEF next
    <2>11. ASSUME Part(c) = File.parts PROVE ClientKnows' /\ ClientHasObject'
      <3>1. client'.step = "complete" /\ Len(client'.etags) = File.parts  BY <2>5, <2>7, <2>11
      <3>2. File.multi => Len(rows'[c.row].parts) = File.parts
        BY <1>3, <2>9, <2>10, <2>11
      <3>3. ClientKnows'
        BY <2>7, <2>8, <2>9, <2>10, <3>1, <3>2 DEF ClientKnows, RowOf
      <3>4. ClientHasObject'
        BY <1>3, <2>8, <2>10 DEF ClientHasObject
      <3> QED  BY <3>3, <3>4
    <2>12. ASSUME Part(c) # File.parts PROVE ClientKnows' /\ ClientHasObject'
      <3>1. client'.step = "put" /\ Len(client'.etags) < File.parts
        BY <2>2, <2>5, <2>7, <2>10, <2>12
      <3>2. File.multi => Len(client'.etags) <= Len(rows'[c.row].parts)
        BY <1>3, <2>5, <2>7, <2>10
      <3>3. ClientKnows'
        BY <2>7, <2>8, <2>9, <2>10, <3>1, <3>2 DEF ClientKnows, RowOf
      <3>4. ClientHasObject'  BY <3>1 DEF ClientHasObject
      <3> QED  BY <3>3, <3>4
    <2>13. ClientKnows' /\ ClientHasObject'  BY <2>11, <2>12
    <2>14. ClientIsOne'
      <3> SUFFICES ASSUME <<c.file, "edited">> \notin causes'
                   PROVE  client'.hash = 0 /\ Zeros(client'.etags)
        BY <2>8 DEF ClientIsOne, Edited
      <3>1. ~ Edited(c.file) /\ ~ Edited(client.file)  BY <1>2, <2>1 DEF Edited, Around
      <3>2. client.hash = 0 /\ Zeros(client.etags) /\ c.bytes = 0
        BY <1>1, <2>1, <3>1 DEF IInv, OneVersion, ClientIsOne, CallsAreOne
      <3> QED  BY <2>5, <2>7, <2>8, <3>2
    <2>15. FaultsAreCounted' /\ client'.attempt < Attempts
      <3>1. client'.attempt = 0 /\ Attempts > 0  BY <2>7, BatchIsPossible
      <3> QED  BY <1>2, <2>1, <2>8, <3>1, FileAtHand DEF FaultsAreCounted
    <2>16. ClientMoves
      BY <2>1, <2>3, <2>7, <2>8, <2>13, <2>14, <2>15
         DEF ClientMoves, Late, RecordIsExcused
    <2> QED  BY <1>2, <1>3, <1>6, <2>16, CallEnds
  <1> QED  BY <1>2, <1>4, <1>5, <1>6

\* The file at hand is the one the receipt does not list yet.
LEMMA FileIsNext ==
    ASSUME IInv, client.step # "done"
    PROVE  client.file > Len(receipt) /\ Len(receipt) \in Nat /\ client.file \in Nat
  BY ClientTyped DEF IInv, Typed

LEMMA RefusalKeeps == ASSUME IInv, NEW c \in calls, StoreRefuses(c) PROVE IInv'
  <1>1. /\ c.kind = "put" /\ Nearby /\ rows' = rows /\ calls' = calls \ {c} /\ UNCHANGED hits
        /\ causes' = causes /\ batch[c.file].multi /\ ~ rows[c.row].open
        /\ client' = client \/ (c.mine /\ client' = Failed(client))
    BY DEF StoreRefuses, Nearby, Answered, Row
  <1>2. Around /\ RowsMove /\ CommitsAreKept  BY <1>1, FaultFree, RowsStill, NotCommitting
  <1>3. CASE client' = client  BY <1>1, <1>2, <1>3, CallEnds
  <1>4. CASE c.mine /\ client' = Failed(client)
    <2>1. /\ client.step = "put" /\ client \in ClientType
          /\ client.file = c.file /\ client.row = c.row
      BY <1>1, <1>4, MineIsKnown
    <2>2. RowOf(c.row, c.file)  BY <1>1 DEF IInv, CallsKnow, CallKnows, CallFits
    <2>3. c.file > Len(receipt) /\ client.step \notin Late
      BY <2>1, FileIsNext DEF Late
    <2>4. Overlap(c.file) \/ Halfway(c.file)
      <3> SUFFICES ASSUME ~ Overlap(c.file), ~ Halfway(c.file) PROVE FALSE
        OBVIOUS
      <3>1. c.row \in 1..Len(rows) /\ rows[c.row].file = c.file  BY <2>2 DEF RowOf
      <3>2. \/ SentToVerification(rows[c.row])
            \/ \E d \in calls : d.kind = "complete" /\ d.file = c.file
        BY <1>1, <3>1 DEF IInv, Stored, OpenOrSent
      <3> QED  BY <2>3, <3>1, <3>2 DEF IInv, OneRow
    <2>5. GivenUp(client', client)  BY <1>4, <2>1, FailedGivesUp
    <2>6. Excused(client.file)'
      <3>1. client'.file = c.file  BY <2>1, <2>5 DEF GivenUp, SameFile
      <3> QED  BY <1>1, <2>4, <3>1 DEF Excused, Overlap, Halfway
    <2>7. ClientMoves  BY <1>2, <2>1, <2>5, <2>6, ClientGivesUp DEF Working
    <2> QED  BY <1>1, <1>2, <1>4, <2>7, CallEnds
  <1> QED  BY <1>1, <1>3, <1>4

LEMMA AnsweredReadKeeps ==
    ASSUME IInv, NEW c \in calls, CompleteReads(c), Completed(c)
    PROVE  IInv'
  <1> DEFINE status == Row(c).status
             next == Seen(client, status)
  <1>1. /\ c.kind = "complete" /\ c.stage = "sent" /\ Nearby /\ rows' = rows
        /\ Finished(c, next) /\ causes' = causes
    BY DEF CompleteReads, Nearby
  <1>2. /\ Around /\ calls' = calls \ {c}
        /\ Lost(c) \/ client' = client \/ (c.mine /\ client' = next)
    BY <1>1, Finishing
  <1>3. RowsMove /\ CommitsAreKept  BY <1>1, <1>2, RowsStill, NotCommitting
  <1>4. CASE Lost(c)  BY <1>1, <1>3, <1>4, LostKeeps
  <1>5. CASE client' = client  BY <1>2, <1>3, <1>5, CallEnds
  <1>6. CASE c.mine /\ client' = next
    <2>1. /\ client.step = "complete" /\ client \in ClientType
          /\ client.file = c.file /\ client.row = c.row
      BY <1>1, <1>6, MineIsKnown
    <2>2. c.row \in 1..Len(rows) /\ rows[c.row].file = c.file /\ status = rows[c.row].status
      BY <1>1 DEF IInv, CallsKnow, CallKnows, CallFits, RowOf, Row
    <2>3. client.polls # 0  BY <2>1 DEF IInv, ClientKnows
    <2>4. SentToVerification(rows[c.row])
      BY <2>2 DEF IInv, RowsAreHonest, RowIsHonest, Completed, Row
    <2>5. CASE status = "ACCEPTED" /\ Accepted(client', client)
      <3>1. Confirmed(rows'[client.row])  BY <1>1, <2>1, <2>2, <2>4, <2>5 DEF Confirmed
      <3>2. ClientMoves  BY <1>2, <1>3, <2>1, <2>5, <3>1, ClientIsTold
      <3> QED  BY <1>2, <1>3, <1>6, <3>2, CallEnds
    <2>6. CASE status = "REJECTED" /\ GivenUp(client', client)
      <3>1. <<c.file, "edited">> \in causes
        BY <2>2, <2>6 DEF IInv, OneVersion, RowsAreOne, Edited
      <3>2. client'.file = c.file  BY <2>1, <2>6 DEF GivenUp, SameFile
      <3>3. Excused(client.file)'  BY <1>1, <3>1, <3>2 DEF Excused
      <3>4. ClientMoves  BY <1>2, <1>3, <2>1, <2>6, <3>3, ClientGivesUp DEF Working
      <3> QED  BY <1>2, <1>3, <1>6, <3>4, CallEnds
    <2>7. CASE Polls(client', client)
      <3>1. SentToVerification(rows'[client.row])  BY <1>1, <2>1, <2>4
      <3>2. ClientMoves  BY <1>2, <1>3, <2>1, <2>7, <3>1, ClientIsTold
      <3> QED  BY <1>2, <1>3, <1>6, <3>2, CallEnds
    <2> QED  BY <1>6, <2>1, <2>3, <2>5, <2>6, <2>7, SeenTyped
  <1> QED  BY <1>2, <1>4, <1>5, <1>6

LEMMA RowSent ==
    ASSUME NEW x \in RowType, NEW m \in Nat
    PROVE  LET n == [x EXCEPT !.status = "VERIFYING", !.messages = m] IN
           /\ n \in RowType /\ n.status = "VERIFYING" /\ n.messages = m
           /\ n.file = x.file /\ n.hint = x.hint /\ n.parts = x.parts
           /\ n.object = x.object /\ n.verified = x.verified /\ (n.open <=> x.open)
  BY DEF RowType

LEMMA CommitKeeps == ASSUME IInv, NEW c \in calls, CompleteCommits(c) PROVE IInv'
  <1> DEFINE next == Seen(client, "VERIFYING")
             r == c.row
             x == rows[r]
             n == [x EXCEPT !.status = "VERIFYING", !.messages = x.messages + 1]
  <1>1. /\ c.kind = "complete" /\ c.stage = "commit" /\ Nearby /\ Finished(c, next)
        /\ rows' = [rows EXCEPT ![r].status = "VERIFYING", ![r].messages = @ + 1]
    BY DEF CompleteCommits, Nearby
  <1>2. /\ Around /\ calls' = calls \ {c}
        /\ Lost(c) \/ client' = client \/ (c.mine /\ client' = next)
    BY <1>1, Finishing
  <1>3. r \in 1..Len(rows) /\ x.file = c.file  BY <1>1 DEF IInv, CallsKnow, CallKnows, CallFits, RowOf
  <1>4. x \in RowType /\ rows \in Seq(RowType) /\ x.messages \in Nat /\ x.messages + 1 \in Nat
        /\ Len(x.parts) \in Nat
    BY <1>3, RowTyped DEF IInv, Typed
  <1>5. rows' = [rows EXCEPT ![r] = n]  BY <1>1, <1>3, <1>4
  <1>6. /\ n \in RowType /\ n.status = "VERIFYING" /\ n.messages = x.messages + 1
        /\ n.file = x.file /\ n.hint = x.hint /\ n.parts = x.parts
        /\ n.object = x.object /\ n.verified = x.verified /\ (n.open <=> x.open)
    BY <1>4, RowSent
  <1> HIDE DEF n
  <1>7. rows'[r] = n  BY <1>3, <1>4, <1>5
  <1>8. RowsMove
    <2>1. Improves(x, n)  BY <1>4, <1>6 DEF Improves
    <2>2. RowIsHonest(x)  BY <1>3 DEF IInv, RowsAreHonest
    <2>3. RowIsHonest(n)  BY <1>4, <1>6, <2>2 DEF RowIsHonest, SentToVerification
    <2>4. RowIsOne(n) \/ <<n.file, "edited">> \in causes'
      <3>1. RowIsOne(x) \/ <<x.file, "edited">> \in causes'
        BY <1>2, <1>3 DEF IInv, OneVersion, RowsAreOne, RowIsOne, Around, Edited
      <3> QED  BY <1>6, <3>1 DEF RowIsOne
    <2>5. \E d \in calls \ calls' : d.kind = "complete" /\ d.stage = "commit" /\ d.row = r
      BY <1>1, <1>2
    <2> QED  BY <1>2, <1>3, <1>5, <1>6, <2>1, <2>3, <2>4, <2>5, RowChanges
  <1>9. SentToVerification(rows'[r])  BY <1>4, <1>6, <1>7 DEF SentToVerification
  <1>10. CommitsAreKept  BY <1>2, <1>9 DEF CommitsAreKept
  <1>11. CASE Lost(c)  BY <1>1, <1>8, <1>10, <1>11, LostKeeps
  <1>12. CASE client' = client  BY <1>2, <1>8, <1>10, <1>12, CallEnds
  <1>13. CASE c.mine /\ client' = next
    <2>1. client.step = "complete" /\ client \in ClientType /\ client.row = r
      BY <1>1, <1>13, MineIsKnown
    <2>2. client.polls # 0  BY <2>1 DEF IInv, ClientKnows
    <2>3. Polls(client', client)  BY <1>13, <2>1, <2>2, SeenTyped
    <2>4. ClientMoves  BY <1>2, <1>8, <1>9, <2>1, <2>3, ClientIsTold
    <2> QED  BY <1>2, <1>8, <1>10, <1>13, <2>4, CallEnds
  <1> QED  BY <1>2, <1>11, <1>12, <1>13

\* A client that learns of an end gives up, for a cause on record.
LEMMA BlamedKeeps ==
    ASSUME IInv, NEW c \in calls, calls' = calls \ {c}, RowsMove, Around, CommitsAreKept,
           client' = client \/ (c.mine /\ client' = Failed(client)),
           c.mine => \E cause \in {"edited", "refused", "late", "halfway", "overlap"} :
                        <<c.file, cause>> \in causes'
    PROVE  IInv'
  <1>1. CASE client' = client  BY <1>1, CallEnds
  <1>2. CASE c.mine /\ client' = Failed(client)
    <2>1. client.step \in Working /\ client \in ClientType /\ client.file = c.file
      BY <1>2, MineIsKnown
    <2>2. GivenUp(client', client)  BY <1>2, <2>1, FailedGivesUp
    <2>3. client'.file = c.file  BY <2>1, <2>2 DEF GivenUp, SameFile
    <2>4. Excused(client.file)'  BY <1>2, <2>3 DEF Excused
    <2>5. ClientMoves  BY <2>1, <2>2, <2>4, ClientGivesUp
    <2> QED  BY <1>2, <2>5, CallEnds
  <1> QED  BY <1>1, <1>2

LEMMA GoneKeeps == ASSUME IInv, NEW c \in calls, ObjectIsGone(c) PROVE IInv'
  <1>1. /\ c.kind = "complete" /\ c.stage = "commit" /\ rows[c.row].object = <<>>
        /\ Nearby /\ rows' = rows /\ UNCHANGED hits /\ causes' = causes /\ calls' = calls \ {c}
        /\ client' = client \/ (c.mine /\ client' = Failed(client))
    BY DEF ObjectIsGone, Nearby, Answered, Row
  <1>2. Overlap(c.file)  BY <1>1 DEF IInv, Stored, CallsHaveObjects
  <1>3. Around /\ RowsMove  BY <1>1, FaultFree, RowsStill
  <1>4. CommitsAreKept  BY <1>1, <1>2 DEF CommitsAreKept, Overlap
  <1>5. <<c.file, "overlap">> \in causes'  BY <1>1, <1>2 DEF Overlap
  <1> QED  BY <1>1, <1>3, <1>4, <1>5, BlamedKeeps

LEMMA RefusesKeeps == ASSUME IInv, NEW c \in calls, Refuses(c) PROVE IInv'
  <1>1. /\ c.mine /\ c.stage = "sent" /\ Fault /\ Nearby /\ rows' = rows /\ calls' = calls \ {c}
        /\ client' = client \/ (c.mine /\ client' = Failed(client))
        /\ causes' = causes \cup {<<client.file, "refused">>}
    BY DEF Refuses, Nearby, Answered, Blame
  <1>2. Around /\ RowsMove /\ CommitsAreKept
    BY <1>1, FaultCounts, RowsStill, NotCommitting
  <1>3. <<c.file, "refused">> \in causes'  BY <1>1, MineIsKnown
  <1> QED  BY <1>1, <1>2, <1>3, BlamedKeeps

LEMMA DeathKeeps == ASSUME IInv, NEW c \in calls, CallDies(c) PROVE IInv'
  <1>1. Lost(c) /\ c.mine /\ Fault /\ Nearby /\ rows' = rows /\ calls' = calls \ {c}
    BY DEF CallDies, Lost, Nearby, Blame
  <1>2. Around /\ RowsMove  BY <1>1, FaultCounts, RowsStill
  <1>3. c.stage = "commit" /\ batch[c.file].multi => Halfway(c.file)'
    BY <1>1, MineIsKnown DEF CallDies, Blame, Halfway
  <1>4. CommitsAreKept  BY <1>1, <1>3 DEF CommitsAreKept
  <1> QED  BY <1>1, <1>2, <1>4, LostKeeps

LEMMA PollKeeps == ASSUME IInv, NEW c \in calls, GetUpload(c) PROVE IInv'
  <1> DEFINE status == Row(c).status
             next == Seen(client, status)
  <1>1. c.kind = "poll" /\ Nearby /\ rows' = rows /\ Finished(c, next)
    BY DEF GetUpload, Nearby
  <1>2. /\ Around /\ calls' = calls \ {c}
        /\ Lost(c) \/ client' = client \/ (c.mine /\ client' = next)
    BY <1>1, Finishing
  <1>3. RowsMove /\ CommitsAreKept  BY <1>1, <1>2, RowsStill, NotCommitting
  <1>4. CASE Lost(c)  BY <1>1, <1>3, <1>4, LostKeeps
  <1>5. CASE client' = client  BY <1>2, <1>3, <1>5, CallEnds
  <1>6. CASE c.mine /\ client' = next
    <2>1. /\ client.step = "poll" /\ client \in ClientType
          /\ client.file = c.file /\ client.row = c.row
      BY <1>1, <1>6, MineIsKnown
    <2>2. c.row \in 1..Len(rows) /\ rows[c.row].file = c.file /\ status = rows[c.row].status
      BY <1>1 DEF IInv, CallsKnow, CallKnows, CallFits, RowOf, Row
    <2>3. SentToVerification(rows[c.row])  BY <2>1 DEF IInv, ClientKnows
    <2>4. status \in {"VERIFYING", "ACCEPTED", "REJECTED"}
      <3>1. rows[c.row] \in RowType  BY <2>2, RowTyped DEF IInv
      <3> QED  BY <2>2, <2>3, <3>1, RowFields DEF IInv, RowsAreHonest, RowIsHonest
    <2>5. CASE Polls(client', client) \/ (status = "ACCEPTED" /\ Accepted(client', client))
      <3>1. /\ SentToVerification(rows'[client.row])
            /\ status = "ACCEPTED" => Confirmed(rows'[client.row])
        BY <1>1, <2>1, <2>2, <2>3 DEF Confirmed
      <3>2. ClientMoves  BY <1>2, <1>3, <2>1, <2>5, <3>1, ClientIsTold
      <3> QED  BY <1>2, <1>3, <1>6, <3>2, CallEnds
    <2>6. CASE GivenUp(client', client) /\ status # "ACCEPTED"
      <3>1. client'.file = c.file /\ client'.step = "record"
        BY <2>1, <2>6 DEF GivenUp, SameFile
      <3>2. ASSUME status = "REJECTED" PROVE Excused(client.file)'
        <4>1. <<c.file, "edited">> \in causes'
          BY <1>2, <2>2, <3>2 DEF IInv, OneVersion, RowsAreOne, Edited, Around
        <4> QED  BY <3>1, <4>1 DEF Excused
      <3>3. ASSUME status = "VERIFYING" PROVE Excused(client.file)'
        <4>1. <<c.file, "late">> \in causes'  BY <2>1, <3>1, <3>3 DEF GetUpload
        <4> QED  BY <3>1, <4>1 DEF Excused
      <3>4. Excused(client.file)'  BY <2>4, <2>6, <3>2, <3>3
      <3>5. ClientMoves  BY <1>2, <1>3, <2>1, <2>6, <3>4, ClientGivesUp DEF Working
      <3> QED  BY <1>2, <1>3, <1>6, <3>5, CallEnds
    <2> QED  BY <1>6, <2>1, <2>5, <2>6, SeenTyped
  <1> QED  BY <1>2, <1>4, <1>5, <1>6

\* A store that cannot put the parts together was given others, or was there before.
LEMMA RefusedAssembly ==
    ASSUME IInv, NEW c \in calls, c.kind = "complete", c.stage = "assemble",
           ~ (Row(c).open /\ Row(c).parts = c.etags)
    PROVE  Overlap(c.file) \/ Halfway(c.file) \/ Edited(c.file)
  <1> SUFFICES ASSUME ~ Overlap(c.file), ~ Halfway(c.file), ~ Edited(c.file) PROVE FALSE
    OBVIOUS
  <1> DEFINE r == c.row
             x == rows[r]
  <1>1. /\ r \in 1..Len(rows) /\ x.file = c.file /\ x = Row(c) /\ batch[c.file].multi
        /\ Len(c.etags) = batch[c.file].parts /\ Len(x.parts) = batch[c.file].parts
    BY DEF IInv, CallsKnow, CallKnows, CallFits, RowOf, Row
  <1>2. ~ SentToVerification(x)  BY DEF IInv, OneComplete
  <1>3. x.open
    <2> SUFFICES ASSUME ~ x.open PROVE FALSE  OBVIOUS
    <2>1. PICK d \in calls : /\ d.kind = "complete" /\ d.stage = "commit" /\ d.row = r
                             /\ d.file = x.file
      BY <1>1, <1>2 DEF IInv, Stored, OpenOrSent
    <2>2. d = c  BY <1>1, <2>1 DEF IInv, OneComplete
    <2> QED  BY <2>1, <2>2
  <1>4. x.parts \in Seq(Nat) /\ c.etags \in Seq(Nat)
    BY <1>1, RowTyped, RowFields, CallTyped DEF IInv
  <1>5. Zeros(x.parts) /\ Zeros(c.etags)
    BY <1>1 DEF IInv, OneVersion, RowsAreOne, CallsAreOne
  <1>6. \A s, t \in Seq(Nat) : Len(s) = Len(t) /\ Zeros(s) /\ Zeros(t) => s = t
    BY DEF Zeros
  <1> QED  BY <1>1, <1>3, <1>4, <1>5, <1>6

LEMMA RefusedAssemblyKeeps ==
    ASSUME IInv, NEW c \in calls, Assemble(c), ~ (Row(c).open /\ Row(c).parts = c.etags)
    PROVE  IInv'
  <1>1. /\ c.kind = "complete" /\ c.stage = "assemble" /\ Nearby /\ rows' = rows
        /\ UNCHANGED hits /\ causes' = causes /\ calls' = calls \ {c}
        /\ client' = client \/ (c.mine /\ client' = Retried(client))
    BY DEF Assemble, Nearby, Answered
  <1>2. Around /\ RowsMove /\ CommitsAreKept  BY <1>1, FaultFree, RowsStill, NotCommitting
  <1>3. CASE client' = client  BY <1>1, <1>2, <1>3, CallEnds
  <1>4. CASE c.mine /\ client' = Retried(client)
    <2>1. client.step \in Working /\ client \in ClientType /\ client.file = c.file
      BY <1>4, MineIsKnown
    <2>2. Again(client', client) \/ GivenUp(client', client)  BY <1>4, <2>1, RetriedTyped
    <2>3. client'.file = c.file  BY <2>1, <2>2 DEF Again, GivenUp, SameFile
    <2>4. Excused(client.file)'
      BY <1>1, <2>3, RefusedAssembly DEF Excused, Overlap, Halfway, Edited
    <2>5. ClientMoves
      BY <1>2, <2>1, <2>2, <2>4, ClientTriesAgain, ClientGivesUp
    <2> QED  BY <1>1, <1>2, <1>4, <2>5, CallEnds
  <1> QED  BY <1>1, <1>3, <1>4
-----------------------------------------------------------------------------
(* A call goes on                                                          *)

LEMMA StageTyped ==
    ASSUME NEW c \in CallType, NEW s \in {"assemble", "commit"}
    PROVE  LET e == [c EXCEPT !.stage = s] IN
           /\ e \in CallType /\ SameRequest(e, c) /\ e.stage = s /\ (e.mine <=> c.mine)
  BY DEF CallType, SameRequest

\* What complete knows when it has read the row, or put its parts together.
LEMMA GoesKeeps ==
    ASSUME IInv, NEW c \in calls, NEW s \in {"assemble", "commit"},
           c.kind = "complete", c.stage # "commit", c.stage # s,
           s = "assemble" => batch[c.file].multi,
           Goes(c, s), UNCHANGED <<batch, disk, client, receipt, hits, causes>>, RowsImprove,
           ~ Overlap(c.file) =>
               /\ \A r \in 1..Len(rows) : rows[r].file = c.file => rows'[r].messages = rows[r].messages
               /\ ~ SentToVerification(rows[c.row])
               /\ s = "commit" => rows'[c.row].object # <<>>,
           \A r \in 1..Len(rows') : r > Len(rows) => rows'[r].open,
           \A r \in 1..Len(rows) :
               (rows'[r].open <=> rows[r].open) \/ (s = "commit" /\ r = c.row)
    PROVE  IInv'
  <1> DEFINE e == [c EXCEPT !.stage = s]
  <1>1. c \in CallType  BY CallTyped DEF IInv
  <1>2. /\ e \in CallType /\ SameRequest(e, c) /\ e.stage = s /\ (e.mine <=> c.mine)
    BY <1>1, StageTyped
  <1>3. calls' = (calls \ {c}) \cup {e}  BY DEF Goes
  <1> HIDE DEF e
  <1>4. Nearby /\ Around  BY FaultFree DEF Nearby
  <1>5. ClientMoves  BY <1>4, ClientStays
  <1>6. CallsFollow
    BY <1>2, <1>3 DEF CallsFollow, SameRequest, IInv, Typed
  <1>7. CallsKnow'
    <2>1. client'.file \in Nat /\ client.file <= client'.file  BY ClientTyped DEF IInv
    <2>2. \A d \in calls : CallKnows(d)'
      <3>1. \A d \in calls : CallFits(d)' /\ CallKnows(d)
        BY <2>1, CallKept DEF IInv, CallsKnow
      <3> QED  BY <3>1 DEF CallKnows
    <2>3. CallKnows(e)'
      <3>1. CallKnows(c)'  BY <2>2
      <3> QED  BY <1>2, <3>1 DEF CallKnows, CallFits, SameRequest
    <2>4. \A d, g \in calls' : d.mine /\ g.mine => d = g
      BY <1>2, <1>3 DEF IInv, CallsKnow
    <2> QED  BY <1>3, <2>2, <2>3, <2>4 DEF CallsKnow
  <1>8. OneComplete'
    <2>1. ASSUME NEW d \in calls', NEW g \in calls', d.kind = "complete", g.kind = "complete",
                 d.file = g.file, ~ Overlap(d.file)
          PROVE  d = g
      <3>1. ASSUME NEW h \in calls \ {c}, h.kind = "complete", h.file = c.file, ~ Overlap(h.file)
            PROVE  FALSE
        BY <3>1 DEF IInv, OneComplete
      <3>2. e.kind = "complete" /\ e.file = c.file  BY <1>2 DEF SameRequest
      <3>3. CASE d = e \/ g = e  BY <1>3, <2>1, <3>1, <3>2, <3>3
      <3>4. CASE d # e /\ g # e  BY <1>3, <2>1, <3>4 DEF IInv, OneComplete
      <3> QED  BY <3>3, <3>4
    <2>2. ASSUME NEW d \in calls, d.kind = "complete", ~ Overlap(d.file), d.row = c.row,
                 d.stage # "sent" \/ d = c
          PROVE  ~ SentToVerification(rows'[d.row])
      <3>1. d.row \in 1..Len(rows) /\ rows[d.row].file = d.file /\ rows[d.row].file = c.file
        BY <2>2 DEF IInv, CallsKnow, CallKnows, CallFits, RowOf
      <3> QED  BY <2>2, <3>1 DEF SentToVerification
    <2>3. ASSUME NEW d \in calls, d.kind = "complete", ~ Overlap(d.file), d.row # c.row,
                 d.stage # "sent"
          PROVE  ~ SentToVerification(rows'[d.row])
      <3>1. d.row \in 1..Len(rows) /\ rows[d.row].file = d.file
        BY <2>3 DEF IInv, CallsKnow, CallKnows, CallFits, RowOf
      <3>2. d.row \in 1..Len(rows')  BY <3>1, GrowKeeps DEF IInv, RowsImprove
      <3>3. ~ SentToVerification(rows[d.row])  BY <2>3 DEF IInv, OneComplete
      <3>4. c.row # d.row /\ \A h \in calls \ calls' : h = c  BY <1>3, <2>3
      <3> QED  BY <3>2, <3>3, <3>4, SentBefore
    <2>4. ASSUME NEW d \in calls', d.kind = "complete", ~ Overlap(d.file)
          PROVE  /\ d.mine \/ client.step = "dead"
                 /\ d.stage # "sent" => ~ SentToVerification(rows'[d.row])
      <3>1. CASE d = e
        <4>1. /\ c.mine \/ client.step = "dead"
              /\ ~ Overlap(c.file) /\ e.row = c.row
          BY <1>2, <2>4, <3>1 DEF IInv, OneComplete, SameRequest
        <4>2. ~ SentToVerification(rows'[c.row])  BY <2>2, <4>1
        <4> QED  BY <1>2, <3>1, <4>1, <4>2
      <3>2. CASE d # e
        <4>1. d \in calls  BY <1>3, <3>2
        <4>2. CASE d.row = c.row  BY <2>2, <2>4, <4>1, <4>2 DEF IInv, OneComplete
        <4>3. CASE d.row # c.row  BY <2>3, <2>4, <4>1, <4>3 DEF IInv, OneComplete
        <4> QED  BY <4>2, <4>3
      <3> QED  BY <3>1, <3>2
    <2>5. ASSUME NEW r \in 1..Len(rows'), ~ Overlap(rows'[r].file)
          PROVE  rows'[r].messages <= 1
      <3>1. CASE r > Len(rows)  BY <3>1 DEF RowsImprove
      <3>2. CASE ~ (r > Len(rows))
        <4>1. r \in 1..Len(rows)  BY <3>2 DEF IInv, Typed, RowsImprove, RowsGrow
        <4>2. rows'[r].file = rows[r].file /\ rows[r].messages <= 1
          BY <2>5, <4>1 DEF IInv, OneComplete, RowsImprove, RowsGrow, Improves
        <4>3. rows'[r].messages = rows[r].messages
          <5>1. \A h \in calls \ calls' : h = c  BY <1>3
          <5> QED  BY <4>1, <5>1 DEF RowsImprove
        <4> QED  BY <4>2, <4>3
      <3> QED  BY <3>1, <3>2
    <2> QED  BY <2>1, <2>4, <2>5 DEF OneComplete, Overlap
  <1>9. Stored'
    <2>1. OpenOrSent'
      <3> SUFFICES ASSUME NEW r \in 1..Len(rows'), ~ rows'[r].open, batch[rows'[r].file].multi,
                          ~ Overlap(rows'[r].file), ~ Halfway(rows'[r].file),
                          ~ SentToVerification(rows'[r])
                   PROVE  \E d \in calls' : /\ d.kind = "complete" /\ d.stage = "commit"
                                            /\ d.row = r /\ d.file = rows'[r].file
        BY DEF OpenOrSent, Overlap, Halfway
      <3>1. r \in 1..Len(rows)  BY DEF IInv, Typed, RowsImprove, RowsGrow
      <3>2. rows'[r].file = rows[r].file  BY <3>1 DEF RowsImprove, RowsGrow, Improves
      <3>3. CASE r = c.row /\ s = "commit"
        <4>1. rows[r].file = c.file  BY <3>3 DEF IInv, CallsKnow, CallKnows, CallFits, RowOf
        <4> QED  BY <1>2, <1>3, <3>2, <3>3, <4>1 DEF SameRequest
      <3>4. CASE ~ (r = c.row /\ s = "commit")
        <4>1. ~ rows[r].open /\ ~ SentToVerification(rows[r])
          BY <3>1, <3>4, GrowKeeps DEF IInv, RowsImprove
        <4>2. PICK d \in calls : /\ d.kind = "complete" /\ d.stage = "commit"
                                 /\ d.row = r /\ d.file = rows[r].file
          BY <3>1, <3>2, <4>1 DEF IInv, Stored, OpenOrSent
        <4> QED  BY <1>3, <3>2, <4>2
      <3> QED  BY <3>3, <3>4
    <2>2. ASSUME NEW d \in calls', d.kind = "complete", ~ Overlap(d.file)
          PROVE  /\ ~ batch[d.file].multi /\ ~ SentToVerification(rows'[d.row])
                      => rows'[d.row].object # <<>>
                 /\ d.stage = "commit" => rows'[d.row].object # <<>>
      <3>1. ASSUME NEW g \in calls, g.kind = "complete", ~ Overlap(g.file)
            PROVE  /\ ~ batch[g.file].multi /\ ~ SentToVerification(rows'[g.row])
                        => rows'[g.row].object # <<>>
                   /\ g.stage = "commit" => rows'[g.row].object # <<>>
        <4>1. RowOf(g.row, g.file)  BY <3>1 DEF IInv, CallsKnow, CallKnows, CallFits
        <4>2. g.row \in 1..Len(rows)  BY <4>1 DEF RowOf
        <4>3. SentToVerification(rows[g.row]) => SentToVerification(rows'[g.row])
          BY <4>2, GrowKeeps DEF IInv, RowsImprove
        <4>4. g.stage = "commit" => ~ SentToVerification(rows[g.row])
          BY <3>1 DEF IInv, OneComplete
        <4>5. /\ ~ batch[g.file].multi /\ ~ SentToVerification(rows[g.row])
                   => rows[g.row].object # <<>>
              /\ g.stage = "commit" => rows[g.row].object # <<>>
          BY <3>1 DEF IInv, Stored, CallsHaveObjects
        <4>6. rows[g.row].object # <<>> /\ ~ SentToVerification(rows[g.row])
                => rows'[g.row].object # <<>>
          BY <4>2 DEF RowsImprove
        <4> QED  BY <4>3, <4>4, <4>5, <4>6
      <3>2. CASE d = e  BY <1>2, <2>2, <3>1, <3>2 DEF SameRequest
      <3>3. CASE d # e  BY <1>3, <2>2, <3>1, <3>3
      <3> QED  BY <3>2, <3>3
    <2>3. CallsHaveObjects'  BY <2>2 DEF CallsHaveObjects, Overlap
    <2> QED  BY <1>5, <2>1, <2>3 DEF Stored, ClientMoves
  <1> QED  BY <1>4, <1>5, <1>6, <1>7, <1>8, <1>9, StepKeeps

LEMMA ReadKeeps ==
    ASSUME IInv, NEW c \in calls, CompleteReads(c), ~ Completed(c)
    PROVE  IInv'
  <1> DEFINE s == IF batch[c.file].multi THEN "assemble" ELSE "commit"
  <1>1. /\ c.kind = "complete" /\ c.stage = "sent" /\ Goes(c, s)
        /\ UNCHANGED <<batch, disk, client, receipt, hits, causes>> /\ rows' = rows
    BY DEF CompleteReads
  <1>2. s \in {"assemble", "commit"} /\ (s = "assemble" => batch[c.file].multi)  OBVIOUS
  <1>3. RowsMove  BY <1>1, FaultFree, RowsStill DEF Nearby
  <1>4. c.row \in 1..Len(rows) /\ rows[c.row].file = c.file
    BY <1>1 DEF IInv, CallsKnow, CallKnows, CallFits, RowOf
  <1>5. ~ SentToVerification(rows[c.row])
    <2>1. rows[c.row] \in RowType  BY <1>4, RowTyped DEF IInv
    <2>2. rows[c.row].status = "INITIALIZED"  BY <1>4, <2>1, RowFields DEF Completed, Row
    <2> QED  BY <1>4, <2>2 DEF IInv, RowsAreHonest, RowIsHonest
  <1>6. ~ Overlap(c.file) => (s = "commit" => rows'[c.row].object # <<>>)
    BY <1>1, <1>5 DEF IInv, Stored, CallsHaveObjects
  <1>7. /\ \A r \in 1..Len(rows') : r > Len(rows) => rows'[r].open
        /\ \A r \in 1..Len(rows) : rows'[r].open <=> rows[r].open
        /\ \A r \in 1..Len(rows) : rows'[r].messages = rows[r].messages
    BY <1>1 DEF IInv, Typed
  <1> HIDE DEF s
  <1> QED  BY <1>1, <1>2, <1>3, <1>5, <1>6, <1>7, GoesKeeps DEF RowsMove

LEMMA RowAssembled ==
    ASSUME NEW x \in RowType, NEW s \in Seq(Nat)
    PROVE  LET n == [x EXCEPT !.open = FALSE, !.object = s] IN
           /\ n \in RowType /\ ~ n.open /\ n.object = s
           /\ n.file = x.file /\ n.hint = x.hint /\ n.parts = x.parts
           /\ n.status = x.status /\ n.messages = x.messages /\ n.verified = x.verified
  BY DEF RowType

LEMMA AssemblyKeeps ==
    ASSUME IInv, NEW c \in calls, Assemble(c), Row(c).open /\ Row(c).parts = c.etags
    PROVE  IInv'
  <1> DEFINE r == c.row
             x == rows[r]
             n == [x EXCEPT !.open = FALSE, !.object = c.etags]
  <1>1. /\ c.kind = "complete" /\ c.stage = "assemble" /\ Goes(c, "commit")
        /\ UNCHANGED <<batch, disk, client, receipt, hits, causes>>
        /\ rows' = [rows EXCEPT ![r].open = FALSE, ![r].object = c.etags]
    BY DEF Assemble
  <1>2. /\ r \in 1..Len(rows) /\ x.file = c.file /\ x.parts = c.etags
        /\ Len(c.etags) = batch[c.file].parts /\ batch[c.file].multi
    BY <1>1 DEF IInv, CallsKnow, CallKnows, CallFits, RowOf, Row
  <1>3. /\ x \in RowType /\ rows \in Seq(RowType) /\ Len(rows) \in Nat /\ c.etags \in Seq(Nat)
        /\ x.messages \in Nat /\ Len(x.parts) \in Nat
    BY <1>2, RowTyped, CallTyped DEF IInv, Typed
  <1>4. rows' = [rows EXCEPT ![r] = n]  BY <1>1, <1>2, <1>3
  <1>5. /\ n \in RowType /\ ~ n.open /\ n.object = c.etags
        /\ n.file = x.file /\ n.hint = x.hint /\ n.parts = x.parts
        /\ n.status = x.status /\ n.messages = x.messages /\ n.verified = x.verified
    BY <1>3, RowAssembled
  <1> HIDE DEF n
  <1>6. /\ rows' \in Seq(RowType) /\ Len(rows') = Len(rows) /\ rows'[r] = n
        /\ \A t \in 1..Len(rows) : t # r => rows'[t] = rows[t]
        /\ \A t \in 1..Len(rows') : ~ (t > Len(rows))
    BY <1>2, <1>3, <1>4, <1>5
  <1>7. c.etags # <<>>
    <2>1. batch[c.file].parts > 0  BY CallFile
    <2> QED  BY <1>2, <2>1
  <1>8. RowsImprove
    <2>1. \A t \in 1..Len(rows) : Improves(rows[t], rows'[t])
      <3>1. ASSUME NEW t \in 1..Len(rows) PROVE Improves(rows[t], rows[t])
        <4>1. rows[t].messages \in Nat /\ Len(rows[t].parts) \in Nat  BY RowTyped DEF IInv
        <4> QED  BY <4>1 DEF Improves
      <3>2. Improves(x, n)  BY <1>3, <1>5 DEF Improves
      <3> QED  BY <1>6, <3>1, <3>2
    <2>2. RowsGrow  BY <1>3, <1>6, <2>1 DEF RowsGrow
    <2>3. RowsAreHonest'
      <3>1. RowIsHonest(x)  BY <1>2 DEF IInv, RowsAreHonest
      <3>2. RowIsHonest(n)
        BY <1>2, <1>5, <3>1 DEF RowIsHonest, SentToVerification
      <3>3. \A t \in 1..Len(rows) : RowIsHonest(rows'[t])
        BY <1>6, <3>2 DEF IInv, RowsAreHonest
      <3>4. batch' = batch /\ Len(rows') = Len(rows)  BY <1>1, <1>6
      <3> QED  BY <3>3, <3>4 DEF RowsAreHonest, RowIsHonest, Files
    <2>4. RowsAreOne'
      <3>1. \A t \in 1..Len(rows) : RowIsOne(rows[t]) \/ Edited(rows[t].file)
        BY DEF IInv, OneVersion, RowsAreOne, RowIsOne
      <3>2. RowIsOne(n) \/ Edited(n.file)  BY <1>2, <1>5, <3>1 DEF RowIsOne
      <3>3. \A t \in 1..Len(rows) : RowIsOne(rows'[t]) \/ Edited(rows'[t].file)
        BY <1>6, <3>1, <3>2
      <3> QED  BY <1>1, <1>6, <3>3 DEF RowsAreOne, RowIsOne, Edited
    <2>5. ASSUME NEW t \in 1..Len(rows)
          PROVE  /\ rows[t].object # <<>> => rows'[t].object # <<>>
                 /\ rows'[t].messages = rows[t].messages
      <3>1. CASE t = r  BY <1>5, <1>6, <1>7, <3>1
      <3>2. CASE t # r  BY <1>6, <3>2
      <3> QED  BY <3>1, <3>2
    <2> QED  BY <1>6, <2>2, <2>3, <2>4, <2>5 DEF RowsImprove
  <1>9. ~ Overlap(c.file) => ~ SentToVerification(x)  BY <1>1 DEF IInv, OneComplete
  <1>10. \A t \in 1..Len(rows) : rows'[t].messages = rows[t].messages  BY <1>5, <1>6
  <1>11. rows'[r].object # <<>>  BY <1>5, <1>6, <1>7
  <1>12. \A t \in 1..Len(rows) : (rows'[t].open <=> rows[t].open) \/ t = r  BY <1>6
  <1>13. "commit" \in {"assemble", "commit"}  OBVIOUS
  <1> QED  BY <1>1, <1>6, <1>8, <1>9, <1>10, <1>11, <1>12, <1>13, GoesKeeps
-----------------------------------------------------------------------------
(* The client lets go of a call, or of all                                 *)

LEMMA NotMineTyped ==
    ASSUME NEW c \in CallType
    PROVE  LET e == [c EXCEPT !.mine = FALSE] IN
           e \in CallType /\ SameRequest(e, c) /\ e.stage = c.stage /\ ~ e.mine
  BY DEF CallType, SameRequest

LEMMA TimeOutKeeps == ASSUME IInv, NEW c \in calls, TimesOut(c) PROVE IInv'
  <1> DEFINE e == [c EXCEPT !.mine = FALSE]
  <1>1. /\ c.mine /\ Fault /\ Nearby /\ rows' = rows /\ client' = Retried(client)
        /\ calls' = (calls \ {c}) \cup {e}
    BY DEF TimesOut, Nearby, Blame
  <1>2. c.kind = "complete" => <<c.file, "overlap">> \in causes'
    BY <1>1, MineIsKnown DEF TimesOut, Blame
  <1>3. c \in CallType  BY CallTyped DEF IInv
  <1>4. e \in CallType /\ SameRequest(e, c) /\ e.stage = c.stage /\ ~ e.mine
    BY <1>3, NotMineTyped
  <1> HIDE DEF e
  <1>5. /\ Around /\ RowsMove /\ RowsImprove /\ client.step \in Working
        /\ hits'[client.file] = hits[client.file] + 1
    BY <1>1, FaultCounts, RowsStill, MineIsKnown DEF RowsMove
  <1>6. ClientMoves  BY <1>1, <1>5, RetryMoves
  <1>7. CallsFollow  BY <1>1, <1>4 DEF CallsFollow, SameRequest, IInv, Typed
  <1>8. \A d \in calls' : ~ d.mine  BY <1>1, <1>4 DEF IInv, CallsKnow
  <1>9. CallsKnow'
    <2>1. client'.file \in Nat /\ client.file <= client'.file /\ batch' = batch
      BY <1>5, <1>6, ClientTyped DEF IInv, ClientMoves, Around
    <2>2. \A d \in calls : CallFits(d)'  BY <1>5, <2>1, CallKept
    <2>3. CallFits(e)'
      <3>1. CallFits(c)'  BY <2>2
      <3> QED  BY <1>4, <3>1 DEF CallFits, SameRequest
    <2>4. \A d \in calls' : CallFits(d)'  BY <1>1, <2>2, <2>3
    <2> QED  BY <1>8, <2>4 DEF CallsKnow, CallKnows
  <1>10. ASSUME NEW d \in calls', d.kind = "complete", <<d.file, "overlap">> \notin causes'
         PROVE  d \in calls /\ ~ Overlap(d.file) /\ d # c
    <2>1. d # e  BY <1>2, <1>4, <1>10 DEF SameRequest
    <2> QED  BY <1>1, <1>5, <1>10, <2>1 DEF Overlap, Around
  <1>11. OneComplete'
    <2>1. ASSUME NEW d \in calls', NEW g \in calls', d.kind = "complete", g.kind = "complete",
                 d.file = g.file, <<d.file, "overlap">> \notin causes'
          PROVE  d = g
      <3>1. d \in calls /\ ~ Overlap(d.file) /\ g \in calls  BY <1>10, <2>1
      <3> QED  BY <2>1, <3>1 DEF IInv, OneComplete
    <2>2. ASSUME NEW d \in calls', d.kind = "complete", <<d.file, "overlap">> \notin causes'
          PROVE  /\ d.mine \/ client'.step = "dead"
                 /\ d.stage # "sent" => ~ SentToVerification(rows'[d.row])
      <3>1. d \in calls /\ ~ Overlap(d.file) /\ d # c  BY <1>10, <2>2
      <3>2. d.mine \/ client.step = "dead"  BY <2>2, <3>1 DEF IInv, OneComplete
      <3>3. client.step # "dead"  BY <1>5 DEF Working
      <3>4. d = c  BY <1>1, <3>1, <3>2, <3>3 DEF IInv, CallsKnow
      <3> QED  BY <3>1, <3>4
    <2>3. \A r \in 1..Len(rows) : <<rows[r].file, "overlap">> \notin causes' => rows[r].messages <= 1
      BY <1>5 DEF IInv, OneComplete, Overlap, Around
    <2> QED  BY <1>1, <2>1, <2>2, <2>3 DEF OneComplete, Overlap
  <1>12. Stored'
    <2>1. OpenOrSent'
      <3> SUFFICES ASSUME NEW r \in 1..Len(rows), ~ rows[r].open, batch[rows[r].file].multi,
                          <<rows[r].file, "overlap">> \notin causes',
                          <<rows[r].file, "halfway">> \notin causes',
                          ~ SentToVerification(rows[r])
                   PROVE  \E d \in calls' : /\ d.kind = "complete" /\ d.stage = "commit"
                                            /\ d.row = r /\ d.file = rows[r].file
        BY <1>1, <1>5 DEF OpenOrSent, Overlap, Halfway, Around
      <3>1. ~ Overlap(rows[r].file) /\ ~ Halfway(rows[r].file)
        BY <1>5 DEF Overlap, Halfway, Around
      <3>2. PICK d \in calls : /\ d.kind = "complete" /\ d.stage = "commit"
                               /\ d.row = r /\ d.file = rows[r].file
        BY <3>1 DEF IInv, Stored, OpenOrSent
      <3>3. d # c  BY <1>2, <3>2
      <3> QED  BY <1>1, <3>2, <3>3
    <2>2. \A d \in calls' : d.kind = "complete" /\ <<d.file, "overlap">> \notin causes' =>
               /\ ~ batch[d.file].multi /\ ~ SentToVerification(rows[d.row])
                    => rows[d.row].object # <<>>
               /\ d.stage = "commit" => rows[d.row].object # <<>>
      BY <1>10 DEF IInv, Stored, CallsHaveObjects
    <2>3. CallsHaveObjects'  BY <1>1, <1>5, <2>2 DEF CallsHaveObjects, Overlap, Around
    <2> QED  BY <1>6, <2>1, <2>3 DEF Stored, ClientMoves
  <1> QED  BY <1>5, <1>6, <1>7, <1>9, <1>11, <1>12, StepKeeps

LEMMA ClientDeathKeeps == ASSUME IInv, ClientDies PROVE IInv'
  <1> DEFINE e(c) == [c EXCEPT !.mine = FALSE]
  <1>1. /\ client.step \notin {"done", "dead"} /\ Fault /\ Nearby /\ rows' = rows
        /\ client' = To(client, "dead") /\ calls' = {e(c) : c \in calls} /\ causes' = causes
        /\ batch' = batch
    BY DEF ClientDies, Nearby
  <1>2. \A c \in calls : /\ e(c) \in CallType /\ SameRequest(e(c), c)
                         /\ e(c).stage = c.stage /\ ~ e(c).mine
    BY NotMineTyped, CallTyped DEF IInv
  <1>3. \A c, d \in calls : e(c) = e(d) \/ e(c) # e(d)  OBVIOUS
  <1> HIDE DEF e
  <1>4. Around /\ RowsMove /\ RowsImprove
    BY <1>1, FaultCounts, RowsStill DEF RowsMove
  <1>5. ClientMoves
    <2>1. "dead" \in {"resolve", "hash", "aborted", "dead"}  OBVIOUS
    <2> QED  BY <1>1, <1>4, <2>1, ClientTurns
  <1>6. client'.step = "dead"
    <2>1. "dead" \in Steps /\ client \in ClientType  BY DEF Steps, IInv, Typed
    <2> QED  BY <1>1, <2>1, ToTyped
  <1>7. \A d \in calls' : \E c \in calls : d = e(c)  BY <1>1
  <1>8. CallsFollow  BY <1>2, <1>7 DEF CallsFollow
  <1>9. CallsKnow'
    <2>1. client'.file \in Nat /\ client.file <= client'.file
      BY <1>5, ClientTyped DEF IInv, ClientMoves
    <2>2. \A c \in calls : CallFits(c)'  BY <1>1, <1>4, <2>1, CallKept
    <2>3. ASSUME NEW c \in calls PROVE CallFits(e(c))'
      <3>1. CallFits(c)'  BY <2>2
      <3>2. \A d : SameRequest(d, c) /\ d.stage = c.stage => CallFits(d)'
        BY <3>1 DEF CallFits, SameRequest
      <3> QED  BY <1>2, <3>2
    <2>4. \A d \in calls' : CallFits(d)' /\ ~ d.mine  BY <1>2, <1>7, <2>3
    <2> QED  BY <2>4 DEF CallsKnow, CallKnows
  <1>10. OneComplete'
    <2>1. ASSUME NEW d \in calls', NEW g \in calls', d.kind = "complete", g.kind = "complete",
                 d.file = g.file, ~ Overlap(d.file)
          PROVE  d = g
      <3>1. PICK c \in calls : d = e(c)  BY <1>7
      <3>2. PICK h \in calls : g = e(h)  BY <1>7
      <3>3. c = h  BY <1>2, <2>1, <3>1, <3>2 DEF IInv, OneComplete, SameRequest
      <3> QED  BY <3>1, <3>2, <3>3
    <2>2. ASSUME NEW d \in calls', d.kind = "complete", d.stage # "sent", ~ Overlap(d.file)
          PROVE  ~ SentToVerification(rows[d.row])
      <3>1. PICK c \in calls : d = e(c)  BY <1>7
      <3> QED  BY <1>2, <2>2, <3>1 DEF IInv, OneComplete, SameRequest
    <2>3. \A r \in 1..Len(rows) : ~ Overlap(rows[r].file) => rows[r].messages <= 1
      BY DEF IInv, OneComplete
    <2> QED  BY <1>1, <1>6, <2>1, <2>2, <2>3 DEF OneComplete, Overlap
  <1>11. Stored'
    <2>1. ASSUME NEW r \in 1..Len(rows), ~ rows[r].open, batch[rows[r].file].multi,
                 ~ Overlap(rows[r].file), ~ Halfway(rows[r].file), ~ SentToVerification(rows[r])
          PROVE  \E d \in calls' : /\ d.kind = "complete" /\ d.stage = "commit"
                                   /\ d.row = r /\ d.file = rows[r].file
      <3>1. PICK c \in calls : /\ c.kind = "complete" /\ c.stage = "commit"
                               /\ c.row = r /\ c.file = rows[r].file
        BY <2>1 DEF IInv, Stored, OpenOrSent
      <3>2. e(c) \in calls'  BY <1>1
      <3> QED  BY <1>2, <3>1, <3>2 DEF SameRequest
    <2>2. OpenOrSent'  BY <1>1, <2>1 DEF OpenOrSent, Overlap, Halfway
    <2>3. ASSUME NEW d \in calls', d.kind = "complete", ~ Overlap(d.file)
          PROVE  /\ ~ batch[d.file].multi /\ ~ SentToVerification(rows[d.row])
                      => rows[d.row].object # <<>>
                 /\ d.stage = "commit" => rows[d.row].object # <<>>
      <3>1. PICK c \in calls : d = e(c)  BY <1>7
      <3> QED  BY <1>2, <2>3, <3>1 DEF IInv, Stored, CallsHaveObjects, SameRequest
    <2>4. CallsHaveObjects'  BY <1>1, <2>3 DEF CallsHaveObjects, Overlap
    <2> QED  BY <1>5, <2>2, <2>4 DEF Stored, ClientMoves
  <1> QED  BY <1>4, <1>5, <1>8, <1>9, <1>10, <1>11, StepKeeps
-----------------------------------------------------------------------------
(* Steps of the client, the worker and whoever writes to a file            *)

\* Between requests nobody waits for the client's.
LEMMA AloneKeeps ==
    ASSUME IInv, calls' = calls, client.step \notin Working, RowsMove, Around, ClientMoves
    PROVE  IInv'
  <1>1. \A d \in calls' : ~ d.mine  BY MineIsKnown
  <1>2. CommitsAreKept /\ calls' \subseteq calls  BY DEF CommitsAreKept
  <1> QED  BY <1>1, <1>2, EndKeeps

LEMMA StartKeeps == ASSUME IInv, Start PROVE IInv'
  <1>1. /\ client.step = "start" /\ Nearby /\ rows' = rows /\ calls' = calls /\ UNCHANGED hits
        /\ \E s \in {"aborted", "hash", "resolve"} : client' = To(client, s)
    BY DEF Start, Nearby
  <1>2. Around /\ RowsMove  BY <1>1, FaultFree, RowsStill
  <1>3. PICK s \in {"aborted", "hash", "resolve"} : client' = To(client, s)  BY <1>1
  <1>4. client.step \notin {"done", "dead"} /\ client.step \notin Late /\ client.step \notin Working
    BY <1>1 DEF Late, Working
  <1>5. s \in {"resolve", "hash", "aborted", "dead"}  BY <1>3
  <1>6. ClientMoves  BY <1>2, <1>3, <1>4, <1>5, ClientTurns
  <1> QED  BY <1>1, <1>2, <1>4, <1>6, AloneKeeps

LEMMA FailsKeeps == ASSUME IInv, RecordFails PROVE IInv'
  <1>1. /\ client.step \in {"record", "hash"} /\ Fault /\ Nearby /\ rows' = rows /\ calls' = calls
        /\ client' = To(client, "aborted")
    BY DEF RecordFails, Nearby
  <1>2. Around /\ RowsMove  BY <1>1, FaultCounts, RowsStill
  <1>3. client.step \notin {"done", "dead"} /\ client.step \notin Working
    BY <1>1 DEF Working
  <1>4. "aborted" \in {"resolve", "hash", "aborted", "dead"}  OBVIOUS
  <1>5. ClientMoves  BY <1>1, <1>2, <1>3, <1>4, ClientTurns
  <1> QED  BY <1>1, <1>2, <1>3, <1>5, AloneKeeps

Hashed(k, h, p) == [k EXCEPT !.hash = h, !.row = 0, !.etags = <<>>, !.polls = p]
LEMMA HashedTyped ==
    ASSUME NEW k \in ClientType, NEW h \in Nat, NEW p \in Nat
    PROVE  LET n == Hashed(k, h, p) IN
           /\ n \in ClientType /\ n.step = k.step /\ (~ k.waiting => ~ n.waiting)
           /\ n.attempt = k.attempt /\ n.file = k.file /\ n.hash = h
           /\ Len(n.etags) = 0 /\ n.etags = <<>> /\ n.polls = p
  <1>1. <<>> \in Seq(Nat)  OBVIOUS
  <1> QED  BY <1>1 DEF ClientType, Hashed

LEMMA HashKeeps == ASSUME IInv, HashFile PROVE IInv'
  <1>1. /\ client.step = "hash" /\ Nearby /\ rows' = rows /\ calls' = calls /\ UNCHANGED hits
        /\ batch' = batch /\ disk' = disk /\ causes' = causes
    BY DEF HashFile, Nearby
  <1>2. Around /\ RowsMove  BY <1>1, FaultFree, RowsStill
  <1>3. client.step \notin Working /\ client.step \notin Late  BY <1>1 DEF Working, Late
  <1>4. client \in ClientType /\ client.file \in Files  BY DEF IInv, Typed
  <1>5. CASE File.empty
    <2>1. client' = Failed(client)  BY <1>5 DEF HashFile
    <2>2. GivenUp(client', client)  BY <1>4, <2>1, FailedGivesUp
    <2>3. client'.file = client.file  BY <2>2 DEF GivenUp, SameFile
    <2>4. Excused(client.file)'  BY <1>1, <1>5, <2>3 DEF Excused, File
    <2>5. ClientMoves  BY <1>1, <1>2, <2>2, <2>4, ClientGivesUp
    <2> QED  BY <1>1, <1>2, <1>3, <2>5, AloneKeeps
  <1>6. CASE ~ File.empty
    <2> DEFINE m == To(client, "init")
               h == disk[client.file]
               n == Hashed(m, h, MaxPolls)
    <2>1. m \in ClientType /\ m.step = "init" /\ ~ m.waiting /\ m.attempt = 0
          /\ SameFile(m, client)
      <3>1. "init" \in Steps  BY DEF Steps, Working
      <3> QED  BY <1>4, <3>1, ToTyped
    <2>2. client' = n  BY <1>6 DEF HashFile, Hashed
    <2>3. h \in Nat /\ (~ Edited(client.file) => h = 0)
      BY <1>4 DEF IInv, Typed, OneVersion, DiskIsOne
    <2>4. MaxPolls \in Nat /\ MaxPolls > 0 /\ Attempts > 0  BY BatchIsPossible
    <2> HIDE DEF m, h
    <2>5. /\ n \in ClientType /\ n.step = m.step /\ ~ n.waiting
          /\ n.attempt = m.attempt /\ n.file = m.file /\ n.hash = h
          /\ n.etags = <<>> /\ n.polls = MaxPolls
      BY <2>1, <2>3, <2>4, HashedTyped
    <2> HIDE DEF n
    <2>6. /\ client' \in ClientType /\ client'.step = "init" /\ ~ client'.waiting
          /\ client'.attempt = 0 /\ client'.file = client.file /\ client'.hash = h
          /\ client'.etags = <<>> /\ client'.polls > 0
      BY <2>1, <2>2, <2>4, <2>5 DEF SameFile
    <2>7. ClientKnows'  BY <2>6 DEF ClientKnows
    <2>8. ClientIsOne'  BY <1>1, <2>3, <2>6 DEF ClientIsOne, Edited
    <2>9. FaultsAreCounted'  BY <1>2, <2>6, FileAtHand DEF FaultsAreCounted
    <2>10. ClientMoves
      BY <1>1, <1>3, <2>4, <2>6, <2>7, <2>8, <2>9
         DEF ClientMoves, ClientHasObject, RecordIsExcused
    <2> QED  BY <1>1, <1>2, <1>3, <2>10, AloneKeeps
  <1> QED  BY <1>5, <1>6

Judged(x, s) == [x EXCEPT !.status = s, !.verified = x.object, !.object = <<>>]
LEMMA RowVerified ==
    ASSUME NEW x \in RowType, NEW s \in {"ACCEPTED", "REJECTED"}
    PROVE  LET n == Judged(x, s) IN
           /\ n \in RowType /\ n.status = s /\ n.verified = x.object /\ n.object = <<>>
           /\ n.file = x.file /\ n.hint = x.hint /\ n.parts = x.parts
           /\ n.messages = x.messages /\ (n.open <=> x.open)
  <1>1. <<>> \in Seq(Nat)  OBVIOUS
  <1> QED  BY <1>1 DEF RowType, Judged

LEMMA VerifyKeeps == ASSUME IInv, NEW r \in 1..Len(rows), Verify(r) PROVE IInv'
  <1> DEFINE x == rows[r]
             s == IF Genuine(r) THEN "ACCEPTED" ELSE "REJECTED"
             n == Judged(x, s)
  <1>1. /\ x.status = "VERIFYING" /\ x.object # <<>>
        /\ rows' = [rows EXCEPT ![r].status = s, ![r].verified = rows[r].object, ![r].object = <<>>]
        /\ Nearby /\ client' = client /\ calls' = calls /\ UNCHANGED hits
    BY DEF Verify, Nearby
  <1>2. x \in RowType /\ rows \in Seq(RowType) /\ x.messages \in Nat /\ Len(x.parts) \in Nat
    BY RowTyped DEF IInv, Typed
  <1>3. rows' = [rows EXCEPT ![r] = n]  BY <1>1, <1>2 DEF Judged
  <1>4. s \in {"ACCEPTED", "REJECTED"}  OBVIOUS
  <1>5. s = "ACCEPTED" <=> \A p \in 1..Len(x.object) : x.object[p] = x.hint
    BY DEF Genuine
  <1> HIDE DEF s
  <1>6. /\ n \in RowType /\ n.status = s /\ n.verified = x.object /\ n.object = <<>>
        /\ n.file = x.file /\ n.hint = x.hint /\ n.parts = x.parts
        /\ n.messages = x.messages /\ (n.open <=> x.open)
    BY <1>2, <1>4, RowVerified
  <1> HIDE DEF n
  <1>7. Around  BY <1>1, FaultFree
  <1>8. RowIsHonest(x)  BY DEF IInv, RowsAreHonest
  <1>9. RowsMove
    <2>1. Improves(x, n)  BY <1>1, <1>2, <1>6 DEF Improves
    <2>2. RowIsHonest(n)
      BY <1>1, <1>4, <1>5, <1>6, <1>8 DEF RowIsHonest, SentToVerification
    <2>3. RowIsOne(n) \/ <<n.file, "edited">> \in causes'
      <3>1. RowIsOne(x) \/ <<x.file, "edited">> \in causes'
        BY <1>7 DEF IInv, OneVersion, RowsAreOne, RowIsOne, Around, Edited
      <3>2. RowIsOne(x) => s = "ACCEPTED"  BY <1>5 DEF RowIsOne, Zeros
      <3>3. RowIsOne(x) => RowIsOne(n)  BY <1>6, <3>2 DEF RowIsOne, Zeros
      <3> QED  BY <1>6, <3>1, <3>3
    <2>4. SentToVerification(x)  BY <1>1, <1>8 DEF RowIsHonest
    <2> QED  BY <1>3, <1>6, <1>7, <2>1, <2>2, <2>3, <2>4, RowChanges
  <1>10. ClientMoves  BY <1>1, <1>7, <1>9, ClientStays DEF RowsMove
  <1>11. CommitsAreKept /\ calls' \subseteq calls  BY <1>1 DEF CommitsAreKept
  <1> QED  BY <1>1, <1>7, <1>9, <1>10, <1>11, EndKeeps

LEMMA EditKeeps == ASSUME IInv, Edit PROVE IInv'
  <1> DEFINE f == client.file
  <1>1. /\ UNCHANGED <<batch, client, receipt, rows, calls, hits>>
        /\ disk' = [disk EXCEPT ![f] = @ + 1] /\ causes' = causes \cup {<<f, "edited">>}
    BY DEF Edit, Blame
  <1>2. f \in Files /\ disk \in [Files -> Nat]  BY DEF IInv, Typed
  <1>3. Typed'  BY <1>1, <1>2 DEF IInv, Typed, Files
  <1>4. RowsAreHonest' /\ ClientKnows' /\ CallsKnow' /\ ReceiptHolds'
    <2>1. RowsAreHonest'  BY <1>1 DEF IInv, RowsAreHonest, RowIsHonest, Files
    <2>2. ClientKnows'  BY <1>1 DEF IInv, ClientKnows, RowOf, File
    <2>3. CallsKnow'  BY <1>1 DEF IInv, CallsKnow, CallKnows, CallFits, RowOf
    <2>4. ReceiptHolds'  BY <1>1 DEF IInv, ReceiptHolds, EntryIsTrue, RowOf
    <2> QED  BY <2>1, <2>2, <2>3, <2>4
  <1>5. OneRow'  BY <1>1 DEF IInv, OneRow, TheRow
  <1>6. \A g : /\ <<g, "overlap">> \in causes' <=> Overlap(g)
               /\ <<g, "halfway">> \in causes' <=> Halfway(g)
               /\ Edited(g) => <<g, "edited">> \in causes'
               /\ <<g, "edited">> \notin causes' => g # f
    BY <1>1 DEF Overlap, Halfway, Edited
  <1>7. OneComplete'
    BY <1>1, <1>6 DEF IInv, OneComplete, Overlap
  <1>8. OneVersion'
    <2>1. DiskIsOne'  BY <1>1, <1>2, <1>6 DEF IInv, OneVersion, DiskIsOne, Edited, Files
    <2>2. ClientIsOne'  BY <1>1, <1>6 DEF ClientIsOne, Edited
    <2>3. CallsAreOne'  BY <1>1, <1>6 DEF IInv, OneVersion, CallsAreOne, Edited
    <2>4. RowsAreOne'  BY <1>1, <1>6 DEF IInv, OneVersion, RowsAreOne, Edited
    <2> QED  BY <2>1, <2>2, <2>3, <2>4 DEF OneVersion
  <1>9. Stored'
    <2>1. OpenOrSent'
      BY <1>1, <1>6 DEF IInv, Stored, OpenOrSent, Overlap, Halfway
    <2>2. CallsHaveObjects'  BY <1>1, <1>6 DEF IInv, Stored, CallsHaveObjects, Overlap
    <2>3. ClientHasObject'  BY <1>1, <1>6 DEF IInv, Stored, ClientHasObject, Overlap, File
    <2> QED  BY <2>1, <2>2, <2>3 DEF Stored
  <1>10. \A g : Excused(g) => Excused(g)'  BY <1>1 DEF Excused
  <1>11. FaultsAreCounted'
    <2>1. <<f, "edited">> \in causes'  BY <1>1
    <2> QED  BY <1>1, <2>1 DEF FaultsAreCounted, Excused
  <1>12. FailuresAreExcused'
    <2>1. RecordIsExcused'
      <3>1. <<f, "edited">> \in causes'  BY <1>1
      <3> QED  BY <1>1, <3>1 DEF RecordIsExcused, Excused
    <2> QED  BY <1>1, <1>10, <2>1 DEF IInv, FailuresAreExcused
  <1> QED  BY <1>3, <1>4, <1>5, <1>7, <1>8, <1>9, <1>11, <1>12 DEF IInv

LEMMA RequestTyped ==
    ASSUME IInv, client.step \in Working
    PROVE  /\ Request \in CallType /\ Request.kind = client.step /\ Request.file = client.file
           /\ Request.row = client.row /\ Request.hash = client.hash
           /\ Request.etags = client.etags /\ Request.bytes = disk[client.file]
           /\ Request.stage = "sent" /\ Request.mine
  <1>1. disk[client.file] \in Nat  BY DEF IInv, Typed
  <1>2. Request \in CallType  BY <1>1, ClientTyped DEF IInv, Request, CallType
  <1> QED  BY <1>2 DEF Request

LEMMA WaitsTyped ==
    ASSUME NEW k \in ClientType
    PROVE  LET n == [k EXCEPT !.waiting = TRUE] IN
           /\ n \in ClientType /\ n.step = k.step /\ n.waiting /\ SameFile(n, k)
           /\ n.attempt = k.attempt /\ n.etags = k.etags /\ n.polls = k.polls /\ n.ok = k.ok
  BY DEF ClientType, SameFile

LEMMA SendKeeps == ASSUME IInv, Send PROVE IInv'
  <1> DEFINE n == [client EXCEPT !.waiting = TRUE]
             q == Request
  <1>1. /\ client.step \in Working /\ ~ client.waiting /\ client' = n
        /\ UNCHANGED <<batch, disk, receipt, rows, hits, causes>> /\ calls' = calls \cup {q}
    BY DEF Send
  <1>2. /\ n \in ClientType /\ n.step = client.step /\ n.waiting /\ SameFile(n, client)
        /\ n.attempt = client.attempt /\ n.etags = client.etags /\ n.polls = client.polls
        /\ n.ok = client.ok
    BY WaitsTyped DEF IInv, Typed
  <1>3. /\ q \in CallType /\ q.kind = client.step /\ q.file = client.file /\ q.row = client.row
        /\ q.hash = client.hash /\ q.etags = client.etags /\ q.bytes = disk[client.file]
        /\ q.stage = "sent" /\ q.mine
    BY <1>1, RequestTyped
  <1> HIDE DEF n, q
  <1>4. /\ client'.step = client.step /\ client'.file = client.file /\ client'.row = client.row
        /\ client'.hash = client.hash /\ client'.etags = client.etags /\ client'.waiting
        /\ client'.polls = client.polls /\ client'.ok = client.ok
        /\ client'.attempt = client.attempt
    BY <1>1, <1>2 DEF SameFile
  <1>5. \A c \in calls : ~ c.mine  BY <1>1, MineIsKnown
  <1>6. client.step # "dead" /\ client.step # "done"  BY <1>1 DEF Working
  <1>7. client.file > Len(receipt) /\ client.file \in Nat  BY <1>6, FileIsNext
  <1>8. Typed'
    BY <1>1, <1>2, <1>3, <1>4 DEF IInv, Typed, Files
  <1>9. RowsAreHonest'  BY <1>1 DEF IInv, RowsAreHonest, RowIsHonest, Files
  <1>10. ClientKnows'  BY <1>1, <1>4 DEF IInv, ClientKnows, RowOf, File
  <1>11. CallsKnow'
    <2>1. CallFits(q)
      <3>1. client.file \in 1..client.file
        <4>1. client.file > 0  BY <1>7, FilesTyped DEF IInv, Typed, Files
        <4> QED  BY <1>7, <4>1
      <3>2. ClientKnows  BY DEF IInv
      <3> QED  BY <1>3, <3>1, <3>2 DEF CallFits, ClientKnows, File
    <2>2. \A c \in calls : CallFits(c)  BY DEF IInv, CallsKnow, CallKnows
    <2>3. \A c \in calls' : CallFits(c)'
      BY <1>1, <1>4, <2>1, <2>2 DEF CallFits, RowOf
    <2>4. \A c \in calls' : c.mine => c = q  BY <1>1, <1>5
    <2> QED  BY <1>3, <1>4, <2>3, <2>4 DEF CallsKnow, CallKnows
  <1>12. ReceiptHolds'  BY <1>1 DEF IInv, ReceiptHolds, EntryIsTrue, RowOf
  <1>13. OneRow'
    <2>1. \A f : TheRow(f)' = TheRow(f)  BY <1>1, <1>4 DEF TheRow
    <2>2. q.kind = "complete" => q.row = TheRow(q.file) /\ client.step \in Late
      BY <1>3, <1>7, FileIsNext, <1>6 DEF TheRow, Late
    <2> QED  BY <1>1, <1>4, <2>1, <2>2 DEF IInv, OneRow, TheRow
  <1>14. OneComplete'
    <2>1. \A c \in calls : c.kind = "complete" => Overlap(c.file)
      BY <1>5, <1>6 DEF IInv, OneComplete
    <2> QED  BY <1>1, <1>3, <1>4, <2>1 DEF IInv, OneComplete, Overlap
  <1>15. OneVersion'
    <2>1. DiskIsOne' /\ RowsAreOne'
      BY <1>1 DEF IInv, OneVersion, DiskIsOne, RowsAreOne, Edited, Files
    <2>2. ClientIsOne'  BY <1>1, <1>4 DEF IInv, OneVersion, ClientIsOne, Edited
    <2>3. CallsAreOne'
      <3>1. client.file \in Files  BY DEF IInv, Typed
      <3>2. ~ Edited(q.file) => /\ q.kind \in {"put", "complete"} => q.bytes = 0 /\ Zeros(q.etags)
                                /\ q.kind = "init" => q.hash = 0
        BY <1>3, <3>1 DEF IInv, OneVersion, DiskIsOne, ClientIsOne
      <3> QED  BY <1>1, <3>2 DEF IInv, OneVersion, CallsAreOne, Edited
    <2> QED  BY <2>1, <2>2, <2>3 DEF OneVersion
  <1>16. Stored'
    <2>1. OpenOrSent'  BY <1>1 DEF IInv, Stored, OpenOrSent, Overlap, Halfway
    <2>2. CallsHaveObjects'
      <3>1. /\ q.kind = "complete" /\ ~ Overlap(q.file)
            /\ ~ batch[q.file].multi /\ ~ SentToVerification(rows[q.row])
            => rows[q.row].object # <<>>
        BY <1>3 DEF IInv, Stored, ClientHasObject, File
      <3> QED  BY <1>1, <1>3, <3>1 DEF IInv, Stored, CallsHaveObjects, Overlap
    <2>3. ClientHasObject'  BY <1>1, <1>4 DEF IInv, Stored, ClientHasObject, Overlap, File
    <2> QED  BY <2>1, <2>2, <2>3 DEF Stored
  <1>17. \A f : Excused(f)' <=> Excused(f)  BY <1>1 DEF Excused
  <1>18. FaultsAreCounted' /\ FailuresAreExcused'
    BY <1>1, <1>4, <1>17
       DEF IInv, FaultsAreCounted, FailuresAreExcused, RecordIsExcused, Excused
  <1> QED  BY <1>8, <1>9, <1>10, <1>11, <1>12, <1>13, <1>14, <1>15, <1>16, <1>18 DEF IInv

LEMMA NextFileTyped ==
    ASSUME NEW k \in ClientType, NEW f \in Nat
    PROVE  LET n == [k EXCEPT !.file = f] IN
           n \in ClientType /\ n.step = k.step /\ (~ k.waiting => ~ n.waiting)
           /\ n.attempt = k.attempt /\ n.file = f
  BY DEF ClientType

LEMMA RecordKeeps == ASSUME IInv, Record PROVE IInv'
  <1> DEFINE e == [ok |-> client.ok, row |-> client.row, hash |-> client.hash]
             f == client.file
  <1>1. /\ client.step = "record" /\ receipt' = Append(receipt, e)
        /\ UNCHANGED <<batch, disk, rows, calls, hits, causes>>
    BY DEF Record
  <1>2. /\ f \in Files /\ f \in Nat /\ f > 0 /\ f <= Len(batch) /\ Len(batch) \in Nat
        /\ Len(receipt) = f - 1 /\ receipt \in Seq(EntryType) /\ client \in ClientType
    BY <1>1, FilesTyped, ClientTyped DEF IInv, Typed, Files
  <1>3. /\ client' \in ClientType /\ ~ client'.waiting /\ client'.attempt = 0
        /\ \/ client'.step = "done" /\ client'.file = f
           \/ client'.step = "hash" /\ client'.file = f + 1 /\ f < Len(batch)
    <2>1. "done" \in Steps /\ "hash" \in Steps  BY DEF Steps
    <2>2. CASE f = Len(batch)
      BY <1>2, <2>1, <2>2, ToTyped DEF Record, SameFile
    <2>3. CASE f # Len(batch)
      <3> DEFINE m == To(client, "hash")
      <3>1. /\ m \in ClientType /\ m.step = "hash" /\ ~ m.waiting /\ m.attempt = 0
            /\ m.file = f
        BY <1>2, <2>1, ToTyped DEF SameFile
      <3>2. client' = [m EXCEPT !.file = @ + 1]  BY <2>3 DEF Record
      <3> HIDE DEF m
      <3>3. client' = [m EXCEPT !.file = f + 1] /\ f + 1 \in Nat  BY <1>2, <3>1, <3>2
      <3> QED  BY <1>2, <2>3, <3>1, <3>3, NextFileTyped
    <2> QED  BY <2>2, <2>3
  <1>4. /\ e \in EntryType /\ e.row = client.row /\ e.hash = client.hash /\ (e.ok <=> client.ok)
    BY <1>2 DEF EntryType, ClientType
  <1> HIDE DEF e
  <1>5. /\ receipt' \in Seq(EntryType) /\ Len(receipt') = f /\ receipt'[f] = e
        /\ \A i \in 1..Len(receipt') : i \in 1..Len(receipt) \/ i = f
        /\ \A i \in 1..Len(receipt) : receipt'[i] = receipt[i]
    BY <1>1, <1>2, <1>4
  <1>6. \A c \in calls : ~ c.mine
    <2>1. client.step \notin Working  BY <1>1 DEF Working
    <2> QED  BY <2>1, MineIsKnown
  <1>7. Typed'
    <2>1. client'.file \in 1..Len(batch)  BY <1>2, <1>3
    <2>2. Len(receipt') = IF client'.step = "done" THEN client'.file ELSE client'.file - 1
      BY <1>2, <1>3, <1>5
    <2>3. client'.attempt < Attempts  BY <1>3, BatchIsPossible
    <2> QED  BY <1>1, <1>3, <1>5, <2>1, <2>2, <2>3 DEF IInv, Typed, Files
  <1>8. RowsAreHonest'  BY <1>1 DEF IInv, RowsAreHonest, RowIsHonest, Files
  <1>9. ClientKnows'  BY <1>3 DEF ClientKnows
  <1>10. CallsKnow'
    <2>1. \A c \in calls : CallFits(c) /\ c.file \in 1..client.file /\ c.file \in Nat
      BY CallTyped DEF IInv, CallsKnow, CallKnows, CallFits
    <2>2. \A c \in calls : c.file \in 1..client'.file  BY <1>2, <1>3, <2>1
    <2>3. \A c \in calls : CallFits(c)'  BY <1>1, <2>1, <2>2 DEF CallFits, RowOf
    <2> QED  BY <1>1, <1>6, <2>3 DEF CallsKnow, CallKnows
  <1>11. ReceiptHolds'
    <2> SUFFICES ASSUME NEW i \in 1..Len(receipt'), receipt'[i].ok
                 PROVE  LET g == receipt'[i] IN
                        /\ RowOf(g.row, i) /\ rows[g.row].hint = g.hash
                        /\ Confirmed(rows[g.row])
      BY <1>1 DEF ReceiptHolds, EntryIsTrue, RowOf
    <2>1. CASE i \in 1..Len(receipt)
      BY <1>5, <2>1 DEF IInv, ReceiptHolds, EntryIsTrue
    <2>2. CASE i = f
      BY <1>1, <1>4, <1>5, <2>2 DEF IInv, ClientKnows
    <2> QED  BY <1>5, <2>1, <2>2
  <1>12. OneRow'
    <2>1. \A g \in Nat : g > 0 /\ g <= f => TheRow(g)' = TheRow(g)
      <3> SUFFICES ASSUME NEW g \in Nat, g > 0, g <= f PROVE TheRow(g)' = TheRow(g)
        OBVIOUS
      <3>1. CASE g = f  BY <1>2, <1>4, <1>5, <3>1 DEF TheRow
      <3>2. CASE g < f
        <4>1. g \in 1..Len(receipt) /\ g <= Len(receipt)  BY <1>2, <3>2
        <4> QED  BY <1>2, <1>5, <4>1 DEF TheRow
      <3> QED  BY <1>2, <3>1, <3>2
    <2>2. \A c \in calls : c.file \in Nat /\ c.file > 0 /\ c.file <= f
      BY <1>2, CallTyped DEF IInv, CallsKnow, CallKnows, CallFits
    <2>3. \A r \in 1..Len(rows) : SentToVerification(rows[r]) =>
             rows[r].file \in Nat /\ rows[r].file > 0 /\ rows[r].file <= f
      <3> SUFFICES ASSUME NEW r \in 1..Len(rows), SentToVerification(rows[r])
                   PROVE  rows[r].file \in Nat /\ rows[r].file > 0 /\ rows[r].file <= f
        OBVIOUS
      <3>1. rows[r].file \in Files /\ rows[r].file \in Nat
        BY RowTyped DEF IInv, RowsAreHonest, RowIsHonest
      <3>2. rows[r].file > Len(receipt) => rows[r].file = f  BY DEF IInv, OneRow
      <3> QED  BY <1>2, <3>1, <3>2 DEF Files
    <2>4. ASSUME NEW c \in calls, c.kind = "complete"
          PROVE  c.row = TheRow(c.file)' /\ ~ (c.file > Len(receipt'))
      <3>1. c.row = TheRow(c.file)  BY <2>4 DEF IInv, OneRow
      <3> QED  BY <1>2, <1>5, <2>1, <2>2, <3>1
    <2>5. ASSUME NEW r \in 1..Len(rows), SentToVerification(rows[r])
          PROVE  ~ (rows[r].file > Len(receipt')) /\ \A g \in Nat : g = rows[r].file => r = TheRow(g)'
      <3>1. r = TheRow(rows[r].file)  BY <2>5 DEF IInv, OneRow
      <3> QED  BY <1>2, <1>5, <2>1, <2>3, <2>5, <3>1
    <2> QED  BY <1>1, <2>3, <2>4, <2>5 DEF OneRow, TheRow
  <1>13. OneComplete'
    <2>1. client.step # "dead"  BY <1>1
    <2> QED  BY <1>1, <1>6, <2>1 DEF IInv, OneComplete, Overlap
  <1>14. OneVersion'
    <2>1. DiskIsOne' /\ RowsAreOne' /\ CallsAreOne'
      BY <1>1 DEF IInv, OneVersion, DiskIsOne, RowsAreOne, CallsAreOne, Edited, Files
    <2>2. ClientIsOne'  BY <1>3 DEF ClientIsOne
    <2> QED  BY <2>1, <2>2 DEF OneVersion
  <1>15. Stored'
    <2>1. OpenOrSent' /\ CallsHaveObjects'
      BY <1>1 DEF IInv, Stored, OpenOrSent, CallsHaveObjects, Overlap, Halfway
    <2>2. ClientHasObject'  BY <1>3 DEF ClientHasObject
    <2> QED  BY <2>1, <2>2 DEF Stored
  <1>16. FaultsAreCounted'
    <2>1. client'.file \in Files /\ hits' = hits  BY <1>1, <1>2, <1>3 DEF Files
    <2>2. hits[client'.file] \in Nat  BY <2>1 DEF IInv, Typed
    <2> QED  BY <1>3, <2>1, <2>2 DEF FaultsAreCounted
  <1>17. FailuresAreExcused'
    <2>1. \A i : Excused(i)' <=> Excused(i)  BY <1>1 DEF Excused
    <2>2. \A i \in 1..Len(receipt) : receipt[i].ok \/ Excused(i)
      BY DEF IInv, FailuresAreExcused
    <2>3. client.ok \/ Excused(f)  BY <1>1 DEF IInv, FailuresAreExcused, RecordIsExcused
    <2>4. \A i \in 1..Len(receipt') : receipt'[i].ok \/ Excused(i)
      BY <1>4, <1>5, <2>2, <2>3
    <2>5. RecordIsExcused'  BY <1>3 DEF RecordIsExcused
    <2> QED  BY <2>1, <2>4, <2>5 DEF FailuresAreExcused
  <1> QED  BY <1>7, <1>8, <1>9, <1>10, <1>11, <1>12, <1>13, <1>14, <1>15, <1>16, <1>17 DEF IInv

LEMMA ServeKeeps == ASSUME IInv, NEW c \in calls, Serve(c) PROVE IInv'
  <1>1. CASE CompleteReads(c)  BY <1>1, AnsweredReadKeeps, ReadKeeps
  <1>2. CASE Assemble(c)  BY <1>2, AssemblyKeeps, RefusedAssemblyKeeps
  <1> QED  BY <1>1, <1>2, WorkspacesKeeps, InitializeKeeps, StoreKeeps, RefusalKeeps,
              CommitKeeps, GoneKeeps, PollKeeps DEF Serve

LEMMA NextKeeps == ASSUME IInv, [Next]_vars PROVE IInv'
  <1>1. CASE ClientStep
    BY <1>1, StartKeeps, HashKeeps, SendKeeps, RecordKeeps DEF ClientStep
  <1>2. CASE RecordFails \/ Edit \/ ClientDies
    BY <1>2, FailsKeeps, EditKeeps, ClientDeathKeeps
  <1>3. CASE \E c \in calls : Serve(c) \/ CallDies(c) \/ TimesOut(c) \/ Refuses(c)
    BY <1>3, ServeKeeps, DeathKeeps, TimeOutKeeps, RefusesKeeps
  <1>4. CASE \E r \in 1..Len(rows) : Verify(r)  BY <1>4, VerifyKeeps
  <1>5. CASE UNCHANGED vars
    <2>1. /\ Nearby /\ rows' = rows /\ calls' = calls /\ client' = client /\ UNCHANGED hits
          /\ calls' \subseteq calls
      BY <1>5 DEF vars, Nearby
    <2>2. Around /\ RowsMove  BY <2>1, FaultFree, RowsStill
    <2>3. ClientMoves /\ CommitsAreKept  BY <2>1, <2>2, ClientStays DEF RowsMove, CommitsAreKept
    <2> QED  BY <2>1, <2>2, <2>3, EndKeeps
  <1> QED  BY <1>1, <1>2, <1>3, <1>4, <1>5 DEF Next

LEMMA InitHolds == ASSUME Init PROVE IInv
  <1>1. batch \in Batches /\ batch \in Seq(FileType) /\ batch # <<>>
    BY BatchIsPossible DEF Init, FileType
  <1>2. Len(batch) \in Nat /\ Len(batch) > 0 /\ 1 \in Files  BY <1>1 DEF Files
  <1>3. PICK p \in BOOLEAN :
           client = [step |-> "start", public |-> p, file |-> 1, hash |-> 0, row |-> 0,
                     etags |-> <<>>, polls |-> 0, attempt |-> 0, waiting |-> FALSE, ok |-> FALSE]
    BY DEF Init
  <1>4. /\ client \in ClientType /\ client.step = "start" /\ client.file = 1
        /\ ~ client.waiting /\ client.attempt = 0
    <2>1. <<>> \in Seq(Nat) /\ "start" \in Steps  BY DEF Steps
    <2> QED  BY <1>3, <2>1 DEF ClientType
  <1>5. /\ disk \in [Files -> Nat] /\ hits \in [Files -> Nat] /\ rows = <<>> /\ receipt = <<>>
        /\ calls = {} /\ causes = {} /\ \A f \in Files : disk[f] = 0 /\ hits[f] = 0
    BY DEF Init
  <1>6. Typed
    <2>1. 0 < Attempts  BY BatchIsPossible
    <2> QED  BY <1>1, <1>2, <1>4, <1>5, <2>1 DEF Typed
  <1>7. RowsAreHonest /\ ReceiptHolds /\ OneRow /\ OneComplete /\ CallsKnow
    BY <1>5 DEF RowsAreHonest, ReceiptHolds, OneRow, OneComplete, CallsKnow
  <1>8. ClientKnows  BY <1>4 DEF ClientKnows
  <1>9. OneVersion
    BY <1>4, <1>5 DEF OneVersion, DiskIsOne, ClientIsOne, CallsAreOne, RowsAreOne
  <1>10. Stored  BY <1>4, <1>5 DEF Stored, OpenOrSent, CallsHaveObjects, ClientHasObject
  <1>11. FaultsAreCounted /\ FailuresAreExcused
    BY <1>2, <1>4, <1>5 DEF FaultsAreCounted, FailuresAreExcused, RecordIsExcused
  <1> QED  BY <1>6, <1>7, <1>8, <1>9, <1>10, <1>11 DEF IInv

\* The inductive invariant holds in every reachable state.
THEOREM Invariance == Spec => []IInv
  <1>1. Init => IInv  BY InitHolds
  <1>2. IInv /\ [Next]_vars => IInv'  BY NextKeeps
  <1> QED  BY <1>1, <1>2, PTL DEF Spec

\* Every file the receipt calls accepted was sent to verification under the row the
\* receipt names, and was accepted for the bytes the client hashed.
THEOREM ReceiptsAreTrue == Spec => []ReceiptIsTrue
  <1>1. IInv => ReceiptIsTrue
    <2> SUFFICES ASSUME IInv, NEW i \in 1..Len(receipt), receipt[i].ok
                 PROVE  LET row == rows[receipt[i].row]
                        IN  /\ row.file = i /\ row.hint = receipt[i].hash /\ row.messages > 0
                            /\ row.messages = 1 =>
                                  /\ row.status = "ACCEPTED"
                                  /\ Len(row.verified) = batch[i].parts
                                  /\ \A p \in 1..Len(row.verified) :
                                        row.verified[p] = receipt[i].hash
      BY DEF ReceiptIsTrue
    <2> DEFINE row == rows[receipt[i].row]
    <2>1. /\ RowOf(receipt[i].row, i) /\ row.hint = receipt[i].hash /\ Confirmed(row)
      BY DEF IInv, ReceiptHolds, EntryIsTrue
    <2>2. RowIsHonest(row) /\ row.file = i  BY <2>1 DEF IInv, RowsAreHonest, RowOf
    <2> QED  BY <2>1, <2>2 DEF Confirmed, SentToVerification, RowIsHonest
  <1> QED  BY <1>1, Invariance, PTL

\* A file is sent to verification under one row only, and once, unless a complete
\* overlapped its own repetition.
THEOREM FilesAreVerifiedOnce == Spec => []VerifiedOnce
  <1>1. IInv => VerifiedOnce
    <2> SUFFICES ASSUME IInv, NEW r \in 1..Len(rows), NEW s \in 1..Len(rows),
                        rows[r].file = rows[s].file
                 PROVE  /\ r # s => rows[r].messages = 0 \/ rows[s].messages = 0
                        /\ <<rows[r].file, "overlap">> \notin causes => rows[r].messages <= 1
      BY DEF VerifiedOnce
    <2>1. rows[r].messages \in Nat /\ rows[s].messages \in Nat  BY RowTyped DEF IInv
    <2>2. SentToVerification(rows[r]) /\ SentToVerification(rows[s]) => r = s
      BY DEF IInv, OneRow
    <2>3. ~ Overlap(rows[r].file) => rows[r].messages <= 1  BY DEF IInv, OneComplete
    <2> QED  BY <2>1, <2>2, <2>3 DEF SentToVerification, Overlap
  <1> QED  BY <1>1, Invariance, PTL

\* A file fails only if it was empty or edited, a request of its own was refused or
\* met as many faults as there are attempts, the verification took too long, or a
\* complete was cut off or overlapped its own repetition.
THEOREM FailuresHaveCauses == Spec => []FailureHasCause
  <1>1. IInv => FailureHasCause
    <2> SUFFICES ASSUME IInv PROVE FailureHasCause  OBVIOUS
    <2>1. \A i \in 1..Len(receipt) : receipt[i].ok \/ Excused(i)
      BY DEF IInv, FailuresAreExcused
    <2> QED  BY <2>1 DEF FailureHasCause, Excused
  <1> QED  BY <1>1, Invariance, PTL

\* Repeating a request, for any number of files, attempts and faults, sends no file to
\* verification a second time without a cause and fails none without one.
THEOREM HarmlessRepetition == Spec => []RepetitionIsHarmless
  BY FilesAreVerifiedOnce, FailuresHaveCauses, PTL DEF RepetitionIsHarmless
=============================================================================
