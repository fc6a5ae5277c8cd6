---------------------------- MODULE SymbolSource ----------------------------
(***************************************************************************)
(* The private source a frozen analysis reads its PE and PDB files from:   *)
(* catalog_source.py (the HTTP handler and its download capacity),         *)
(* material_cache.py (files on disk, shared by concurrent readers) and     *)
(* catalog_materials.py (the replicas a file can be materialised from).    *)
(*                                                                         *)
(* One step is one section under the cache's lock, one materialisation or  *)
(* one response.  Which unused file is evicted first does not matter to    *)
(* any property, so that the order of use is left out.                     *)
(***************************************************************************)
EXTENDS Integers, FiniteSets, FiniteSetsExt

CONSTANTS SrcFiles,          \* content identities (raw_sha256)
          SrcRequests,       \* server threads
          SrcSize,           \* SrcSize[f]: raw_size
          SrcReserve,        \* SrcReserve[f]: raw_size and the largest payload
          SrcReplicas,       \* SrcReplicas[f]: rows of catalog_file_locations
          MaxLocations,      \* settings.catalog_source_max_locations
          MaxDownloads,      \* settings.catalog_source_max_downloads
          MaxConcurrent,     \* settings.catalog_source_max_concurrent
          MaterializeBytes,  \* settings.catalog_source_materialize_bytes
          CacheBytes,        \* settings.catalog_source_cache_bytes
          NoFile,            \* an idle thread reads no file
          MaxSrcFaults       \* bound: files lost or damaged on disk, restarts

ASSUME SymbolSourceAssumption ==
    /\ NoFile \notin SrcFiles
    /\ IsFiniteSet(SrcRequests)
    /\ SrcSize \in [SrcFiles -> Nat]
    /\ SrcReserve \in [SrcFiles -> Nat]
    /\ SrcReplicas \in [SrcFiles -> Nat]
    /\ MaxLocations \in Nat
    /\ MaxDownloads \in Nat
    /\ MaxConcurrent \in Nat
    /\ MaterializeBytes \in Nat
    /\ CacheBytes \in Nat
    /\ MaxSrcFaults \in Nat

VARIABLES srcEntry,     \* MaterialCache.entries
          srcDisk,      \* the .blob files in the cache's directory
          srcPending,   \* MaterialCache.pending: files being materialised
          srcWeight,    \* MaterialCache.weight
          srcFree,      \* what is left of the download capacity
          srcRequest,   \* local state of fetch
          srcVanished,  \* history: files that vanished from disk while they were read
          srcFaults     \* failures left to happen

srcVars == <<srcEntry, srcDisk, srcPending, srcWeight, srcFree, srcRequest,
             srcVanished, srcFaults>>

-----------------------------------------------------------------------------
Classes == {"transient", "permanent", "unknown"}
Locations(f) == 1..SrcReplicas[f]

SrcEntryRow == [here : BOOLEAN, readers : Int, proven : BOOLEAN]

\* cached tells whether the answer is about the file in the cache, found what was wrong
\* with the replicas that were tried.
SrcRequestState == [pc : {"idle", "acquire", "fill", "settle", "serve"},
                    file : SrcFiles \cup {NoFile},
                    answer : Classes \cup {"none", "not_found", "served", "error"},
                    cached : BOOLEAN,
                    found : SUBSET (Nat \X Classes)]

NoEntry == [here |-> FALSE, readers |-> 0, proven |-> FALSE]
SrcIdle == [pc |-> "idle", file |-> NoFile, answer |-> "none", cached |-> FALSE, found |-> {}]

SrcTypeOK == /\ srcEntry \in [SrcFiles -> SrcEntryRow]
             /\ srcDisk \in [SrcFiles -> {"absent", "good", "bad"}]
             /\ srcPending \in SUBSET SrcFiles
             /\ srcWeight \in Int
             /\ srcFree \in Int
             /\ srcRequest \in [SrcRequests -> SrcRequestState]
             /\ srcVanished \in SUBSET SrcFiles
             /\ srcFaults \in Nat

SrcInit == /\ srcEntry = [f \in SrcFiles |-> NoEntry]
           /\ srcDisk = [f \in SrcFiles |-> "absent"]
           /\ srcPending = {}
           /\ srcWeight = 0
           /\ srcFree = MaxDownloads
           /\ srcRequest = [r \in SrcRequests |-> SrcIdle]
           /\ srcVanished = {}
           /\ srcFaults = MaxSrcFaults

-----------------------------------------------------------------------------
(* What the cache counts. *)

Reading(r, f) == srcRequest[r].file = f /\ srcRequest[r].pc \in {"settle", "serve"}
Readers(f) == {r \in SrcRequests : Reading(r, f)}
Busy == {r \in SrcRequests : srcRequest[r].pc # "idle"}

Sizes(F) == MapThenSumSet(LAMBDA f : SrcSize[f], F)
Occupied == Sizes({f \in SrcFiles : srcEntry[f].here})
              + MapThenSumSet(LAMBDA f : SrcReserve[f], srcPending)
Weight(f) == Min({SrcReserve[f], MaterializeBytes})

\* Mutant: files that are being read are evicted too.
EvictableWhileRead == {k \in SrcFiles : srcEntry[k].here /\ k \notin srcPending}

Evictable == {k \in SrcFiles : /\ srcEntry[k].here
                               /\ srcEntry[k].readers = 0
                               /\ k \notin srcPending}

FitsWithout(E, f) == Occupied - Sizes(E) + SrcReserve[f] <= CacheBytes

\* Files are evicted one by one as long as f does not fit, also if it never will.
Evicts(E, f) == /\ E \subseteq Evictable
                /\ E # {} => \E k \in E : ~FitsWithout(E \ {k}, f)
                /\ FitsWithout(E, f) \/ E = Evictable

Without(E) == [f \in SrcFiles |-> IF f \in E THEN NoEntry ELSE srcEntry[f]]
Unlinked(E) == [f \in SrcFiles |-> IF f \in E THEN "absent" ELSE srcDisk[f]]

\* The response of a request that reads no file gives its capacity back.
Answered(r, class, cached, found) ==
    /\ srcRequest' = [srcRequest EXCEPT ![r].pc = "idle", ![r].answer = class,
                         ![r].cached = cached, ![r].found = found]
    /\ srcFree' = srcFree + 1

-----------------------------------------------------------------------------
(* fetch, and acquire of the cache. *)

\* The pair is not one the workspace sees, or the path is not that of its identity.
RefuseFetch(r) ==
    /\ srcRequest[r].pc = "idle"
    /\ srcRequest' = [srcRequest EXCEPT ![r] = [SrcIdle EXCEPT !.answer = "not_found"]]
    /\ UNCHANGED <<srcEntry, srcDisk, srcPending, srcWeight, srcFree, srcVanished, srcFaults>>

Fetch(r, f) ==
    /\ srcRequest[r].pc = "idle"
    /\ \/ /\ srcFree > 0
          /\ srcFree' = srcFree - 1
          /\ srcRequest' = [srcRequest EXCEPT ![r] = [SrcIdle EXCEPT !.pc = "acquire", !.file = f]]
       \/ /\ srcFree <= 0
          /\ srcRequest' = [srcRequest EXCEPT
                ![r] = [SrcIdle EXCEPT !.file = f, !.answer = "transient"]]
          /\ UNCHANGED srcFree
    /\ UNCHANGED <<srcEntry, srcDisk, srcPending, srcWeight, srcVanished, srcFaults>>

InCache(f) == srcEntry[f].here /\ f \notin srcPending

\* The file is pinned.  Its bytes are hashed unless they are those of the last proof.
ReadFromCache(r) ==
    LET f == srcRequest[r].file IN
    /\ srcRequest[r].pc = "acquire"
    /\ InCache(f)
    /\ srcDisk[f] # "absent"
    /\ \/ /\ srcEntry[f].proven \/ srcDisk[f] = "good"
          /\ srcEntry' = [srcEntry EXCEPT ![f].readers = @ + 1, ![f].proven = TRUE]
          /\ srcRequest' = [srcRequest EXCEPT ![r].pc = "serve", ![r].answer = "served",
                               ![r].cached = TRUE]
          /\ UNCHANGED srcFree
       \/ /\ ~srcEntry[f].proven /\ srcDisk[f] = "bad"
          /\ Answered(r, "permanent", TRUE, {})
          /\ UNCHANGED srcEntry
    /\ UNCHANGED <<srcDisk, srcPending, srcWeight, srcVanished, srcFaults>>

\* The file is no longer there: its entry goes, whoever reads it.
ForgetEntry(r) ==
    LET f == srcRequest[r].file IN
    /\ srcRequest[r].pc = "acquire"
    /\ InCache(f)
    /\ srcDisk[f] = "absent"
    /\ srcEntry' = [srcEntry EXCEPT ![f] = NoEntry]
    /\ UNCHANGED <<srcDisk, srcPending, srcWeight, srcFree, srcRequest, srcVanished, srcFaults>>

MayMaterialize(f) == /\ f \notin srcPending
                     /\ Cardinality(srcPending) < MaxConcurrent
                     /\ srcWeight + Weight(f) <= MaterializeBytes

StartFill(r) ==
    LET f == srcRequest[r].file IN
    /\ srcRequest[r].pc = "acquire"
    /\ ~srcEntry[f].here
    /\ MayMaterialize(f)
    /\ \E E \in SUBSET Evictable :
         /\ Evicts(E, f) /\ FitsWithout(E, f)
         /\ \A k \in E : srcDisk[k] # "absent"
         /\ srcEntry' = Without(E)
         /\ srcDisk' = Unlinked(E)
    /\ srcPending' = srcPending \cup {f}
    /\ srcWeight' = srcWeight + Weight(f)
    /\ srcRequest' = [srcRequest EXCEPT ![r].pc = "fill"]
    /\ UNCHANGED <<srcFree, srcVanished, srcFaults>>

\* There is no room, and what could be evicted is gone: the request waits for a
\* change, or its time is up.
WaitForRoom(r) ==
    LET f == srcRequest[r].file IN
    /\ srcRequest[r].pc = "acquire"
    /\ ~InCache(f)
    /\ \/ ~MayMaterialize(f) /\ UNCHANGED <<srcEntry, srcDisk>>
       \/ /\ MayMaterialize(f)
          /\ ~FitsWithout(Evictable, f)
          /\ \A k \in Evictable : srcDisk[k] # "absent"
          /\ srcEntry' = Without(Evictable)
          /\ srcDisk' = Unlinked(Evictable)
    /\ \/ Answered(r, "transient", FALSE, {})
       \/ UNCHANGED <<srcRequest, srcFree>>
    /\ UNCHANGED <<srcPending, srcWeight, srcVanished, srcFaults>>

\* An entry whose file is gone cannot be evicted: the request ends with an error that
\* nothing handles.
EvictionFails(r) ==
    LET f == srcRequest[r].file IN
    /\ srcRequest[r].pc = "acquire"
    /\ ~srcEntry[f].here
    /\ MayMaterialize(f)
    /\ \E k \in Evictable, E \in SUBSET Evictable :
         /\ srcDisk[k] = "absent"
         /\ k \notin E /\ \A e \in E : srcDisk[e] # "absent"
         /\ ~FitsWithout(E, f)
         /\ srcEntry' = Without(E)
         /\ srcDisk' = Unlinked(E)
    /\ Answered(r, "error", FALSE, {})
    /\ UNCHANGED <<srcPending, srcWeight, srcVanished, srcFaults>>

-----------------------------------------------------------------------------
(* materialize_catalog_file. *)

\* decode_file: what does not decode to the bytes of the identity never will, and a disk
\* without room may have it again.
DecodeFailures == {"transient", "permanent"}

\* _materialize_location: a replica cannot be had for the moment, is corrupt, or the
\* transport fails and nothing is known of it.
LocationFailures == DecodeFailures \cup {"unknown"}

\* select_material takes no more replicas than its budget.
Tried(f) == 1..Min({MaxLocations, SrcReplicas[f]})

\* Mutant: replicas beyond the budget are taken to be as bad as the others.
ClassOfTried(f, o) == IF \E c \in Classes : \A l \in Tried(f) : o[l] = c
                      THEN o[1] ELSE "unknown"

\* Failures of one class are of that class; replicas that were not tried, or no replica
\* at all, prove nothing.
FailureClass(f, o) ==
    IF /\ SrcReplicas[f] \in 1..MaxLocations
       /\ \E c \in Classes : \A l \in Tried(f) : o[l] = c
    THEN o[1]
    ELSE "unknown"

NoLongerPending(f) == /\ srcPending' = srcPending \ {f}
                      /\ srcWeight' = srcWeight - Weight(f)

\* No replica gave the file.
FillFails(r) ==
    LET f == srcRequest[r].file IN
    /\ srcRequest[r].pc = "fill"
    /\ \E o \in [Tried(f) -> LocationFailures] :
          Answered(r, FailureClass(f, o), FALSE, {<<l, o[l]>> : l \in Tried(f)})
    /\ NoLongerPending(f)
    /\ UNCHANGED <<srcEntry, srcDisk, srcVanished, srcFaults>>

\* The disk fails before or after the file has its name in the cache.
FillCannotBeStored(r) ==
    LET f == srcRequest[r].file IN
    /\ srcRequest[r].pc = "fill"
    /\ \E d \in {srcDisk[f], "good"} : srcDisk' = [srcDisk EXCEPT ![f] = d]
    /\ Answered(r, "transient", FALSE, {})
    /\ NoLongerPending(f)
    /\ UNCHANGED <<srcEntry, srcVanished, srcFaults>>

\* One of the replicas that are tried has the bytes that the identity names.
FillSucceeds(r) ==
    LET f == srcRequest[r].file IN
    /\ srcRequest[r].pc = "fill"
    /\ Tried(f) # {}
    /\ srcEntry' = [srcEntry EXCEPT ![f] = [here |-> TRUE, readers |-> 1, proven |-> TRUE]]
    /\ srcDisk' = [srcDisk EXCEPT ![f] = "good"]
    /\ srcRequest' = [srcRequest EXCEPT ![r].pc = "settle"]
    /\ UNCHANGED <<srcPending, srcWeight, srcFree, srcVanished, srcFaults>>

SettleFill(r) ==
    /\ srcRequest[r].pc = "settle"
    /\ NoLongerPending(srcRequest[r].file)
    /\ srcRequest' = [srcRequest EXCEPT ![r].pc = "serve", ![r].answer = "served"]
    /\ UNCHANGED <<srcEntry, srcDisk, srcFree, srcVanished, srcFaults>>

\* The response was sent or its reader went away.  Without the entry the release fails,
\* and the capacity is not given back.
ReleaseFile(r) ==
    LET f == srcRequest[r].file IN
    /\ srcRequest[r].pc = "serve"
    /\ srcRequest' = [srcRequest EXCEPT ![r].pc = "idle"]
    /\ \/ /\ srcEntry[f].here
          /\ srcEntry' = [srcEntry EXCEPT ![f].readers = @ - 1]
          /\ srcFree' = srcFree + 1
       \/ ~srcEntry[f].here /\ UNCHANGED <<srcEntry, srcFree>>
    /\ UNCHANGED <<srcDisk, srcPending, srcWeight, srcVanished, srcFaults>>

-----------------------------------------------------------------------------
(* What happens to the disk and to the process. *)

FileVanishes(f) ==
    /\ srcFaults > 0 /\ srcFaults' = srcFaults - 1
    /\ srcDisk[f] # "absent"
    /\ srcDisk' = [srcDisk EXCEPT ![f] = "absent"]
    /\ srcVanished' = IF Readers(f) = {} THEN srcVanished ELSE srcVanished \cup {f}
    /\ UNCHANGED <<srcEntry, srcPending, srcWeight, srcFree, srcRequest>>

\* Size or time of the file change with its bytes.
FileIsDamaged(f) ==
    /\ srcFaults > 0 /\ srcFaults' = srcFaults - 1
    /\ srcDisk[f] # "absent"
    /\ srcDisk' = [srcDisk EXCEPT ![f] = "bad"]
    /\ srcEntry' = [srcEntry EXCEPT ![f].proven = FALSE]
    /\ UNCHANGED <<srcPending, srcWeight, srcFree, srcRequest, srcVanished>>

\* The files on disk become entries again, none of them proven.
SourceRestarts ==
    /\ srcFaults > 0 /\ srcFaults' = srcFaults - 1
    /\ srcEntry' = [f \in SrcFiles |-> [NoEntry EXCEPT !.here = srcDisk[f] # "absent"]]
    /\ srcPending' = {}
    /\ srcWeight' = 0
    /\ srcFree' = MaxDownloads
    /\ srcRequest' = [r \in SrcRequests |-> SrcIdle]
    /\ srcVanished' = {}
    /\ UNCHANGED srcDisk

SourceStep(r) ==
    \/ RefuseFetch(r) \/ (\E f \in SrcFiles : Fetch(r, f))
    \/ ReadFromCache(r) \/ ForgetEntry(r) \/ StartFill(r) \/ WaitForRoom(r) \/ EvictionFails(r)
    \/ FillFails(r) \/ FillCannotBeStored(r) \/ FillSucceeds(r) \/ SettleFill(r)
    \/ ReleaseFile(r)

SrcNext == \/ \E r \in SrcRequests : SourceStep(r)
           \/ \E f \in SrcFiles : FileVanishes(f) \/ FileIsDamaged(f)
           \/ SourceRestarts

SrcSpec == SrcInit /\ [][SrcNext]_srcVars

-----------------------------------------------------------------------------
(* Properties. *)

\* The counts of the cache are those of the requests: a file is pinned as often as it is
\* read and stays while it is, every fill has one request, and the capacity comes back -
\* all of it as long as no file vanishes from disk under its readers.  And what the cache
\* would give out without a look is the file that the identity names.
SourceBooksBalance ==
    /\ SrcTypeOK
    /\ srcVanished = {} => srcFree = MaxDownloads - Cardinality(Busy)
    /\ \A f \in SrcFiles :
          /\ f \notin srcVanished =>
                /\ srcEntry[f].here => srcEntry[f].readers = Cardinality(Readers(f))
                /\ Readers(f) # {} => srcEntry[f].here /\ srcDisk[f] # "absent"
          /\ srcEntry[f].here /\ srcEntry[f].proven => srcDisk[f] # "bad"
          /\ f \in srcPending <=>
                \E r \in SrcRequests : srcRequest[r].file = f /\ srcRequest[r].pc \in {"fill", "settle"}
    /\ \A q, r \in SrcRequests :
          /\ srcRequest[q].pc \in {"fill", "settle"} /\ srcRequest[r].pc \in {"fill", "settle"}
          /\ srcRequest[q].file = srcRequest[r].file
          => q = r
    /\ Cardinality(srcPending) <= MaxConcurrent
    /\ srcWeight <= MaterializeBytes

\* A file is called permanently bad only if the cache's own copy is, or if every replica
\* there is was read and proved to be; it is called bad for the moment only if no replica
\* was found to be worse.
PermanentMeansProven ==
    \A r \in SrcRequests :
       /\ srcRequest[r].answer = "permanent" /\ ~srcRequest[r].cached =>
             /\ SrcReplicas[srcRequest[r].file] > 0
             /\ \A l \in Locations(srcRequest[r].file) : <<l, "permanent">> \in srcRequest[r].found
       /\ srcRequest[r].answer = "transient" =>
             \A x \in srcRequest[r].found : x[2] = "transient"
=============================================================================
