------------------------ MODULE FrozenExecutionProofs -----------------------
(***************************************************************************)
(* For any dumps, public sources, budgets and failures: the evidence of a  *)
(* frozen run names where its symbols come from, tells a source that was   *)
(* not heard of from one that has nothing, and passes the core's own       *)
(* checks; a public source never costs the run its report; and what the    *)
(* worker leaves behind has a cause.                                       *)
(***************************************************************************)
EXTENDS FrozenExecution, WellFoundedInduction, FiniteSetTheorems, TLAPS

Phases == {"idle", "verify", "unwind", "sources", "request"} \cup Ended
\* Why a run fails, and why an outcome is what it is.
Reasons == Retryable \cup {"", "inputs", "total_budget", "unusable", "assembly"}
Causes == Retryable \cup {Exhausted, "downloaded", "source_missing", "malformed",
    "correlated_candidate_http_failure", "source_failure_without_correlated_cause",
    "verified_partition_response", "source_ownership_incomplete",
    "identity_verified_for_unwind", "pe_identity_mismatch", "not_found", "proxy_failure"}

Keys == [public : BOOLEAN, id : Nat]
CoreRecord == [phase : Phases, left : Nat, peLeft : Nat, tried : SUBSET Modules,
               pe : SUBSET Modules, sent : SUBSET Keys, posts : Nat, polling : BOOLEAN,
               partLeft : Nat, reason : Reasons, wasPublic : BOOLEAN, attempts : 0..1]
OutcomeRow == [src : Nat, stage : {"unwind", "download_pdb", "symbolicate"},
               outcome : {"found", "missing", "failed", "unknown"},
               class : {"none", "permanent", "transient", "unknown"}, reason : Causes]
SymbolRow == [frame : Nat, module : Nat, pair : Nat, src : Nat, origin : Nat]

CoreTyped == /\ dump \in Dumps
             /\ core \in CoreRecord
             /\ outcomes \in [Modules -> SUBSET OutcomeRow]
             /\ symbols \subseteq SymbolRow
             /\ heard \subseteq Modules

KeyOf(i) == PartitionKey(i, dump.modules[i])

\* Before the sources are planned no partition has been asked, and the public
\* PEs have left the other half of the time alone.
Unplanned == core.phase \in {"idle", "verify", "unwind"} =>
    /\ core.left + PeBudget = Budget + core.peLeft /\ core.peLeft <= PeBudget
    /\ core.sent = {} /\ ~core.wasPublic

\* Past the verification every selection is consistent.
Verified == core.phase \in {"unwind", "sources", "request", "done"} =>
    \A i \in Modules : ValidSelection(dump.modules[i])

\* The first partition finds time left; once a public partition was asked only
\* public ones wait; a request is for a partition that waits; and a result is
\* assembled when none does.
Ordered == /\ core.phase = "sources" /\ core.sent = {} => core.left > 0
           /\ core.wasPublic => \A k \in Waiting : k.public
           /\ core.phase = "request" => Waiting # {}
           /\ core.phase = "done" => Waiting = {}

\* Only a failed run has a reason, and its own checks are none.
Reasoned == /\ core.phase # "failed" => core.reason = ""
            /\ core.reason \in Retryable => ~Part.public
            /\ core.reason = "total_budget" => core.sent # {} /\ ~core.wasPublic
            /\ core.reason # "assembly"

\* The outcomes recorded of a module: each stage once per source, and what is
\* said before its partition was answered is that nothing is known.
OutcomeFacts(i) ==
    /\ \A o \in outcomes[i] : ValidOutcome(o)
    /\ \A o, p \in outcomes[i] : o.src = p.src /\ o.stage = p.stage => o = p
    /\ outcomes[i] # {} => dump.modules[i].state \notin Blocked
    /\ \A o \in outcomes[i] : IF o.stage = "unwind" THEN i \in core.tried
                              ELSE KeyOf(i) \in core.sent
    /\ i \notin heard => \A o \in outcomes[i] : o.stage # "unwind" => o.outcome \in {"failed", "unknown"}
    /\ KeyOf(i) \in core.sent /\ i \notin heard =>
         /\ KeyOf(i).public
         /\ \E o \in outcomes[i] : /\ o.stage = "symbolicate"
                                   /\ o.class = "transient" \/ o.reason = Exhausted

\* A symbol comes from the one source of its module's partition that held its PDB.
SymbolFacts(f) ==
    /\ f.module \in Modules /\ f.frame \in 1..Len(Frames) /\ Frames[f.frame] = f.module
    /\ KeyOf(f.module) \in core.sent /\ KeyOf(f.module).id # 0
    /\ f.origin = f.src /\ f.src \in SourcesOf(KeyOf(f.module))
    /\ f.pair = IF KeyOf(f.module).public THEN 0 ELSE KeyOf(f.module).id
    /\ \E o \in outcomes[f.module] :
          o.src = f.src /\ o.stage = "symbolicate" /\ o.outcome = "found"

SymbolsHold == /\ \A f \in symbols : SymbolFacts(f)
               /\ \A f, g \in symbols : f.frame = g.frame => f = g
               /\ core.phase \in {"idle", "verify", "unwind"} => symbols = {}

CoreInv == /\ CoreTyped /\ Unplanned /\ Verified /\ Ordered /\ Reasoned
           /\ \A i \in Modules : OutcomeFacts(i)
           /\ SymbolsHold

Errors == {"", "INVALID_FROZEN_EVIDENCE", "CORE_STAGE_FAILED", "CORE_EXECUTION_TIMEOUT",
           "FROZEN_FAILED", "OOM"}
Steps == {"stage", "volume", "create", "copy_in", "rm_stage", "run", "wait", "undo_box",
          "undo_volume", "rm_again", "extract", "copy_out", "rm_extract", "rm_volume",
          "check", "end"}
Boxes == {"stage", "core", "extract"}
HostRecord == [step : Steps, volume : BOOLEAN, boxes : SUBSET Boxes, copied : BOOLEAN,
               error : Errors, faults : Nat, excuse : BOOLEAN,
               status : {"", "PARTIAL", "COMPLETE"}]

\* The containers a step may find.
Expected(step) == IF step \in {"copy_in", "rm_stage", "undo_box"} THEN {"stage"}
                  ELSE IF step = "wait" THEN {"core"}
                  ELSE IF step \in {"copy_out", "rm_extract"} THEN {"extract"}
                  ELSE {}

\* Unless something was left behind before, nothing unexpected is there.
Tidy == ~host.excuse =>
    /\ host.step \in {"stage", "volume", "rm_again", "check", "end"} => ~host.volume
    /\ host.boxes \subseteq Expected(host.step)

\* A worker that has raised nothing copies the result of a core that is done.
Reported ==
    /\ host.step \in {"extract", "copy_out", "rm_extract", "rm_volume", "check"}
       /\ host.error = "" => core.phase = "done"
    /\ host.status # "" => /\ host.step = "end" /\ core.phase = "done"
                           /\ Partial(dump, outcomes) => host.status = "PARTIAL"

IInv == /\ CoreInv
        /\ host \in HostRecord /\ Tidy /\ Reported

-----------------------------------------------------------------------------
(* Least elements                                                          *)

LEMMA LeastNatural ==
  ASSUME NEW S \in SUBSET Nat, S # {}
  PROVE  \E m \in S : \A n \in S : m <= n
  <1> DEFINE R == OpToRel(<, Nat)
  <1>1. \A x, y \in Nat : <<x, y>> \in R <=> x < y  BY DEF OpToRel
  <1>2. IsWellFoundedOn(R, Nat)  BY NatLessThanWellFounded
  <1> HIDE DEF R
  <1>3. PICK m \in S : \A n \in S : ~(<<n, m>> \in R)  BY <1>2, WFMin
  <1>4. \A n \in S : ~(n < m)  BY <1>1, <1>3
  <1> QED  BY <1>4

\* What the walker recovers is a prefix of the stack.
LEMMA WalkIsPrefix ==
  ASSUME NEW d \in Dumps, NEW withPe
  PROVE  /\ Len(Walk(d, withPe)) \in Nat
         /\ \A k \in 1..Len(Walk(d, withPe)) : /\ k \in 1..Len(d.stack)
                                               /\ Walk(d, withPe)[k] = d.stack[k]
                                               /\ Walk(d, withPe)[k] \in 1..Len(d.modules)
  <1> DEFINE stuck == {k \in 1..Len(d.stack) : d.stack[k] \notin withPe}
             first == CHOOSE k \in stuck : \A j \in stuck : k <= j
  <1>1. d.stack \in Seq(1..Len(d.modules))  BY DumpsAreCaptured
  <1>2. CASE d.scan \/ stuck = {}
    <2>1. Walk(d, withPe) = d.stack  BY <1>2 DEF Walk
    <2> QED  BY <1>1, <2>1
  <1>3. CASE ~(d.scan \/ stuck = {})
    <2>1. Walk(d, withPe) = SubSeq(d.stack, 1, first)  BY <1>3 DEF Walk
    <2>2. \E k \in stuck : \A j \in stuck : k <= j
      <3>1. stuck \in SUBSET Nat  BY <1>1
      <3> QED  BY <1>3, <3>1, LeastNatural
    <2>3. first \in 1..Len(d.stack)  BY <2>2
    <2> HIDE DEF stuck, first
    <2> QED  BY <1>1, <2>1, <2>3
  <1> QED  BY <1>2, <1>3

LEMMA FramesAreModules ==
  ASSUME dump \in Dumps
  PROVE  /\ Len(Frames) \in Nat
         /\ \A k \in 1..Len(Frames) : Frames[k] \in Modules
         /\ InFrames(Frames) \subseteq Modules
         /\ \A i \in Modules : dump.modules[i] \in Captured
         /\ Len(dump.modules) \in Nat
  <1>1. dump.modules \in Seq(Captured)  BY DumpsAreCaptured
  <1>2. \A k \in 1..Len(Frames) : Frames[k] \in Modules
    BY WalkIsPrefix DEF Frames, Modules
  <1> QED  BY <1>1, <1>2, WalkIsPrefix DEF Frames, Modules, InFrames

\* The key of a module is a key, and stands for no request if the module is blocked.
LEMMA KeyFacts ==
  ASSUME dump \in Dumps, NEW i \in Modules
  PROVE  LET m == dump.modules[i] IN
         /\ KeyOf(i) \in Keys
         /\ m.state = "unique" => KeyOf(i) = [public |-> FALSE, id |-> m.pair]
         /\ KeyOf(i).public => m.state = "none" /\ PublicSources # {}
         /\ ~KeyOf(i).public /\ KeyOf(i).id # 0 => m.state = "unique" /\ KeyOf(i).id = m.pair
         /\ KeyOf(i).id # 0 => m.state \notin Blocked
  <1> DEFINE m == dump.modules[i]
  <1>1. m \in Captured /\ i \in Nat /\ i # 0  BY FramesAreModules DEF Modules
  <1>2. m.pair \in Nat /\ m.state \in States
    <2>1. \A x \in Captured : x.pair \in Pairs \cup {0} /\ x.state \in States  BY DEF Captured
    <2>2. Pairs \cup {0} \subseteq Nat  BY PairsAreDigests
    <2> QED  BY <1>1, <2>1, <2>2
  <1>3. CASE m.state = "unique"
    <2>1. KeyOf(i) = [public |-> FALSE, id |-> m.pair]  BY <1>3 DEF KeyOf, PartitionKey
    <2> QED  BY <1>2, <1>3, <2>1 DEF Keys, Blocked
  <1>4. CASE m.state = "none" /\ PublicSources # {}
    <2>1. KeyOf(i) = [public |-> TRUE, id |-> i]  BY <1>4 DEF KeyOf, PartitionKey
    <2> QED  BY <1>1, <1>4, <2>1 DEF Keys, Blocked
  <1>5. CASE m.state # "unique" /\ ~(m.state = "none" /\ PublicSources # {})
    <2>1. KeyOf(i) = [public |-> FALSE, id |-> 0]  BY <1>5 DEF KeyOf, PartitionKey
    <2> QED  BY <1>5, <2>1 DEF Keys
  <1> QED  BY <1>3, <1>4, <1>5

\* The requests are ordered, and there is a first one: private ones before public
\* ones, and each kind by its ids.
LEMMA FirstKey ==
  ASSUME NEW K \in SUBSET Keys, K # {}
  PROVE  \E p \in K : \A q \in K \ {p} : Before(p, q)
  <1>1. ASSUME NEW b \in BOOLEAN, \E k \in K : k.public = b
        PROVE  \E p \in K : p.public = b /\ \A q \in K \ {p} : q.public = b => p.id < q.id
    <2> DEFINE S == {n \in Nat : \E k \in K : k.public = b /\ k.id = n}
    <2>1. S \in SUBSET Nat /\ S # {}  BY <1>1 DEF Keys
    <2>2. PICK n \in S : \A j \in S : n <= j  BY <2>1, LeastNatural
    <2>3. PICK p \in K : p.public = b /\ p.id = n  BY <2>2
    <2>4. ASSUME NEW q \in K \ {p}, q.public = b PROVE p.id < q.id
      <3>1. q.id \in S /\ p.id <= q.id  BY <2>2, <2>3, <2>4 DEF Keys
      <3>2. p.id # q.id  BY <2>3, <2>4 DEF Keys
      <3> QED  BY <2>3, <3>1, <3>2 DEF Keys
    <2> QED  BY <2>3, <2>4
  <1>2. CASE \E k \in K : k.public = FALSE
    <2>1. PICK p \in K : p.public = FALSE /\ \A q \in K \ {p} : q.public = FALSE => p.id < q.id
      BY <1>1, <1>2
    <2> QED  BY <2>1 DEF Before, Keys
  <1>3. CASE ~\E k \in K : k.public = FALSE
    <2>1. \A k \in K : k.public = TRUE  BY <1>3 DEF Keys
    <2>2. PICK p \in K : p.public = TRUE /\ \A q \in K \ {p} : q.public = TRUE => p.id < q.id
      BY <1>1, <2>1
    <2> QED  BY <2>1, <2>2 DEF Before
  <1> QED  BY <1>2, <1>3

\* The next partition waits, is of some module, and if it is public so are all
\* that wait.
LEMMA PartFacts ==
  ASSUME dump \in Dumps, Waiting # {}
  PROVE  /\ Part \in Waiting /\ Part \in Keys /\ Part.id # 0 /\ Part \notin core.sent
         /\ Part \in Plan(dump, Frames)
         /\ Part.public => \A k \in Waiting : k.public
  <1>1. \A k \in Waiting : k \in Keys /\ k.id # 0 /\ k \in Plan(dump, Frames) /\ k \notin core.sent
    BY FramesAreModules, KeyFacts DEF Waiting, Plan, KeyOf
  <1>2. \E p \in Waiting : \A q \in Waiting \ {p} : Before(p, q)
    BY <1>1, FirstKey
  <1>3. Part \in Waiting /\ \A q \in Waiting \ {Part} : Before(Part, q)  BY <1>2 DEF Part
  <1> HIDE DEF Part
  <1> QED  BY <1>1, <1>3 DEF Before, Keys

-----------------------------------------------------------------------------
(* Outcomes                                                                *)

\* The parts of an outcome.
OutcomeIs(o, s, stage, outcome, class, reason) ==
    /\ o \in OutcomeRow /\ o.src = s /\ o.stage = stage
    /\ o.outcome = outcome /\ o.class = class /\ o.reason = reason

LEMMA OutcomeParts ==
  ASSUME NEW s \in Nat, NEW stage \in {"unwind", "download_pdb", "symbolicate"},
         NEW outcome \in {"found", "missing", "failed", "unknown"},
         NEW class \in {"none", "permanent", "transient", "unknown"}, NEW reason \in Causes
  PROVE  OutcomeIs(Outcome(s, stage, outcome, class, reason), s, stage, outcome, class, reason)
  BY DEF Outcome, OutcomeRow, OutcomeIs

\* What no answer is recorded as: one outcome per source, and nothing is claimed
\* of what the source holds.
LEMMA UnavailableFacts ==
  ASSUME NEW key \in Keys, SourcesOf(key) \subseteq Nat,
         NEW reason \in Causes, NEW attempted \in BOOLEAN
  PROVE  /\ Unavailable(key, reason, attempted) \subseteq OutcomeRow
         /\ \A o \in Unavailable(key, reason, attempted) :
              /\ ValidOutcome(o) /\ o.stage = "symbolicate" /\ o.outcome \in {"failed", "unknown"}
              /\ attempted \/ reason = Exhausted => o.class = "transient" \/ o.reason = Exhausted
         /\ \A o, p \in Unavailable(key, reason, attempted) : o.src = p.src => o = p
         /\ SourcesOf(key) # {} => Unavailable(key, reason, attempted) # {}
  <1> DEFINE said == IF attempted THEN "failed" ELSE "unknown"
             class == IF attempted THEN "transient" ELSE "unknown"
  <1>1. /\ said \in {"failed", "unknown"} /\ class \in {"transient", "unknown"}
        /\ class = "transient" <=> attempted
        /\ said = "failed" <=> attempted
    OBVIOUS
  <1>2. Unavailable(key, reason, attempted)
          = {Outcome(s, "symbolicate", said, class, reason) : s \in SourcesOf(key)}
    BY DEF Unavailable
  <1> HIDE DEF said, class
  <1>3. \A s \in SourcesOf(key) :
          OutcomeIs(Outcome(s, "symbolicate", said, class, reason),
                    s, "symbolicate", said, class, reason)
    BY <1>1, OutcomeParts
  <1> QED  BY <1>1, <1>2, <1>3 DEF ValidOutcome, OutcomeIs

\* What the downloads from one source come to is one valid outcome.
LEMMA DownloadFacts ==
  ASSUME NEW s \in Nat, NEW candidates
  PROVE  LET o == DownloadOutcome(s, candidates) IN
         /\ o \in OutcomeRow /\ o.src = s /\ o.stage = "download_pdb" /\ ValidOutcome(o)
         /\ o.outcome = "failed" => o.class \in {"permanent", "transient", "unknown"}
  <1> DEFINE o == DownloadOutcome(s, candidates)
             row(out, c, r) == Outcome(s, "download_pdb", out, c, r)
  <1>1. \/ o = row("found", "none", "downloaded")
        \/ o = row("missing", "permanent", "source_missing")
        \/ o = row("failed", "permanent", "malformed")
        \/ o = row("failed", "transient", "correlated_candidate_http_failure")
        \/ o = row("failed", "unknown", "source_failure_without_correlated_cause")
    BY DEF DownloadOutcome
  <1> HIDE DEF o, row
  <1>2. /\ OutcomeIs(row("found", "none", "downloaded"), s, "download_pdb", "found", "none", "downloaded")
        /\ OutcomeIs(row("missing", "permanent", "source_missing"),
                     s, "download_pdb", "missing", "permanent", "source_missing")
        /\ OutcomeIs(row("failed", "permanent", "malformed"),
                     s, "download_pdb", "failed", "permanent", "malformed")
        /\ OutcomeIs(row("failed", "transient", "correlated_candidate_http_failure"),
                     s, "download_pdb", "failed", "transient", "correlated_candidate_http_failure")
        /\ OutcomeIs(row("failed", "unknown", "source_failure_without_correlated_cause"),
                     s, "download_pdb", "failed", "unknown", "source_failure_without_correlated_cause")
    BY OutcomeParts DEF row, Causes
  <1>3. /\ o \in OutcomeRow /\ o.src = s /\ o.stage = "download_pdb" /\ ValidOutcome(o)
        /\ o.outcome = "failed" => o.class \in {"permanent", "transient", "unknown"}
    BY <1>1, <1>2 DEF ValidOutcome, OutcomeIs
  <1> QED  BY <1>3 DEF o

\* The one source that held a readable PDB is the only one it can have come from.
LEMMA OneOwner ==
  ASSUME NEW D, IsFiniteSet(D), NEW answer \in [D -> Replies], Cardinality(Owners(answer)) = 1
  PROVE  /\ Owners(answer) = {CHOOSE s \in Owners(answer) : TRUE}
         /\ (CHOOSE s \in Owners(answer) : TRUE) \in D
  <1>1. Owners(answer) \subseteq D  BY DEF Owners
  <1>2. IsFiniteSet(Owners(answer))  BY <1>1, FS_Subset
  <1>3. PICK x : Owners(answer) = {x}  BY <1>2, FS_Singleton
  <1> QED  BY <1>1, <1>3

\* The outcomes of an answer: valid, one per source and stage; and symbols that
\* are ascribed to a source have it on record.
LEMMA CollectedFacts ==
  ASSUME NEW D \in SUBSET Nat, IsFiniteSet(D), NEW answer \in [D -> Replies], NEW debug
  PROVE  /\ Collected(answer, debug) \subseteq OutcomeRow
         /\ \A o \in Collected(answer, debug) : ValidOutcome(o) /\ o.stage # "unwind"
         /\ \A o, p \in Collected(answer, debug) : o.src = p.src /\ o.stage = p.stage => o = p
         /\ debug = "found" /\ Cardinality(Owners(answer)) = 1 =>
              \E o \in Collected(answer, debug) :
                /\ o.src = (CHOOSE s \in Owners(answer) : TRUE)
                /\ o.stage = "symbolicate" /\ o.outcome = "found"
  <1> DEFINE asked == {s \in DOMAIN answer : answer[s] # {}}
             downloads == {DownloadOutcome(s, answer[s]) : s \in asked}
             class(s) ==
                IF debug \in {"malformed", "unsupported"} THEN "permanent"
                ELSE IF debug = "fetching_failed"
                        /\ \E d \in downloads : d.src = s /\ d.outcome = "failed"
                     THEN (CHOOSE d \in downloads : d.src = s /\ d.outcome = "failed").class
                ELSE "unknown"
             ascribed == {Outcome(s, "symbolicate", "found", "none", "verified_partition_response")
                            : s \in Owners(answer)}
             incomplete == {Outcome(s, "symbolicate",
                                    IF class(s) # "unknown" THEN "failed" ELSE "unknown",
                                    class(s), "source_ownership_incomplete") : s \in DOMAIN answer}
  <1>1. \/ debug = "found" /\ Cardinality(Owners(answer)) = 1
           /\ Collected(answer, debug) = downloads \cup ascribed
        \/ ~(debug = "found" /\ Cardinality(Owners(answer)) = 1)
           /\ Collected(answer, debug) = downloads \cup incomplete
    BY DEF Collected
  <1>2. asked \subseteq Nat  OBVIOUS
  <1>3. /\ \A d \in downloads : /\ d \in OutcomeRow /\ d.stage = "download_pdb" /\ ValidOutcome(d)
                                /\ d.outcome = "failed" => d.class \in {"permanent", "transient", "unknown"}
        /\ \A d, e \in downloads : d.src = e.src => d = e
    BY <1>2, DownloadFacts
  <1>4. \A s : class(s) \in {"permanent", "transient", "unknown"}
    <2> HIDE DEF downloads
    <2> QED  BY <1>3
  <1>5. /\ \A o \in incomplete : o \in OutcomeRow /\ o.stage = "symbolicate" /\ ValidOutcome(o)
        /\ \A o, p \in incomplete : o.src = p.src => o = p
    <2>1. DOMAIN answer \subseteq Nat  OBVIOUS
    <2> DEFINE said(s) == IF class(s) # "unknown" THEN "failed" ELSE "unknown"
    <2>2. \A s : said(s) \in {"failed", "unknown"}  OBVIOUS
    <2>3. incomplete = {Outcome(s, "symbolicate", said(s), class(s), "source_ownership_incomplete")
                          : s \in DOMAIN answer}
      OBVIOUS
    <2>4. \A s : class(s) = "transient" => said(s) = "failed"  OBVIOUS
    <2> HIDE DEF class, said
    <2>5. \A s \in DOMAIN answer :
            OutcomeIs(Outcome(s, "symbolicate", said(s), class(s), "source_ownership_incomplete"),
                      s, "symbolicate", said(s), class(s), "source_ownership_incomplete")
      BY <1>4, <2>1, <2>2, OutcomeParts DEF Causes
    <2> HIDE DEF incomplete
    <2> QED  BY <1>4, <2>2, <2>3, <2>4, <2>5 DEF ValidOutcome, OutcomeIs
  <1>6. /\ \A o \in ascribed : o \in OutcomeRow /\ o.stage = "symbolicate" /\ ValidOutcome(o)
        /\ \A o, p \in ascribed : o.src = p.src => o = p
        /\ \A s \in Owners(answer) : \E o \in ascribed :
              o.src = s /\ o.stage = "symbolicate" /\ o.outcome = "found"
    <2>1. Owners(answer) \subseteq Nat  BY DEF Owners
    <2>2. \A s \in Owners(answer) :
            OutcomeIs(Outcome(s, "symbolicate", "found", "none", "verified_partition_response"),
                      s, "symbolicate", "found", "none", "verified_partition_response")
      BY <2>1, OutcomeParts DEF Causes
    <2> QED  BY <2>2 DEF ValidOutcome, OutcomeIs
  <1>7. Cardinality(Owners(answer)) = 1 => (CHOOSE s \in Owners(answer) : TRUE) \in Owners(answer)
    BY OneOwner
  <1> HIDE DEF downloads, ascribed, incomplete
  <1> QED  BY <1>1, <1>3, <1>5, <1>6, <1>7

\* The sources of a partition are numbers, and few.
LEMMA SourceFacts ==
  ASSUME NEW key \in Keys
  PROVE  SourcesOf(key) \subseteq Nat /\ IsFiniteSet(SourcesOf(key))
  <1>1. IsFiniteSet({key.id})  BY FS_Singleton
  <1> QED  BY <1>1, PublicSourcesAreListed, PairSourcesAreReserved DEF SourcesOf, Keys

-----------------------------------------------------------------------------
(* Steps of the core                                                       *)

\* What was learnt stays true when nothing is learnt.
Learnt == <<dump, outcomes, symbols, heard>>

LEMMA SameFrames ==
  ASSUME UNCHANGED dump, core'.pe = core.pe, core'.sent = core.sent
  PROVE  /\ Frames' = Frames /\ Waiting' = Waiting /\ Part' = Part
         /\ Plan(dump, Frames)' = Plan(dump, Frames)
  <1>1. Frames' = Frames  BY DEF Frames
  <1>2. Plan(dump, Frames)' = Plan(dump, Frames)  BY <1>1
  <1>3. Waiting' = Waiting  BY <1>2 DEF Waiting
  <1> QED  BY <1>1, <1>2, <1>3 DEF Part

LEMMA NothingLearnt ==
  ASSUME CoreInv, UNCHANGED Learnt, core' \in CoreRecord,
         core'.pe = core.pe, core'.sent = core.sent, core'.tried = core.tried,
         core'.phase \in {"idle", "verify", "unwind"} => core.phase \in {"idle", "verify", "unwind"}
  PROVE  CoreTyped' /\ (\A i \in Modules : OutcomeFacts(i))' /\ SymbolsHold'
  <1>1. Modules' = Modules /\ CoreRecord' = CoreRecord  BY DEF Learnt, Modules, CoreRecord
  <1>2. CoreTyped'  BY <1>1 DEF CoreInv, CoreTyped, Learnt
  <1>3. ASSUME NEW i \in Modules PROVE OutcomeFacts(i)'
    BY DEF CoreInv, OutcomeFacts, KeyOf, Learnt
  <1>4. Frames' = Frames  BY SameFrames DEF Learnt
  <1>5. ASSUME NEW f \in symbols PROVE SymbolFacts(f)'
    BY <1>1, <1>4 DEF CoreInv, SymbolsHold, SymbolFacts, KeyOf, Learnt
  <1>6. SymbolsHold'  BY <1>5 DEF CoreInv, SymbolsHold, Learnt
  <1> QED  BY <1>1, <1>2, <1>3, <1>6

\* A core that is stopped, or stops itself for a reason that is its due.
LEMMA CoreStops ==
  ASSUME CoreInv, UNCHANGED Learnt, NEW phase \in {"failed", "killed"}, NEW reason \in Reasons,
         core' = [core EXCEPT !.phase = phase, !.reason = reason],
         phase = "killed" => reason = "",
         reason \in Retryable => ~Part.public,
         reason = "total_budget" => core.sent # {} /\ ~core.wasPublic,
         reason # "assembly"
  PROVE  CoreInv'
  <1>1. core \in CoreRecord  BY DEF CoreInv, CoreTyped
  <1>2. /\ core' \in CoreRecord /\ core'.phase = phase /\ core'.reason = reason
        /\ core'.pe = core.pe /\ core'.sent = core.sent /\ core'.tried = core.tried
        /\ core'.wasPublic = core.wasPublic
    BY <1>1 DEF CoreRecord, Phases, Ended
  <1>3. CoreTyped' /\ (\A i \in Modules : OutcomeFacts(i))' /\ SymbolsHold'
    BY <1>2, NothingLearnt
  <1>4. Waiting' = Waiting /\ Part' = Part  BY <1>2, SameFrames DEF Learnt
  <1>5. Unplanned' /\ Verified' /\ Ordered' /\ Reasoned'
    BY <1>2, <1>4 DEF CoreInv, Unplanned, Verified, Ordered, Reasoned, Learnt
  <1> QED  BY <1>3, <1>5 DEF CoreInv

\* The selections are checked.
LEMMA VerifyStep ==
  ASSUME CoreInv, Verify
  PROVE  CoreInv'
  <1> USE DEF Learnt
  <1>1. core \in CoreRecord /\ core.phase = "verify"  BY DEF CoreInv, CoreTyped, Verify
  <1>2. UNCHANGED Learnt  BY DEF Verify
  <1>3. CASE \A i \in Modules : ValidSelection(dump.modules[i])
    <2> DEFINE own == {i \in Modules : dump.modules[i].pair # 0}
    <2>1. core' = [core EXCEPT !.phase = "unwind", !.pe = own]  BY <1>3 DEF Verify
    <2>2. own \subseteq Modules  OBVIOUS
    <2> HIDE DEF own
    <2>3. /\ core' \in CoreRecord /\ core'.phase = "unwind" /\ core'.sent = core.sent
          /\ core'.left = core.left /\ core'.peLeft = core.peLeft /\ core'.tried = core.tried
          /\ core'.wasPublic = core.wasPublic /\ core'.reason = core.reason
      BY <1>1, <2>1, <2>2 DEF CoreRecord, Phases
    <2>4. CoreTyped'
      <3>1. Modules' = Modules /\ CoreRecord' = CoreRecord  BY <1>2 DEF Modules, CoreRecord
      <3> QED  BY <1>2, <2>3, <3>1 DEF CoreInv, CoreTyped
    <2>5. ASSUME NEW i \in Modules PROVE OutcomeFacts(i)'
      BY <1>2, <2>3 DEF CoreInv, OutcomeFacts, KeyOf
    <2>6. (\A i \in Modules : OutcomeFacts(i))'  BY <1>2, <2>5 DEF Modules
    <2>7. SymbolsHold'  BY <1>1, <1>2, <2>3 DEF CoreInv, SymbolsHold
    <2>8. Verified'  BY <1>2, <1>3, <2>3 DEF Verified, Modules
    <2>9. Unplanned' /\ Ordered' /\ Reasoned'
      BY <1>1, <2>3 DEF CoreInv, Unplanned, Ordered, Reasoned, Retryable
    <2> QED  BY <2>4, <2>6, <2>7, <2>8, <2>9 DEF CoreInv
  <1>4. CASE ~\A i \in Modules : ValidSelection(dump.modules[i])
    <2>1. core' = [core EXCEPT !.phase = "failed", !.reason = "inputs"]
      BY <1>4 DEF Verify, Fail
    <2> QED  BY <1>2, <2>1, CoreStops DEF Reasons, Retryable
  <1> QED  BY <1>3, <1>4

\* The PE that is asked for is one that is wanted.
LEMMA PeChoice ==
  ASSUME dump \in Dumps, PeWanted # {}
  PROVE  LET i == CHOOSE i \in PeWanted : \A j \in PeWanted : i <= j
         IN  i \in PeWanted /\ i \in Modules
  <1>1. PeWanted \subseteq Modules  BY FramesAreModules DEF PeWanted
  <1>2. PeWanted \in SUBSET Nat  BY <1>1, FramesAreModules DEF Modules
  <1>3. \E i \in PeWanted : \A j \in PeWanted : i <= j  BY <1>2, LeastNatural
  <1> QED  BY <1>1, <1>3

\* The answers of the proxy are valid outcomes of the unwinding.
LEMMA PeOutcomes ==
  ASSUME Microsoft \in PublicSources,
         NEW reply \in {"genuine", "rejected", "absent", "refused", "silent"}
  PROVE  /\ PeOutcome(reply) \in OutcomeRow /\ PeOutcome(reply).stage = "unwind"
         /\ ValidOutcome(PeOutcome(reply))
  <1> DEFINE row(o, c, r) == Outcome(Microsoft, "unwind", o, c, r)
             answer == PeOutcome(reply)
  <1>1. Microsoft \in Nat  BY PairSourcesAreReserved
  <1>2. \/ answer = row("found", "none", "identity_verified_for_unwind")
        \/ answer = row("failed", "permanent", "pe_identity_mismatch")
        \/ answer = row("missing", "permanent", "not_found")
        \/ answer = row("failed", "unknown", "proxy_failure")
        \/ answer = row("failed", "transient", "timeout")
    BY DEF PeOutcome
  <1> HIDE DEF answer
  <1>3. \E out \in {"found", "missing", "failed", "unknown"},
           class \in {"none", "permanent", "transient", "unknown"}, reason \in Causes :
          /\ OutcomeIs(answer, Microsoft, "unwind", out, class, reason)
          /\ (out = "found") <=> (class = "none")
          /\ class = "transient" => out = "failed"
    BY <1>1, <1>2, OutcomeParts DEF Causes, Retryable
  <1>4. answer \in OutcomeRow /\ answer.stage = "unwind" /\ ValidOutcome(answer)
    BY <1>3 DEF OutcomeIs, ValidOutcome
  <1> QED  BY <1>4 DEF answer

\* A public PE is asked for: what it says of the unwinding is all that is known
\* of the module so far.
LEMMA FetchPeStep ==
  ASSUME CoreInv, FetchPe
  PROVE  CoreInv'
  <1>1. /\ core \in CoreRecord /\ core.phase = "unwind" /\ dump \in Dumps
        /\ Microsoft \in PublicSources /\ core.peLeft > 0 /\ PeWanted # {}
    BY DEF CoreInv, CoreTyped, FetchPe, PeMayAsk
  <1> DEFINE first == CHOOSE i \in PeWanted : \A j \in PeWanted : i <= j
  <1>0. first \in PeWanted /\ first \in Modules  BY <1>1, PeChoice
  <1>3. PICK i \in {first}, reply \in {"genuine", "rejected", "absent", "refused", "silent"}, t \in 0..1 :
          /\ core' = [core EXCEPT !.tried = @ \cup {i}, !.peLeft = @ - t, !.left = @ - t,
                                  !.pe = IF reply = "genuine" THEN @ \cup {i} ELSE @]
          /\ outcomes' = [outcomes EXCEPT ![i] = @ \cup {PeOutcome(reply)}]
    BY DEF FetchPe
  <1>2. i \in PeWanted /\ i \in Modules  BY <1>0
  <1> HIDE DEF first
  <1>4. UNCHANGED <<dump, symbols, heard>>  BY DEF FetchPe
  <1> DEFINE pe2 == IF reply = "genuine" THEN core.pe \cup {i} ELSE core.pe
             o2 == PeOutcome(reply)
  <1>5. core.tried \subseteq Modules /\ core.pe \subseteq Modules /\ core.left \in Nat /\ core.peLeft \in Nat
    BY <1>1 DEF CoreRecord
  <1>6. /\ core.tried \cup {i} \in SUBSET Modules /\ pe2 \in SUBSET Modules
        /\ core.left - t \in Nat /\ core.peLeft - t \in Nat
    <2>1. core.left + PeBudget = Budget + core.peLeft /\ PeBudget <= Budget
      BY <1>1, BudgetsAreNatural DEF CoreInv, Unplanned
    <2> QED  BY <1>1, <1>2, <1>5, <2>1, BudgetsAreNatural
  <1>7. core' = [core EXCEPT !.tried = core.tried \cup {i}, !.peLeft = core.peLeft - t,
                             !.left = core.left - t, !.pe = pe2]
    BY <1>3
  <1> HIDE DEF pe2
  <1>8. /\ core' \in CoreRecord /\ core'.phase = "unwind" /\ core'.sent = core.sent
        /\ core'.left = core.left - t /\ core'.peLeft = core.peLeft - t
        /\ core'.tried = core.tried \cup {i}
        /\ core'.wasPublic = core.wasPublic /\ core'.reason = core.reason
    BY <1>1, <1>6, <1>7 DEF CoreRecord
  <1>9. o2 \in OutcomeRow /\ o2.stage = "unwind" /\ ValidOutcome(o2)
    BY <1>1, PeOutcomes
  <1>10. /\ outcomes \in [Modules -> SUBSET OutcomeRow]
         /\ outcomes' = [outcomes EXCEPT ![i] = outcomes[i] \cup {o2}]
    BY <1>3 DEF CoreInv, CoreTyped
  <1> HIDE DEF o2
  <1>11. CoreTyped'
    <2>1. Modules' = Modules /\ CoreRecord' = CoreRecord  BY <1>4 DEF Modules, CoreRecord
    <2>2. outcomes' \in [Modules -> SUBSET OutcomeRow]  BY <1>9, <1>10
    <2> QED  BY <1>4, <1>8, <2>1, <2>2 DEF CoreInv, CoreTyped
  <1>12. core.sent = {} /\ ~core.wasPublic /\ core.left + PeBudget = Budget + core.peLeft
         /\ core.peLeft <= PeBudget
    BY <1>1 DEF CoreInv, Unplanned
  <1>13. outcomes[i] = {} /\ dump.modules[i].state = "none"
    <2>1. i \notin core.tried /\ dump.modules[i].state = "none"  BY <1>2 DEF PeWanted
    <2>2. \A o \in outcomes[i] : IF o.stage = "unwind" THEN i \in core.tried
                                 ELSE KeyOf(i) \in core.sent
      BY <1>2 DEF CoreInv, OutcomeFacts
    <2> QED  BY <1>12, <2>1, <2>2
  <1>14. ASSUME NEW j \in Modules PROVE OutcomeFacts(j)'
    <2>1. CASE j = i
      <3>1. outcomes'[j] = {o2}  BY <1>2, <1>10, <1>13, <2>1
      <3> QED
        BY <1>4, <1>8, <1>9, <1>12, <1>13, <2>1, <3>1 DEF OutcomeFacts, KeyOf, Blocked
    <2>2. CASE j # i
      <3>1. outcomes'[j] = outcomes[j]  BY <1>10, <2>2
      <3> QED  BY <1>4, <1>8, <3>1 DEF CoreInv, OutcomeFacts, KeyOf
    <2> QED  BY <2>1, <2>2
  <1>15. (\A j \in Modules : OutcomeFacts(j))'  BY <1>4, <1>14 DEF Modules
  <1>16. SymbolsHold'  BY <1>1, <1>4, <1>8 DEF CoreInv, SymbolsHold
  <1>17. Verified'  BY <1>1, <1>4 DEF CoreInv, Verified, Modules
  <1>18. Unplanned'
    <2>1. core.left \in Nat /\ core.peLeft \in Nat /\ PeBudget \in Nat /\ Budget \in Nat
      BY <1>5, BudgetsAreNatural
    <2> QED  BY <1>8, <1>12, <2>1 DEF Unplanned
  <1>19. Ordered' /\ Reasoned'
    BY <1>1, <1>8, <1>12 DEF CoreInv, Ordered, Reasoned, Retryable
  <1> QED  BY <1>11, <1>15, <1>16, <1>17, <1>18, <1>19 DEF CoreInv

\* The sources are planned: the public PEs have left time for them.
LEMMA PlanStep ==
  ASSUME CoreInv, PlanSources
  PROVE  CoreInv'
  <1>1. core \in CoreRecord /\ core.phase = "unwind" /\ UNCHANGED Learnt
    BY DEF CoreInv, CoreTyped, PlanSources, Learnt
  <1>2. core' = [core EXCEPT !.phase = "sources"]  BY DEF PlanSources
  <1>3. /\ core' \in CoreRecord /\ core'.phase = "sources" /\ core'.reason = core.reason
        /\ core'.pe = core.pe /\ core'.sent = core.sent /\ core'.tried = core.tried
        /\ core'.wasPublic = core.wasPublic /\ core'.left = core.left
    BY <1>1, <1>2 DEF CoreRecord, Phases
  <1>4. CoreTyped' /\ (\A i \in Modules : OutcomeFacts(i))' /\ SymbolsHold'
    BY <1>1, <1>3, NothingLearnt
  <1>5. core.left > 0
    BY <1>1, BudgetsAreNatural DEF CoreInv, Unplanned, CoreRecord
  <1>6. Unplanned' /\ Ordered'
    BY <1>1, <1>3, <1>5 DEF CoreInv, Unplanned, Ordered
  <1>7. Verified' /\ Reasoned'
    BY <1>1, <1>3 DEF CoreInv, Verified, Reasoned, Learnt, Modules, Retryable
  <1> QED  BY <1>4, <1>6, <1>7 DEF CoreInv

\* The core's time never goes below nothing.
LEMMA MinusIsNatural == \A n, t \in Nat : Minus(n, t) \in Nat  BY DEF Minus

\* A partition is through: the rows and symbols of the other modules stand.
LEMMA PartitionEnds ==
  ASSUME CoreInv, core.phase \in {"sources", "request"}, Waiting # {},
         NEW t \in 0..1,
         core' = [core EXCEPT !.phase = "sources", !.sent = @ \cup {Part}, !.left = Minus(@, t)],
         UNCHANGED dump,
         outcomes' \in [Modules -> SUBSET OutcomeRow],
         \A i \in Modules : KeyOf(i) # Part => outcomes'[i] = outcomes[i],
         \A i \in Modules : KeyOf(i) = Part => OutcomeFacts(i)',
         heard \subseteq heard', heard' \subseteq heard \cup MembersOf(dump, Part),
         symbols \subseteq symbols', symbols' \subseteq SymbolRow,
         \A f \in symbols' \ symbols : SymbolFacts(f)' /\ KeyOf(f.module) = Part,
         \A f, g \in symbols' \ symbols : f.frame = g.frame => f = g,
         \A i \in Modules : outcomes[i] \subseteq outcomes'[i]
  PROVE  CoreInv'
  <1>1. core \in CoreRecord /\ dump \in Dumps  BY DEF CoreInv, CoreTyped
  <1>2. Part \in Waiting /\ Part \in Keys /\ Part \notin core.sent
        /\ (Part.public => \A k \in Waiting : k.public)
    BY <1>1, PartFacts
  <1> DEFINE sent2 == core.sent \cup {Part}
             left2 == Minus(core.left, t)
  <1>3. sent2 \in SUBSET Keys /\ left2 \in Nat
    <2>1. core.sent \in SUBSET Keys /\ core.left \in Nat  BY <1>1 DEF CoreRecord
    <2> QED  BY <1>2, <2>1, MinusIsNatural
  <1>4. core' = [core EXCEPT !.phase = "sources", !.sent = sent2, !.left = left2]  OBVIOUS
  <1> HIDE DEF left2, sent2
  <1>5. /\ core' \in CoreRecord /\ core'.phase = "sources" /\ core'.sent = sent2
        /\ core'.pe = core.pe /\ core'.tried = core.tried /\ core'.wasPublic = core.wasPublic
        /\ core'.reason = core.reason
    BY <1>1, <1>3, <1>4 DEF CoreRecord, Phases
  <1>6. \A i \in Modules : KeyOf(i)' = KeyOf(i)  BY DEF KeyOf
  <1>7. Modules' = Modules /\ CoreRecord' = CoreRecord  BY DEF Modules, CoreRecord
  <1>8. MembersOf(dump, Part) = {i \in Modules : KeyOf(i) = Part}
    BY DEF MembersOf, KeyOf, Modules
  <1>9. CoreTyped'  BY <1>5, <1>7, <1>8 DEF CoreInv, CoreTyped
  <1>10. ASSUME NEW i \in Modules PROVE OutcomeFacts(i)'
    <2>1. CASE KeyOf(i) = Part  BY <2>1
    <2>2. CASE KeyOf(i) # Part
      <3>1. outcomes'[i] = outcomes[i] /\ (i \in heard' <=> i \in heard)
            /\ (KeyOf(i) \in sent2 <=> KeyOf(i) \in core.sent)
        BY <1>8, <2>2 DEF sent2
      <3> QED  BY <1>5, <1>6, <3>1 DEF CoreInv, OutcomeFacts
    <2> QED  BY <2>1, <2>2
  <1>11. (\A i \in Modules : OutcomeFacts(i))'  BY <1>7, <1>10
  <1>12. Frames' = Frames  BY <1>5 DEF Frames
  <1>13. Waiting' = Waiting \ {Part}
    BY <1>5, <1>12 DEF Waiting, sent2
  <1>14. ASSUME NEW f \in symbols PROVE SymbolFacts(f)' /\ KeyOf(f.module) # Part
    <2>1. SymbolFacts(f)  BY DEF CoreInv, SymbolsHold
    <2>2. f.module \in Modules /\ KeyOf(f.module) \in core.sent  BY <2>1 DEF SymbolFacts
    <2>3. KeyOf(f.module) # Part /\ KeyOf(f.module) \in sent2  BY <1>2, <2>2 DEF sent2
    <2> QED  BY <1>5, <1>6, <1>7, <1>12, <2>1, <2>2, <2>3 DEF SymbolFacts
  <1>15. SymbolsHold'
    <2>1. \A f \in symbols' : SymbolFacts(f)'  BY <1>14
    <2>2. ASSUME NEW f \in symbols', NEW g \in symbols', f.frame = g.frame PROVE f = g
      <3>1. f.module = g.module
        <4>1. \A h \in symbols' : Frames[h.frame] = h.module  BY <1>12, <2>1 DEF SymbolFacts
        <4> QED  BY <2>2, <4>1
      <3>2. f \in symbols <=> g \in symbols  BY <1>14, <3>1
      <3> QED  BY <2>2, <3>2 DEF CoreInv, SymbolsHold
    <2> QED  BY <1>5, <2>1, <2>2 DEF SymbolsHold
  <1>16. Verified'  BY <1>5, <1>7 DEF CoreInv, Verified
  <1>17. Unplanned' /\ Ordered'
    BY <1>2, <1>5, <1>13 DEF CoreInv, Unplanned, Ordered, sent2
  <1>18. Reasoned'
    BY <1>5 DEF CoreInv, Reasoned, Retryable
  <1> QED  BY <1>9, <1>11, <1>15, <1>16, <1>17, <1>18 DEF CoreInv

\* A public partition goes without an answer.
LEMMA UnansweredStep ==
  ASSUME CoreInv, core.phase \in {"sources", "request"}, Waiting # {}, Part.public,
         NEW reason \in Causes, NEW attempted \in BOOLEAN, attempted \/ reason = Exhausted,
         NEW t \in 0..1, Unanswered(reason, attempted, t),
         UNCHANGED <<dump, symbols, heard>>
  PROVE  CoreInv'
  <1> DEFINE U == Unavailable(Part, reason, attempted)
  <1>1. core \in CoreRecord /\ dump \in Dumps /\ outcomes \in [Modules -> SUBSET OutcomeRow]
    BY DEF CoreInv, CoreTyped
  <1>2. Part \in Waiting /\ Part \in Keys /\ Part \notin core.sent /\ Part \in Plan(dump, Frames)
    BY <1>1, PartFacts
  <1>3. SourcesOf(Part) = PublicSources /\ SourcesOf(Part) \subseteq Nat
    BY <1>2, SourceFacts DEF SourcesOf
  <1>4. PublicSources # {}
    BY <1>1, <1>2, FramesAreModules, KeyFacts DEF Plan, KeyOf
  <1>5. /\ U \subseteq OutcomeRow /\ U # {}
        /\ \A o \in U : /\ ValidOutcome(o) /\ o.stage = "symbolicate" /\ o.outcome \in {"failed", "unknown"}
                        /\ o.class = "transient" \/ o.reason = Exhausted
        /\ \A o, p \in U : o.src = p.src => o = p
    BY <1>2, <1>3, <1>4, UnavailableFacts
  <1>6. \A i \in Modules : outcomes'[i] = IF KeyOf(i) = Part THEN outcomes[i] \cup U ELSE outcomes[i]
    BY DEF Unanswered, MembersOf, KeyOf, Modules
  <1>7. outcomes' \in [Modules -> SUBSET OutcomeRow]
    <2>1. outcomes' = [i \in Modules |-> outcomes'[i]]  BY DEF Unanswered
    <2> HIDE DEF U
    <2> QED  BY <1>1, <1>5, <1>6, <2>1
  <1>8. core' = [core EXCEPT !.phase = "sources", !.sent = @ \cup {Part}, !.left = Minus(@, t)]
    BY DEF Unanswered
  <1>9. core'.sent = core.sent \cup {Part} /\ core'.tried = core.tried
    BY <1>1, <1>8 DEF CoreRecord
  <1>10. ASSUME NEW i \in Modules, KeyOf(i) = Part PROVE OutcomeFacts(i)'
    <2>1. OutcomeFacts(i)  BY DEF CoreInv
    <2>2. \A o \in outcomes[i] : o.stage = "unwind" /\ i \in core.tried
      BY <1>2, <1>10, <2>1 DEF OutcomeFacts
    <2>3. outcomes'[i] = outcomes[i] \cup U  BY <1>6, <1>10
    <2>4. dump.modules[i].state \notin Blocked
      BY <1>1, <1>10, KeyFacts DEF Blocked
    <2>5. KeyOf(i)' = KeyOf(i) /\ KeyOf(i).public  BY <1>10 DEF KeyOf
    <2> HIDE DEF U
    <2>6. /\ \A o \in outcomes'[i] : ValidOutcome(o)
          /\ \A o, p \in outcomes'[i] : o.src = p.src /\ o.stage = p.stage => o = p
      BY <1>5, <2>1, <2>2, <2>3 DEF OutcomeFacts
    <2>7. /\ \A o \in outcomes'[i] : IF o.stage = "unwind" THEN i \in core'.tried
                                     ELSE KeyOf(i) \in core'.sent
          /\ \A o \in outcomes'[i] : o.stage # "unwind" => o.outcome \in {"failed", "unknown"}
      BY <1>5, <1>9, <1>10, <2>2, <2>3
    <2>8. \E o \in outcomes'[i] : /\ o.stage = "symbolicate"
                                  /\ o.class = "transient" \/ o.reason = Exhausted
      BY <1>5, <2>3
    <2> QED  BY <2>4, <2>5, <2>6, <2>7, <2>8 DEF OutcomeFacts
  <1>11. /\ \A i \in Modules : KeyOf(i) # Part => outcomes'[i] = outcomes[i]
         /\ \A i \in Modules : outcomes[i] \subseteq outcomes'[i]
    BY <1>6
  <1>12. symbols \subseteq SymbolRow /\ symbols' \ symbols = {}  BY DEF CoreInv, CoreTyped
  <1> QED  BY <1>7, <1>8, <1>10, <1>11, <1>12, PartitionEnds

\* A request begins, or there is no time left for it.
LEMMA BeginStep ==
  ASSUME CoreInv, BeginPartition
  PROVE  CoreInv'
  <1>1. /\ core \in CoreRecord /\ dump \in Dumps /\ core.phase = "sources" /\ Waiting # {}
        /\ UNCHANGED <<dump, symbols, heard>>
    BY DEF CoreInv, CoreTyped, BeginPartition
  <1>2. Part.public => \A k \in Waiting : k.public  BY <1>1, PartFacts
  <1>3. CASE core.left > 0
    <2> DEFINE part2 == IF core.left < PartBudget THEN core.left ELSE PartBudget
               asked2 == core.wasPublic \/ Part.public
    <2>1. core' = [core EXCEPT !.phase = "request", !.posts = 0, !.polling = FALSE,
                               !.attempts = 0, !.partLeft = part2, !.wasPublic = asked2]
      BY <1>3 DEF BeginPartition
    <2>2. part2 \in Nat /\ asked2 \in BOOLEAN
      <3>1. core.left \in Nat /\ core.wasPublic \in BOOLEAN /\ PartBudget \in Nat
        BY <1>1, BudgetsAreNatural DEF CoreRecord
      <3>2. Part.public \in BOOLEAN  BY <1>1, PartFacts DEF Keys
      <3> QED  BY <3>1, <3>2
    <2>3. asked2 => \A k \in Waiting : k.public
      BY <1>2 DEF CoreInv, Ordered
    <2> HIDE DEF part2, asked2
    <2>4. /\ core' \in CoreRecord /\ core'.phase = "request" /\ core'.sent = core.sent
          /\ core'.pe = core.pe /\ core'.tried = core.tried
          /\ core'.reason = core.reason /\ (core'.wasPublic <=> asked2)
      <3>1. \A a \in BOOLEAN, n \in Nat :
              LET c == [core EXCEPT !.phase = "request", !.posts = 0, !.polling = FALSE,
                                    !.attempts = 0, !.partLeft = n, !.wasPublic = a]
              IN  /\ c \in CoreRecord /\ c.phase = "request" /\ c.sent = core.sent
                  /\ c.pe = core.pe /\ c.tried = core.tried
                  /\ c.reason = core.reason /\ c.wasPublic = a
        <4>1. 0 \in Nat /\ 0 \in 0..1 /\ FALSE \in BOOLEAN /\ "request" \in Phases
          BY DEF Phases
        <4> QED  BY <1>1, <4>1 DEF CoreRecord
      <3> QED  BY <2>1, <2>2, <3>1
    <2>5. UNCHANGED Learnt  BY <1>1, <1>3 DEF BeginPartition, Learnt
    <2>6. CoreTyped' /\ (\A i \in Modules : OutcomeFacts(i))' /\ SymbolsHold'
      BY <1>1, <2>4, <2>5, NothingLearnt
    <2>7. Waiting' = Waiting /\ Part' = Part  BY <2>4, <2>5, SameFrames DEF Learnt
    <2>8. Ordered'  BY <1>1, <2>3, <2>4, <2>7 DEF Ordered
    <2>9. Unplanned' /\ Verified' /\ Reasoned'
      BY <1>1, <2>4, <2>7 DEF CoreInv, Unplanned, Verified, Reasoned, Modules, Retryable
    <2> QED  BY <2>6, <2>8, <2>9 DEF CoreInv
  <1>4. CASE ~(core.left > 0) /\ Part.public
    <2>1. Unanswered(Exhausted, FALSE, 0)  BY <1>4 DEF BeginPartition
    <2>2. Exhausted \in Causes /\ FALSE \in BOOLEAN /\ 0 \in 0..1  BY DEF Causes
    <2>3. core.phase \in {"sources", "request"} /\ Part.public = TRUE  BY <1>1, <1>4
    <2> QED  BY <1>1, <1>4, <2>1, <2>2, <2>3, UnansweredStep
  <1>5. CASE ~(core.left > 0) /\ ~Part.public
    <2>1. core' = [core EXCEPT !.phase = "failed", !.reason = "total_budget"] /\ UNCHANGED Learnt
      BY <1>1, <1>5 DEF BeginPartition, Fail, Learnt
    <2>2. core.sent # {} /\ ~core.wasPublic
      <3>1. Part \in Waiting  BY <1>1, PartFacts
      <3> QED  BY <1>1, <1>5, <3>1 DEF CoreInv, Ordered
    <2> QED  BY <2>1, <2>2, CoreStops DEF Reasons, Retryable
  <1> QED  BY <1>3, <1>4, <1>5

\* A request ends without a usable answer: only a private partition, or an answer
\* that is none, fails the run.
LEMMA RequestFailsStep ==
  ASSUME CoreInv, core.phase = "request", NEW reason \in Retryable \cup {"unusable"},
         NEW t \in 0..1, RequestFails(reason, t)
  PROVE  CoreInv'
  <1>1. Waiting # {} /\ UNCHANGED <<dump, symbols, heard>>
    BY DEF CoreInv, Ordered, RequestFails
  <1>2. CASE GivenUp(Part, reason)
    <2>1. Part.public /\ reason \in Causes  BY <1>2 DEF GivenUp, Causes
    <2>2. Unanswered(reason, TRUE, t)  BY <1>2 DEF RequestFails
    <2> QED  BY <1>1, <2>1, <2>2, UnansweredStep
  <1>3. CASE ~GivenUp(Part, reason)
    <2>1. core' = [core EXCEPT !.phase = "failed", !.reason = reason] /\ UNCHANGED Learnt
      BY <1>1, <1>3 DEF RequestFails, Fail, Learnt
    <2>2. reason \in Retryable => ~Part.public  BY <1>3 DEF GivenUp
    <2>3. reason \in Reasons /\ reason # "total_budget" /\ reason # "assembly"
      BY DEF Reasons, Retryable
    <2> QED  BY <2>1, <2>2, <2>3, CoreStops
  <1> QED  BY <1>2, <1>3

\* The engine is polled, or forgets what it was asked.
LEMMA ExchangeStep ==
  ASSUME CoreInv, Pending \/ Forgotten
  PROVE  CoreInv'
  <1>1. core \in CoreRecord /\ core.phase = "request" /\ UNCHANGED Learnt
    BY DEF CoreInv, CoreTyped, Pending, Forgotten, Learnt
  <1>2. /\ core.left \in Nat /\ core.partLeft \in Nat
        /\ Posts \in Nat /\ Attempts \in 0..1
    BY <1>1 DEF CoreRecord, Posts, Attempts
  <1>3. PICK polling \in BOOLEAN, posts \in Nat, left \in Nat, part \in Nat :
          core' = [core EXCEPT !.polling = polling, !.posts = posts, !.attempts = Attempts,
                               !.left = left, !.partLeft = part]
    <2>1. CASE Pending
      <3>1. core' = [core EXCEPT !.polling = TRUE, !.posts = Posts, !.attempts = Attempts,
                                 !.left = Minus(core.left, 1), !.partLeft = Minus(core.partLeft, 1)]
        BY <2>1 DEF Pending
      <3>2. Minus(core.left, 1) \in Nat /\ Minus(core.partLeft, 1) \in Nat
        BY <1>2, MinusIsNatural
      <3> QED  BY <1>2, <3>1, <3>2
    <2>2. CASE Forgotten
      <3>1. PICK t \in 0..1 :
               core' = [core EXCEPT !.polling = FALSE, !.attempts = Attempts,
                                    !.left = Minus(core.left, t), !.partLeft = Minus(core.partLeft, t)]
        BY <2>2 DEF Forgotten
      <3>2. Minus(core.left, t) \in Nat /\ Minus(core.partLeft, t) \in Nat
        <4>1. t \in Nat  BY <3>1
        <4> QED  BY <1>2, <4>1, MinusIsNatural
      <3>3. core' = [core EXCEPT !.polling = FALSE, !.posts = core.posts, !.attempts = Attempts,
                                 !.left = Minus(core.left, t), !.partLeft = Minus(core.partLeft, t)]
        BY <1>1, <3>1 DEF CoreRecord
      <3>4. core.posts \in Nat  BY <1>1 DEF CoreRecord
      <3> QED  BY <3>2, <3>3, <3>4
    <2> QED  BY <2>1, <2>2
  <1>4. /\ core' \in CoreRecord /\ core'.phase = "request" /\ core'.reason = core.reason
        /\ core'.pe = core.pe /\ core'.sent = core.sent /\ core'.tried = core.tried
        /\ core'.wasPublic = core.wasPublic
    BY <1>1, <1>2, <1>3 DEF CoreRecord
  <1>5. CoreTyped' /\ (\A i \in Modules : OutcomeFacts(i))' /\ SymbolsHold'
    BY <1>1, <1>4, NothingLearnt
  <1>6. Waiting' = Waiting /\ Part' = Part  BY <1>1, <1>4, SameFrames DEF Learnt
  <1>7. Unplanned' /\ Verified' /\ Ordered' /\ Reasoned'
    BY <1>1, <1>4, <1>6 DEF CoreInv, Unplanned, Verified, Ordered, Reasoned, Learnt, Modules
  <1> QED  BY <1>5, <1>7 DEF CoreInv

\* The engine answers.
LEMMA AnsweredStep ==
  ASSUME CoreInv, Answered
  PROVE  CoreInv'
  <1>1. /\ core \in CoreRecord /\ dump \in Dumps /\ outcomes \in [Modules -> SUBSET OutcomeRow]
        /\ core.phase = "request" /\ Waiting # {} /\ UNCHANGED dump
        /\ symbols \subseteq SymbolRow
    BY DEF CoreInv, CoreTyped, Ordered, Answered
  <1>2. Part \in Waiting /\ Part \in Keys /\ Part.id # 0 /\ Part \notin core.sent
    BY <1>1, PartFacts
  <1> DEFINE members == MembersOf(dump, Part)
             D == SourcesOf(Part)
  <1>3. members = {i \in Modules : KeyOf(i) = Part}  BY DEF MembersOf, KeyOf, Modules
  <1>4. D \in SUBSET Nat /\ IsFiniteSet(D)  BY <1>2, SourceFacts
  <1>5. PICK answer \in [members -> [D -> Replies]] :
        \E origin \in {f \in [members -> {0} \cup D] :
                         \A i \in members :
                            IF Readable(answer[i]) = {} THEN f[i] = 0
                            ELSE f[i] \in Readable(answer[i])},
           t \in 0..1 :
        /\ outcomes' = [i \in Modules |->
                           IF i \in members
                           THEN outcomes[i] \cup Collected(answer[i], DebugStatus(answer[i]))
                           ELSE outcomes[i]]
        /\ symbols' = symbols \cup UNION {SymbolsOf(Part, i, answer[i], origin[i]) : i \in members}
        /\ core' = [core EXCEPT !.phase = "sources", !.sent = @ \cup {Part}, !.left = Minus(@, t)]
    <2>1. PICK answer \in [members -> [D -> Replies]] :
        \E origin \in {f \in [DOMAIN answer -> {0} \cup D] :
                         \A i \in DOMAIN answer :
                            IF Readable(answer[i]) = {} THEN f[i] = 0
                            ELSE f[i] \in Readable(answer[i])},
           t \in 0..1 :
        /\ outcomes' = [i \in Modules |->
                           IF i \in DOMAIN answer
                           THEN outcomes[i] \cup Collected(answer[i], DebugStatus(answer[i]))
                           ELSE outcomes[i]]
        /\ symbols' = symbols \cup UNION {SymbolsOf(Part, i, answer[i], origin[i])
                                             : i \in DOMAIN answer}
        /\ core' = [core EXCEPT !.phase = "sources", !.sent = @ \cup {Part}, !.left = Minus(@, t)]
      BY Zenon DEF Answered
    <2> DEFINE Body(M) ==
           \E origin \in {f \in [M -> {0} \cup D] :
                            \A i \in M : IF Readable(answer[i]) = {} THEN f[i] = 0
                                        ELSE f[i] \in Readable(answer[i])},
              t \in 0..1 :
           /\ outcomes' = [i \in Modules |->
                              IF i \in M
                              THEN outcomes[i] \cup Collected(answer[i], DebugStatus(answer[i]))
                              ELSE outcomes[i]]
           /\ symbols' = symbols \cup UNION {SymbolsOf(Part, i, answer[i], origin[i]) : i \in M}
           /\ core' = [core EXCEPT !.phase = "sources", !.sent = @ \cup {Part}, !.left = Minus(@, t)]
    <2>2. Body(DOMAIN answer)  BY <2>1, Zenon
    <2>3. DOMAIN answer = members  BY <2>1
    <2> HIDE DEF Body
    <2>4. Body(members)  BY <2>2, <2>3
    <2> QED  BY <2>4, Zenon DEF Body
  <1>6. PICK origin \in {f \in [members -> {0} \cup D] :
                           \A i \in members :
                              IF Readable(answer[i]) = {} THEN f[i] = 0
                              ELSE f[i] \in Readable(answer[i])},
             t \in 0..1 :
        /\ outcomes' = [i \in Modules |->
                           IF i \in members
                           THEN outcomes[i] \cup Collected(answer[i], DebugStatus(answer[i]))
                           ELSE outcomes[i]]
        /\ symbols' = symbols \cup UNION {SymbolsOf(Part, i, answer[i], origin[i]) : i \in members}
        /\ core' = [core EXCEPT !.phase = "sources", !.sent = @ \cup {Part}, !.left = Minus(@, t)]
    <2> HIDE DEF D, members
    <2> QED  BY <1>5
  <1>7. heard' = heard \cup members  BY DEF Answered
  <1>8. \A i \in members : answer[i] \in [D -> Replies]  OBVIOUS
  <1> DEFINE C(i) == Collected(answer[i], DebugStatus(answer[i]))
             owner(i) == CHOOSE s \in Owners(answer[i]) : TRUE
             ascribed(i) == DebugStatus(answer[i]) = "found" /\ Cardinality(Owners(answer[i])) = 1
  <1> HIDE DEF D
  <1>9. ASSUME NEW i \in members
        PROVE  /\ C(i) \subseteq OutcomeRow
               /\ \A o \in C(i) : ValidOutcome(o) /\ o.stage # "unwind"
               /\ \A o, p \in C(i) : o.src = p.src /\ o.stage = p.stage => o = p
               /\ ascribed(i) => \E o \in C(i) : /\ o.src = owner(i)
                                                 /\ o.stage = "symbolicate" /\ o.outcome = "found"
    BY <1>4, <1>8, CollectedFacts
  <1>10. ASSUME NEW i \in members, ascribed(i)
         PROVE  owner(i) \in D /\ origin[i] = owner(i)
    <2>1. Owners(answer[i]) = {owner(i)} /\ owner(i) \in D
      BY <1>4, <1>8, <1>10, OneOwner
    <2>2. Readable(answer[i]) = Owners(answer[i])  BY DEF Readable, Owners
    <2>3. origin[i] \in Readable(answer[i])  BY <2>1, <2>2
    <2> QED  BY <2>1, <2>2, <2>3
  <1>11. ASSUME NEW f \in symbols' \ symbols
         PROVE  \E i \in members :
                  /\ ascribed(i) /\ f.module = i
                  /\ f.frame \in 1..Len(Frames) /\ Frames[f.frame] = i
                  /\ f = [frame |-> f.frame, module |-> i, pair |-> IF Part.public THEN 0 ELSE Part.id,
                          src |-> owner(i), origin |-> origin[i]]
    <2>1. PICK i \in members : f \in SymbolsOf(Part, i, answer[i], origin[i])
      <3> HIDE DEF members
      <3> QED  BY <1>6, <1>11
    <2>2. ascribed(i)  BY <2>1 DEF SymbolsOf
    <2>3. PICK k \in 1..Len(Frames) :
             /\ Frames[k] = i
             /\ f = [frame |-> k, module |-> i, pair |-> IF Part.public THEN 0 ELSE Part.id,
                     src |-> owner(i), origin |-> origin[i]]
      BY <2>1, <2>2 DEF SymbolsOf
    <2>4. f.frame = k /\ f.module = i  BY <2>3
    <2> QED  BY <2>2, <2>3, <2>4
  <1> HIDE DEF C, owner, ascribed, members
  <1>12. outcomes' = [i \in Modules |-> IF i \in members THEN outcomes[i] \cup C(i) ELSE outcomes[i]]
    BY <1>6 DEF C
  <1>13. /\ \A i \in Modules : outcomes'[i] = IF KeyOf(i) = Part THEN outcomes[i] \cup C(i)
                                              ELSE outcomes[i]
         /\ outcomes' \in [Modules -> SUBSET OutcomeRow]
    BY <1>1, <1>3, <1>9, <1>12
  <1>14. /\ core' = [core EXCEPT !.phase = "sources", !.sent = @ \cup {Part}, !.left = Minus(@, t)]
         /\ core'.sent = core.sent \cup {Part} /\ core'.tried = core.tried /\ core'.pe = core.pe
    BY <1>1, <1>6 DEF CoreRecord
  <1>15. ASSUME NEW i \in Modules, KeyOf(i) = Part PROVE OutcomeFacts(i)'
    <2>1. OutcomeFacts(i)  BY DEF CoreInv
    <2>2. \A o \in outcomes[i] : o.stage = "unwind" /\ i \in core.tried
      BY <1>2, <1>15, <2>1 DEF OutcomeFacts
    <2>3. outcomes'[i] = outcomes[i] \cup C(i)  BY <1>13, <1>15
    <2>4. dump.modules[i].state \notin Blocked
      BY <1>1, <1>2, <1>15, KeyFacts DEF Blocked
    <2>5. KeyOf(i)' = KeyOf(i) /\ i \in heard' /\ i \in members  BY <1>1, <1>3, <1>7, <1>15 DEF KeyOf
    <2>6. /\ \A o \in outcomes'[i] : ValidOutcome(o)
          /\ \A o, p \in outcomes'[i] : o.src = p.src /\ o.stage = p.stage => o = p
      BY <1>9, <2>1, <2>2, <2>3, <2>5 DEF OutcomeFacts
    <2>7. \A o \in outcomes'[i] : IF o.stage = "unwind" THEN i \in core'.tried
                                  ELSE KeyOf(i) \in core'.sent
      BY <1>9, <1>14, <1>15, <2>2, <2>3, <2>5
    <2> QED  BY <1>1, <2>4, <2>5, <2>6, <2>7 DEF OutcomeFacts
  <1>16. Frames' = Frames /\ Modules' = Modules  BY <1>1, <1>14 DEF Frames, Modules
  <1>17. ASSUME NEW f \in symbols' \ symbols
         PROVE  SymbolFacts(f)' /\ KeyOf(f.module) = Part /\ f \in SymbolRow
    <2>1. PICK i \in members :
             /\ ascribed(i) /\ f.module = i
             /\ f.frame \in 1..Len(Frames) /\ Frames[f.frame] = i
             /\ f = [frame |-> f.frame, module |-> i, pair |-> IF Part.public THEN 0 ELSE Part.id,
                     src |-> owner(i), origin |-> origin[i]]
      BY <1>11
    <2>2. i \in Modules /\ KeyOf(i) = Part /\ i \in Nat  BY <1>3 DEF Modules
    <2>3. /\ f.src = owner(i) /\ f.origin = owner(i) /\ owner(i) \in D /\ owner(i) \in Nat
          /\ f.pair = IF Part.public THEN 0 ELSE Part.id
      BY <1>4, <1>10, <2>1
    <2>4. PICK o \in C(i) : o.src = owner(i) /\ o.stage = "symbolicate" /\ o.outcome = "found"
      BY <1>9, <2>1
    <2>5. o \in outcomes'[i]  BY <1>13, <2>2, <2>4
    <2>6. KeyOf(i)' = KeyOf(i)  BY <1>1 DEF KeyOf
    <2>7. SymbolFacts(f)'
      BY <1>2, <1>14, <1>16, <2>1, <2>2, <2>3, <2>4, <2>5, <2>6 DEF SymbolFacts, D
    <2>8. f \in SymbolRow
      <3>1. Part.id \in Nat  BY <1>2 DEF Keys
      <3>2. f.frame \in Nat /\ f.pair \in Nat  BY <2>1, <2>3, <3>1
      <3> QED  BY <2>1, <2>2, <2>3, <3>2 DEF SymbolRow
    <2> QED  BY <2>1, <2>2, <2>7, <2>8
  <1>18. ASSUME NEW f \in symbols' \ symbols, NEW g \in symbols' \ symbols, f.frame = g.frame
         PROVE  f = g
    BY <1>11, <1>18
  <1>19. symbols \subseteq symbols'  BY <1>6
  <1>20. symbols' \subseteq SymbolRow  BY <1>1, <1>17
  <1>21. /\ \A i \in Modules : KeyOf(i) # Part => outcomes'[i] = outcomes[i]
         /\ \A i \in Modules : outcomes[i] \subseteq outcomes'[i]
    BY <1>13
  <1>22. heard \subseteq heard' /\ heard' \subseteq heard \cup MembersOf(dump, Part)
    BY <1>7 DEF members
  <1> QED
    BY <1>1, <1>13, <1>14, <1>15, <1>17, <1>18, <1>19, <1>20, <1>21, <1>22, PartitionEnds

\* A request is given up, or its exchange fails.
LEMMA FailuresStep ==
  ASSUME CoreInv, GiveUp \/ ExchangeFails
  PROVE  CoreInv'
  <1>1. core.phase = "request"  BY DEF GiveUp, ExchangeFails
  <1>2. CASE GiveUp
    <2> DEFINE why == IF core.partLeft = 0 THEN "deadline_exceeded" ELSE "repost_budget"
    <2>1. RequestFails(why, 0)  BY <1>2 DEF GiveUp
    <2>2. why \in Retryable \cup {"unusable"}  BY DEF Retryable
    <2> QED  BY <1>1, <2>1, <2>2, RequestFailsStep
  <1>3. CASE ExchangeFails
    <2>1. \/ RequestFails("timeout", 1)
          \/ RequestFails("transport_error", 0) \/ RequestFails("unusable", 0)
      BY <1>3 DEF ExchangeFails
    <2>2. {"timeout", "transport_error"} \subseteq Retryable  BY DEF Retryable
    <2> QED  BY <1>1, <2>1, <2>2, RequestFailsStep
  <1> QED  BY <1>2, <1>3

\* The evidence passes the checks made of it.
LEMMA EvidenceIsValid ==
  ASSUME CoreInv, core.phase = "sources"
  PROVE  ValidInputs(dump, outcomes) /\ ValidPackets(dump, Frames, outcomes, symbols)
  <1>1. dump \in Dumps /\ \A i \in Modules : ValidSelection(dump.modules[i]) /\ OutcomeFacts(i)
    BY DEF CoreInv, CoreTyped, Verified
  <1>2. ValidInputs(dump, outcomes)
    BY <1>1 DEF ValidInputs, OutcomeFacts, Modules
  <1>3. ASSUME NEW f \in symbols PROVE ValidPacket(dump, Frames, outcomes, f)
    <2> DEFINE m == dump.modules[f.module]
    <2>1. SymbolFacts(f) /\ f.module \in Modules  BY DEF CoreInv, SymbolsHold, SymbolFacts
    <2>2. KeyOf(f.module).id # 0 /\ f.src \in SourcesOf(KeyOf(f.module))
          /\ f.pair = IF KeyOf(f.module).public THEN 0 ELSE KeyOf(f.module).id
      BY <2>1 DEF SymbolFacts
    <2>3. IF f.pair # 0 THEN m.state = "unique" /\ m.pair = f.pair
          ELSE m.state = "none" /\ f.src \in PublicSources
      <3>1. CASE KeyOf(f.module).public
        <4>1. f.pair = 0 /\ f.src \in PublicSources  BY <2>2, <3>1 DEF SourcesOf
        <4>2. m.state = "none"  BY <1>1, <2>1, <3>1, KeyFacts
        <4> QED  BY <4>1, <4>2
      <3>2. CASE ~KeyOf(f.module).public
        <4>1. f.pair = KeyOf(f.module).id /\ f.pair # 0  BY <2>2, <3>2
        <4>2. m.state = "unique" /\ m.pair = KeyOf(f.module).id
          BY <1>1, <2>1, <2>2, <3>2, KeyFacts
        <4> QED  BY <4>1, <4>2
      <3> QED  BY <3>1, <3>2
    <2> QED  BY <2>1, <2>3 DEF SymbolFacts, ValidPacket
  <1>4. ValidPackets(dump, Frames, outcomes, symbols)
    BY <1>3 DEF CoreInv, SymbolsHold, ValidPackets
  <1> QED  BY <1>2, <1>4

\* So the assembly gives a result.
LEMMA AssembleStep ==
  ASSUME CoreInv, Assemble
  PROVE  CoreInv'
  <1>1. core \in CoreRecord /\ core.phase = "sources" /\ Waiting = {} /\ UNCHANGED Learnt
    BY DEF CoreInv, CoreTyped, Assemble, Learnt
  <1>2. core' = [core EXCEPT !.phase = "done"]
    BY <1>1, EvidenceIsValid DEF Assemble
  <1>3. /\ core' \in CoreRecord /\ core'.phase = "done" /\ core'.reason = core.reason
        /\ core'.pe = core.pe /\ core'.sent = core.sent /\ core'.tried = core.tried
        /\ core'.wasPublic = core.wasPublic
    BY <1>1, <1>2 DEF CoreRecord, Phases, Ended
  <1>4. CoreTyped' /\ (\A i \in Modules : OutcomeFacts(i))' /\ SymbolsHold'
    BY <1>1, <1>3, NothingLearnt
  <1>5. Waiting' = Waiting  BY <1>1, <1>3, SameFrames DEF Learnt
  <1>6. Unplanned' /\ Ordered' /\ Reasoned' /\ Verified'
    BY <1>1, <1>3, <1>5
       DEF CoreInv, Unplanned, Ordered, Reasoned, Verified, Learnt, Modules, Retryable
  <1> QED  BY <1>4, <1>6 DEF CoreInv

\* No step of the core but its last leaves it ended, and that one closes the evidence.
LEMMA CoreStep ==
  ASSUME CoreInv, CoreNext
  PROVE  CoreInv' /\ core.phase \notin Ended \cup {"idle"}
  <1>1. CoreInv'
    BY VerifyStep, FetchPeStep, PlanStep, BeginStep, FailuresStep, ExchangeStep, AnsweredStep,
       AssembleStep DEF CoreNext
  <1>2. core.phase \in {"verify", "unwind", "sources", "request"}
    BY DEF CoreNext, Verify, FetchPe, PlanSources, BeginPartition, GiveUp, Pending, Forgotten,
           ExchangeFails, Answered, Assemble
  <1> QED  BY <1>1, <1>2 DEF Ended

\* The core is started, or killed.
LEMMA CoreStartsOrDies ==
  ASSUME CoreInv,
         \/ core.phase = "idle" /\ core' = [core EXCEPT !.phase = "verify"]
         \/ core.phase \notin Ended \cup {"idle"} /\ core' = [core EXCEPT !.phase = "killed"],
         UNCHANGED Learnt
  PROVE  CoreInv'
  <1>1. core \in CoreRecord  BY DEF CoreInv, CoreTyped
  <1>2. CASE core.phase = "idle" /\ core' = [core EXCEPT !.phase = "verify"]
    <2>1. /\ core' \in CoreRecord /\ core'.phase = "verify" /\ core'.reason = core.reason
          /\ core'.pe = core.pe /\ core'.sent = core.sent /\ core'.tried = core.tried
          /\ core'.wasPublic = core.wasPublic /\ core'.left = core.left /\ core'.peLeft = core.peLeft
      BY <1>1, <1>2 DEF CoreRecord, Phases
    <2>2. CoreTyped' /\ (\A i \in Modules : OutcomeFacts(i))' /\ SymbolsHold'
      BY <1>2, <2>1, NothingLearnt
    <2>3. Waiting' = Waiting  BY <2>1, SameFrames DEF Learnt
    <2>4. Unplanned' /\ Verified' /\ Ordered' /\ Reasoned'
      BY <1>2, <2>1, <2>3 DEF CoreInv, Unplanned, Verified, Ordered, Reasoned, Retryable
    <2> QED  BY <2>2, <2>4 DEF CoreInv
  <1>3. CASE core.phase \notin Ended \cup {"idle"} /\ core' = [core EXCEPT !.phase = "killed"]
    <2>1. core.reason = ""  BY <1>3 DEF CoreInv, Reasoned, Ended
    <2>2. core' = [core EXCEPT !.phase = "killed", !.reason = ""]
      BY <1>1, <1>3, <2>1 DEF CoreRecord
    <2> QED  BY <2>2, CoreStops DEF Reasons, Retryable
  <1> QED  BY <1>2, <1>3

-----------------------------------------------------------------------------
(* Steps of the worker                                                     *)

HostInv == host \in HostRecord /\ Tidy /\ Reported

Late == {"extract", "copy_out", "rm_extract", "rm_volume", "check"}

\* The parts of the worker's state after a command: nothing but the step, the
\* volume, the containers and what is remembered of a failure has changed.
After(h, step, volume, boxes, error, excuse) ==
    /\ h \in HostRecord /\ h.step = step /\ (h.volume <=> volume) /\ h.boxes = boxes
    /\ h.error = error /\ (h.excuse <=> excuse) /\ h.status = host.status

\* The worker has moved on and left nothing unexpected behind.
LEMMA WorkerMoves ==
  ASSUME HostInv, UNCHANGED coreVars, host.step # "end",
         NEW step, NEW volume, NEW boxes, NEW error, NEW excuse,
         After(host', step, volume, boxes, error, excuse),
         excuse \/ /\ ~host.excuse /\ boxes \subseteq Expected(step)
                   /\ step \in {"stage", "volume", "rm_again", "check", "end"} => ~volume,
         step \in Late /\ error = "" => core.phase = "done"
  PROVE  HostInv'
  <1>1. host.status = ""  BY DEF HostInv, Reported
  <1>2. Expected(host'.step) = Expected(step)  BY DEF After
  <1>3. Tidy'  BY <1>2 DEF After, Tidy, Expected
  <1>4. Reported'  BY <1>1 DEF After, Reported, Late, coreVars
  <1>5. (host \in HostRecord)'  BY DEF After
  <1> QED  BY <1>3, <1>4, <1>5 DEF HostInv

\* What a command makes of the worker's state.
LEMMA AfterCommand ==
  ASSUME NEW g \in HostRecord, g.status = host.status, NEW step \in Steps,
         NEW volume \in BOOLEAN, NEW boxes \in SUBSET Boxes, NEW copied \in BOOLEAN,
         NEW error \in Errors, NEW faults \in Nat, NEW excuse \in BOOLEAN, NEW h,
         h = [g EXCEPT !.step = step, !.volume = volume, !.boxes = boxes, !.copied = copied,
                       !.error = error, !.faults = faults, !.excuse = excuse]
  PROVE  After(h, step, volume, boxes, error, excuse)
  BY DEF HostRecord, After

LEMMA HostParts ==
  ASSUME NEW g \in HostRecord
  PROVE  /\ g.volume \in BOOLEAN /\ g.boxes \in SUBSET Boxes /\ g.copied \in BOOLEAN
         /\ g.excuse \in BOOLEAN /\ g.error \in Errors /\ g.faults \in Nat
  BY DEF HostRecord

\* What a failed command of the staging is made of.
LEMMA StageFailures ==
  ASSUME HostInv, NEW done \in HostRecord, done.status = host.status, NEW step \in Steps,
         NEW h \in StageFailed(done, step)
  PROVE  \E g \in {host, done} : \E error \in Errors :
            error # "" /\ After(h, step, g.volume, g.boxes, error, g.excuse)
  <1>1. PICK g \in {host, done} : h = [Raised(Fault(g), "CORE_STAGE_FAILED") EXCEPT !.step = step]
    BY DEF StageFailed
  <1>2. g \in HostRecord /\ g.status = host.status  BY <1>1 DEF HostInv
  <1>3. PICK error \in Errors :
           error # "" /\ error = IF g.error = "" THEN "CORE_STAGE_FAILED" ELSE g.error
    BY <1>2 DEF HostRecord, Errors
  <1>4. h = [g EXCEPT !.step = step, !.volume = g.volume, !.boxes = g.boxes, !.copied = g.copied,
                      !.error = error, !.faults = g.faults + 1, !.excuse = g.excuse]
    BY <1>1, <1>2, <1>3 DEF Raised, Fault, HostRecord
  <1>5. /\ g.volume \in BOOLEAN /\ g.boxes \in SUBSET Boxes /\ g.copied \in BOOLEAN
        /\ g.excuse \in BOOLEAN /\ g.faults \in Nat
    BY <1>2, HostParts
  <1>7. g.faults + 1 \in Nat  BY <1>5
  <1>6. After(h, step, g.volume, g.boxes, error, g.excuse)
    BY <1>2, <1>4, <1>5, <1>7 DEF After, HostRecord
  <1> QED  BY <1>1, <1>3, <1>6

\* A removal that fails is forgotten, and is an excuse.
LEMMA SwallowedFailures ==
  ASSUME HostInv, NEW done \in HostRecord, done.status = host.status, NEW step \in Steps,
         NEW h \in Swallowed(done, step)
  PROVE  \E g \in {host, done} : After(h, step, g.volume, g.boxes, g.error, TRUE)
  <1>1. PICK g \in {host, done} : h = Excused([Fault(g) EXCEPT !.step = step])
    BY DEF Swallowed
  <1>2. g \in HostRecord /\ g.status = host.status  BY <1>1 DEF HostInv
  <1>3. h = [g EXCEPT !.step = step, !.volume = g.volume, !.boxes = g.boxes, !.copied = g.copied,
                      !.error = g.error, !.faults = g.faults + 1, !.excuse = TRUE]
    BY <1>1, <1>2 DEF Excused, Fault, HostRecord
  <1>4. /\ g.volume \in BOOLEAN /\ g.boxes \in SUBSET Boxes /\ g.copied \in BOOLEAN
        /\ g.error \in Errors /\ g.faults \in Nat
    BY <1>2, HostParts
  <1>5. After(h, step, g.volume, g.boxes, g.error, TRUE)
    <2>1. g.faults + 1 \in Nat /\ TRUE \in BOOLEAN  BY <1>4
    <2> QED  BY <1>2, <1>3, <1>4, <2>1, AfterCommand
  <1> QED  BY <1>1, <1>5

Unstocked == {"stage", "volume", "rm_again", "check", "end"}

\* A command of the staging, or of the copying back: where it leads, whether it
\* works or fails, nothing unexpected is left.
LEMMA StagedStep ==
  ASSUME HostInv, NEW volume \in BOOLEAN, NEW boxes \in SUBSET Boxes, NEW copied \in BOOLEAN,
         NEW step \in Steps, NEW next \in Steps, NEW undo \in Steps, NEW done,
         done = [host EXCEPT !.volume = volume, !.boxes = boxes, !.copied = copied],
         Command(step, done, next, StageFailed(done, undo)),
         step # "end", next \in Late => step \in Late,
         host.excuse \/ /\ boxes \subseteq Expected(next) /\ boxes \subseteq Expected(undo)
                        /\ host.boxes \subseteq Expected(undo)
                        /\ next \in Unstocked => ~volume
                        /\ undo \in Unstocked => ~volume /\ ~host.volume
  PROVE  HostInv'
  <1>1. /\ done \in HostRecord /\ done.status = host.status /\ (done.volume <=> volume)
        /\ done.boxes = boxes /\ done.error = host.error /\ (done.excuse <=> host.excuse)
    BY DEF HostInv, HostRecord
  <1>5. After([done EXCEPT !.step = next], next, volume, boxes, host.error, host.excuse)
    BY <1>1 DEF After, HostRecord
  <1>2. host.step = step /\ UNCHANGED coreVars  BY DEF Command
  <1>3. CASE host' = [done EXCEPT !.step = next]
    <2>1. After(host', next, volume, boxes, host.error, host.excuse)  BY <1>3, <1>5
    <2>2. next \in Late /\ host.error = "" => core.phase = "done"
      BY <1>2 DEF HostInv, Reported, Late
    <2> QED  BY <1>2, <2>1, <2>2, WorkerMoves DEF Unstocked
  <1>4. CASE host' \in StageFailed(done, undo)
    <2>1. PICK g \in {host, done} : \E error \in Errors :
             error # "" /\ After(host', undo, g.volume, g.boxes, error, g.excuse)
      BY <1>1, <1>4, StageFailures
    <2>2. PICK error \in Errors :
             error # "" /\ After(host', undo, g.volume, g.boxes, error, g.excuse)
      BY <2>1
    <2>3. g.excuse \/ /\ ~host.excuse /\ g.boxes \subseteq Expected(undo)
                      /\ undo \in Unstocked => ~g.volume
      BY <1>1, <2>1
    <2> QED  BY <1>2, <2>2, <2>3, WorkerMoves DEF Unstocked
  <1> QED  BY <1>3, <1>4 DEF Command

\* A removal: if it fails, that is an excuse.
LEMMA RemovalStep ==
  ASSUME HostInv, NEW volume \in BOOLEAN, NEW boxes \in SUBSET Boxes,
         NEW step \in Steps, NEW next \in Steps, NEW done,
         done = [host EXCEPT !.volume = volume, !.boxes = boxes, !.copied = host.copied],
         Removed(step, done, next),
         step # "end", next \in Late => step \in Late,
         host.excuse \/ /\ boxes \subseteq Expected(next)
                        /\ next \in Unstocked => ~volume
  PROVE  HostInv'
  <1>1. /\ done \in HostRecord /\ done.status = host.status /\ (done.volume <=> volume)
        /\ done.boxes = boxes /\ done.error = host.error /\ (done.excuse <=> host.excuse)
    BY DEF HostInv, HostRecord
  <1>6. After([done EXCEPT !.step = next], next, volume, boxes, host.error, host.excuse)
    BY <1>1 DEF After, HostRecord
  <1>2. host.step = step /\ UNCHANGED coreVars  BY DEF Removed, Command
  <1>3. next \in Late /\ host.error = "" => core.phase = "done"
    BY <1>2 DEF HostInv, Reported, Late
  <1>4. CASE host' = [done EXCEPT !.step = next]
    <2>1. After(host', next, volume, boxes, host.error, host.excuse)  BY <1>4, <1>6
    <2> QED  BY <1>2, <1>3, <2>1, WorkerMoves DEF Unstocked
  <1>5. CASE host' \in Swallowed(done, next)
    <2>1. PICK g \in {host, done} : After(host', next, g.volume, g.boxes, g.error, TRUE)
      BY <1>1, <1>5, SwallowedFailures
    <2>2. g.error = host.error  BY <1>1, <2>1
    <2>3. After(host', next, g.volume, g.boxes, host.error, TRUE)  BY <2>1, <2>2
    <2> QED  BY <1>2, <1>3, <2>3, WorkerMoves DEF Unstocked
  <1> QED  BY <1>4, <1>5 DEF Removed, Command

\* The effects of the commands.
LEMMA CommandEffects ==
  ASSUME host \in HostRecord, NEW box \in Boxes
  PROVE  /\ host.boxes \in SUBSET Boxes /\ host.boxes \cup {box} \in SUBSET Boxes
         /\ host.boxes \ {box} \in SUBSET Boxes
         /\ host.volume \in BOOLEAN /\ host.copied \in BOOLEAN
         /\ host = [host EXCEPT !.volume = host.volume, !.boxes = host.boxes, !.copied = host.copied]
         /\ With(box) = [host EXCEPT !.volume = host.volume, !.boxes = host.boxes \cup {box},
                                     !.copied = host.copied]
         /\ Without(box) = [host EXCEPT !.volume = host.volume, !.boxes = host.boxes \ {box},
                                        !.copied = host.copied]
         /\ WithoutVolume = [host EXCEPT !.volume = host.volume /\ host.boxes # {},
                                         !.boxes = host.boxes, !.copied = host.copied]
  <1>1. /\ host.boxes \in SUBSET Boxes /\ host.volume \in BOOLEAN /\ host.copied \in BOOLEAN
    BY HostParts
  <1>2. host.boxes \cup {box} \in SUBSET Boxes /\ host.boxes \ {box} \in SUBSET Boxes
    BY <1>1
  <1>3. /\ host = [host EXCEPT !.volume = host.volume, !.boxes = host.boxes, !.copied = host.copied]
        /\ With(box) = [host EXCEPT !.volume = host.volume, !.boxes = host.boxes \cup {box},
                                    !.copied = host.copied]
        /\ Without(box) = [host EXCEPT !.volume = host.volume, !.boxes = host.boxes \ {box},
                                       !.copied = host.copied]
        /\ WithoutVolume = [host EXCEPT !.volume = host.volume /\ host.boxes # {},
                                        !.boxes = host.boxes, !.copied = host.copied]
    BY DEF HostRecord, With, Without, WithoutVolume
  <1> QED  BY <1>1, <1>2, <1>3

\* The inputs are staged.
LEMMA StagingStep ==
  ASSUME HostInv,
         CreateVolume \/ CreateStage \/ CopyIn \/ CreateExtract \/ CopyOut
  PROVE  HostInv'
  <1>1. host \in HostRecord /\ Tidy  BY DEF HostInv
  <1>2. {"stage", "extract"} \subseteq Boxes  BY DEF Boxes
  <1>3. {"volume", "create", "copy_in", "rm_stage", "end", "undo_box", "extract", "copy_out",
         "rm_extract"} \subseteq Steps
    BY DEF Steps
  <1>4. CASE CreateVolume
    <2> DEFINE done == [host EXCEPT !.volume = TRUE]
    <2>1. host.step = "volume" /\ UNCHANGED coreVars  BY <1>4 DEF CreateVolume, Command
    <2>2. done = [host EXCEPT !.volume = TRUE, !.boxes = host.boxes, !.copied = host.copied]
      BY <1>1 DEF HostRecord
    <2>3. /\ done \in HostRecord /\ done.status = host.status /\ done.boxes = host.boxes
          /\ done.error = host.error /\ (done.excuse <=> host.excuse)
      BY <1>1 DEF HostRecord
    <2>4. CASE host' = [done EXCEPT !.step = "create"]
      <3>1. After(host', "create", TRUE, host.boxes, host.error, host.excuse)
        BY <1>3, <2>3, <2>4 DEF After, HostRecord
      <3>2. host.excuse \/ host.boxes \subseteq Expected("create")
        BY <1>1, <2>1 DEF Tidy, Expected
      <3> QED  BY <2>1, <3>1, <3>2, WorkerMoves DEF Late
    <2>5. CASE host' \in {Excused(h) : h \in StageFailed(done, "end")}
      <3>1. PICK h \in StageFailed(done, "end") : host' = Excused(h)  BY <2>5
      <3>2. PICK g \in {host, done} : \E error \in Errors :
               error # "" /\ After(h, "end", g.volume, g.boxes, error, g.excuse)
        BY <1>3, <2>3, <3>1, StageFailures
      <3>3. PICK error \in Errors :
               error # "" /\ After(h, "end", g.volume, g.boxes, error, g.excuse)
        BY <3>2
      <3>4. After(host', "end", g.volume, g.boxes, error, TRUE)
        BY <3>1, <3>3 DEF After, Excused, HostRecord
      <3> QED  BY <2>1, <3>4, WorkerMoves DEF Late
    <2> QED  BY <1>4, <2>4, <2>5 DEF CreateVolume, Command
  <1>5. CASE CreateStage
    <2>1. host.step = "create"  BY <1>5 DEF CreateStage, Command
    <2>2. host.excuse \/ host.boxes \subseteq {}  BY <1>1, <2>1 DEF Tidy, Expected
    <2>3. Command("create", With("stage"), "copy_in", StageFailed(With("stage"), "undo_box"))
      BY <1>5 DEF CreateStage, Undo
    <2>4. host.excuse \/ /\ host.boxes \cup {"stage"} \subseteq Expected("copy_in")
                         /\ host.boxes \cup {"stage"} \subseteq Expected("undo_box")
                         /\ host.boxes \subseteq Expected("undo_box")
      BY <2>2 DEF Expected
    <2>5. /\ "create" \in Steps /\ "copy_in" \in Steps /\ "undo_box" \in Steps /\ "create" # "end"
          /\ "copy_in" \in Late => "create" \in Late
          /\ "copy_in" \notin Unstocked /\ "undo_box" \notin Unstocked
      BY DEF Steps, Late, Unstocked
    <2>6. /\ host.volume \in BOOLEAN /\ host.boxes \cup {"stage"} \in SUBSET Boxes
          /\ host.copied \in BOOLEAN
          /\ With("stage") = [host EXCEPT !.volume = host.volume, !.boxes = host.boxes \cup {"stage"},
                                       !.copied = host.copied]
      BY <1>1, <1>2, CommandEffects
    <2> QED  BY <2>3, <2>4, <2>5, <2>6, StagedStep
  <1>6. CASE CopyIn
    <2>1. host.step = "copy_in"  BY <1>6 DEF CopyIn, Command
    <2>2. host.excuse \/ host.boxes \subseteq {"stage"}  BY <1>1, <2>1 DEF Tidy, Expected
    <2>3. Command("copy_in", host, "rm_stage", StageFailed(host, "undo_box"))
      BY <1>6 DEF CopyIn, Undo
    <2>4. host.excuse \/ /\ host.boxes \subseteq Expected("rm_stage")
                         /\ host.boxes \subseteq Expected("undo_box")
      BY <2>2 DEF Expected
    <2>5. /\ "copy_in" \in Steps /\ "rm_stage" \in Steps /\ "undo_box" \in Steps /\ "copy_in" # "end"
          /\ "rm_stage" \in Late => "copy_in" \in Late
          /\ "rm_stage" \notin Unstocked /\ "undo_box" \notin Unstocked
      BY DEF Steps, Late, Unstocked
    <2>6. /\ host.volume \in BOOLEAN /\ host.boxes \in SUBSET Boxes /\ host.copied \in BOOLEAN
          /\ host = [host EXCEPT !.volume = host.volume, !.boxes = host.boxes, !.copied = host.copied]
      BY <1>1, <1>2, CommandEffects
    <2> QED  BY <2>3, <2>4, <2>5, <2>6, StagedStep
  <1>7. CASE CreateExtract
    <2>1. host.step = "extract"  BY <1>7 DEF CreateExtract, Command
    <2>2. host.excuse \/ host.boxes \subseteq {}  BY <1>1, <2>1 DEF Tidy, Expected
    <2>3. Command("extract", With("extract"), "copy_out", StageFailed(With("extract"), "rm_extract"))
      BY <1>7 DEF CreateExtract
    <2>4. host.excuse \/ /\ host.boxes \cup {"extract"} \subseteq Expected("copy_out")
                         /\ host.boxes \cup {"extract"} \subseteq Expected("rm_extract")
                         /\ host.boxes \subseteq Expected("rm_extract")
      BY <2>2 DEF Expected
    <2>5. /\ "extract" \in Steps /\ "copy_out" \in Steps /\ "rm_extract" \in Steps /\ "extract" # "end"
          /\ "copy_out" \in Late => "extract" \in Late
          /\ "copy_out" \notin Unstocked /\ "rm_extract" \notin Unstocked
      BY DEF Steps, Late, Unstocked
    <2>6. /\ host.volume \in BOOLEAN /\ host.boxes \cup {"extract"} \in SUBSET Boxes
          /\ host.copied \in BOOLEAN
          /\ With("extract") = [host EXCEPT !.volume = host.volume, !.boxes = host.boxes \cup {"extract"},
                                       !.copied = host.copied]
      BY <1>1, <1>2, CommandEffects
    <2> QED  BY <2>3, <2>4, <2>5, <2>6, StagedStep
  <1>8. CASE CopyOut
    <2>1. host.step = "copy_out"  BY <1>8 DEF CopyOut, Command
    <2>2. host.excuse \/ host.boxes \subseteq Expected("rm_extract")
      BY <1>1, <2>1 DEF Tidy, Expected
    <2>3. PICK after : /\ after = [host EXCEPT !.copied = TRUE]
                       /\ Command("copy_out", after, "rm_extract", StageFailed(after, "rm_extract"))
      BY <1>8 DEF CopyOut
    <2>4. /\ after = [host EXCEPT !.volume = host.volume, !.boxes = host.boxes, !.copied = after.copied]
          /\ after.copied \in BOOLEAN
      BY <1>1, <2>3 DEF HostRecord
    <2>5. /\ "copy_out" \in Steps /\ "rm_extract" \in Steps /\ "copy_out" # "end"
          /\ "rm_extract" \in Late => "copy_out" \in Late
          /\ "rm_extract" \notin Unstocked
      BY DEF Steps, Late, Unstocked
    <2>6. host.volume \in BOOLEAN /\ host.boxes \in SUBSET Boxes
      BY <1>1, HostParts
    <2>7. Command("copy_out", after, "rm_extract", StageFailed(after, "rm_extract"))  BY <2>3
    <2> QED  BY <2>2, <2>4, <2>5, <2>6, <2>7, StagedStep
  <1> QED  BY <1>4, <1>5, <1>6, <1>7, <1>8

\* Containers and the volume are removed.
LEMMA RemovalsStep ==
  ASSUME HostInv,
         \/ RemoveStage \/ UndoStage \/ UndoVolume \/ UndoStageAgain
         \/ RemoveExtract \/ RemoveVolume
  PROVE  HostInv'
  <1>1. host \in HostRecord /\ Tidy  BY DEF HostInv
  <1>2. {"stage", "extract"} \subseteq Boxes  BY DEF Boxes
  <1>3. {"rm_stage", "run", "undo_box", "undo_volume", "rm_again", "end", "rm_extract", "rm_volume",
         "check"} \subseteq Steps
    BY DEF Steps
  <1>4. CASE RemoveStage
    <2>1. Removed("rm_stage", Without("stage"), "run")  BY <1>4 DEF RemoveStage
    <2>2. host.step = "rm_stage"  BY <2>1 DEF Removed, Command
    <2>3. host.excuse \/ host.boxes \ {"stage"} \subseteq Expected("run")
      BY <1>1, <2>2 DEF Tidy, Expected
    <2>4. /\ "rm_stage" \in Steps /\ "run" \in Steps /\ "rm_stage" # "end"
          /\ "run" \in Late => "rm_stage" \in Late
          /\ "run" \notin Unstocked
      BY DEF Steps, Late, Unstocked
    <2> QED  BY <1>1, <1>2, <2>1, <2>3, <2>4, CommandEffects, RemovalStep
  <1>5. CASE UndoStage
    <2>1. Removed("undo_box", Without("stage"), "undo_volume")  BY <1>5 DEF UndoStage
    <2>2. host.step = "undo_box"  BY <2>1 DEF Removed, Command
    <2>3. host.excuse \/ host.boxes \ {"stage"} \subseteq Expected("undo_volume")
      BY <1>1, <2>2 DEF Tidy, Expected
    <2>4. /\ "undo_box" \in Steps /\ "undo_volume" \in Steps /\ "undo_box" # "end"
          /\ "undo_volume" \in Late => "undo_box" \in Late
          /\ "undo_volume" \notin Unstocked
      BY DEF Steps, Late, Unstocked
    <2> QED  BY <1>1, <1>2, <2>1, <2>3, <2>4, CommandEffects, RemovalStep
  <1>6. CASE UndoVolume
    <2>1. Removed("undo_volume", WithoutVolume, "rm_again")  BY <1>6 DEF UndoVolume
    <2>2. host.step = "undo_volume"  BY <2>1 DEF Removed, Command
    <2>3. host.excuse \/ (host.boxes = {} /\ host.boxes \subseteq Expected("rm_again"))
      BY <1>1, <2>2 DEF Tidy, Expected
    <2>4. /\ "undo_volume" \in Steps /\ "rm_again" \in Steps /\ "undo_volume" # "end"
          /\ "rm_again" \in Late => "undo_volume" \in Late
      BY DEF Steps, Late
    <2> QED  BY <1>1, <1>2, <2>1, <2>3, <2>4, CommandEffects, RemovalStep
  <1>7. CASE UndoStageAgain
    <2>1. Removed("rm_again", Without("stage"), "end")  BY <1>7 DEF UndoStageAgain
    <2>2. host.step = "rm_again"  BY <2>1 DEF Removed, Command
    <2>3. host.excuse \/ (~host.volume /\ host.boxes \ {"stage"} \subseteq Expected("end"))
      BY <1>1, <2>2 DEF Tidy, Expected
    <2>4. /\ "rm_again" \in Steps /\ "end" \in Steps /\ "rm_again" # "end"
          /\ "end" \in Late => "rm_again" \in Late
      BY DEF Steps, Late
    <2> QED  BY <1>1, <1>2, <2>1, <2>3, <2>4, CommandEffects, RemovalStep
  <1>8. CASE RemoveExtract
    <2>1. Removed("rm_extract", Without("extract"), "rm_volume")  BY <1>8 DEF RemoveExtract
    <2>2. host.step = "rm_extract"  BY <2>1 DEF Removed, Command
    <2>3. host.excuse \/ host.boxes \ {"extract"} \subseteq Expected("rm_volume")
      BY <1>1, <2>2 DEF Tidy, Expected
    <2>4. /\ "rm_extract" \in Steps /\ "rm_volume" \in Steps /\ "rm_extract" # "end"
          /\ "rm_volume" \in Late => "rm_extract" \in Late
          /\ "rm_volume" \notin Unstocked
      BY DEF Steps, Late, Unstocked
    <2> QED  BY <1>1, <1>2, <2>1, <2>3, <2>4, CommandEffects, RemovalStep
  <1>9. CASE RemoveVolume
    <2>1. Removed("rm_volume", WithoutVolume, "check")  BY <1>9 DEF RemoveVolume
    <2>2. host.step = "rm_volume"  BY <2>1 DEF Removed, Command
    <2>3. host.excuse \/ (host.boxes = {} /\ host.boxes \subseteq Expected("check"))
      BY <1>1, <2>2 DEF Tidy, Expected
    <2>4. /\ "rm_volume" \in Steps /\ "check" \in Steps /\ "rm_volume" # "end"
          /\ "check" \in Late => "rm_volume" \in Late
      BY DEF Steps, Late
    <2> QED  BY <1>1, <1>2, <2>1, <2>3, <2>4, CommandEffects, RemovalStep
  <1> QED  BY <1>4, <1>5, <1>6, <1>7, <1>8, <1>9

\* The inputs are fetched, and in the end the result is checked and reported.
LEMMA EndsStep ==
  ASSUME IInv, StageInputs \/ CheckOutput
  PROVE  HostInv'
  <1>1. host \in HostRecord /\ Tidy /\ Reported /\ UNCHANGED coreVars /\ HostInv
    BY DEF IInv, HostInv, StageInputs, CheckOutput
  <1>2. CASE StageInputs
    <2>1. host.step = "stage" /\ host.status = ""  BY <1>1, <1>2 DEF StageInputs, Reported
    <2>2. \/ host' = [host EXCEPT !.step = "volume"]
          \/ host' = [Raised(host, "INVALID_FROZEN_EVIDENCE") EXCEPT !.step = "end"]
      BY <1>2 DEF StageInputs
    <2>3. \E step \in {"volume", "end"} : \E error \in Errors :
             After(host', step, host.volume, host.boxes, error, host.excuse)
      <3>1. CASE host' = [host EXCEPT !.step = "volume"]
        <4>1. After(host', "volume", host.volume, host.boxes, host.error, host.excuse)
          BY <1>1, <3>1 DEF After, HostRecord, Steps
        <4> QED  BY <1>1, <4>1, HostParts
      <3>2. CASE host' = [Raised(host, "INVALID_FROZEN_EVIDENCE") EXCEPT !.step = "end"]
        <4>1. PICK error \in Errors :
                 error = IF host.error = "" THEN "INVALID_FROZEN_EVIDENCE" ELSE host.error
          BY <1>1, HostParts DEF Errors
        <4>2. host' = [host EXCEPT !.error = error, !.step = "end"]
          BY <1>1, <3>2, <4>1 DEF Raised, HostRecord
        <4>3. After(host', "end", host.volume, host.boxes, error, host.excuse)
          BY <1>1, <4>2 DEF After, HostRecord, Steps
        <4> QED  BY <4>3
      <3> QED  BY <2>2, <3>1, <3>2
    <2>4. PICK step \in {"volume", "end"} : \E error \in Errors :
             After(host', step, host.volume, host.boxes, error, host.excuse)
      BY <2>3
    <2>5. PICK error \in Errors : After(host', step, host.volume, host.boxes, error, host.excuse)
      BY <2>4
    <2>6. host.excuse \/ (~host.volume /\ host.boxes \subseteq Expected(step))
      BY <1>1, <2>1 DEF Tidy, Expected
    <2>7. step \notin Late /\ host.step # "end"  BY <2>1 DEF Late
    <2> QED  BY <1>1, <2>5, <2>6, <2>7, WorkerMoves
  <1>3. CASE CheckOutput
    <2> DEFINE status == IF host.error # "" \/ ~host.copied THEN ""
                         ELSE IF Partial(dump, outcomes) THEN "PARTIAL" ELSE "COMPLETE"
    <2>1. host.step = "check" /\ host' = [host EXCEPT !.step = "end", !.status = status]
      BY <1>3 DEF CheckOutput
    <2>2. /\ status \in {"", "PARTIAL", "COMPLETE"}
          /\ status # "" => host.error = ""
          /\ status # "" /\ Partial(dump, outcomes) => status = "PARTIAL"
      OBVIOUS
    <2>3. host.error = "" => core.phase = "done"  BY <1>1, <2>1 DEF Reported
    <2> HIDE DEF status
    <2>4. /\ host' \in HostRecord /\ host'.step = "end" /\ host'.status = status
          /\ (host'.volume <=> host.volume) /\ host'.boxes = host.boxes
          /\ (host'.excuse <=> host.excuse)
      BY <1>1, <2>1, <2>2 DEF HostRecord, Steps
    <2>5. Tidy'  BY <1>1, <2>1, <2>4 DEF Tidy, Expected
    <2>6. Partial(dump, outcomes)' = Partial(dump, outcomes) /\ core' = core
      BY <1>1 DEF coreVars
    <2>7. Reported'  BY <2>2, <2>3, <2>4, <2>6 DEF Reported
    <2> QED  BY <2>4, <2>5, <2>7 DEF HostInv
  <1> QED  BY <1>2, <1>3

\* The worker comes back from the core, with or without its result.
LEMMA ReturnStep ==
  ASSUME IInv, CoreReturns
  PROVE  HostInv'
  <1>1. /\ host \in HostRecord /\ Tidy /\ Reported /\ UNCHANGED coreVars /\ HostInv
        /\ host.step = "wait" /\ core \in CoreRecord
    BY DEF IInv, CoreInv, CoreTyped, HostInv, CoreReturns
  <1>2. CASE /\ core.phase \in Ended /\ "core" \notin host.boxes
             /\ host' = [IF ExitCode = "" THEN host ELSE Raised(host, ExitCode) EXCEPT !.step = "extract"]
    <2>1. PICK error \in Errors :
             /\ host' = [host EXCEPT !.error = error, !.step = "extract"]
             /\ error = "" => core.phase = "done"
      <3>1. CASE core.phase = "done"
        <4>1. ExitCode = ""  BY <3>1 DEF ExitCode
        <4>2. host' = [host EXCEPT !.error = host.error, !.step = "extract"]
          BY <1>1, <1>2, <4>1 DEF HostRecord
        <4> QED  BY <1>1, <3>1, <4>2, HostParts
      <3>2. CASE core.phase # "done"
        <4>1. PICK code \in Errors : code # "" /\ ExitCode = code
          BY <1>2, <3>2 DEF ExitCode, Ended, Errors
        <4>2. PICK error \in Errors : error # "" /\ error = IF host.error = "" THEN code ELSE host.error
          BY <1>1, <4>1, HostParts
        <4>3. host' = [host EXCEPT !.error = error, !.step = "extract"]
          BY <1>1, <1>2, <4>1, <4>2 DEF HostRecord, Raised
        <4> QED  BY <4>2, <4>3
      <3> QED  BY <3>1, <3>2
    <2>2. After(host', "extract", host.volume, host.boxes, error, host.excuse)
      BY <1>1, <2>1 DEF After, HostRecord, Steps
    <2>3. host.excuse \/ host.boxes \subseteq Expected("extract")
      BY <1>1, <1>2 DEF Tidy, Expected
    <2> QED  BY <1>1, <2>1, <2>2, <2>3, WorkerMoves
  <1>3. CASE host' = [Raised(Excused(Fault(host)), "CORE_EXECUTION_TIMEOUT") EXCEPT !.step = "extract"]
    <2>1. PICK error \in Errors :
             error # "" /\ error = IF host.error = "" THEN "CORE_EXECUTION_TIMEOUT" ELSE host.error
      BY <1>1, HostParts DEF Errors
    <2>2. host' = [host EXCEPT !.error = error, !.faults = host.faults + 1, !.excuse = TRUE,
                               !.step = "extract"]
      BY <1>1, <1>3, <2>1 DEF HostRecord, Raised, Excused, Fault
    <2>3. host.faults + 1 \in Nat  BY <1>1, HostParts
    <2>4. After(host', "extract", host.volume, host.boxes, error, TRUE)
      BY <1>1, <2>2, <2>3 DEF After, HostRecord, Steps
    <2> QED  BY <1>1, <2>1, <2>4, WorkerMoves
  <1> QED  BY <1>2, <1>3 DEF CoreReturns

\* A step of the core, or one that ends it, leaves what the worker knows alone.
LEMMA WorkerStands ==
  ASSUME HostInv, core.phase \notin Ended,
         UNCHANGED host \/ host' = Fault(host)
  PROVE  HostInv'
  <1>1. /\ host.status = ""
        /\ ~(host.step \in {"extract", "copy_out", "rm_extract", "rm_volume", "check"} /\ host.error = "")
    BY DEF HostInv, Reported, Ended
  <1>2. /\ host' \in HostRecord /\ host'.step = host.step /\ (host'.volume <=> host.volume)
        /\ host'.boxes = host.boxes /\ host'.error = host.error /\ (host'.excuse <=> host.excuse)
        /\ host'.status = host.status
    <2>1. host.faults + 1 \in Nat  BY HostParts DEF HostInv
    <2> QED  BY <2>1 DEF HostInv, HostRecord, Fault
  <1>3. Expected(host'.step) = Expected(host.step)  BY <1>2
  <1>4. Tidy'  BY <1>2, <1>3 DEF HostInv, Tidy
  <1>5. Reported'  BY <1>1, <1>2 DEF Reported
  <1> QED  BY <1>2, <1>4, <1>5 DEF HostInv

-----------------------------------------------------------------------------
(* The invariant                                                           *)

LEMMA InitIInv == Init => IInv
  <1> SUFFICES ASSUME Init PROVE IInv  OBVIOUS
  <1>1. dump \in Dumps /\ core = Idle /\ symbols = {} /\ heard = {}
        /\ outcomes = [i \in Modules |-> {}]
    BY DEF Init, CoreInit, Modules
  <1>2. Budget \in Nat /\ PeBudget \in Nat  BY BudgetsAreNatural
  <1>3. core \in CoreRecord
    <2>1. /\ "idle" \in Phases /\ "" \in Reasons /\ 0 \in Nat /\ 0 \in 0..1
          /\ {} \in SUBSET Modules /\ {} \in SUBSET Keys
      BY DEF Phases, Reasons
    <2>2. FALSE \in BOOLEAN  OBVIOUS
    <2> QED  BY <1>1, <1>2, <2>1, <2>2 DEF Idle, CoreRecord
  <1>4. /\ core.phase = "idle" /\ core.left = Budget /\ core.peLeft = PeBudget /\ core.sent = {}
        /\ core.wasPublic = FALSE /\ core.reason = ""
    BY <1>1 DEF Idle
  <1>5. CoreTyped  BY <1>1, <1>3 DEF CoreTyped
  <1>6. \A i \in Modules : OutcomeFacts(i)  BY <1>1, <1>4 DEF OutcomeFacts
  <1>7. SymbolsHold  BY <1>1 DEF SymbolsHold
  <1>8. Unplanned /\ Verified /\ Ordered /\ Reasoned
    <2>1. core.left + PeBudget = Budget + core.peLeft /\ core.peLeft <= PeBudget
      <3>1. core.left = Budget /\ core.peLeft = PeBudget  BY <1>4
      <3> QED  BY <1>2, <3>1
    <2>2. ~core.wasPublic  BY <1>4
    <2>5. Unplanned  BY <1>4, <2>1, <2>2 DEF Unplanned
    <2>3. Verified /\ Ordered  BY <1>4, <2>2 DEF Verified, Ordered
    <2>4. Reasoned  BY <1>4 DEF Reasoned, Retryable
    <2> QED  BY <2>3, <2>4, <2>5
  <1>9. CoreInv  BY <1>5, <1>6, <1>7, <1>8 DEF CoreInv
  <1>10. host \in HostRecord /\ host.step = "stage" /\ ~host.volume /\ host.boxes = {} /\ host.status = ""
    BY DEF Init, HostInit, HostRecord, Steps, Boxes, Errors
  <1>11. Tidy /\ Reported  BY <1>10 DEF Tidy, Reported
  <1> QED  BY <1>9, <1>10, <1>11 DEF IInv

\* Every step preserves the invariant.
LEMMA InvariantStep == IInv /\ [Next]_vars => IInv'
  <1> SUFFICES ASSUME IInv, [Next]_vars PROVE IInv'  OBVIOUS
  <1>1. CoreInv /\ HostInv  BY DEF IInv, HostInv
  <1> SUFFICES CoreInv' /\ HostInv'  BY DEF IInv, HostInv
  <1>2. CASE CoreNext /\ UNCHANGED host
    BY <1>1, <1>2, CoreStep, WorkerStands
  <1>3. ASSUME UNCHANGED coreVars PROVE CoreInv'
    <2>1. UNCHANGED Learnt /\ UNCHANGED core  BY <1>3 DEF coreVars, Learnt
    <2>2. core' \in CoreRecord  BY <1>1, <2>1 DEF CoreInv, CoreTyped
    <2>3. CoreTyped' /\ (\A i \in Modules : OutcomeFacts(i))' /\ SymbolsHold'
      BY <1>1, <2>1, <2>2, NothingLearnt
    <2>4. Waiting' = Waiting /\ Part' = Part  BY <2>1, SameFrames DEF Learnt
    <2>5. Unplanned' /\ Verified' /\ Ordered' /\ Reasoned'
      BY <1>1, <2>1, <2>4 DEF CoreInv, Unplanned, Verified, Ordered, Reasoned, Learnt, Modules
    <2> QED  BY <2>3, <2>5 DEF CoreInv
  <1>4. CASE UNCHANGED vars
    <2>1. UNCHANGED coreVars /\ UNCHANGED host  BY <1>4 DEF vars, coreVars
    <2>2. UNCHANGED <<core, dump, outcomes>>  BY <2>1 DEF coreVars
    <2>3. HostInv'  BY <1>1, <2>1, <2>2 DEF HostInv, Tidy, Reported
    <2> QED  BY <1>3, <2>1, <2>3
  <1>5. CASE RunCore
    <2>1. /\ host.step = "run" /\ core.phase = "idle" /\ core' = [core EXCEPT !.phase = "verify"]
          /\ host' = [host EXCEPT !.boxes = host.boxes \cup {"core"}, !.step = "wait"]
          /\ UNCHANGED Learnt
      BY <1>5 DEF RunCore, Learnt
    <2>2. CoreInv'  BY <1>1, <2>1, CoreStartsOrDies
    <2>3. host.status = "" /\ host \in HostRecord  BY <1>1, <2>1 DEF HostInv, Reported
    <2>4. host.boxes \cup {"core"} \in SUBSET Boxes  BY <2>3, HostParts DEF Boxes
    <2>5. /\ host' \in HostRecord /\ host'.step = "wait" /\ (host'.volume <=> host.volume)
          /\ host'.boxes = host.boxes \cup {"core"} /\ (host'.excuse <=> host.excuse)
          /\ host'.status = ""
      BY <2>1, <2>3, <2>4 DEF HostRecord, Steps
    <2>6. Tidy' /\ Reported'
      BY <1>1, <2>1, <2>5 DEF HostInv, Tidy, Reported, Expected
    <2> QED  BY <2>2, <2>5, <2>6 DEF HostInv
  <1>6. CASE CoreKilled
    <2>1. UNCHANGED Learnt /\ core.phase \notin Ended \cup {"idle"} /\ host' = Fault(host)
          /\ core' = [core EXCEPT !.phase = "killed"]
      BY <1>6 DEF CoreKilled, Learnt
    <2> QED  BY <1>1, <2>1, CoreStartsOrDies, WorkerStands
  <1>7. CASE CoreGone
    <2>1. UNCHANGED coreVars /\ host' = [host EXCEPT !.boxes = host.boxes \ {"core"}]
      BY <1>7 DEF CoreGone
    <2>2. host \in HostRecord /\ host.boxes \ {"core"} \in SUBSET Boxes
      BY <1>1, HostParts DEF HostInv
    <2>3. /\ host' \in HostRecord /\ host'.step = host.step /\ (host'.volume <=> host.volume)
          /\ host'.boxes = host.boxes \ {"core"} /\ host'.error = host.error
          /\ (host'.excuse <=> host.excuse) /\ host'.status = host.status
      BY <2>1, <2>2 DEF HostRecord
    <2>4. Expected(host'.step) = Expected(host.step)  BY <2>3
    <2>5. Tidy'  BY <1>1, <2>3, <2>4 DEF HostInv, Tidy
    <2>6. Reported'  BY <1>1, <2>1, <2>3 DEF HostInv, Reported, coreVars
    <2> QED  BY <1>3, <2>1, <2>3, <2>5, <2>6 DEF HostInv
  <1>8. CASE \/ StageInputs \/ CreateVolume \/ CreateStage \/ CopyIn \/ RemoveStage
             \/ UndoStage \/ UndoVolume \/ UndoStageAgain \/ CreateExtract \/ CopyOut
             \/ RemoveExtract \/ RemoveVolume \/ CheckOutput \/ CoreReturns
    <2>1. UNCHANGED coreVars
      BY <1>8 DEF StageInputs, CreateVolume, CreateStage, CopyIn, RemoveStage, UndoStage, UndoVolume,
                  UndoStageAgain, CreateExtract, CopyOut, RemoveExtract, RemoveVolume, CheckOutput,
                  CoreReturns, Command, Removed
    <2>2. HostInv'
      BY <1>1, <1>8, StagingStep, RemovalsStep, EndsStep, ReturnStep
    <2> QED  BY <1>3, <2>1, <2>2
  <1> QED  BY <1>2, <1>4, <1>5, <1>6, <1>7, <1>8 DEF Next, HostNext

\* The invariant of a frozen run's execution: what is typed, what each outcome,
\* symbol and failure goes back to, and what the worker has left standing.
THEOREM Invariance == Spec => []IInv
  <1> QED  BY InitIInv, InvariantStep, PTL DEF Spec

-----------------------------------------------------------------------------
(* What follows                                                            *)

\* Every symbol was read from the source it is ascribed to, and that source is
\* its module's frozen pair or, where no upload answers, a public source
\* (collect's ownership rule and the partitions of plan).
THEOREM SymbolsAreAscribed == Spec => []SymbolsNameTheirOrigin
  <1>1. ASSUME IInv PROVE SymbolsNameTheirOrigin
    <2> SUFFICES ASSUME NEW f \in symbols
                 PROVE  LET m == dump.modules[f.module] IN
                        /\ f.origin = f.src
                        /\ IF m.state = "unique" THEN f.src = m.pair
                           ELSE m.state = "none" /\ f.src \in PublicSources
      BY DEF SymbolsNameTheirOrigin
    <2> DEFINE m == dump.modules[f.module]
    <2>1. /\ f.module \in Modules /\ dump \in Dumps /\ f.origin = f.src
          /\ KeyOf(f.module).id # 0 /\ f.src \in SourcesOf(KeyOf(f.module))
      BY <1>1 DEF IInv, CoreInv, CoreTyped, SymbolsHold, SymbolFacts
    <2>2. CASE KeyOf(f.module).public
      <3>1. m.state = "none" /\ f.src \in PublicSources
        BY <2>1, <2>2, KeyFacts DEF SourcesOf
      <3> QED  BY <2>1, <3>1
    <2>3. CASE ~KeyOf(f.module).public
      <3>1. m.state = "unique" /\ f.src = m.pair
        BY <2>1, <2>3, KeyFacts DEF SourcesOf
      <3> QED  BY <2>1, <3>1
    <2> QED  BY <2>2, <2>3
  <1> QED  BY <1>1, Invariance, PTL

\* A public partition is a request of its module.
LEMMA PublicKeys ==
  ASSUME dump \in Dumps, NEW i \in Modules, KeyOf(i).public
  PROVE  KeyOf(i).id # 0
  <1>1. dump.modules[i].state = "none" /\ PublicSources # {}  BY KeyFacts
  <1>2. KeyOf(i) = [public |-> TRUE, id |-> i]  BY <1>1 DEF KeyOf, PartitionKey
  <1>3. i # 0  BY FramesAreModules DEF Modules
  <1> QED  BY <1>2, <1>3

\* In a run that is done every partition a frame falls in was asked.
LEMMA DoneMeansAsked ==
  ASSUME IInv, core.phase = "done", NEW i \in InFrames(Frames), KeyOf(i).id # 0
  PROVE  i \in Modules /\ KeyOf(i) \in core.sent /\ (i \notin heard => KeyOf(i).public)
  <1>1. dump \in Dumps /\ Waiting = {} /\ \A j \in Modules : OutcomeFacts(j)
    BY DEF IInv, CoreInv, CoreTyped, Ordered
  <1>2. i \in Modules  BY <1>1, FramesAreModules
  <1>3. KeyOf(i) \in Plan(dump, Frames)  BY DEF Plan, KeyOf
  <1>4. KeyOf(i) \in core.sent  BY <1>1, <1>3 DEF Waiting
  <1> QED  BY <1>1, <1>2, <1>4 DEF OutcomeFacts

\* A public request that was never answered is reported as pending, in a
\* partial report, and never as something the server does not have
\* (Partition::unavailable and the status table of the assembly).
THEOREM PendingIsNotMissing == Spec => []SilenceIsNotAbsence
  <1>1. ASSUME IInv PROVE SilenceIsNotAbsence
    <2> SUFFICES ASSUME host.status # "", NEW i \in InFrames(Frames) \ heard, KeyOf(i).public
                 PROVE  /\ ModuleStatus(dump.modules[i], outcomes[i]) = "system_symbol_pending"
                        /\ host.status = "PARTIAL"
                        /\ \A o \in outcomes[i] : o.stage # "unwind" => o.outcome # "missing"
      BY DEF SilenceIsNotAbsence, KeyOf
    <2>1. core.phase = "done" /\ (Partial(dump, outcomes) => host.status = "PARTIAL") /\ dump \in Dumps
      BY <1>1 DEF IInv, Reported, CoreInv, CoreTyped
    <2>2. i \in Modules  BY <2>1, FramesAreModules
    <2>3. dump.modules[i].state = "none"  BY <2>1, <2>2, KeyFacts
    <2>4. KeyOf(i).id # 0  BY <2>1, <2>2, PublicKeys
    <2>5. KeyOf(i) \in core.sent  BY <1>1, <2>1, <2>4, DoneMeansAsked
    <2>6. /\ \E o \in outcomes[i] : /\ o.stage = "symbolicate"
                                    /\ o.class = "transient" \/ o.reason = Exhausted
          /\ \A o \in outcomes[i] : o.stage # "unwind" => o.outcome \in {"failed", "unknown"}
      BY <1>1, <2>2, <2>5 DEF IInv, CoreInv, OutcomeFacts
    <2>7. ModuleStatus(dump.modules[i], outcomes[i]) = "system_symbol_pending"
      BY <2>3, <2>6 DEF ModuleStatus, Blocked
    <2>8. Partial(dump, outcomes)
      BY <2>2, <2>6 DEF Partial, Modules
    <2> QED  BY <2>1, <2>6, <2>7, <2>8
  <1> QED  BY <1>1, Invariance, PTL

\* Public sources cost a run its pending symbols and never its report; and a
\* run that is done has heard of every private partition a frame falls in.
THEOREM PublicSourcesAreOptional == Spec => []PublicNeverFailsTheRun
  <1>1. ASSUME IInv PROVE PublicNeverFailsTheRun
    <2>1. /\ core.reason \in Retryable => ~Part.public
          /\ core.reason = "total_budget" => core.sent # {} /\ ~core.wasPublic
      BY <1>1 DEF IInv, CoreInv, Reasoned
    <2>2. ASSUME core.phase = "done", NEW i \in InFrames(Frames), dump.modules[i].state = "unique"
          PROVE  i \in heard
      <3>1. dump \in Dumps /\ \A j \in Modules : ValidSelection(dump.modules[j])
        BY <1>1, <2>2 DEF IInv, CoreInv, CoreTyped, Verified
      <3>2. i \in Modules  BY <3>1, FramesAreModules
      <3>3. KeyOf(i) = [public |-> FALSE, id |-> dump.modules[i].pair]
        BY <2>2, <3>1, <3>2, KeyFacts
      <3>4. dump.modules[i].pair # 0  BY <2>2, <3>1, <3>2 DEF ValidSelection
      <3> QED  BY <1>1, <2>2, <3>3, <3>4, DoneMeansAsked
    <2> QED  BY <2>1, <2>2 DEF PublicNeverFailsTheRun
  <1> QED  BY <1>1, Invariance, PTL

\* The evidence the core collects passes the checks it makes of it when it
\* assembles the result, whatever the engine and the proxy answered.
THEOREM AssemblyAccepts == Spec => []OwnEvidenceIsAccepted
  <1>1. IInv => OwnEvidenceIsAccepted  BY DEF IInv, CoreInv, Reasoned, OwnEvidenceIsAccepted
  <1> QED  BY <1>1, Invariance, PTL

\* An execution that ends with its volume still there has had a removal fail,
\* a creation without an answer, or a core that outlived its deadline
\* (DockerVolumeWorkspace).
THEOREM VolumesAreRemoved == Spec => []LeakHasCause
  <1>1. IInv => LeakHasCause  BY DEF IInv, Tidy, LeakHasCause
  <1> QED  BY <1>1, Invariance, PTL

\* What a run says of its symbols is true, for every dump, catalog and answer: where
\* they are from, what nobody answered, and in the form its own assembly asks for.
THEOREM HonestEvidence == Spec => []EvidenceIsHonest
  BY SymbolsAreAscribed, PendingIsNotMissing, AssemblyAccepts, PTL DEF EvidenceIsHonest
=============================================================================
