---------------------------- MODULE FrozenSources ----------------------------
(***************************************************************************)
(* The pure part of a frozen analysis: how the captured modules of a dump  *)
(* are divided into source partitions, what one answer (or none) of the    *)
(* symbol engine says about each of them, and how the evidence becomes the *)
(* canonical result.                                                       *)
(*                                                                         *)
(* A pair is named by the digest of its content, here a natural number,    *)
(* and serves as the id of the private source that holds just that pair.   *)
(* A captured module is a record                                           *)
(*   state : the frozen selection's state                                  *)
(*   pair  : the selected pair, or 0                                       *)
(*   proxy : whether its identity allows a public PE to be asked for       *)
(*   app   : whether the frozen role policy counts it as business code     *)
(* and a dump is its modules with the one stack the walker unwinds, whose  *)
(* frames are named by the index of the module they fall in.               *)
(***************************************************************************)
EXTENDS Integers, FiniteSets, Sequences

CONSTANTS Pairs,          \* content digests of symbol pairs
          PublicSources,  \* ids of the deployment's public sources
          Microsoft       \* the public source whose proxy also serves PEs

ASSUME PairsAreDigests == Pairs \subseteq Nat \ {0}
ASSUME PublicSourcesAreListed == IsFiniteSet(PublicSources)
ASSUME PairSourcesAreReserved == PublicSources \subseteq Nat \ ({0} \cup Pairs)

States == {"unique", "conflict", "none", "unavailable", "indeterminate"}
Blocked == {"conflict", "unavailable", "indeterminate"}

Captured == [state : States, pair : Pairs \cup {0},
             proxy : BOOLEAN, app : BOOLEAN]

\* Exactly the unique selections name a pair.
ValidSelection(m) == (m.state = "unique") <=> (m.pair # 0)

\* The frames the walker recovers when these modules have a PE: it unwinds
\* through a frame only with the PE of its module, unless scanning finds the
\* callers in any case.
Walk(dump, withPe) ==
    LET stuck == {k \in 1..Len(dump.stack) : dump.stack[k] \notin withPe}
    IN  IF dump.scan \/ stuck = {} THEN dump.stack
        ELSE SubSeq(dump.stack, 1, CHOOSE k \in stuck : \A j \in stuck : k <= j)

InFrames(frames) == {frames[k] : k \in 1..Len(frames)}

-----------------------------------------------------------------------------
(* Partitions.                                                             *)

\* The request a module belongs to: its own pair's, one of its own when only
\* public sources can serve it, or none at all (id 0).
PartitionKey(i, m) ==
    CASE m.state = "unique" -> [public |-> FALSE, id |-> m.pair]
      [] m.state = "none" /\ PublicSources # {} -> [public |-> TRUE, id |-> i]
      [] OTHER -> [public |-> FALSE, id |-> 0]

SourcesOf(key) == IF key.public THEN PublicSources ELSE {key.id}

\* Mutant: requests are sent in the order of the modules in the dump.
Before_ModuleOrder(p, q) ==
    IF p.public = q.public THEN p.id < q.id ELSE p.public

\* The order of the requests: the keys of private partitions sort before the
\* public ones ("public:" follows every hexadecimal digest).
Before(p, q) == IF p.public = q.public THEN p.id < q.id ELSE q.public

MembersOf(dump, key) ==
    {i \in 1..Len(dump.modules) : PartitionKey(i, dump.modules[i]) = key}

\* The requests of a run: only modules that a frame falls in are asked about,
\* but a partition carries every module of its pair.
Plan(dump, frames) ==
    LET keys == {PartitionKey(i, dump.modules[i]) : i \in InFrames(frames)}
    IN  {k \in keys : k.id # 0}

-----------------------------------------------------------------------------
(* Outcomes.                                                               *)

Outcome(src, stage, outcome, class, reason) ==
    [src |-> src, stage |-> stage, outcome |-> outcome, class |-> class, reason |-> reason]

Exhausted == "source_budget_exhausted_before_request"

\* Mutant: a request that failed is recorded as transient without a failure.
Unavailable_Unknown(key, reason, attempted) ==
    {Outcome(s, "symbolicate", "unknown", IF attempted THEN "transient" ELSE "unknown", reason)
        : s \in SourcesOf(key)}

\* No answer: no symbols, and no claim about what the sources hold.
Unavailable(key, reason, attempted) ==
    {Outcome(s, "symbolicate",
             IF attempted THEN "failed" ELSE "unknown",
             IF attempted THEN "transient" ELSE "unknown", reason)
        : s \in SourcesOf(key)}

\* What the candidates of one source say together about its PDB.  A candidate
\* is the status of one download and whether its debug information was read.
DownloadOutcome(src, candidates) ==
    LET statuses == {c.status : c \in candidates}
        row(o, c, r) == Outcome(src, "download_pdb", o, c, r)
    IN  IF "ok" \in statuses THEN row("found", "none", "downloaded")
        ELSE IF statuses = {"notfound"} THEN row("missing", "permanent", "source_missing")
        ELSE IF statuses \cap {"malformed", "permanent_http"} # {}
             THEN row("failed", "permanent", "malformed")
        ELSE IF statuses \subseteq {"notfound", "transient_http"}
             THEN row("failed", "transient", "correlated_candidate_http_failure")
        ELSE row("failed", "unknown", "source_failure_without_correlated_cause")

\* Mutant: the first of several sources that hold the PDB is taken for the owner.
Owners_Any(answer) ==
    LET ok == {s \in DOMAIN answer : \E c \in answer[s] : c.status = "ok" /\ c.readable}
    IN  IF ok = {} THEN {} ELSE {CHOOSE s \in ok : TRUE}

\* The sources whose PDB may have given the symbols.
Owners(answer) ==
    {s \in DOMAIN answer : \E c \in answer[s] : c.status = "ok" /\ c.readable}

\* The outcomes of one module's answer: what each source's downloads came to,
\* and whether the symbols can be ascribed to exactly one source.
Collected(answer, debug) ==
    LET asked == {s \in DOMAIN answer : answer[s] # {}}
        downloads == {DownloadOutcome(s, answer[s]) : s \in asked}
        class(s) ==
            IF debug \in {"malformed", "unsupported"} THEN "permanent"
            ELSE IF debug = "fetching_failed"
                    /\ \E d \in downloads : d.src = s /\ d.outcome = "failed"
                 THEN (CHOOSE d \in downloads : d.src = s /\ d.outcome = "failed").class
            ELSE "unknown"
    IN  downloads \cup
        IF debug = "found" /\ Cardinality(Owners(answer)) = 1
        THEN {Outcome(s, "symbolicate", "found", "none", "verified_partition_response")
                 : s \in Owners(answer)}
        ELSE {Outcome(s, "symbolicate",
                      IF class(s) # "unknown" THEN "failed" ELSE "unknown",
                      class(s), "source_ownership_incomplete") : s \in DOMAIN answer}

\* The module state the engine reports with such an answer: it takes a readable
\* PDB if there is one, and otherwise tells the gravest thing it met.
DebugStatus(answer) ==
    LET all == UNION {answer[s] : s \in DOMAIN answer}
    IN  IF \E c \in all : c.status = "ok" /\ c.readable THEN "found"
        ELSE IF \E c \in all : c.status \in {"ok", "malformed"} THEN "malformed"
        ELSE IF \E c \in all : c.status # "notfound" THEN "fetching_failed"
        ELSE "missing"

-----------------------------------------------------------------------------
(* Assembly.                                                               *)

\* A terminal outcome the canonical result may carry.
ValidOutcome(o) ==
    /\ (o.outcome = "found") <=> (o.class = "none")
    /\ o.class = "transient" => o.outcome = "failed"

\* The evidence agrees with the frozen selection and with itself.
ValidInputs(dump, outcomes) ==
    \A i \in 1..Len(dump.modules) :
        /\ ValidSelection(dump.modules[i])
        /\ \A o \in outcomes[i] : ValidOutcome(o)
        /\ \A o, p \in outcomes[i] : o.src = p.src /\ o.stage = p.stage => o = p
        /\ dump.modules[i].state \in Blocked => \A o \in outcomes[i] : o.outcome = "blocked"

\* A symbol comes from the module's selected pair, or from a public source for
\* a module no upload answers, and its source is known to have been read.
ValidPacket(dump, frames, outcomes, f) ==
    LET m == dump.modules[f.module]
    IN  /\ f.frame \in 1..Len(frames) /\ frames[f.frame] = f.module
        /\ IF f.pair # 0 THEN m.state = "unique" /\ m.pair = f.pair
           ELSE m.state = "none" /\ f.src \in PublicSources
        /\ \E o \in outcomes[f.module] :
              o.src = f.src /\ o.stage = "symbolicate" /\ o.outcome = "found"

ValidPackets(dump, frames, outcomes, symbols) ==
    /\ \A f \in symbols : ValidPacket(dump, frames, outcomes, f)
    /\ \A f, g \in symbols : f.frame = g.frame => f = g

\* Mutant: an unwound public module is classified before its pending request.
ModuleStatus_UnwindFirst(m, outcomes) ==
    CASE m.state = "unique" -> "matched"
      [] m.state \in Blocked -> "symbol_" \o m.state
      [] OTHER ->
         IF \E o \in outcomes : o.stage = "unwind" /\ o.outcome = "found"
         THEN IF \E o \in outcomes : o.stage = "download_pdb" /\ o.outcome = "found"
              THEN "matched" ELSE "missing_pdb"
         ELSE IF \E o \in outcomes : /\ o.stage = "symbolicate"
                                     /\ o.class = "transient" \/ o.reason = Exhausted
              THEN "system_symbol_pending" ELSE "missing_pe"

\* What the report says of a module.
ModuleStatus(m, outcomes) ==
    CASE m.state = "unique" -> "matched"
      [] m.state \in Blocked -> "symbol_" \o m.state
      [] OTHER ->
         IF \E o \in outcomes : /\ o.stage = "symbolicate"
                                /\ o.class = "transient" \/ o.reason = Exhausted
         THEN "system_symbol_pending"
         ELSE IF \E o \in outcomes : o.stage = "unwind" /\ o.outcome = "found"
              THEN IF \E o \in outcomes : o.stage = "download_pdb" /\ o.outcome = "found"
                   THEN "matched" ELSE "missing_pdb"
         ELSE "missing_pe"

\* A report with evidence still to come, or a business module without symbols,
\* is partial.
Partial(dump, outcomes) ==
    \E i \in 1..Len(dump.modules) :
        \/ \E o \in outcomes[i] : o.class = "transient" \/ o.reason = Exhausted
        \/ dump.modules[i].app /\ ModuleStatus(dump.modules[i], outcomes[i]) # "matched"
=============================================================================
