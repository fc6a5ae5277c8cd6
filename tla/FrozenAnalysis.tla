--------------------------- MODULE FrozenAnalysis ---------------------------
(***************************************************************************)
(* One invocation of the analysis core on a frozen run.  It unwinds the    *)
(* dump with the PEs of the selected pairs, asks the public proxy for the  *)
(* PEs of modules no upload answers, sends the symbol engine one request   *)
(* per source partition, one after the other under one total deadline, and *)
(* assembles what it learnt.                                               *)
(*                                                                         *)
(* Time is counted in ticks of the total source budget: an exchange takes  *)
(* none or one, a time-out and a long poll one.  The engine may answer     *)
(* anything, lose a pending request, or never answer at all.               *)
(***************************************************************************)
EXTENDS FrozenSources

CONSTANTS Dumps,       \* the dumps, with their frozen selections, considered
          Replies,     \* the candidate sets one source may report of a module
          Budget,      \* ticks for all exchanges of the run
          PeBudget,    \* ticks of them the public PEs may use
          PartBudget,  \* ticks one partition may use
          MaxPosts,    \* times one request may be posted
          MaxPe        \* public PEs that may be asked for

ASSUME BudgetsAreNatural ==
    /\ Budget \in Nat \ {0} /\ MaxPosts \in Nat \ {0} /\ MaxPe \in Nat
    /\ PartBudget \in Nat \ {0} /\ PeBudget \in 0..(Budget \div 2)

ASSUME DumpsAreCaptured ==
    \A d \in Dumps : d.modules \in Seq(Captured) /\ d.stack \in Seq(1..Len(d.modules))

VARIABLES dump,      \* the dump and its selections
          core,      \* the invocation
          outcomes,  \* per module, its terminal source outcomes
          symbols,   \* the symbols ascribed to frames
          heard      \* history: the modules a completed answer was about

coreVars == <<dump, core, outcomes, symbols, heard>>

\* How a request can fail.  "transport_error" stands for the broken exchanges
\* and the HTTP statuses that may pass, "unusable" for the others and for
\* answers that are no answer to this request.
Retryable == {"deadline_exceeded", "timeout", "transport_error", "repost_budget"}
Ended == {"done", "failed", "killed"}

Idle == [phase |-> "idle", left |-> Budget, peLeft |-> PeBudget, tried |-> {}, pe |-> {},
         sent |-> {}, posts |-> 0, polling |-> FALSE, partLeft |-> 0, reason |-> "",
         wasPublic |-> FALSE, attempts |-> 0]

CoreInit == /\ dump \in Dumps
            /\ core = Idle
            /\ outcomes = [i \in 1..Len(dump.modules) |-> {}]
            /\ symbols = {} /\ heard = {}

Modules == 1..Len(dump.modules)
Frames == Walk(dump, core.pe)
\* The partitions still to be asked, and the next of them.
Waiting == Plan(dump, Frames) \ core.sent
Part == CHOOSE p \in Waiting : \A q \in Waiting \ {p} : Before(p, q)

Fail(reason) == core' = [core EXCEPT !.phase = "failed", !.reason = reason]

\* The inputs are verified before anything else is done: every selection is
\* consistent, and the staged pairs are exactly those it names.
Verify ==
    /\ core.phase = "verify"
    /\ IF \A i \in Modules : ValidSelection(dump.modules[i])
       THEN core' = [core EXCEPT !.phase = "unwind",
                                 !.pe = {i \in Modules : dump.modules[i].pair # 0}]
       ELSE Fail("inputs")
    /\ UNCHANGED <<dump, outcomes, symbols, heard>>

-----------------------------------------------------------------------------
(* Public PEs.                                                             *)

\* Modules whose PE would carry the unwinding further and may be asked for.
PeWanted ==
    {i \in InFrames(Frames) \ (core.pe \cup core.tried) :
        dump.modules[i].state = "none" /\ dump.modules[i].proxy}

PeMayAsk == /\ Microsoft \in PublicSources
            /\ Cardinality(core.tried) < MaxPe /\ core.peLeft > 0 /\ PeWanted # {}

\* What each answer of the proxy is recorded as ("rejected" is a file that is
\* too large or not the captured module).
PeOutcome(reply) ==
    LET row(o, c, r) == Outcome(Microsoft, "unwind", o, c, r)
    IN  CASE reply = "genuine"   -> row("found", "none", "identity_verified_for_unwind")
          [] reply = "rejected"  -> row("failed", "permanent", "pe_identity_mismatch")
          [] reply = "absent"    -> row("missing", "permanent", "not_found")
          [] reply = "refused"   -> row("failed", "unknown", "proxy_failure")
          [] reply = "silent"    -> row("failed", "transient", "timeout")

\* The proxy is asked for the first such module, and the dump unwound again
\* when what it gave is the captured module.
FetchPe ==
    /\ core.phase = "unwind" /\ PeMayAsk
    /\ \E i \in {CHOOSE i \in PeWanted : \A j \in PeWanted : i <= j},
          reply \in {"genuine", "rejected", "absent", "refused", "silent"},
          t \in 0..1 :
        /\ reply = "silent" => t = 1
        /\ core' = [core EXCEPT !.tried = @ \cup {i}, !.peLeft = @ - t, !.left = @ - t,
                                !.pe = IF reply = "genuine" THEN @ \cup {i} ELSE @]
        /\ outcomes' = [outcomes EXCEPT ![i] = @ \cup {PeOutcome(reply)}]
    /\ UNCHANGED <<dump, symbols, heard>>

PlanSources ==
    /\ core.phase = "unwind" /\ ~PeMayAsk
    /\ core' = [core EXCEPT !.phase = "sources"]
    /\ UNCHANGED <<dump, outcomes, symbols, heard>>

-----------------------------------------------------------------------------
(* Source partitions.                                                      *)

\* Only a public partition may go without an answer, and only for a failure
\* that may pass.
GivenUp(key, reason) == key.public /\ reason \in Retryable

Minus(n, t) == IF n < t THEN 0 ELSE n - t

\* The partition's outcomes are those of a request without an answer, which
\* took t ticks.
Unanswered(reason, attempted, t) ==
    /\ outcomes' = [i \in Modules |->
                       IF i \in MembersOf(dump, Part)
                       THEN outcomes[i] \cup Unavailable(Part, reason, attempted)
                       ELSE outcomes[i]]
    /\ core' = [core EXCEPT !.phase = "sources", !.sent = @ \cup {Part}, !.left = Minus(@, t)]

\* The next partition: without time left a public one is passed over and a
\* private one fails the run.
BeginPartition ==
    /\ core.phase = "sources" /\ Waiting # {}
    /\ IF core.left > 0
       THEN /\ core' = [core EXCEPT !.phase = "request", !.posts = 0, !.polling = FALSE,
                                    !.attempts = 0,
                                    !.partLeft = IF core.left < PartBudget
                                                 THEN core.left ELSE PartBudget,
                                    !.wasPublic = @ \/ Part.public]
            /\ UNCHANGED outcomes
       ELSE IF Part.public THEN Unanswered(Exhausted, FALSE, 0)
       ELSE Fail("total_budget") /\ UNCHANGED outcomes
    /\ UNCHANGED <<dump, symbols, heard>>

\* The request ends without a usable answer.
RequestFails(reason, t) ==
    /\ IF GivenUp(Part, reason) THEN Unanswered(reason, TRUE, t)
       ELSE Fail(reason) /\ UNCHANGED outcomes
    /\ UNCHANGED <<dump, symbols, heard>>

\* Mutant: the deadline is only looked at before a post.
MayExchange_PollForever == core.polling \/ (core.partLeft > 0 /\ core.posts < MaxPosts)

\* Another exchange fits the partition's deadline and its posts.
MayExchange == core.partLeft > 0 /\ (core.polling \/ core.posts < MaxPosts)

GiveUp ==
    /\ core.phase = "request" /\ ~MayExchange
    /\ RequestFails(IF core.partLeft = 0 THEN "deadline_exceeded" ELSE "repost_budget", 0)

Posts == core.posts + (IF core.polling THEN 0 ELSE 1)
\* The attempts recorded, counted modulo 2: an exchange is never a stutter.
Attempts == 1 - core.attempts

\* The engine is still working: it is polled from now on.
Pending ==
    /\ core.phase = "request" /\ MayExchange
    /\ core' = [core EXCEPT !.polling = TRUE, !.posts = Posts, !.attempts = Attempts,
                            !.left = Minus(@, 1), !.partLeft = Minus(@, 1)]
    /\ UNCHANGED <<dump, outcomes, symbols, heard>>

\* The engine forgot the request it was working on: the same body is posted
\* again.
Forgotten ==
    /\ core.phase = "request" /\ MayExchange /\ core.polling
    /\ \E t \in 0..1 : core' = [core EXCEPT !.polling = FALSE, !.attempts = Attempts,
                                            !.left = Minus(@, t), !.partLeft = Minus(@, t)]
    /\ UNCHANGED <<dump, outcomes, symbols, heard>>

\* The exchange fails, or its answer cannot be used.
ExchangeFails ==
    /\ core.phase = "request" /\ MayExchange
    /\ \/ RequestFails("timeout", 1)
       \/ \E reason \in {"transport_error", "unusable"} : RequestFails(reason, 0)

-----------------------------------------------------------------------------
(* Answers.                                                                *)

\* The sources the engine can have read a module's symbols from.
Readable(answer) ==
    {s \in DOMAIN answer : \E c \in answer[s] : c.status = "ok" /\ c.readable}

\* A symbol for every frame of a module whose PDB came from one known source.
SymbolsOf(key, i, answer, origin) ==
    IF DebugStatus(answer) = "found" /\ Cardinality(Owners(answer)) = 1
    THEN {[frame |-> k, module |-> i, pair |-> IF key.public THEN 0 ELSE key.id,
           src |-> CHOOSE s \in Owners(answer) : TRUE, origin |-> origin]
             : k \in {k \in 1..Len(Frames) : Frames[k] = i}}
    ELSE {}

\* The engine answers: for each module the candidates it tried, and symbols
\* from one of the sources it could read.
Answered ==
    /\ core.phase = "request" /\ MayExchange
    /\ \E answer \in [MembersOf(dump, Part) -> [SourcesOf(Part) -> Replies]] :
       \E origin \in {f \in [DOMAIN answer -> {0} \cup SourcesOf(Part)] :
                         \A i \in DOMAIN answer :
                            IF Readable(answer[i]) = {} THEN f[i] = 0
                            ELSE f[i] \in Readable(answer[i])},
          t \in 0..1 :
        /\ outcomes' = [i \in Modules |->
                           IF i \in DOMAIN answer
                           THEN outcomes[i] \cup Collected(answer[i], DebugStatus(answer[i]))
                           ELSE outcomes[i]]
        /\ symbols' = symbols \cup UNION {SymbolsOf(Part, i, answer[i], origin[i])
                                             : i \in DOMAIN answer}
        /\ core' = [core EXCEPT !.phase = "sources", !.sent = @ \cup {Part}, !.left = Minus(@, t)]
    /\ heard' = heard \cup MembersOf(dump, Part)
    /\ UNCHANGED dump

\* All partitions are through: the evidence is checked and assembled.
Assemble ==
    /\ core.phase = "sources" /\ Waiting = {}
    /\ IF ValidInputs(dump, outcomes) /\ ValidPackets(dump, Frames, outcomes, symbols)
       THEN core' = [core EXCEPT !.phase = "done"] ELSE Fail("assembly")
    /\ UNCHANGED <<dump, outcomes, symbols, heard>>

CoreNext == Verify \/ FetchPe \/ PlanSources \/ BeginPartition \/ GiveUp \/ Pending
               \/ Forgotten \/ ExchangeFails \/ Answered \/ Assemble
=============================================================================
