------------------------- MODULE EvidenceComparison -------------------------
(***************************************************************************)
(* The rule evidence-v1 (evidence_comparison.py): may the report of a      *)
(* newer run replace the Current report of the same occurrence, and is     *)
(* another attempt worth while?  The rule is a pure function of two        *)
(* reports, here always of one occurrence.                                 *)
(*                                                                         *)
(* A report is a record of what AnalysisEvidence holds: its modules are a  *)
(* function from module indexes, its frames a sequence, and a frame's      *)
(* function, file and line, which the rule treats alike, are its text, a   *)
(* function from Fields.  The reasons that the comparison of frames and of *)
(* selections give for incomparable reports are one word each, and the     *)
(* list of differences is left out.                                        *)
(***************************************************************************)
EXTENDS Naturals, Sequences, FiniteSets

CONSTANTS Fields,   \* what a frame may say: function, file, line
          Nothing   \* None: no pair, no unwind method, no text, no thread

TerminalSuccess == {"COMPLETE", "PARTIAL"}
ReliableMethods == {"context", "call_frame_info", "frame_pointer"}
KnownMethods == ReliableMethods \cup {"cfi_scan", "scan", "prewalked", "unknown", Nothing}

Reliable(f) == f.method \in ReliableMethods
\* A frame of the program on the thread that crashed.
Business(f, r) == f.in_app /\ f.thread = r.fault.thread
Key(f) == <<f.module, f.rva>>

ShapeValid(r) ==
    /\ \A i \in DOMAIN r.modules :
          (r.modules[i].selection = "unique") <=> (r.modules[i].pair # Nothing)
    /\ \A k \in DOMAIN r.frames :
          LET f == r.frames[k] IN
          /\ f.module \in DOMAIN r.modules
          /\ f.in_app = r.modules[f.module].in_app
          /\ f.method \in KnownMethods

-----------------------------------------------------------------------------
(* Unique monotone embedding of the keys "old" into the keys "new".        *)

LeastOf(S) == CHOOSE i \in S : \A j \in S : i <= j
GreatestOf(S) == CHOOSE i \in S : \A j \in S : j <= i

\* The greedy matches from the left and from the right; Len(new) + 1 and 0 are
\* the cursors of a match that ran out of frames.
Earliest(old, new) ==
    LET at[i \in 0..Len(old)] ==
          IF i = 0 THEN 0
          ELSE LeastOf({j \in at[i - 1] + 1..Len(new) : new[j] = old[i]} \cup {Len(new) + 1})
    IN at
Latest(old, new) ==
    LET at[i \in 0..Len(old)] ==
          IF i = 0 THEN Len(new) + 1
          ELSE GreatestOf({j \in 1..at[i - 1] - 1 : new[j] = old[Len(old) + 1 - i]} \cup {0})
    IN at

\* The embedding in a set of one, and no embedding when there is not exactly one.
Align(old, new) ==
    LET left == Earliest(old, new)
        right == Latest(old, new)
        n == Len(old)
    IN IF \A i \in 1..n : left[i] <= Len(new) /\ left[i] = right[n + 1 - i]
       THEN {[i \in 1..n |-> left[i]]} ELSE {}

-----------------------------------------------------------------------------
(* Why something is gone, and whether it may come back.                    *)

StagesOf(stage) == IF stage = "unwind" THEN {"unwind", "download_pe"}
                                       ELSE {"symbolicate", "download_pdb"}
Temporary(s) == s.outcome = "failed" /\ s.failure = "transient" /\ s.diagnosed

LossClass(m, stage) ==
    LET failed == {s \in m.sources : s.stage \in StagesOf(stage) /\ s.outcome # "found"} IN
    IF stage = "symbols" /\ m.symbol \in {"missing", "malformed", "unsupported"}
    THEN "permanent"
    ELSE IF failed = {} THEN "unknown"
    ELSE IF \E s \in failed : s.outcome = "missing" \/ s.failure = "permanent" THEN "permanent"
    ELSE IF \A s \in failed : Temporary(s) THEN "transient" ELSE "unknown"

\* has_retryable_source_gaps; "budget" is the source_budget_exhausted_before_request.
HasRetryableGaps(r) ==
    \E i \in DOMAIN r.modules : \E s \in r.modules[i].sources :
        /\ Temporary(s) \/ (s.outcome = "unknown" /\ s.failure = "budget" /\ s.diagnosed)
        /\ ~ (r.modules[i].symbol = "found" /\ s.stage \in StagesOf("symbols"))
        /\ ~ \E peer \in r.modules[i].sources : peer.stage = s.stage /\ peer.outcome = "found"

-----------------------------------------------------------------------------
(* The anchors: reliable frames of the Current and what became of them.    *)

\* The elements of a sequence at these positions, in their order.
ElementsAt(s, positions) ==
    [n \in 1..Cardinality(positions) |->
       s[CHOOSE i \in positions : Cardinality({j \in positions : j <= i}) = n]]

Threads(r) == {r.frames[k].thread : k \in DOMAIN r.frames}
FramesOf(r, t) == ElementsAt(r.frames, {k \in DOMAIN r.frames : r.frames[k].thread = t})
\* Mutant: a frame without a name is no anchor.
Anchors_Named(r, t, business) ==
    ElementsAt(r.frames, {k \in DOMAIN r.frames :
                    LET f == r.frames[k] IN
                    /\ f.thread = t /\ Reliable(f) /\ (Business(f, r) <=> business)
                    /\ \E x \in Fields : f.text[x] # Nothing})

Anchors(r, t, business) ==
    ElementsAt(r.frames, {k \in DOMAIN r.frames :
                    LET f == r.frames[k] IN
                    f.thread = t /\ Reliable(f) /\ (Business(f, r) <=> business)})
Keys(frames) == [k \in DOMAIN frames |-> Key(frames[k])]

\* The role of a module may have become clearer without the platform's policies
\* having changed: the Current is then read with the roles of the candidate.
Clearer == {<<"unknown", "dependency">>, <<"unknown", "owned">>, <<"dependency", "owned">>}
SameClassification(old, new) ==
    old.classification # Nothing /\ old.classification = new.classification
Reclassified(old, new) ==
    {i \in DOMAIN old.modules : \/ old.modules[i].role # new.modules[i].role
                                \/ old.modules[i].in_app # new.modules[i].in_app}
RolesComparable(old, new) ==
    \A i \in Reclassified(old, new) :
        /\ old.modules[i].role_source = "catalog_default"
        /\ new.modules[i].role_source = "catalog_default"
        /\ <<old.modules[i].role, new.modules[i].role>> \in Clearer
        /\ SameClassification(old, new)
WithRolesOf(old, new) ==
    [old EXCEPT
       !.modules = [i \in DOMAIN old.modules |->
                      [old.modules[i] EXCEPT !.role = new.modules[i].role,
                                             !.in_app = new.modules[i].in_app]],
       !.frames = [k \in DOMAIN old.frames |->
                      [old.frames[k] EXCEPT !.in_app = new.modules[old.frames[k].module].in_app]]]

Loss(module, stage, business) == [module |-> module, stage |-> stage, business |-> business]

\* The comparison of one thread's anchors, by matched pairs <<before, after>>.
Thread(old, new, t, business) ==
    LET before == Anchors(old, t, business)
        after == FramesOf(new, t)
        present == {Key(after[k]) : k \in DOMAIN after}
        retained == ElementsAt(before, {k \in DOMAIN before : Key(before[k]) \in present})
        gone == {before[k] : k \in DOMAIN before} \ {retained[k] : k \in DOMAIN retained}
        aligned == Align(Keys(retained), Keys(after))
        pairs == UNION {{<<retained[k], after[e[k]]>> : k \in DOMAIN retained} : e \in aligned}
    IN [differs |-> \/ aligned = {}
                    \/ \E p \in pairs :
                          \/ p[1].in_app # p[2].in_app
                          \/ p[1].method # p[2].method /\ Reliable(p[2])
                          \/ \E x \in Fields : /\ p[1].text[x] # p[2].text[x]
                                               /\ p[1].text[x] # Nothing
                                               /\ p[2].text[x] # Nothing,
        losses |->
           {Loss(f.module, "unwind", business) : f \in gone}
             \cup {Loss(p[1].module, "unwind", business) :
                      p \in {q \in pairs : q[1].method # q[2].method}}
             \cup {Loss(p[1].module, "symbols", business) :
                      p \in {q \in pairs : \E x \in Fields : /\ q[1].text[x] # Nothing
                                                             /\ q[2].text[x] = Nothing}},
        gains |-> \E p \in pairs : /\ Reliable(p[2])
                                   /\ \E x \in Fields : /\ p[1].text[x] = Nothing
                                                        /\ p[2].text[x] # Nothing]

LegacyFrame(r) == \E k \in DOMAIN r.frames :
                     Business(r.frames[k], r) /\ r.frames[k].method = Nothing
BusinessCount(r) == Len(Anchors(r, r.fault.thread, TRUE))

-----------------------------------------------------------------------------
(* Selections and symbols of the modules.                                  *)

\* Mutant: a selection that is gone is no contradiction.
SelectionChanged_Gone(o, n) == /\ o.selection = "unique" /\ n.selection = "unique"
                               /\ n.pair # o.pair

SelectionChanged(o, n) == /\ o.selection = "unique"
                          /\ n.selection # "unique" \/ n.pair # o.pair
SelectionGained(o, n) == o.selection = "none" /\ n.selection = "unique"
SymbolLost(o, n) == o.symbol = "found" /\ n.symbol # "found"

\* A failure of the Current that the candidate has again.
StillFailing(o, n) ==
    \E stage \in {"symbols", "unwind"} :
        /\ LossClass(o, stage) = "transient" /\ LossClass(n, stage) = "transient"
        /\ IF stage = "symbols" THEN n.symbol # "found"
           ELSE ~ \E s \in n.sources : s.stage \in StagesOf("unwind") /\ s.outcome = "found"

-----------------------------------------------------------------------------
Verdict(decision, reason, retry) == [decision |-> decision, reason |-> reason, retry |-> retry]

\* Mutant: any system loss is excused, whether or not business evidence improved.
CompareAnchors_AnySystemLoss(old, new, classified) ==
    LET threads == {Thread(old, new, t, b) : t \in Threads(old), b \in BOOLEAN}
        losses == (UNION {t.losses : t \in threads})
                    \cup {Loss(i, "symbols", old.modules[i].in_app) :
                             i \in {j \in DOMAIN old.modules :
                                       SymbolLost(old.modules[j], new.modules[j])}}
    IN IF \E t \in threads : t.differs
       THEN Verdict("incomparable", "anchors_differ", FALSE)
       ELSE IF \E l \in losses : l.business
       THEN Verdict("retain", "business_transient_loss", FALSE)
       ELSE Verdict("promote", "improved", HasRetryableGaps(new))

\* The part of compare_evidence after both reports are known to be comparable at
\* all; "old" has the roles of the candidate.
CompareAnchors(old, new, classified) ==
    LET business == {Thread(old, new, t, TRUE) : t \in Threads(old)}
        threads == business \cup {Thread(old, new, t, FALSE) : t \in Threads(old)}
        indexes == DOMAIN old.modules
        losses == (UNION {t.losses : t \in threads})
                    \cup {Loss(i, "symbols", old.modules[i].in_app) :
                             i \in {j \in indexes : SymbolLost(old.modules[j], new.modules[j])}}
        classes == {LossClass(new.modules[l.module], l.stage) : l \in losses}
        business_improved == \/ \E t \in business : t.gains
                             \/ BusinessCount(new) > BusinessCount(old)
        improved == \/ classified \/ business_improved
                    \/ \E t \in threads : t.gains
                    \/ \E i \in indexes : SelectionGained(old.modules[i], new.modules[i])
        only_system == \A l \in losses : /\ old.modules[l.module].role = "system"
                                         /\ ~ old.modules[l.module].in_app
    IN IF LegacyFrame(old) \/ \E t \in threads : t.differs
       THEN Verdict("incomparable", "anchors_differ", FALSE)
       ELSE IF \E i \in indexes : SelectionChanged(old.modules[i], new.modules[i])
       THEN Verdict("incomparable", "selection_changed", FALSE)
       ELSE IF losses = {}
       THEN Verdict("promote", IF improved THEN "improved" ELSE "equivalent",
                    \/ \E i \in indexes : StillFailing(old.modules[i], new.modules[i])
                    \/ HasRetryableGaps(new))
       ELSE IF "unknown" \in classes THEN Verdict("incomparable", "unknown_loss", FALSE)
       ELSE IF "permanent" \in classes THEN Verdict("retain", "permanent_loss", FALSE)
       ELSE IF \E l \in losses : l.business
       THEN Verdict("retain", "business_transient_loss", TRUE)
       ELSE IF only_system /\ business_improved
       THEN Verdict("promote", "q16_system_transient", TRUE)
       ELSE Verdict("retain", IF only_system THEN "system_transient_loss"
                              ELSE "non_system_transient_loss", TRUE)

\* The part after it is known that the candidate needs no review.
CompareContents(current, candidate) ==
    IF current.provenance = "insufficient" \/ ~ current.usable
    THEN Verdict("incomparable", "legacy_evidence_missing", FALSE)
    ELSE IF ~ current.complete \/ ~ candidate.complete
    THEN Verdict("incomparable", "pair_evidence_incomplete", FALSE)
    ELSE IF \/ current.context # candidate.context /\ ~ SameClassification(current, candidate)
            \/ current.inspect # candidate.inspect
    THEN Verdict("incomparable", "context_mismatch", FALSE)
    ELSE IF current.fault # candidate.fault
    THEN Verdict("incomparable", "fault_changed", FALSE)
    ELSE IF ~ ShapeValid(current) \/ DOMAIN current.modules # DOMAIN candidate.modules
    THEN Verdict("incomparable", "module_evidence_incomplete", FALSE)
    ELSE IF \/ \E i \in DOMAIN current.modules :
                  current.modules[i].identity # candidate.modules[i].identity
            \/ ~ RolesComparable(current, candidate)
    THEN Verdict("incomparable", "context_mismatch", FALSE)
    ELSE CompareAnchors(WithRolesOf(current, candidate), candidate,
                        Reclassified(current, candidate) # {})

\* compare_evidence.  "older" is candidate.run_id <= current.run_id; "authorized"
\* is that an audited review covers this very pair of reports and cause.
Compare(current, candidate, older, authorized) ==
    IF candidate.status \notin TerminalSuccess \/ ~ candidate.usable
    THEN Verdict("retain", "candidate_not_eligible", FALSE)
    ELSE IF candidate.provenance \notin {"native_2.0", "verified_raw_mapping"}
    THEN Verdict("incomparable", "candidate_evidence_missing", FALSE)
    ELSE IF ~ ShapeValid(candidate)
    THEN Verdict("incomparable", "module_evidence_incomplete", FALSE)
    ELSE IF current = Nothing
    THEN Verdict("promote", "initial", HasRetryableGaps(candidate))
    ELSE IF current.dump # candidate.dump
    THEN Verdict("incomparable", "occurrence_or_dump_mismatch", FALSE)
    ELSE IF older
    THEN Verdict("retain", "older_candidate", FALSE)
    ELSE IF authorized /\ candidate.complete
    THEN IF candidate.reason = "evidence_correction"
         THEN Verdict("correct", "verified_correction", FALSE)
         ELSE Verdict("promote", "reviewed_transition", FALSE)
    ELSE IF candidate.reason \notin {"symbol_refresh", "manual"}
    THEN Verdict("incomparable", "transition_requires_review", FALSE)
    ELSE CompareContents(current, candidate)

Promotes(verdict) == verdict.decision \in {"promote", "correct"}

\* What the rule says of a newer candidate, without a review and with one.  A review
\* gives the candidate its own cause, so that only the cases that come before the
\* authorization can stand in its way.
Allows(o, n) == Promotes(Compare(o, n, FALSE, FALSE))
AllowsReviewed(o, n) == Promotes(Compare(o, n, FALSE, TRUE))
Improves(o, n) == /\ Allows(o, n)
                  /\ Compare(o, n, FALSE, FALSE).reason \in {"improved", "q16_system_transient"}
=============================================================================
