---------------------------- MODULE ReportHistory ----------------------------
(***************************************************************************)
(* CurrentReport with a memory: one report that a better one has replaced  *)
(* since the last review.                                                  *)
(***************************************************************************)
EXTENDS CurrentReport

\* The replacements are those that evidence-v1 promotes, and reports are what the
\* comparison can read.
ASSUME HistoryAssumption ==
    /\ IsFiniteSet(Fields)
    /\ \A o \in Reports \cup {Nothing}, n \in Reports : Allowed(o, n) => Allows(o, n)
    /\ \A r \in Reports :
         /\ {"fault", "modules", "frames"} \subseteq DOMAIN r
         /\ r.frames \in Seq({r.frames[k] : k \in DOMAIN r.frames})
         /\ \A i \in DOMAIN r.modules :
              {"role", "in_app", "selection", "pair", "symbol"} \subseteq DOMAIN r.modules[i]
         /\ \A k \in DOMAIN r.frames :
              {"thread", "module", "rva", "method", "in_app", "text"} \subseteq DOMAIN r.frames[k]

VARIABLE left  \* history: any one report that a better one has replaced since
               \* the last review, or Nothing

HistoryInit == ReportInit /\ left = Nothing
HistoryNext ==
    \E n \in Reports :
        \/ /\ Promote(n)
           /\ left' \in {left} \cup (IF Improves(report, n) /\ left = Nothing
                                     THEN {report} ELSE {})
        \/ PromoteReviewed(n) /\ left' = Nothing
HistorySpec == HistoryInit /\ [][HistoryNext]_<<report, by, left>>

\* Improves is an order: however many replacements follow each other, a report that
\* a better one has replaced does not come back without a review.
NoReturn == left # Nothing => report # left
==============================================================================
