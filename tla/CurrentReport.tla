---------------------------- MODULE CurrentReport ----------------------------
(***************************************************************************)
(* What the platform promises of the report it shows for an occurrence     *)
(* (docs/adr/0021): it is replaced by a newer one only where the rule      *)
(* evidence-v1 allows it, or by a review.  Which worker asks, what it had  *)
(* read before and which transaction writes the answer is left to          *)
(* CurrentPromotion, which implements this specification.                  *)
(***************************************************************************)
EXTENDS EvidenceComparison

CONSTANTS Reports,          \* the reports that runs may produce
          Allowed(_, _),    \* may the second report replace the first by the rule,
          Reviewable(_, _)  \* and by a review?

ASSUME ReportAssumption == Nothing \notin Reports

VARIABLES report,  \* the report of the Current run, Nothing before the first
          by       \* what made it Current: "rule" or "review", "nobody" before

ReportInit == report = Nothing /\ by = "nobody"

Promote(n) == report' = n /\ by' = "rule" /\ Allowed(report, n)
PromoteReviewed(n) == /\ report # Nothing
                      /\ report' = n /\ by' = "review"
                      /\ Reviewable(report, n)

ReportNext == \E n \in Reports : Promote(n) \/ PromoteReviewed(n)
ReportSpec == ReportInit /\ [][ReportNext]_<<report, by>>

-----------------------------------------------------------------------------
\* What the reliable frames of a report say, as facts a reader may rely on: that
\* the frame is there, how it was found, and each text it has.
Said(f) == {<<f.thread, Key(f), f.method, x, f.text[x]>> :
                  x \in {y \in Fields : f.text[y] # Nothing}}
                \cup {<<f.thread, Key(f), f.method>>}
Facts(frames) == UNION {Said(f) : f \in {g \in frames : Reliable(g)}}
FrameSet(r) == {r.frames[k] : k \in DOMAIN r.frames}
AllFacts(r) == Facts(FrameSet(r))
BusinessFacts(r) == Facts({f \in FrameSet(r) : Business(f, r)})

\* Without a review, no replacement takes away what the Current reliably says of
\* the program's own frames on the crashing thread ("preserved key evidence").
BusinessKept == [][\A o \in {report} \ {Nothing}, n \in {report'} :
                      by' = "rule"
                        => BusinessFacts(WithRolesOf(o, n))
                             \subseteq AllFacts(n)]_report

\* One more frame of the program, or a text for one that was known without it.
BusinessGained(old, new) ==
    \/ BusinessCount(new) > BusinessCount(old)
    \/ \E f \in FrameSet(old), g \in FrameSet(new) :
          /\ Business(f, old) /\ Reliable(f) /\ Business(g, new) /\ Reliable(g)
          /\ Key(f) = Key(g)
          /\ \E x \in Fields : f.text[x] = Nothing /\ g.text[x] # Nothing

\* What such a replacement does take away was said of system modules whose sources
\* report a temporary failure, and it brings business evidence that was not there.
LossExcused ==
    [][\A o \in {report} \ {Nothing}, n \in {report'} :
          LET old == WithRolesOf(o, n)
              lost == {i \in DOMAIN old.modules :
                         \/ SymbolLost(old.modules[i], n.modules[i])
                         \/ ~ Facts({f \in FrameSet(old) : f.module = i}) \subseteq AllFacts(n)}
          IN (by' = "rule" /\ lost # {})
               => /\ \A i \in lost : /\ old.modules[i].role = "system"
                                     /\ \E s \in n.modules[i].sources : Temporary(s)
                  /\ BusinessGained(old, n)]_report

\* A replacement by the rule keeps the business evidence, and pays for what it loses.
ReplacementIsEarned == BusinessKept /\ LossExcused
=============================================================================
