-------------------------- MODULE MCAnalysisDemand --------------------------
(***************************************************************************)
(* The instances of AnalysisDemand that TLC checks.                        *)
(***************************************************************************)
EXTENDS AnalysisDemand, TLC

CONSTANTS p1, p2, e1, e2

Symmetry == Permutations(Planners) \cup Permutations(Evidence)
=============================================================================
