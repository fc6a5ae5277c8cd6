-------------------------- MODULE MCExecutionSlots --------------------------
(***************************************************************************)
(* The instance of ExecutionSlots that TLC checks: one workspace with two  *)
(* demands and two with one, and pages that hold two of the four.          *)
(***************************************************************************)
EXTENDS ExecutionSlots

CONSTANTS p1, p2, a1, a2, b1, c1

HomeOf == [d \in Demands |-> CASE d \in {a1, a2} -> 1 [] d = b1 -> 2 [] OTHER -> 3]
ArrivalOf == CHOOSE f \in [Demands -> 1..Cardinality(Demands)] :
                \A d, e \in Demands : f[d] = f[e] => d = e
=============================================================================
