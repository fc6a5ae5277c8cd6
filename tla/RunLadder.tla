----------------------------- MODULE RunLadder -----------------------------
(***************************************************************************)
(* What the automatic analysis of one dump promises, with the planner, the *)
(* slots, the catalog and the clock left out: frozen targets are numbered  *)
(* by growing generations, one run is in progress at a time, and a         *)
(* generation gets at most MaxAttempts runs, each with a larger attempt    *)
(* number than the one before.                                             *)
(***************************************************************************)
EXTENDS Naturals

CONSTANT MaxAttempts

VARIABLES generation,  \* generation of the newest run, 0 for none
          attempt,     \* its retry attempt
          active       \* is it still in progress

ladderVars == <<generation, attempt, active>>

Init == generation = 0 /\ attempt = 0 /\ active = FALSE

NextTarget == /\ ~active
              /\ generation' = generation + 1
              /\ attempt' = 0
              /\ active' = TRUE

Retry == /\ ~active /\ generation > 0
         /\ attempt' \in Nat
         /\ attempt < attempt' /\ attempt' < MaxAttempts
         /\ active' = TRUE
         /\ UNCHANGED generation

End == active /\ active' = FALSE /\ UNCHANGED <<generation, attempt>>

Next == NextTarget \/ Retry \/ End

Spec == Init /\ [][Next]_ladderVars
=============================================================================
