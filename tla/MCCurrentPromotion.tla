------------------------- MODULE MCCurrentPromotion -------------------------
(***************************************************************************)
(* One occurrence whose dump has one module with two catalog pairs.        *)
(* The pairs name the faulting function differently, without a pair it     *)
(* has no name, and the symbol server may be out of reach.  Every other    *)
(* role change makes the module the program's own.                         *)
(***************************************************************************)
EXTENDS CurrentPromotion

CONSTANTS p1, p2

MCIdentity == [p \in Pairs |-> "app"]
MCFirstPairs == [p \in Pairs |-> IF p = p1 THEN [state |-> "withdrawn", version |-> 2]
                                 ELSE [state |-> "absent", version |-> 0]]

PairOf(k) == CASE k \in {"f", "down"} -> p1 [] k = "g" -> p2 [] OTHER -> Nothing
Named(k) == k \in {"f", "g"}
Role(p) == IF p % 2 = 0 THEN "dependency" ELSE "owned"
\* A function, so that TLC makes every report once.
MCReports == [k \in Results, cause \in Causes, p \in 0..MaxChanges |->
    [dump |-> "d", inspect |-> "i", context |-> p, classification |-> Nothing,
     reason |-> cause, status |-> IF Named(k) THEN "COMPLETE" ELSE "PARTIAL",
     provenance |-> "native_2.0", usable |-> TRUE, complete |-> TRUE,
     fault |-> [thread |-> 1, what |-> "crash"],
     modules |-> [i \in {1} |->
        [identity |-> "app", role |-> Role(p), in_app |-> Role(p) = "owned",
         role_source |-> "policy", pair |-> PairOf(k),
         selection |-> IF PairOf(k) # Nothing THEN "unique"
                       ELSE IF k = "conflict" THEN k ELSE "none",
         symbol |-> IF Named(k) THEN "found" ELSE "missing_pdb",
         sources |-> {[stage |-> "symbolicate", diagnosed |-> TRUE,
                       outcome |-> CASE Named(k) -> "found" [] k = "down" -> "failed"
                                     [] OTHER -> "missing",
                       failure |-> IF k = "down" THEN "transient" ELSE "none"]}]],
     frames |-> <<[thread |-> 1, module |-> 1, rva |-> 1, method |-> "context",
                   in_app |-> Role(p) = "owned",
                   text |-> [x \in Fields |-> IF Named(k) THEN k ELSE Nothing]]>>]]
MCReport(k, cause, p) == MCReports[k, cause, p]
=============================================================================
