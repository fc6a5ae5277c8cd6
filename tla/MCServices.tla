------------------------------ MODULE MCServices ------------------------------
(***************************************************************************)
(* Five parts of the platform that share no state are checked in one run:  *)
(* a behaviour is one of the part that `side` names, and leaves the others *)
(* as they were in their initial states.                                   *)
(*                                                                         *)
(* Two accounts, both of which may be administrators, and a service; two   *)
(* credentials and two requests.  Two public-symbol jobs of one occurrence *)
(* and two workers; three modules, two of which share a PDB.  Two files of *)
(* the symbol source that do not fit into its cache together.  Two         *)
(* versions of a PDB, one in the gateway's seed, a module of another kind  *)
(* and one without an identity.  The reports are those of MCCurrentReport. *)
(***************************************************************************)
EXTENDS MCCurrentReport, PublicSymbols, SymbolSource, Accounts, SymbolGateway, TLC

VARIABLE side

servicesVars == <<side, report, by, left, pdbVars, srcVars, acctVars, gwVars>>

ServicesInit == /\ side \in {"reports", "public", "source", "accounts", "gateway"}
                /\ HistoryInit /\ PdbInit /\ SrcInit /\ AcctInit /\ GwInit
                /\ side # "gateway" => gwDeploy = [workspace |-> TRUE, microsoft |-> TRUE,
                                                   registry |-> TRUE]

reportVars == <<report, by, left>>

ServicesNext ==
    /\ UNCHANGED side
    /\ \/ side = "reports" /\ HistoryNext /\ UNCHANGED <<pdbVars, srcVars, acctVars, gwVars>>
       \/ side = "public" /\ PdbNext /\ UNCHANGED <<reportVars, srcVars, acctVars, gwVars>>
       \/ side = "source" /\ SrcNext /\ UNCHANGED <<reportVars, pdbVars, acctVars, gwVars>>
       \/ side = "accounts" /\ AcctNext /\ UNCHANGED <<reportVars, pdbVars, srcVars, gwVars>>
       \/ side = "gateway" /\ GwNext /\ UNCHANGED <<reportVars, pdbVars, srcVars, acctVars>>

ServicesSpec == ServicesInit /\ [][ServicesNext]_servicesVars

\* Which job, key or worker is which makes no difference.
ServicesSymmetry == UNION {Permutations(S) : S \in {PdbJobs, PdbKeys, PdbWorkers}}

-----------------------------------------------------------------------------
MCPdbIdentity == <<"a", "a", "b">>
MCPdbSkip == <<<<"none", "none", "private_selection">>>>

MCSrcSize == [f \in {"big", "small"} |-> IF f = "big" THEN 2 ELSE 1]
MCSrcReserve == [f \in {"big", "small"} |-> IF f = "big" THEN 3 ELSE 2]
MCSrcReplicas == [f \in {"big", "small"} |-> IF f = "big" THEN 2 ELSE 3]

MCGwModules == {"a1", "a2", "e", "x"}
MCGwIdentity == [a1 |-> "A1", a2 |-> "A2", e |-> "E", x |-> "none"]
MCGwPath == [a1 |-> "a", a2 |-> "a", e |-> "e", x |-> "none"]
===============================================================================
