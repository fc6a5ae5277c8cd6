-------------------------- MODULE MCCatalogFanout --------------------------
(***************************************************************************)
(* One PE file, whose debug id two PDB files have, and a dump of each of   *)
(* two workspaces with that module: one that knows both ids, with another  *)
(* module that has none, and one that has only the debug id.               *)
(***************************************************************************)
EXTENDS CatalogFanout

CONSTANTS pe, pdb1, pdb2, ws1, ws2, c, g

MCKind == [f \in Files |-> IF f = pe THEN "pe" ELSE "pdb"]
MCCode == [f \in Files |-> IF f = pe THEN c ELSE Nothing]
MCDebug == [f \in Files |-> g]
Both == [code |-> c, debug |-> g]
DebugOnly == [code |-> Nothing, debug |-> g]

MCUploaded == {<<pdb1, ws1>>}
MCHome == [d \in Demands |-> IF d = 2 THEN ws2 ELSE ws1]
NoIds == [code |-> Nothing, debug |-> Nothing]
MCModules == [d \in Demands |-> IF d = 2 THEN {DebugOnly} ELSE {Both, NoIds}]
=============================================================================
