--------------------------- MODULE MCCurrentReport ---------------------------
(***************************************************************************)
(* The reports TLC compares: one crashing thread with up to two frames of  *)
(* the program or the system, found reliably or by scanning, named or not; *)
(* symbols of both modules found, out of reach for the moment, or missing; *)
(* and the module's role known or not yet.                                 *)
(***************************************************************************)
EXTENDS ReportHistory

-----------------------------------------------------------------------------
MCFields == {"function"}
Source(stage, outcome, failure) == [stage |-> stage, outcome |-> outcome,
                                    failure |-> failure, diagnosed |-> TRUE]
SourcesOf(symbol) ==
    CASE symbol = "found" -> {Source("symbolicate", "found", "none")}
      [] symbol = "down" -> {Source("symbolicate", "failed", "transient"),
                             Source("download_pe", "failed", "transient")}
      [] symbol = "half" -> {Source("symbolicate", "failed", "transient"),
                             Source("download_pdb", "missing", "none")}
      [] symbol = "skipped" -> {Source("symbolicate", "unknown", "budget")}
App(symbol, role, selection) ==
    [identity |-> "app", role |-> role, in_app |-> role = "owned",
     role_source |-> "catalog_default", selection |-> selection,
     pair |-> IF selection = "unique" THEN "p1" ELSE Nothing,
     symbol |-> IF symbol = "found" THEN "found" ELSE "missing_pdb",
     sources |-> SourcesOf(symbol)]
Sys(symbol) ==
    [identity |-> "sys", role |-> "system", in_app |-> FALSE,
     role_source |-> "policy", selection |-> "none", pair |-> Nothing,
     symbol |-> IF symbol = "found" THEN "found" ELSE "missing_pdb",
     sources |-> SourcesOf(symbol)]

\* A frame that names a function has the symbols of its module.
Frame(module, method, function, role) ==
    [thread |-> 1, module |-> module, rva |-> 1, method |-> method,
     in_app |-> module = "app" /\ role = "owned", text |-> [x \in Fields |-> function]]
FramesIn(module, symbol, role) ==
    {Frame(module, method, function, role) :
        method \in {"context", "scan"},
        function \in IF symbol = "found" THEN {Nothing, "f"} ELSE {Nothing}}
Stacks(app, sys, role) ==
    LET A == FramesIn("app", app, role) IN
    {<<>>} \cup {<<f>> : f \in A} \cup {<<f, f>> : f \in A}
      \cup {<<f, g>> : f \in A, g \in FramesIn("sys", sys, role)}

Evidence(app, sys, role, selection, stack) ==
    [dump |-> "d", inspect |-> "i", context |-> "c", classification |-> "k",
     reason |-> "symbol_refresh", status |-> "PARTIAL", provenance |-> "native_2.0",
     usable |-> TRUE, complete |-> TRUE, fault |-> [thread |-> 1, what |-> "crash"],
     modules |-> [i \in {"app", "sys"} |->
                    IF i = "app" THEN App(app, role, selection) ELSE Sys(sys)],
     frames |-> stack]

Named(function) == Frame("app", "context", function, "owned")
AllReports ==
    UNION {{Evidence(app, sys, "owned", "unique", stack) : stack \in Stacks(app, sys, "owned")} :
              app \in {"found", "down"}, sys \in {"found", "down"}}
      \cup {Evidence(app, sys, "owned", "unique", <<Frame("app", "context", Nothing, "owned")>>) :
              app \in {"down", "half"}, sys \in {"found", "skipped"}}
      \cup {Evidence("found", "found", role, selection, <<Frame("app", "context", "f", role)>>) :
              role \in {"unknown", "dependency", "owned"},
              selection \in {"none", "unique", "conflict"}}
      \cup {Evidence("found", "found", "owned", "unique", <<Named("g")>>),
            Evidence("found", "found", "owned", "unique", <<Named("f"), Named("g")>>),
            [Evidence("found", "found", "owned", "unique", <<Named("g")>>)
               EXCEPT !.reason = "role_change"]}

\* TLC keeps the values of AllReports and of these tables, and not what the .cfg names.
AllowsTable == [o \in AllReports \cup {Nothing} |-> [n \in AllReports |-> Allows(o, n)]]
ReviewTable == [o \in AllReports |-> [n \in AllReports |-> AllowsReviewed(o, n)]]
MCReports == AllReports
MCAllowed(o, n) == AllowsTable[o][n]
MCReviewable(o, n) == ReviewTable[o][n]
==============================================================================
