-------------------------- MODULE MCFrozenExecution -------------------------
(***************************************************************************)
(* Four dumps: two private pairs around a module only the public sources   *)
(* may have; a pair captured twice below such a module; and a stack that   *)
(* starts in a module with a symbol conflict; and, for the failures around *)
(* the core, a stack in one pair.                                          *)
(***************************************************************************)
EXTENDS FrozenExecution

MCPairs == {1, 2}
MCPublicSources == {8, 9}

Module(state, pair, proxy) == [state |-> state, pair |-> pair, proxy |-> proxy, app |-> pair # 0]

Around == [modules |-> <<Module("unique", 2, FALSE), Module("none", 0, TRUE),
                         Module("unique", 1, FALSE)>>,
           stack |-> <<1, 2, 3>>, scan |-> FALSE]
Twice == [modules |-> <<Module("none", 0, FALSE), Module("unique", 1, FALSE),
                        Module("unique", 1, FALSE)>>,
          stack |-> <<1, 2, 3, 2>>, scan |-> TRUE]
Conflict == [modules |-> <<Module("conflict", 0, FALSE), Module("none", 0, TRUE)>>,
             stack |-> <<1, 2>>, scan |-> TRUE]
Single == [modules |-> <<Module("unique", 1, FALSE)>>, stack |-> <<1>>, scan |-> FALSE]

MCDumps == {Around, Twice, Conflict, Single}
MCMaxFaults == [d \in MCDumps |-> IF d = Single THEN 2 ELSE 0]

Candidate(status, readable) == {[status |-> status, readable |-> readable]}

MCReplies == {Candidate("ok", TRUE), Candidate("notfound", FALSE),
              Candidate("transient_http", FALSE),
              Candidate("notfound", FALSE) \cup Candidate("error", FALSE)}
=============================================================================
