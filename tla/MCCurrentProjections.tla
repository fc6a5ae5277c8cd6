------------------------ MODULE MCCurrentProjections ------------------------
(***************************************************************************)
(* Two occurrences of one workspace with reports that share their symbols, *)
(* in opposite orders, and their groups.                                   *)
(***************************************************************************)
EXTENDS CurrentProjections

CONSTANTS o1, o2, s1, s2, g1, g2

MCOccurredAt == [o \in Occurrences |-> IF o = o1 THEN 1 ELSE 2]
MCId == [x \in Symbols \cup Occurrences |-> IF x \in {s1, o1} THEN 1 ELSE 2]
Found == 4
Module(s, status, file) == [symbol |-> s, status |-> status, file |-> file]
MCReports ==
    [o \in Occurrences |->
       IF o = o1 THEN
         <<[modules |-> <<Module(s1, 2, 1), Module(s2, 3, 2), Module(s1, 1, 2)>>, exact |-> g1],
           [modules |-> <<Module(s1, Found, 1), Module(s2, 3, 1)>>, exact |-> g2]>>
       ELSE
         <<[modules |-> <<Module(s2, 3, 2), Module(s1, 2, 2)>>, exact |-> g1],
           [modules |-> <<Module(s1, 0, 1)>>, exact |-> None],
           [modules |-> <<>>, exact |-> g2]>>]
=============================================================================
