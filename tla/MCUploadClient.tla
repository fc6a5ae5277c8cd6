--------------------------- MODULE MCUploadClient ---------------------------
(***************************************************************************)
(* A dump of two parts, an empty file and a small one; or one small file. *)
(***************************************************************************)
EXTENDS UploadClient

Multi == [multi |-> TRUE, parts |-> 2, empty |-> FALSE, dump |-> TRUE]
Empty == [multi |-> FALSE, parts |-> 1, empty |-> TRUE, dump |-> FALSE]
Small == [multi |-> FALSE, parts |-> 1, empty |-> FALSE, dump |-> FALSE]

MCBatches == {<<Multi, Empty, Small>>, <<Small>>}
=============================================================================
