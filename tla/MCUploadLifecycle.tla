-------------------------- MODULE MCUploadLifecycle -------------------------
(* A dump, a file of its length that is no dump, and a file of another length. *)
EXTENDS UploadLifecycle, TLC

CONSTANTS u1, u2, ws1, ws2, dump, other, short, k1, k2, v1, v2, x1, g1, g2

MCUploads == {u1, u2}
MCWorkspaces == {ws1, ws2}
MCContents == {dump, other, short}
MCFitting == {dump, other}
MCDumps == {dump}
MCOneCompleter == {k1}
MCCompleters == {k1, k2}
MCVerifiers == {v1, v2}
MCExpirers == {x1}
MCCollectors == {g1, g2}

Symmetry == Permutations(MCUploads) \cup Permutations(MCWorkspaces)
            \cup Permutations(MCCompleters) \cup Permutations(MCVerifiers)
            \cup Permutations(MCCollectors)
=============================================================================
