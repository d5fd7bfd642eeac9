--------------------------- MODULE MCReceiveServer ---------------------------
(* Small instance of ReceiveServer.  Two requests compete for one receive   *)
(* session slot; two uploads, which may carry the same token, write files   *)
(* of one name, with a second name free.                                    *)
EXTENDS ReceiveServer, TLC

CONSTANTS id1, id2, f1

MCIds == {id1, id2}
MCFiles == {f1}

MCSymmetry == Permutations(MCIds)
=============================================================================
