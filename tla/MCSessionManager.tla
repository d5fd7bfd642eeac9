-------------------------- MODULE MCSessionManager --------------------------
(* Small instances of SessionManager: two session ids, of which one may be  *)
(* an active receive session at a time, and two files, of which the two     *)
(* sessions together hold at most MaxOffered: one of them can be accepted   *)
(* in part beside an empty one, or each can hold a file of its own.         *)
EXTENDS SessionManager, TLC

CONSTANTS id1, id2, f1, f2

MCIds == {id1, id2}
MCFiles == {f1, f2}

MaxOffered == 2

FewFiles ==
    Cardinality(Offered(sessions[id1])) + Cardinality(Offered(sessions[id2])) <= MaxOffered

MCSymmetry == Permutations(MCIds) \cup Permutations(MCFiles)
=============================================================================
