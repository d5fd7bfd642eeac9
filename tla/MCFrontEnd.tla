----------------------------- MODULE MCFrontEnd -----------------------------
(* Two sessions of one file each, so that cards can be reordered, cleared   *)
(* and refocused, and events of both overtake the index.                    *)
EXTENDS FrontEnd

CONSTANTS id1, id2, f1

MCIds == {id1, id2}
MCFiles == {f1}
MCContents == [id \in MCIds |-> IF id = id1 THEN {f1} ELSE {}]
=============================================================================
