----------------------------- MODULE MCTransfer -----------------------------
(* One transfer, with the two attempts the driver can make and one upload   *)
(* per file: two files for the safety properties, one for progress.         *)
EXTENDS Transfer, TLC

CONSTANTS f1, f2

MCIds == {Direct, Relayed}
MCFiles == {f1, f2}

MCSymmetry == Permutations(MCFiles)
=============================================================================
