----------------------------- MODULE MCTaskFlow -----------------------------
(* Small instances of TaskFlow for TLC.                                      *)
EXTENDS TaskFlow, TLC

CONSTANTS r1, r2

TwoRows == {r1, r2}

RowSymmetry == Permutations(Row)
=============================================================================
