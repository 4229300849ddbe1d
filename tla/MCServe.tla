------------------------------ MODULE MCServe ------------------------------
(* Small instances of Serve for TLC. *)
EXTENDS Serve, TLC

CONSTANTS r1, r2, s1, s2, l1

OneLib == [s \in Scans |-> l1]

RowSymmetry == Permutations(Rows)
ScanSymmetry == Permutations(Scans)
=============================================================================
