---------------------------- MODULE MCWorkQueue ----------------------------
(* Small instances of WorkQueue for TLC. *)
EXTENDS WorkQueue, TLC

CONSTANTS r1, r2, s1, s2, l1, l2

OneLib == [s \in Scans |-> l1]
TwoLibs == s1 :> l1 @@ s2 :> l2

RowSymmetry == Permutations(Rows)
=============================================================================
