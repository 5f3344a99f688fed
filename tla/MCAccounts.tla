----------------------------- MODULE MCAccounts -----------------------------
(* Accounts for TLC: one student, one teacher, one test student.           *)
EXTENDS Accounts, TLC

CONSTANTS s1, t1, x1, r1, r2

Symmetry == Permutations(Slots)
=============================================================================
