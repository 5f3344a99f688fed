------------------------------ MODULE MCNotices ------------------------------
(* Notices for TLC: a squad of two, two teachers, two replicas.            *)
EXTENDS Notices, TLC

CONSTANTS m1, m2, t1, t2, u1, u2, a, b, r1, r2

MCMembers == <<m1, m2>>

Symmetry == Permutations(Replicas) \cup Permutations(Rulings)
=============================================================================
