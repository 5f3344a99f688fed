------------------------------ MODULE MCSquads ------------------------------
(* Squads for TLC: students and request slots are interchangeable. *)
EXTENDS Squads, TLC

Symmetry == Permutations(Classmates) \cup Permutations(Slots)
=============================================================================
