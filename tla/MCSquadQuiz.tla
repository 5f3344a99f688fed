---------------------------- MODULE MCSquadQuiz ----------------------------
(* SquadQuiz for TLC: request slots are interchangeable, and so are the
   questions that are not required. *)
EXTENDS SquadQuiz, TLC

Symmetry == Permutations(Slots) \cup Permutations(Questions \ Required)
=============================================================================
