--------------------------- MODULE MCClassroomSync ---------------------------
(* ClassroomSync for TLC: one roster entry that is matched late or by name, one
   that has the student's email. *)
EXTENDS ClassroomSync, TLC

CONSTANTS u1, u2, s1, s2, a, b

\* Contents are only compared.
Symmetry == Permutations(Contents)

No == [method |-> "NONE", student |-> NoStudent, confirmed |-> FALSE, close |-> FALSE]

MCMatches ==
    u1 :> {No, [method |-> "NAME", student |-> s1, confirmed |-> FALSE, close |-> TRUE]}
    @@ u2 :> {[method |-> "EMAIL", student |-> s2, confirmed |-> TRUE, close |-> TRUE]}
=============================================================================
