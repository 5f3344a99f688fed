--------------------------- MODULE MCConfigApply ---------------------------
(* ConfigApply for TLC: four archives of one subject, uploaded in any order. *)
EXTENDS ConfigApply, TLC

CONSTANTS a1, a2, a3, a4

Lab(columns, config, llm, files) ==
    [columns |-> columns, config |-> config, llm |-> llm, files |-> files]

Pics(grid, main) == [p \in Pictures |-> IF p = "gridPicture" THEN grid ELSE main]

\* a2 adds an assignment and a handout; a3 drops the first assignment and moves
\* the picture; a4 changes only the config keys, with a handout left out.
MCConfig ==
    a1 :> [meta |-> 1, pics |-> Pics("p", None),
           work |-> "lab1" :> Lab(1, 1, 0, {"f"}),
           inside |-> {Image("p"), Handout("lab1", "f")}]
    @@ a2 :> [meta |-> 2, pics |-> Pics("q", None),
              work |-> "lab1" :> Lab(1, 1, 1, {"f", "g"}) @@ "lab2" :> Lab(1, 1, 0, {}),
              inside |-> {Image("q"), Handout("lab1", "f"), Handout("lab1", "g")}]
    @@ a3 :> [meta |-> 1, pics |-> Pics(None, "q"),
              work |-> "lab2" :> Lab(2, 1, 0, {}),
              inside |-> {Image("q")}]
    @@ a4 :> [meta |-> 2, pics |-> Pics("p", None),
              work |-> "lab1" :> Lab(1, 2, 0, {"f", "g"}),
              inside |-> {Handout("lab1", "g")}]

Symmetry == Permutations(Requests)
============================================================================
