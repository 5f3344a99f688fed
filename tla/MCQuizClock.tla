---------------------------- MODULE MCQuizClock ----------------------------
(* QuizClock for TLC: a stepped attempt whose last question has no limit, one
   where all have, and a page with a budget for the whole attempt. *)
EXTENDS QuizClock

MCQuizzes == {[limits |-> <<2, 3>>, total |-> 0],
              [limits |-> <<3, 0>>, total |-> 0],
              [limits |-> <<0, 0>>, total |-> 4]}

MCRules == <<[event |-> "tab_switch", threshold |-> 2, action |-> "fail"],
             [event |-> "tab_switch", threshold |-> 1, action |-> "reduce_time"],
             [event |-> "devtools", threshold |-> 1, action |-> "flag"]>>
=============================================================================
