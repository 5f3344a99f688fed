--------------------------- MODULE QuizStopwatch ---------------------------
(***************************************************************************)
(* What the quiz clock promises a student, without timestamps: a stopwatch *)
(* for the attempt and one for the question they are on.  Both run while   *)
(* the attempt is in progress and stand still while it is paused for an    *)
(* air raid.  A pause may cost less than a second, unless it was asked for *)
(* more than once: the later answer begins it anew.  A question is lost    *)
(* only when its own window and the grace after it are used up, also if a  *)
(* pause came in between, and what the student overstayed is taken from    *)
(* the next window.                                                        *)
(***************************************************************************)
EXTENDS Integers, Sequences

CONSTANTS Sec,      \* ticks of the clock in a second
          Grace,    \* the grace after a window, in ticks
          Penalty   \* what a reduce_time rule costs, in ticks

VARIABLES quiz,     \* limits: the questions' windows, 0 for none; total: the budget
          status,   \* of the attempt
          index,    \* the question the student is on
          spent,    \* the attempt's stopwatch
          window,   \* the question's stopwatch
          paused,
          asked     \* requests for a pause that have no answer yet

vars == <<quiz, status, index, spent, window, paused, asked>>

Open == status = "IN_PROGRESS" /\ ~paused

\* The windows of the questions before q, one after the other.
Before(limits) ==
    LET before[q \in 1 .. Len(limits) + 1] ==
            IF q = 1 THEN 0 ELSE before[q - 1] + limits[q - 1]
    IN  before

\* What of the watch falls to question q, those from index on being lost.
Share(q) == window - (Before(quiz.limits)[q] - Before(quiz.limits)[index])

IsLost(q) == quiz.limits[q] # 0 /\ Share(q) > quiz.limits[q] + Grace

\* The student is put on question q because the ones before it are lost.
Reaches(q) ==
    /\ \A p \in index .. q - 1 : IsLost(p)
    /\ q <= Len(quiz.limits) => ~IsLost(q)

\* A closed attempt has no watches.
Closed == /\ status' \in {"COMPLETED", "TIMED_OUT", "VIOLATION_FAIL"}
          /\ spent' = 0 /\ window' = 0 /\ paused' = FALSE

-----------------------------------------------------------------------------
Init ==
    /\ status = "IN_PROGRESS" /\ index = 1 /\ spent = 0 /\ window = 0
    /\ paused = FALSE /\ asked = 0

Run ==
    /\ Open
    /\ spent' = spent + 1 /\ window' = window + 1
    /\ UNCHANGED <<quiz, status, index, paused, asked>>

\* Loading the page, or posting an answer that comes too late.
Lose ==
    /\ Open
    /\ \E q \in index + 1 .. Len(quiz.limits) + 1 :
          /\ Reaches(q) /\ index' = q
          /\ \/ q > Len(quiz.limits) /\ Closed
             \/ /\ q <= Len(quiz.limits) /\ window' = Share(q)
                /\ UNCHANGED <<status, spent, paused>>
    /\ UNCHANGED <<quiz, asked>>

\* An answer counts only inside the window and its grace.
Answer ==
    /\ Open /\ index <= Len(quiz.limits) /\ ~IsLost(index)
    /\ index' = index + 1
    /\ \/ index' > Len(quiz.limits) /\ Closed
       \/ /\ index' <= Len(quiz.limits) /\ window' = 0
          /\ UNCHANGED <<status, spent, paused>>
    /\ UNCHANGED <<quiz, asked>>

\* The budget ran out, the form was handed in, or a rule failed the attempt,
\* which ends a paused one too.
End ==
    /\ status = "IN_PROGRESS" /\ Closed
    /\ paused => status' = "VIOLATION_FAIL"
    /\ UNCHANGED <<quiz, index, asked>>

\* Questions that are lost when the pause is asked for are lost before it.
Ask ==
    /\ Open
    /\ \E q \in index .. Len(quiz.limits) :
          Reaches(q) /\ index' = q /\ window' = Share(q)
    /\ asked' = asked + 1
    /\ UNCHANGED <<quiz, status, spent, paused>>

\* The watches stop as they are: what has run out by now stays lost.
Pause ==
    /\ Open /\ asked > 0
    /\ paused' = TRUE /\ asked' = asked - 1
    /\ UNCHANGED <<quiz, status, index, spent, window>>

\* A second answer begins the pause anew: the time since the first is spent.
Restart ==
    /\ paused /\ asked > 0
    /\ asked' = asked - 1
    /\ spent' >= spent /\ window' = window + (spent' - spent)
    /\ UNCHANGED <<quiz, status, index, paused>>

\* No pause, or one that comes too late.
Refuse ==
    /\ asked > 0 /\ asked' = asked - 1
    /\ UNCHANGED <<quiz, status, index, spent, window, paused>>

Resume ==
    /\ paused
    /\ \E d \in 0 .. Sec - 1 : spent' = spent + d /\ window' = window + d
    /\ paused' = FALSE
    /\ UNCHANGED <<quiz, status, index, asked>>

Penalise ==
    /\ Open
    /\ window' = window + Penalty
    /\ UNCHANGED <<quiz, status, index, spent, paused, asked>>

Next ==
    \/ Run \/ Lose \/ Answer \/ End \/ Penalise
    \/ Ask \/ Pause \/ Restart \/ Refuse \/ Resume

Spec == Init /\ [][Next]_vars
=============================================================================
