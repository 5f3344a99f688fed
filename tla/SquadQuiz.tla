------------------------------ MODULE SquadQuiz ------------------------------
(***************************************************************************)
(* The quiz of a submission that a squad shares: one draw split among the  *)
(* members, attempts of each, one status for all.  A request reads (Begin) *)
(* and later writes and commits (End); what it decides by is what it read, *)
(* except where the code locks the row or queries again.                   *)
(***************************************************************************)
EXTENDS Naturals, Sequences, FiniteSets

CONSTANTS Members,     \* the students of the squad, by id
          Questions,   \* the config's questions, of one point each
          Required,    \* those that every draw includes
          Send,        \* questions_to_send
          Cap,         \* max_quiz_attempts
          Percent,     \* pass_threshold_pct
          PassedTo,    \* where a pass sends the submission, by its review mode
          Slots,       \* as many requests overlap as there are slots
          MaxAttempts, MaxGrants, MaxRulings, MaxLeavers   \* bounds

ASSUME SquadQuizAssumption ==
    /\ Members \subseteq Nat /\ IsFiniteSet(Members) /\ Members # {}
    /\ IsFiniteSet(Questions) /\ Required \subseteq Questions
    /\ Send \in Nat /\ Cap \in Nat \ {0} /\ Percent \in 0 .. 100
    /\ PassedTo \in {"COMPLETED", "AWAITING_TEACHER_REVIEW"}
    /\ MaxAttempts \in Nat

VARIABLES status,     \* of the submission
          draw,       \* source_metadata.squad_quiz_draw: the members' slices
          extra,      \* source_metadata.quiz_extra_attempts
          attempts,   \* quiz_attempts of the submission
          credited,   \* quiz_question_overrides
          enrolled,   \* members still in the subject
          grants,     \* extra attempts granted so far
          req         \* the requests in flight

squadQuizVars == <<status, draw, extra, attempts, credited, enrolled, grants, req>>

NoDraw == << >>
Idle == [op |-> "idle"]

SquadAttempt == [by : Members, questions : SUBSET Questions, retry : BOOLEAN,
                 state : {"IN_PROGRESS", "FINISHED", "VIOLATION_FAIL"},
                 right : SUBSET Questions, passed : BOOLEAN]

Status == {"QUIZ_SENT", "FAILED", PassedTo}
Draw == {NoDraw} \cup [Members -> SUBSET Questions]

Request ==
    {Idle}
    \cup [op : {"start"}, by : Members, retry : BOOLEAN, drawn : Draw]
    \cup [op : {"finish"}, on : Nat, force : BOOLEAN, status : Status,
          right : SUBSET Questions, allowed : Nat]
    \cup [op : {"grant"}, by : Members, extra : [Members -> Nat], drawn : Draw,
          status : Status]
    \cup [op : {"accept"}, on : Questions, ids : SUBSET Nat, flipped : SUBSET Nat,
          moves : BOOLEAN]

SquadQuizTypeOK ==
    /\ status \in Status
    /\ draw \in Draw
    /\ extra \in [Members -> Nat]
    /\ attempts \in Seq(SquadAttempt) /\ Len(attempts) <= MaxAttempts
    /\ credited \in SUBSET Questions
    /\ enrolled \in SUBSET Members
    /\ grants \in Nat
    /\ req \in [Slots -> Request]

SquadQuizInit ==
    /\ status = "QUIZ_SENT" /\ draw = NoDraw
    /\ extra = [m \in Members |-> 0]
    /\ attempts = << >> /\ credited = {}
    /\ enrolled = Members /\ grants = 0
    /\ req = [r \in Slots |-> Idle]

-----------------------------------------------------------------------------
(* Drawing and scoring.                                                    *)

\* _select_question_ids: the required ones and as many others as fit.
Draws(required, send) ==
    {D \in SUBSET Questions :
        /\ required \subseteq D
        /\ LET room == IF send > Cardinality(required)
                       THEN send - Cardinality(required) ELSE 0
               rest == Cardinality(Questions \ required)
           IN  Cardinality(D \ required) = IF room < rest THEN room ELSE rest}

\* split_draw deals the questions in turn, required ones first: the ways it can
\* come out for the draw D, by the order that D was shuffled into.
Slices(D) ==
    LET seat(m) == Cardinality({n \in Members : n < m})
        orders == {f \in [0 .. Cardinality(D) - 1 -> D] :
                      \A i, j \in DOMAIN f :
                         i < j => f[i] # f[j] /\ (f[j] \in Required => f[i] \in Required)}
    IN  {[m \in Members |-> {f[i] : i \in {j \in DOMAIN f :
                                              j % Cardinality(Members) = seat(m)}}] :
            f \in orders}

\* score_attempt.
IsPassed(questions, right) ==
    questions # {} /\ Cardinality(right) * 100 >= Percent * Cardinality(questions)

Of(m) == {i \in DOMAIN attempts : attempts[i].by = m}

IsTerminal(i) == attempts[i].state # "IN_PROGRESS"

Used(m) == Cardinality({i \in Of(m) : IsTerminal(i)})

\* _count_used_attempts: the finished ones of the same student but this one.
UsedBefore(i) == Cardinality({j \in Of(attempts[i].by) \ {i} : IsTerminal(j)})

HasPassed(m, rows) == \E i \in DOMAIN rows : rows[i].by = m /\ rows[i].passed

\* Mutant of QuizComplete: one pass is enough.
QuizCompleteByOne(rows) == \E m \in enrolled : HasPassed(m, rows)

\* squads.quiz_complete on the attempts that the transaction sees.
QuizComplete(rows) == enrolled # {} /\ \A m \in enrolled : HasPassed(m, rows)

-----------------------------------------------------------------------------
(* Requests.                                                               *)

Begin(r, request) ==
    /\ req[r] = Idle
    /\ req' = [req EXCEPT ![r] = request]
    /\ UNCHANGED <<status, draw, extra, attempts, credited, enrolled, grants>>

Done(r) == req' = [req EXCEPT ![r] = Idle]

\* start_or_resume_quiz up to the check of the allowance.  drawn is the metadata
\* as it was loaded.
StartBegin(r, m) ==
    /\ status = "QUIZ_SENT" /\ m \in enrolled
    /\ \A i \in Of(m) : IsTerminal(i) /\ ~attempts[i].passed
    /\ Used(m) < Cap + extra[m]
    /\ Begin(r, [op |-> "start", by |-> m, retry |-> Used(m) > 0, drawn |-> draw])

\* Mutant of DrawSeen: the metadata is not read again under the lock.
DrawSeenStale(r) == req[r].drawn

\* _draw_for_member refreshes the metadata under the row lock.
DrawSeen(r) == draw

\* _draw_for_member and the new attempt, in one commit.
StartEnd(r) ==
    LET m == req[r].by IN
    /\ req[r].op = "start" /\ Len(attempts) < MaxAttempts
    /\ \E slices \in IF DrawSeen(r) # NoDraw THEN {DrawSeen(r)}
                     ELSE UNION {Slices(D) : D \in Draws(Required, Send)} :
         \E questions \in IF req[r].retry
                          THEN Draws(Required \cap slices[m], Cardinality(slices[m]))
                          ELSE {slices[m]} :
            /\ draw' = slices
            /\ attempts' = Append(attempts,
                   [by |-> m, questions |-> questions, retry |-> req[r].retry,
                    state |-> "IN_PROGRESS", right |-> {}, passed |-> FALSE])
    /\ Done(r) /\ UNCHANGED <<status, extra, credited, enrolled, grants>>

\* The last answer of attempt i is in: _grade_and_finalize has loaded the
\* submission and the credited questions.  One request at a time ends an attempt; what a
\* forced failure had right is never looked at again.
FinishBegin(r, i, right, force) ==
    /\ attempts[i].state = "IN_PROGRESS" /\ (force => right = {})
    /\ \A s \in Slots : req[s].op = "finish" => req[s].on # i
    /\ Begin(r, [op |-> "finish", on |-> i, force |-> force, status |-> status,
                 right |-> right \cup (credited \cap attempts[i].questions),
                 allowed |-> Cap + extra[attempts[i].by]])

\* The attempt as the request leaves it.
Graded(a, request) ==
    [a EXCEPT !.right = request.right,
              !.state = IF request.force THEN "VIOLATION_FAIL" ELSE "FINISHED",
              !.passed = ~request.force /\ IsPassed(a.questions, request.right)]

\* Mutant of StatusAfterFinish: the pass is not flushed before the others are
\* counted.
StatusAfterFinishUnflushed(request, rows) ==
    IF request.status # "QUIZ_SENT" THEN status
    ELSE IF rows[request.on].passed
         THEN IF status = "QUIZ_SENT" /\ QuizComplete(attempts) THEN PassedTo ELSE status
    ELSE IF UsedBefore(request.on) + 1 >= request.allowed THEN "FAILED" ELSE status

\* The submission's part of _grade_and_finalize: a pass takes the row lock and
\* reads the status again, a failure writes over the status it had loaded.
StatusAfterFinish(request, rows) ==
    IF request.status # "QUIZ_SENT" THEN status
    ELSE IF rows[request.on].passed
         THEN IF status = "QUIZ_SENT" /\ QuizComplete(rows) THEN PassedTo ELSE status
    ELSE IF UsedBefore(request.on) + 1 >= request.allowed THEN "FAILED" ELSE status

FinishEnd(r) ==
    /\ req[r].op = "finish"
    /\ attempts' = [attempts EXCEPT ![req[r].on] = Graded(@, req[r])]
    /\ status' = StatusAfterFinish(req[r], attempts')
    /\ Done(r) /\ UNCHANGED <<draw, extra, credited, enrolled, grants>>

\* quiz_grants._is_grantable.
IsGrantable(m) ==
    /\ status \in {"FAILED", "QUIZ_SENT"} /\ m \in enrolled
    /\ Of(m) # {} /\ \A i \in Of(m) : IsTerminal(i) /\ ~attempts[i].passed
    /\ Used(m) >= Cap + extra[m]

\* teacher_grant_quiz_attempt: the whole metadata is loaded and written back.
GrantBegin(r, m) ==
    /\ IsGrantable(m) /\ grants < MaxGrants
    /\ Begin(r, [op |-> "grant", by |-> m, extra |-> extra, drawn |-> draw,
                 status |-> status])

GrantEnd(r) ==
    /\ req[r].op = "grant"
    /\ extra' = [req[r].extra EXCEPT ![req[r].by] = @ + 1]
    /\ draw' = req[r].drawn
    /\ status' = IF req[r].status = "FAILED" THEN "QUIZ_SENT" ELSE status
    /\ grants' = grants + 1
    /\ Done(r) /\ UNCHANGED <<attempts, credited, enrolled>>

-----------------------------------------------------------------------------
(* An accepted dispute: quiz_regrade.py.                                   *)

\* regrade_question: the attempts a ruling on q reaches.
Regradable(q) ==
    {i \in DOMAIN attempts : /\ attempts[i].state = "FINISHED" /\ ~attempts[i].passed
                             /\ q \in attempts[i].questions}

\* The attempts among ids that pass with q credited.
Flipped(q, ids) ==
    {i \in ids : IsPassed(attempts[i].questions, attempts[i].right \cup {q})}

\* The rows with q credited to the attempts ids, of which flipped now pass.
Rescored(q, ids, flipped) ==
    [i \in DOMAIN attempts |->
        [attempts[i] EXCEPT !.right = IF i \in ids THEN @ \cup {q} ELSE @,
                            !.passed = @ \/ i \in flipped]]

\* resolve_dispute up to _advance_submission, which moves the submission when a
\* re-scored attempt now passes and nobody is missing.  No lock is taken.
AcceptBegin(r, q) ==
    LET ids     == Regradable(q)
        flipped == Flipped(q, ids)
    IN  /\ q \notin credited /\ Cardinality(credited) < MaxRulings
        /\ \E i \in DOMAIN attempts : q \in attempts[i].questions
        /\ Begin(r, [op |-> "accept", on |-> q, ids |-> ids, flipped |-> flipped,
                     moves |-> /\ flipped # {} /\ status \in {"QUIZ_SENT", "FAILED"}
                               /\ QuizComplete(Rescored(q, ids, flipped))])

AcceptEnd(r) ==
    /\ req[r].op = "accept"
    /\ credited' = credited \cup {req[r].on}
    /\ attempts' = Rescored(req[r].on, req[r].ids, req[r].flipped)
    /\ status' = IF req[r].moves THEN PassedTo ELSE status
    /\ Done(r) /\ UNCHANGED <<draw, extra, enrolled, grants>>

\* unenroll_student: nothing looks whether the others are complete.
Unenroll(m) ==
    /\ m \in enrolled /\ Cardinality(Members \ enrolled) < MaxLeavers
    /\ enrolled' = enrolled \ {m}
    /\ UNCHANGED <<status, draw, extra, attempts, credited, grants, req>>

SquadQuizNext ==
    \/ \E r \in Slots :
          \/ \E m \in Members : StartBegin(r, m) \/ GrantBegin(r, m)
          \/ \E i \in DOMAIN attempts :
                \E right \in SUBSET attempts[i].questions, force \in BOOLEAN :
                   FinishBegin(r, i, right, force)
          \/ \E q \in Questions : AcceptBegin(r, q)
          \/ StartEnd(r) \/ FinishEnd(r) \/ GrantEnd(r) \/ AcceptEnd(r)
    \/ \E m \in Members : Unenroll(m)

SquadQuizSpec == SquadQuizInit /\ [][SquadQuizNext]_squadQuizVars

-----------------------------------------------------------------------------
(* Properties.                                                             *)

\* _draw_for_member: the draw is written once, by whoever opens the quiz first,
\* and every first attempt is the member's own slice of it; no question goes to
\* two members and none of the draw is left out.
OneDraw ==
    /\ \A i \in DOMAIN attempts :
          ~attempts[i].retry => attempts[i].questions = draw[attempts[i].by]
    /\ draw # NoDraw =>
          /\ \A m, n \in Members : m # n => draw[m] \cap draw[n] = {}
          /\ UNION {draw[m] : m \in Members} \in Draws(Required, Send)
    /\ attempts # << >> => draw # NoDraw

\* The squad guide: the submission moves on only when every enrolled member has
\* passed, whoever's pass or whichever ruling is the last; a credit never makes
\* that pass of an attempt that failed for a violation.
MovesOnTogether ==
    [][ status # PassedTo /\ status' = PassedTo
        => \A m \in enrolled : \E i \in DOMAIN attempts' :
              attempts'[i].by = m /\ attempts'[i].passed /\ attempts'[i].state = "FINISHED"
      ]_squadQuizVars

\* Two members passing at the same instant do not both leave it to the other:
\* _grade_and_finalize serialises on the row.  (An accepted dispute does not take
\* that lock, an unenrolment does not look, and a grant may come between the
\* status a pass has loaded and its end: see the README.)
NobodyWaitsForNothing ==
    (/\ \A r \in Slots : req[r] = Idle
     /\ credited = {} /\ enrolled = Members /\ grants = 0 /\ status = "QUIZ_SENT")
    => \E m \in Members : ~HasPassed(m, attempts)

\* The comment in _grade_and_finalize: a credited question is credited there, so
\* that an attempt in progress when the ruling landed needs no regrade.
CreditReachesAll ==
    (\A r \in Slots : req[r] = Idle)
    => \A i \in DOMAIN attempts :
          attempts[i].state = "FINISHED" /\ ~attempts[i].passed
          => credited \cap attempts[i].questions \subseteq attempts[i].right

\* The comment there: a stale attempt finishing late leaves the submission where
\* it is.
PassedIsFinal == [][ status = PassedTo => status' = PassedTo ]_squadQuizVars
=============================================================================
