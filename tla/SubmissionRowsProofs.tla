------------------------ MODULE SubmissionRowsProofs ------------------------
(***************************************************************************)
(* Lemmas about the handlers of SubmissionRows and the messages of Outbox, *)
(* on any row, message and configuration.  The proofs of the two           *)
(* specifications of the pipeline, SubmissionLifecycle and                 *)
(* SubmissionSessions, rest on them.                                       *)
(***************************************************************************)
EXTENDS Outbox, TLAPS

-----------------------------------------------------------------------------
(* The handlers of SubmissionRows: whatever row a handler is given, each   *)
(* of its outcomes is a row again, and a sound successor of the one it was *)
(* given.                                                                  *)

NextSteps == {"completed", "teacher", "quiz"}

Outcome == [row : Row, send : SUBSET NextSteps, grades : BOOLEAN, ok : BOOLEAN]

-----------------------------------------------------------------------------
(* The table.                                                              *)

\* The status each event leads to, read off the table of state_machine.py.
LEMMA Edges ==
    /\ After("PENDING", "start_validation") = "VALIDATING"
    /\ After("PENDING", "quiz_opened") = "QUIZ_SENT"
    /\ After("VALIDATING", "validation_passed") = "TESTING"
    /\ After("VALIDATING", "validation_failed") = "VALIDATION_FAILED"
    /\ After("TESTING", "test_failed") = "TEST_FAILED"
    /\ After("TESTING", "test_passed_tests_only") = "COMPLETED"
    /\ After("TESTING", "test_passed_ai") = "AWAITING_AI_REVIEW"
    /\ After("TESTING", "test_passed_teacher") = "AWAITING_TEACHER_REVIEW"
    /\ After("TESTING", "test_passed_quiz") = "QUIZ_SENT"
    /\ After("AWAITING_AI_REVIEW", "start_ai_review") = "AI_REVIEWING"
    /\ After("AI_REVIEWING", "ai_review_done_teacher") = "AWAITING_TEACHER_REVIEW"
    /\ After("AI_REVIEWING", "ai_review_done_completed") = "COMPLETED"
    /\ After("AI_REVIEWING", "ai_review_passed_quiz") = "QUIZ_SENT"
    /\ After("AI_REVIEWING", "ai_review_failed") = "AI_REVIEW_FAILED"
    /\ After("AI_REVIEW_FAILED", "retry_ai_review") = "AI_REVIEWING"
    /\ After("AI_REVIEW_FAILED", "ai_review_skip_to_teacher")
          = "AWAITING_TEACHER_REVIEW"
    /\ After("QUIZ_SENT", "quiz_passed") = "COMPLETED"
    /\ After("QUIZ_SENT", "quiz_passed_teacher") = "AWAITING_TEACHER_REVIEW"
    /\ After("QUIZ_SENT", "quiz_failed") = "FAILED"
    /\ After("QUIZ_SENT", "quiz_attempt_granted") = "QUIZ_SENT"
    /\ After("AWAITING_TEACHER_REVIEW", "teacher_approve") = "COMPLETED"
    /\ After("AWAITING_TEACHER_REVIEW", "teacher_reject") = "FAILED"
    /\ After("AWAITING_TEACHER_REVIEW", "teacher_send_quiz") = "QUIZ_SENT"
    /\ After("FAILED", "dispute_regrade_passed") = "COMPLETED"
    /\ After("FAILED", "dispute_regrade_passed_teacher") = "AWAITING_TEACHER_REVIEW"
    /\ After("FAILED", "quiz_attempt_granted") = "QUIZ_SENT"
BY DEF After, Transitions

\* Only a PENDING row may start its validation, only a VALIDATING one fail it,
\* and neither PENDING, QUIZ_SENT nor COMPLETED can be queued again.
LEMMA Guards ==
    ASSUME NEW s \in Statuses
    PROVE  /\ Allows(s, "start_validation") <=> s = "PENDING"
           /\ Allows(s, "validation_failed") <=> s = "VALIDATING"
           /\ Allows(s, "requeue_checks") <=> s \in RequeueFrom
           /\ After(s, "requeue_checks") = "PENDING"
BY DEF Allows, After, Transitions, Statuses, RequeueFrom

-----------------------------------------------------------------------------
(* What a handler owes the row it was given.                               *)

\* COMPLETED is left to nothing and the breakdown is never dropped.
KeepsCompleted(r, o) ==
    /\ r.status = "COMPLETED" => o.row.status = "COMPLETED"
    /\ r.graded = TRUE => o.row.graded = TRUE

\* Entering the teacher's queue announces the submission.
Announces(r, o) ==
    /\ r.queued # "none" => o.row.queued # "none"
    /\ o.row.status = "AWAITING_TEACHER_REVIEW" /\ r.status # "AWAITING_TEACHER_REVIEW"
          => o.row.queued # "none"

\* A grade is written only for a COMPLETED row, together with its breakdown.
GradesCompleted(o) ==
    o.grades = TRUE => o.row.status = "COMPLETED" /\ o.row.graded = TRUE

\* A pin once set is only ever dropped, and that sends the row to its checks.
KeepsPin(r, o) ==
    r.pin # 0 /\ o.row.pin # r.pin => o.row.pin = 0 /\ o.row.status = "PENDING"

Sound(r, o) == /\ o \in Outcome
               /\ KeepsCompleted(r, o) /\ Announces(r, o)
               /\ GradesCompleted(o) /\ KeepsPin(r, o)

\* Handlers other than the rerun leave no row PENDING that was not, and send the
\* message with the row they leave to the AI.
KeepsMessage(r, o) ==
    /\ o.row.status = "PENDING" => r.status = "PENDING"
    /\ o.row.status = "AWAITING_AI_REVIEW" =>
          r.status = "AWAITING_AI_REVIEW" \/ (o.send # {} /\ o.ok = TRUE)

\* A single event fired on a row.
LEMMA FiredRow ==
    ASSUME NEW r \in Row, NEW event, After(r.status, event) \in Statuses
    PROVE  /\ Fired(r, event) \in Row
           /\ Fired(r, event) = [r EXCEPT !.status = After(r.status, event)]
BY DEF Fired, Row

LEMMA EnqueuedRow ==
    ASSUME NEW r \in Row
    PROVE  /\ Enqueued(r) \in Row
           /\ Enqueued(r).queued # "none"
           /\ Enqueued(r).status = r.status
           /\ Enqueued(r).pin = r.pin
           /\ Enqueued(r).graded = r.graded
BY DEF Enqueued, Queue, Row

LEMMA GradedRow ==
    ASSUME NEW r \in Row
    PROVE  LET g == [r EXCEPT !.graded = TRUE]
           IN  /\ g \in Row
               /\ g.graded = TRUE
               /\ g.status = r.status /\ g.pin = r.pin /\ g.queued = r.queued
BY DEF Row

\* finalize_grade on a row that is COMPLETED.
LEMMA FinalizeGradeSound ==
    ASSUME NEW r \in Row, r.status = "COMPLETED", NEW cur \in Versions,
           NEW pts \in BOOLEAN
    PROVE  LET o == FinalizeGrade(r, cur, pts)
           IN  /\ Sound(r, o) /\ KeepsMessage(r, o)
               /\ o.ok = TRUE /\ o.send = {}
               /\ o.row.status = "COMPLETED" /\ o.row.pin = r.pin
               /\ o.row.queued = r.queued
<1> USE DEF KeepsCompleted, Announces, GradesCompleted, KeepsPin, Sound,
            KeepsMessage
<1> DEFINE g == [r EXCEPT !.graded = TRUE]
           w == [row |-> g, send |-> {}, grades |-> TRUE, ok |-> TRUE]
<1>1. CASE Config[cur].mode = Scored /\ ~(r.passed /\ pts)
  <2>1. FinalizeGrade(r, cur, pts) = Done(r)
    BY <1>1 DEF FinalizeGrade
  <2>2. Done(r) \in Outcome
    BY DEF Done, Outcome
  <2> QED
    BY <2>1, <2>2 DEF Done
<1>2. CASE ~(Config[cur].mode = Scored /\ ~(r.passed /\ pts))
  <2>1. FinalizeGrade(r, cur, pts) = w
    BY <1>2 DEF FinalizeGrade
  <2>2. /\ g \in Row
        /\ g.graded = TRUE
        /\ g.status = r.status /\ g.pin = r.pin /\ g.queued = r.queued
    BY GradedRow
  <2> HIDE DEF g
  <2>3. w \in Outcome
    BY <2>2 DEF Outcome
  <2>4. /\ w.row = g /\ w.ok = TRUE /\ w.send = {}
    OBVIOUS
  <2> HIDE DEF w
  <2> QED
    BY <2>1, <2>2, <2>3, <2>4
<1> QED
  BY <1>1, <1>2

-----------------------------------------------------------------------------
(* The shared endings.                                                     *)

\* The statuses whose rows owe a message or an announcement.
Owing == {"PENDING", "AWAITING_AI_REVIEW", "AWAITING_TEACHER_REVIEW"}

Good(r, o) == Sound(r, o) /\ KeepsMessage(r, o)

\* A handler that adds no message.
Quiet(r, o) == Good(r, o) /\ o.send = {}

\* q is the row r with columns changed that the obligations do not speak of.
Like(r, q) == /\ q.graded = r.graded /\ q.queued = r.queued
              /\ r.pin = 0 \/ q.pin = r.pin

LEMMA DoneFacts ==
    ASSUME NEW n \in Row
    PROVE  /\ Done(n) \in Outcome /\ Done(n).row = n
           /\ Done(n).send = {} /\ Done(n).grades = FALSE /\ Done(n).ok = TRUE
           /\ Raised(n) \in Outcome /\ Raised(n).row = n
           /\ Raised(n).send = {} /\ Raised(n).grades = FALSE /\ Raised(n).ok = FALSE
BY DEF Done, Raised, Outcome

\* A handler may first change columns of r, or move r on within the pipeline.
LEMMA GoodFrom ==
    ASSUME NEW r \in Row, NEW q \in Row, NEW o, Like(r, q), Good(q, o),
           \/ q.status = r.status
           \/ /\ q.status \notin Owing
              /\ r.status # "COMPLETED"
    PROVE  Good(r, o)
BY DEF Good, Sound, KeepsCompleted, Announces, GradesCompleted, KeepsPin,
       KeepsMessage, Like, Row, Owing

\* A row left where it was, or moved to a status that owes nothing.
LEMMA PlainGood ==
    ASSUME NEW r \in Row, NEW n \in Row, Like(r, n),
           \/ n.status = r.status
           \/ /\ n.status \notin Owing
              /\ r.status # "COMPLETED"
    PROVE  Good(r, Done(n)) /\ Good(r, Raised(n))
<1>1. Good(n, Done(n)) /\ Good(n, Raised(n))
  BY DoneFacts DEF Good, Sound, KeepsCompleted, Announces, GradesCompleted, KeepsPin,
         KeepsMessage
<1> QED
  BY <1>1, GoodFrom DEF Like

LEMMA CompleteGood ==
    ASSUME NEW r \in Row, NEW event, After(r.status, event) = "COMPLETED",
           NEW cur \in Versions, NEW pts \in BOOLEAN
    PROVE  LET o == Complete(r, event, cur, pts)
           IN  /\ Good(r, o) /\ o.ok = TRUE /\ o.send = {}
               /\ o.row.status = "COMPLETED"
<1> DEFINE n == Fired(r, event)
<1>1. /\ n \in Row /\ n.status = "COMPLETED" /\ n.graded = r.graded
      /\ n.queued = r.queued /\ n.pin = r.pin
  BY FiredRow DEF Row, Statuses
<1> HIDE DEF n
<1> DEFINE o == FinalizeGrade(n, cur, pts)
<1>2. /\ Sound(n, o) /\ o.ok = TRUE /\ o.send = {}
      /\ o.row.status = "COMPLETED" /\ o.row.pin = n.pin /\ o.row.queued = n.queued
  BY <1>1, FinalizeGradeSound
<1>3. Complete(r, event, cur, pts) = o
  BY DEF Complete, n
<1> HIDE DEF o
<1> QED
  BY <1>1, <1>2, <1>3 DEF Good, Sound, KeepsCompleted, Announces, GradesCompleted, KeepsPin,
         KeepsMessage

LEMMA ToTeacherGood ==
    ASSUME NEW r \in Row, NEW event,
           After(r.status, event) = "AWAITING_TEACHER_REVIEW",
           r.status # "COMPLETED"
    PROVE  LET o == ToTeacher(r, event)
           IN  /\ Good(r, o) /\ o.ok = TRUE /\ o.send = {}
               /\ o.row.status = "AWAITING_TEACHER_REVIEW"
<1> DEFINE n == Fired(r, event)
           q == Enqueued(n)
<1>1. /\ n \in Row /\ n.status = "AWAITING_TEACHER_REVIEW" /\ n.graded = r.graded
      /\ n.pin = r.pin
  BY FiredRow DEF Row, Statuses
<1> HIDE DEF n
<1>2. /\ q \in Row /\ q.status = "AWAITING_TEACHER_REVIEW" /\ q.queued # "none"
      /\ q.graded = r.graded /\ q.pin = r.pin
  BY <1>1, EnqueuedRow
<1>3. ToTeacher(r, event) = Done(q)
  BY DEF ToTeacher, n
<1> HIDE DEF q
<1> QED
  BY <1>2, <1>3, DoneFacts DEF Good, Sound, KeepsCompleted, Announces, GradesCompleted, KeepsPin,
         KeepsMessage

\* An event that leads to a status which owes nothing.
LEMMA FiredGood ==
    ASSUME NEW r \in Row, NEW event, r.status # "COMPLETED",
           After(r.status, event) \in Statuses \ Owing
    PROVE  /\ Fired(r, event) \in Row
           /\ Fired(r, event).status = After(r.status, event)
           /\ Like(r, Fired(r, event))
           /\ Good(r, Done(Fired(r, event))) /\ Good(r, Raised(Fired(r, event)))
<1> DEFINE n == Fired(r, event)
<1>1. n \in Row /\ n.status = After(r.status, event) /\ Like(r, n)
  BY FiredRow DEF Row, Like
<1> HIDE DEF n
<1>2. Good(r, Done(n)) /\ Good(r, Raised(n))
  BY <1>1, PlainGood
<1> QED
  BY <1>1, <1>2 DEF n

\* Single columns the handlers overwrite.
LEMMA ResultsRow ==
    ASSUME NEW r \in Row,
           NEW x \in {"none", "reason", "skipped", "passed", "failed"}
    PROVE  LET q == [r EXCEPT !.results = x]
           IN  q \in Row /\ q.status = r.status /\ Like(r, q)
BY DEF Row, Like

LEMMA AiRow ==
    ASSUME NEW r \in Row, NEW x \in {"none", "clean", "flagged"}
    PROVE  LET q == [r EXCEPT !.ai = x]
           IN  q \in Row /\ q.status = r.status /\ Like(r, q)
BY DEF Row, Like

LEMMA PinRow ==
    ASSUME NEW r \in Row, NEW v \in Versions, r.pin = 0
    PROVE  LET q == [r EXCEPT !.pin = v]
           IN  q \in Row /\ q.status = r.status /\ Like(r, q) /\ q.pin = v
BY DEF Row, Like

-----------------------------------------------------------------------------
(* RUN_CHECKS.                                                             *)

\* A handler that returned has ended the row's checks.
Unchecked == {"PENDING", "VALIDATING"}

Leaves(o) == o.ok = TRUE => o.row.status \notin Unchecked

LEMMA FailValidationGood ==
    ASSUME NEW r \in Row
    PROVE  Quiet(r, FailValidation(r)) /\ Leaves(FailValidation(r))
<1> DEFINE noted   == [r EXCEPT !.results = "reason"]
           entered == IF r.status = "PENDING"
                      THEN Fired(noted, "start_validation") ELSE noted
<1>1. noted \in Row /\ noted.status = r.status /\ Like(r, noted)
  BY ResultsRow
<1>2. /\ entered \in Row /\ Like(noted, entered)
      /\ r.status = "PENDING" => entered.status = "VALIDATING"
      /\ r.status # "PENDING" => entered.status = r.status
  <2> HIDE DEF noted
  <2>1. CASE r.status = "PENDING"
    <3>1. After(noted.status, "start_validation") = "VALIDATING"
      BY <1>1, <2>1, Edges
    <3>2. "VALIDATING" \in Statuses \ Owing
      BY DEF Statuses, Owing
    <3> QED
      BY <1>1, <2>1, <3>1, <3>2, FiredGood
  <2>2. CASE r.status # "PENDING"
    BY <1>1, <2>2 DEF Like
  <2> QED
    BY <2>1, <2>2
<1>3. Like(r, entered)
  BY <1>1, <1>2 DEF Like
<1>4. FailValidation(r) = IF Allows(entered.status, "validation_failed")
                          THEN Done(Fired(entered, "validation_failed"))
                          ELSE Raised(entered)
  BY DEF FailValidation
<1> HIDE DEF entered
<1>5. entered.status \in Statuses /\ r.status \in Statuses
  BY <1>2 DEF Row
<1>6. CASE entered.status = "VALIDATING"
  <2> DEFINE f == Fired(entered, "validation_failed")
  <2>1. After(entered.status, "validation_failed") = "VALIDATION_FAILED"
    BY <1>6, Edges
  <2>2. "VALIDATION_FAILED" \in Statuses \ Owing
    BY DEF Statuses, Owing
  <2>3. f \in Row /\ f.status = "VALIDATION_FAILED" /\ Good(entered, Done(f))
    BY <1>2, <1>6, <2>1, <2>2, FiredGood
  <2>4. FailValidation(r) = Done(f)
    BY <1>4, <1>5, <1>6, Guards
  <2> HIDE DEF f
  <2>5. Good(r, Done(f))
    BY <1>2, <1>3, <1>6, <2>3, GoodFrom DEF Owing
  <2> QED
    BY <2>3, <2>4, <2>5, DoneFacts DEF Leaves, Unchecked, Quiet
<1>7. CASE entered.status # "VALIDATING"
  <2>1. FailValidation(r) = Raised(entered)
    BY <1>4, <1>5, <1>7, Guards
  <2>2. Good(r, Raised(entered))
    BY <1>2, <1>3, <1>7, PlainGood
  <2> QED
    BY <1>2, <2>1, <2>2, DoneFacts DEF Leaves, Unchecked, Quiet
<1> QED
  BY <1>6, <1>7

LEMMA AdvanceAfterTestsGood ==
    ASSUME NEW r \in Row, r.status = "TESTING", NEW mode,
           NEW cur \in Versions, NEW pts \in BOOLEAN
    PROVE  LET o == AdvanceAfterTests(r, mode, cur, pts)
           IN  Good(r, o) /\ Leaves(o)
<1> DEFINE o == AdvanceAfterTests(r, mode, cur, pts)
<1>1. CASE mode \in DOMAIN AiNext
  <2> DEFINE n == Fired(r, "test_passed_ai")
  <2>1. n \in Row /\ n.status = "AWAITING_AI_REVIEW" /\ Like(r, n)
    BY FiredRow, Edges DEF Row, Like, Statuses
  <2>2. o = [Done(n) EXCEPT !.send = {AiNext[mode]}]
    <3>1. mode # "tests_then_teacher" /\ mode # "tests_then_quiz"
      BY <1>1 DEF AiNext
    <3> QED
      BY <1>1, <3>1 DEF AdvanceAfterTests
  <2>3. AiNext[mode] \in NextSteps
    BY <1>1 DEF AiNext, NextSteps
  <2> HIDE DEF n, o
  <2>4. /\ o \in Outcome /\ o.row = n /\ o.ok = TRUE /\ o.grades = FALSE
        /\ o.send # {}
    BY <2>1, <2>2, <2>3 DEF Done, Outcome
  <2> QED
    BY <2>1, <2>4
    DEF Good, Sound, KeepsCompleted, Announces, GradesCompleted, KeepsPin,
        KeepsMessage, Leaves, Unchecked, Like, o
<1>2. CASE mode = "tests_then_teacher"
  <2>1. o = ToTeacher(r, "test_passed_teacher")
    BY <1>2 DEF AdvanceAfterTests, AiNext
  <2>2. After(r.status, "test_passed_teacher") = "AWAITING_TEACHER_REVIEW"
    BY Edges
  <2> DEFINE c == ToTeacher(r, "test_passed_teacher")
  <2>3. Good(r, c) /\ c.row.status = "AWAITING_TEACHER_REVIEW"
    BY <2>2, ToTeacherGood
  <2> HIDE DEF c
  <2>4. Good(r, c) /\ Leaves(c)
    BY <2>3 DEF Leaves, Unchecked
  <2> QED
    BY <2>1, <2>4 DEF c
<1>3. CASE mode = "tests_then_quiz"
  <2> DEFINE n == Fired(r, "test_passed_quiz")
  <2>1. o = Done(n)
    BY <1>3 DEF AdvanceAfterTests, AiNext
  <2>2. n \in Row /\ n.status = "QUIZ_SENT" /\ Good(r, Done(n))
    BY FiredGood, Edges DEF Statuses, Owing
  <2> HIDE DEF n
  <2> QED
    BY <2>1, <2>2, DoneFacts DEF Leaves, Unchecked
<1>4. CASE mode \notin DOMAIN AiNext \cup {"tests_then_teacher", "tests_then_quiz"}
  <2>1. o = Complete(r, "test_passed_tests_only", cur, pts)
    BY <1>4 DEF AdvanceAfterTests
  <2>2. After(r.status, "test_passed_tests_only") = "COMPLETED"
    BY Edges
  <2> DEFINE c == Complete(r, "test_passed_tests_only", cur, pts)
  <2>3. Good(r, c) /\ c.row.status = "COMPLETED"
    BY <2>2, CompleteGood
  <2> HIDE DEF c
  <2>4. Good(r, c) /\ Leaves(c)
    BY <2>3 DEF Leaves, Unchecked
  <2> QED
    BY <2>1, <2>4 DEF c
<1> QED
  BY <1>1, <1>2, <1>3, <1>4

\* The sandbox, whatever it reports.
LEMMA RunSandboxGood ==
    ASSUME NEW r \in Row, NEW mode, NEW cur \in Versions, NEW pts \in BOOLEAN,
           NEW o \in RunSandbox(r, mode, cur, pts)
    PROVE  Good(r, o) /\ Leaves(o)
<1> DEFINE validating == Fired(r, "start_validation")
           testing    == Fired(validating, "validation_passed")
           invalid    == Fired(validating, "validation_failed")
           failed     == Fired(testing, "test_failed")
           passed     == [testing EXCEPT !.results = "passed"]
           noted      == [invalid EXCEPT !.results = "reason"]
           marked     == [failed EXCEPT !.results = "failed"]
<1>1. CASE ~Allows(r.status, "start_validation")
  <2>1. o = Raised(r)
    BY <1>1 DEF RunSandbox
  <2> QED
    BY <2>1, PlainGood, DoneFacts DEF Leaves, Unchecked, Like
<1>2. CASE Allows(r.status, "start_validation")
  <2>1. r.status = "PENDING"
    BY <1>2, Guards DEF Row
  <2>2. /\ validating \in Row /\ validating.status = "VALIDATING"
        /\ Like(r, validating) /\ Good(r, Raised(validating))
    BY <2>1, FiredGood, Edges DEF Statuses, Owing
  <2>3. \/ o = FailValidation(validating)
        \/ o = Raised(validating)
        \/ o = Done(noted)
        \/ o = Done(marked)
        \/ o = AdvanceAfterTests(passed, mode, cur, pts)
    BY <1>2 DEF RunSandbox
  <2> HIDE DEF validating
  <2>4. /\ testing \in Row /\ testing.status = "TESTING" /\ Like(validating, testing)
        /\ invalid \in Row /\ invalid.status = "VALIDATION_FAILED"
        /\ Like(validating, invalid)
    BY <2>2, FiredGood, Edges DEF Statuses, Owing
  <2> HIDE DEF testing, invalid
  <2>5. failed \in Row /\ failed.status = "TEST_FAILED" /\ Like(testing, failed)
    BY <2>4, FiredGood, Edges DEF Statuses, Owing
  <2> HIDE DEF failed
  <2>6. /\ passed \in Row /\ passed.status = "TESTING" /\ Like(testing, passed)
        /\ noted \in Row /\ noted.status = "VALIDATION_FAILED" /\ Like(invalid, noted)
        /\ marked \in Row /\ marked.status = "TEST_FAILED" /\ Like(failed, marked)
    BY <2>4, <2>5, ResultsRow
  <2> HIDE DEF passed, noted, marked
  <2>7. Like(r, noted) /\ Like(r, marked) /\ Like(r, passed)
    BY <2>2, <2>4, <2>5, <2>6 DEF Like
  <2>8. CASE o = FailValidation(validating)
    <3>1. Good(validating, o) /\ Leaves(o)
      BY <2>2, <2>8, FailValidationGood DEF Quiet
    <3> QED
      BY <2>1, <2>2, <3>1, GoodFrom DEF Owing
  <2>9. CASE o = Raised(validating)
    BY <2>2, <2>9, DoneFacts DEF Leaves, Unchecked
  <2>10. CASE o = Done(noted) \/ o = Done(marked)
    <3>1. Good(r, Done(noted)) /\ Good(r, Done(marked))
      BY <2>1, <2>6, <2>7, PlainGood DEF Owing
    <3> QED
      BY <2>6, <2>10, <3>1, DoneFacts DEF Leaves, Unchecked
  <2>11. CASE o = AdvanceAfterTests(passed, mode, cur, pts)
    <3>1. Good(passed, o) /\ Leaves(o)
      BY <2>6, <2>11, AdvanceAfterTestsGood
    <3> QED
      BY <2>1, <2>6, <2>7, <3>1, GoodFrom DEF Owing
  <2> QED
    BY <2>3, <2>8, <2>9, <2>10, <2>11
<1> QED
  BY <1>1, <1>2

LEMMA AcceptWithoutChecksGood ==
    ASSUME NEW r \in Row, NEW o \in AcceptWithoutChecks(r)
    PROVE  Quiet(r, o) /\ Leaves(o)
<1> DEFINE skipped    == [r EXCEPT !.results = "skipped"]
           validating == Fired(skipped, "start_validation")
           testing    == Fired(validating, "validation_passed")
           sent       == Fired(testing, "test_passed_quiz")
<1>1. skipped \in Row /\ skipped.status = r.status /\ Like(r, skipped)
  BY ResultsRow
<1>2. \/ o = Raised(r) \/ o = FailValidation(r)
      \/ o = Raised(skipped)
      \/ Allows(r.status, "start_validation") /\ o = Done(sent)
  BY DEF AcceptWithoutChecks
<1> HIDE DEF skipped
<1>3. CASE o = Raised(r) \/ o = Raised(skipped)
  BY <1>1, <1>3, PlainGood, DoneFacts DEF Quiet, Leaves, Unchecked, Like
<1>4. CASE o = FailValidation(r)
  BY <1>4, FailValidationGood
<1>5. CASE Allows(r.status, "start_validation") /\ o = Done(sent)
  <2>1. r.status = "PENDING"
    BY <1>5, Guards DEF Row
  <2>2. validating \in Row /\ validating.status = "VALIDATING" /\ Like(skipped, validating)
    BY <1>1, <2>1, FiredGood, Edges DEF Statuses, Owing
  <2> HIDE DEF validating
  <2>3. testing \in Row /\ testing.status = "TESTING" /\ Like(validating, testing)
    BY <2>2, FiredGood, Edges DEF Statuses, Owing
  <2> HIDE DEF testing
  <2>4. sent \in Row /\ sent.status = "QUIZ_SENT" /\ Like(testing, sent)
    BY <2>3, FiredGood, Edges DEF Statuses, Owing
  <2> HIDE DEF sent
  <2>5. Like(r, sent)
    BY <1>1, <2>2, <2>3, <2>4 DEF Like
  <2>6. Good(r, Done(sent))
    BY <2>1, <2>4, <2>5, PlainGood DEF Owing
  <2> QED
    BY <1>5, <2>4, <2>6, DoneFacts DEF Quiet, Leaves, Unchecked
<1> QED
  BY <1>2, <1>3, <1>4, <1>5

LEMMA ExecuteCheckGood ==
    ASSUME NEW r \in Row, NEW cur \in Versions, NEW pts \in BOOLEAN,
           NEW o \in ExecuteCheck(r, cur, pts)
    PROVE  /\ Good(r, o) /\ Leaves(o)
           /\ r.pin = 0 /\ Config[cur].mode \in QuizFirst => o.send = {}
<1> DEFINE pinned == IF r.pin = 0 THEN [r EXCEPT !.pin = cur] ELSE r
           mode   == Config[pinned.pin].mode
<1>1. pinned \in Row /\ pinned.status = r.status /\ Like(r, pinned)
  BY PinRow DEF Like
<1>2. \/ o \in AcceptWithoutChecks(pinned)
      \/ o = Raised(pinned) \/ o = FailValidation(pinned)
      \/ o \in RunSandbox(pinned, mode, cur, pts)
  BY DEF ExecuteCheck
<1> HIDE DEF pinned, mode
<1>3. Good(pinned, o) /\ Leaves(o)
  <2>1. CASE o = Raised(pinned)
    BY <1>1, <2>1, PlainGood, DoneFacts DEF Leaves, Unchecked, Like
  <2> QED
    BY <1>1, <1>2, <2>1, AcceptWithoutChecksGood, FailValidationGood, RunSandboxGood
       DEF Quiet
<1>4. ASSUME r.pin = 0, Config[cur].mode \in QuizFirst
      PROVE  o.send = {}
  <2>1. o \in AcceptWithoutChecks(pinned)
    BY <1>4, PinRow DEF ExecuteCheck, pinned
  <2> QED
    BY <1>1, <2>1, AcceptWithoutChecksGood DEF Quiet
<1> QED
  BY <1>1, <1>3, <1>4, GoodFrom

-----------------------------------------------------------------------------
(* RUN_AI_REVIEW.                                                          *)

LEMMA AfterVerdictGood ==
    ASSUME NEW r \in Row, r.status = "AI_REVIEWING", NEW next,
           NEW cur \in Versions, NEW pts \in BOOLEAN
    PROVE  LET o == AfterVerdict(r, next, cur, pts)
           IN  Good(r, o) /\ o.row.status # "AWAITING_AI_REVIEW"
<1> DEFINE o == AfterVerdict(r, next, cur, pts)
           q == Fired(r, "ai_review_passed_quiz")
<1>1. \/ o = ToTeacher(r, "ai_review_done_teacher")
      \/ o = Done(q)
      \/ o = Complete(r, "ai_review_done_completed", cur, pts)
  BY DEF AfterVerdict
<1>2. q \in Row /\ q.status = "QUIZ_SENT" /\ Good(r, Done(q))
  BY FiredGood, Edges DEF Statuses, Owing
<1> HIDE DEF o, q
<1>3. CASE o = ToTeacher(r, "ai_review_done_teacher")
  BY <1>3, ToTeacherGood, Edges DEF o
<1>4. CASE o = Done(q)
  BY <1>2, <1>4, DoneFacts DEF o
<1>5. CASE o = Complete(r, "ai_review_done_completed", cur, pts)
  <2>1. After(r.status, "ai_review_done_completed") = "COMPLETED"
    BY Edges
  <2> DEFINE c == Complete(r, "ai_review_done_completed", cur, pts)
  <2>2. Good(r, c) /\ c.row.status = "COMPLETED"
    BY <2>1, CompleteGood
  <2> HIDE DEF c
  <2>3. Good(r, c) /\ c.row.status # "AWAITING_AI_REVIEW"
    BY <2>2
  <2> QED
    BY <1>5, <2>3 DEF c, o
<1> QED
  BY <1>1, <1>3, <1>4, <1>5

\* The review leaves no row waiting for it.
LEMMA ExecuteAiReviewGood ==
    ASSUME NEW r \in Row, NEW next, NEW cur \in Versions, NEW pts \in BOOLEAN,
           NEW o \in ExecuteAiReview(r, next, cur, pts)
    PROVE  Good(r, o) /\ o.row.status # "AWAITING_AI_REVIEW"
<1> DEFINE e == EnterReviewing(r)
           n == e.row
           failed == Fired(n, "ai_review_failed")
<1>1. \/ o = e /\ e.ok = FALSE
      \/ /\ e.ok
         /\ \/ o = Raised(failed) \/ o = Raised(n)
            \/ \E verdict \in {"clean", "flagged"} :
                  o = AfterVerdict([n EXCEPT !.ai = verdict], next, cur, pts)
  <2>1. e.ok \in BOOLEAN
    BY DEF EnterReviewing, Done, Raised
  <2>2. CASE e.ok
    BY <2>2 DEF ExecuteAiReview
  <2>3. CASE ~e.ok
    BY <2>1, <2>3 DEF ExecuteAiReview
  <2> QED
    BY <2>2, <2>3
<1>2. \/ /\ r.status \in {"AI_REVIEWING", "AI_REVIEW_FAILED", "AWAITING_AI_REVIEW"}
         /\ n \in Row /\ n.status = "AI_REVIEWING" /\ Like(r, n)
      \/ /\ r.status \notin {"AI_REVIEWING", "AI_REVIEW_FAILED", "AWAITING_AI_REVIEW"}
         /\ e = Raised(r)
  <2>1. CASE r.status = "AI_REVIEWING"
    BY <2>1, DoneFacts DEF EnterReviewing, Like
  <2>2. CASE r.status = "AI_REVIEW_FAILED"
    <3> DEFINE f == Fired(r, "retry_ai_review")
    <3>1. e = Done(f)
      BY <2>2 DEF EnterReviewing
    <3>2. f \in Row /\ f.status = "AI_REVIEWING" /\ Like(r, f)
      BY <2>2, FiredGood, Edges DEF Statuses, Owing
    <3> HIDE DEF f, e
    <3> QED
      BY <2>2, <3>1, <3>2, DoneFacts
  <2>3. CASE r.status = "AWAITING_AI_REVIEW"
    <3> DEFINE f == Fired(r, "start_ai_review")
    <3>1. e = Done(f)
      BY <2>3 DEF EnterReviewing
    <3>2. f \in Row /\ f.status = "AI_REVIEWING" /\ Like(r, f)
      BY <2>3, FiredGood, Edges DEF Statuses, Owing
    <3> HIDE DEF f, e
    <3> QED
      BY <2>3, <3>1, <3>2, DoneFacts
  <2>4. CASE r.status \notin {"AI_REVIEWING", "AI_REVIEW_FAILED", "AWAITING_AI_REVIEW"}
    BY <2>4 DEF EnterReviewing
  <2> QED
    BY <2>1, <2>2, <2>3, <2>4
<1> HIDE DEF e
<1>3. CASE e = Raised(r) /\ r.status # "AWAITING_AI_REVIEW"
  <2>1. o = Raised(r)
    BY <1>1, <1>3, DoneFacts
  <2> QED
    BY <1>3, <2>1, PlainGood, DoneFacts DEF Like
<1>4. CASE /\ r.status \in {"AI_REVIEWING", "AI_REVIEW_FAILED", "AWAITING_AI_REVIEW"}
           /\ n \in Row /\ n.status = "AI_REVIEWING" /\ Like(r, n)
  <2> HIDE DEF n
  <2>1. /\ failed \in Row /\ failed.status = "AI_REVIEW_FAILED" /\ Like(n, failed)
        /\ Good(n, Raised(failed))
    BY <1>4, FiredGood, Edges DEF Statuses, Owing
  <2> HIDE DEF failed
  <2>2. e.ok = FALSE => e = Raised(r) /\ r.status \notin {"AI_REVIEWING",
                                "AI_REVIEW_FAILED", "AWAITING_AI_REVIEW"}
    BY DoneFacts, Edges DEF e, EnterReviewing, Done, Raised
  <2>3. CASE o = Raised(failed)
    BY <1>4, <2>1, <2>3, GoodFrom, DoneFacts DEF Owing
  <2>4. CASE o = Raised(n)
    BY <1>4, <2>4, PlainGood, DoneFacts DEF Owing
  <2>5. ASSUME NEW verdict \in {"clean", "flagged"},
               o = AfterVerdict([n EXCEPT !.ai = verdict], next, cur, pts)
        PROVE  Good(r, o) /\ o.row.status # "AWAITING_AI_REVIEW"
    <3> DEFINE q == [n EXCEPT !.ai = verdict]
    <3>1. q \in Row /\ q.status = "AI_REVIEWING" /\ Like(n, q)
      BY <1>4, AiRow
    <3> HIDE DEF q
    <3>2. Good(q, o) /\ o.row.status # "AWAITING_AI_REVIEW"
      BY <2>5, <3>1, AfterVerdictGood DEF q
    <3>3. Like(r, q)
      BY <1>4, <3>1 DEF Like
    <3> QED
      BY <1>4, <3>1, <3>2, <3>3, GoodFrom DEF Owing
  <2> QED
    BY <1>1, <1>4, <2>2, <2>3, <2>4, <2>5
<1> QED
  BY <1>2, <1>3, <1>4

-----------------------------------------------------------------------------
(* The teacher's controls.                                                 *)

LEMMA ApproveGood ==
    ASSUME NEW r \in Row, NEW cur \in Versions, NEW pts \in BOOLEAN,
           NEW o \in Approve(r, cur, pts)
    PROVE  Quiet(r, o)
<1>1. r.status = "AWAITING_TEACHER_REVIEW"
  BY DEF Approve
<1>2. \/ o = Complete(r, "teacher_approve", cur, pts)
      \/ o = Done(Fired(r, "teacher_send_quiz"))
  BY DEF Approve
<1>3. Good(r, Done(Fired(r, "teacher_send_quiz")))
  BY <1>1, FiredGood, Edges DEF Statuses, Owing
<1>4. Done(Fired(r, "teacher_send_quiz")).send = {}
  BY DEF Done
<1> QED
  <2>1. After(r.status, "teacher_approve") = "COMPLETED"
    BY <1>1, Edges
  <2>2. Quiet(r, Complete(r, "teacher_approve", cur, pts))
    BY <2>1, CompleteGood DEF Quiet
  <2> QED
    BY <1>2, <1>3, <1>4, <2>2 DEF Quiet

LEMMA RejectGood ==
    ASSUME NEW r \in Row, NEW cur \in Versions, NEW o \in Reject(r, cur)
    PROVE  Quiet(r, o)
<1> DEFINE f == Fired(r, "teacher_reject")
           n == [f EXCEPT !.results = "reason"]
<1>1. r.status = "AWAITING_TEACHER_REVIEW" /\ o = Done(n)
  BY DEF Reject
<1>2. f \in Row /\ f.status = "FAILED" /\ Like(r, f)
  BY <1>1, FiredGood, Edges DEF Statuses, Owing
<1> HIDE DEF f
<1>3. n \in Row /\ n.status = "FAILED" /\ Like(f, n)
  BY <1>2, ResultsRow
<1> HIDE DEF n
<1> QED
  BY <1>1, <1>2, <1>3, PlainGood, DoneFacts DEF Owing, Like, Quiet

\* The rerun leaves a PENDING row; COMPLETED is not among those it accepts.
LEMMA RequeueChecksSound ==
    ASSUME NEW r \in Row, NEW o \in RequeueChecks(r)
    PROVE  Sound(r, o) /\ o.row.status = "PENDING" /\ r.status # "COMPLETED"
<1> DEFINE n == [Fired(r, "requeue_checks")
                    EXCEPT !.pin = 0, !.results = "none", !.ai = "none"]
<1>1. o = Done(n) /\ r.status \in RequeueFrom
  BY Guards DEF RequeueChecks, Row
<1>2. /\ n \in Row /\ n.status = "PENDING" /\ n.pin = 0
      /\ n.graded = r.graded /\ n.queued = r.queued
  <2>1. After(r.status, "requeue_checks") = "PENDING"
    BY Guards DEF Row
  <2> DEFINE f == Fired(r, "requeue_checks")
  <2>2. /\ f \in Row /\ f.status = "PENDING" /\ f.graded = r.graded
        /\ f.queued = r.queued
    BY <2>1, FiredRow DEF Row, Statuses
  <2> HIDE DEF f
  <2>3. n = [f EXCEPT !.pin = 0, !.results = "none", !.ai = "none"]
    BY DEF f
  <2> HIDE DEF n
  <2>4. n \in Row
    BY <2>2, <2>3 DEF Row
  <2> QED
    BY <2>2, <2>3 DEF Row
<1>3. r.status # "COMPLETED"
  BY <1>1 DEF RequeueFrom
<1> HIDE DEF n
<1> QED
  BY <1>1, <1>2, <1>3, DoneFacts
  DEF Sound, KeepsCompleted, Announces, GradesCompleted, KeepsPin

LEMMA SkipAiReviewGood ==
    ASSUME NEW r \in Row, NEW o \in SkipAiReview(r)
    PROVE  Quiet(r, o)
<1>1. /\ r.status = "AI_REVIEW_FAILED"
      /\ o = ToTeacher(r, "ai_review_skip_to_teacher")
  BY DEF SkipAiReview
<1> QED
  BY <1>1, ToTeacherGood, Edges DEF Quiet

LEMMA GrantExtraAttemptGood ==
    ASSUME NEW r \in Row, NEW o \in GrantExtraAttempt(r)
    PROVE  Quiet(r, o)
<1> DEFINE f == Fired(r, "quiz_attempt_granted")
           n == [f EXCEPT !.extra = @ + 1]
<1>1. r.status \in {"FAILED", "QUIZ_SENT"} /\ o = Done(n)
  BY DEF GrantExtraAttempt
<1>2. f \in Row /\ f.status = "QUIZ_SENT" /\ Like(r, f)
  BY <1>1, FiredGood, Edges DEF Statuses, Owing
<1> HIDE DEF f
<1>3. n \in Row /\ n.status = "QUIZ_SENT" /\ Like(f, n)
  BY <1>2 DEF Row, Like
<1> HIDE DEF n
<1> QED
  BY <1>1, <1>2, <1>3, PlainGood, DoneFacts DEF Owing, Like, Quiet

-----------------------------------------------------------------------------
(* The quiz.                                                               *)

LEMMA StartAttemptGood ==
    ASSUME NEW r \in Row, NEW o \in StartAttempt(r)
    PROVE  Quiet(r, o)
<1> DEFINE n == [r EXCEPT !.att = r.pin]
<1>1. o = Done(n)
  BY DEF StartAttempt
<1>2. n \in Row /\ n.status = r.status /\ Like(r, n)
  BY DEF Row, Like
<1> HIDE DEF n
<1> QED
  BY <1>1, <1>2, PlainGood, DoneFacts DEF Quiet

LEMMA AfterPassGood ==
    ASSUME NEW r \in Row, r.status = "QUIZ_SENT", NEW v,
           NEW cur \in Versions, NEW pts \in BOOLEAN
    PROVE  Quiet(r, AfterPass(r, v, cur, pts))
<1>1. \/ AfterPass(r, v, cur, pts) = Complete(r, "quiz_passed", cur, pts)
      \/ AfterPass(r, v, cur, pts) = ToTeacher(r, "quiz_passed_teacher")
  BY DEF AfterPass
<1>2. Quiet(r, Complete(r, "quiz_passed", cur, pts))
  BY CompleteGood, Edges DEF Quiet
<1>3. Quiet(r, ToTeacher(r, "quiz_passed_teacher"))
  BY ToTeacherGood, Edges DEF Quiet
<1> QED
  BY <1>1, <1>2, <1>3

\* The attempt's own bookkeeping.
LEMMA EndedRow ==
    ASSUME NEW r \in Row, NEW p \in BOOLEAN, NEW f \in [Versions -> Nat], NEW u \in Nat
    PROVE  LET n == [r EXCEPT !.att = 0, !.used = u, !.passed = p, !.failed = f]
           IN  n \in Row /\ n.status = r.status /\ Like(r, n)
<1> DEFINE n == [r EXCEPT !.att = 0, !.used = u, !.passed = p, !.failed = f]
<1>1. n \in Row
  BY DEF Row
<1>2. /\ n.status = r.status /\ n.graded = r.graded /\ n.queued = r.queued
      /\ n.pin = r.pin
  BY DEF Row
<1> HIDE DEF n
<1>3. Like(r, n)
  BY <1>2 DEF Like
<1> QED
  BY <1>1, <1>2, <1>3 DEF n

LEMMA FinishAttemptGood ==
    ASSUME NEW r \in Row, NEW result, NEW cur \in Versions, NEW pts \in BOOLEAN,
           NEW o \in FinishAttempt(r, result, cur, pts)
    PROVE  Quiet(r, o)
<1> DEFINE v == r.att
           p == r.passed \/ result = "pass"
           k == IF result = "fail" THEN r.failed[v] + 1 ELSE r.failed[v]
           ended == [r EXCEPT !.att = 0, !.used = @ + 1, !.passed = p, !.failed[v] = k]
           out == Fired(ended, "quiz_failed")
<1>1. /\ v \in Versions
      /\ \/ o = Done(ended)
         \/ r.status = "QUIZ_SENT" /\ o = AfterPass(ended, v, cur, pts)
         \/ r.status = "QUIZ_SENT" /\ o = Done(out)
  BY DEF FinishAttempt, Row
<1>2. ended \in Row /\ ended.status = r.status /\ Like(r, ended)
  <2> DEFINE f == [r.failed EXCEPT ![v] = k]
             u == r.used + 1
  <2>1. p \in BOOLEAN /\ f \in [Versions -> Nat] /\ u \in Nat
    BY <1>1 DEF Row
  <2>2. ended = [r EXCEPT !.att = 0, !.used = u, !.passed = p, !.failed = f]
    OBVIOUS
  <2> DEFINE n == [r EXCEPT !.att = 0, !.used = u, !.passed = p, !.failed = f]
  <2> HIDE DEF p, f, u
  <2>3. n \in Row /\ n.status = r.status /\ Like(r, n)
    BY <2>1, EndedRow, Zenon
  <2> HIDE DEF ended, n
  <2>4. ended = n
    BY <2>2 DEF n
  <2> QED
    BY <2>3, <2>4
<1> HIDE DEF ended
<1>3. CASE o = Done(ended)
  BY <1>2, <1>3, PlainGood, DoneFacts DEF Quiet
<1>4. CASE r.status = "QUIZ_SENT" /\ o = AfterPass(ended, v, cur, pts)
  <2>1. Quiet(ended, o)
    BY <1>2, <1>4, AfterPassGood
  <2> QED
    BY <1>2, <2>1, GoodFrom DEF Quiet
<1>5. CASE r.status = "QUIZ_SENT" /\ o = Done(out)
  <2>1. out \in Row /\ Good(ended, Done(out))
    BY <1>2, <1>5, FiredGood, Edges DEF Statuses, Owing
  <2> HIDE DEF out
  <2> QED
    BY <1>2, <1>5, <2>1, GoodFrom, DoneFacts DEF Quiet
<1> QED
  BY <1>1, <1>3, <1>4, <1>5

LEMMA RegradeGood ==
    ASSUME NEW r \in Row, NEW v \in Versions, NEW k \in 1 .. r.failed[v],
           NEW cur \in Versions, NEW pts \in BOOLEAN
    PROVE  Quiet(r, Regrade(r, v, k, cur, pts))
<1> DEFINE flipped == [r EXCEPT !.failed[v] = @ - k, !.passed = TRUE]
           o == Regrade(r, v, k, cur, pts)
<1>1. flipped \in Row /\ flipped.status = r.status /\ Like(r, flipped)
  <2>1. r.failed[v] - k \in Nat
    BY DEF Row
  <2> QED
    BY <2>1 DEF Row, Like
<1>2. \/ r.status = "QUIZ_SENT" /\ o = ToTeacher(flipped, "quiz_passed_teacher")
      \/ r.status = "QUIZ_SENT" /\ o = Complete(flipped, "quiz_passed", cur, pts)
      \/ /\ r.status = "FAILED"
         /\ o = ToTeacher(flipped, "dispute_regrade_passed_teacher")
      \/ /\ r.status = "FAILED"
         /\ o = Complete(flipped, "dispute_regrade_passed", cur, pts)
      \/ r.status = "COMPLETED" /\ o = FinalizeGrade(flipped, cur, pts)
      \/ o = Done(flipped)
  BY DEF Regrade
<1> HIDE DEF flipped, o
<1>3. Quiet(flipped, o)
  <2>1. CASE r.status = "QUIZ_SENT" /\ o = ToTeacher(flipped, "quiz_passed_teacher")
    BY <1>1, <2>1, ToTeacherGood, Edges DEF Quiet
  <2>2. CASE r.status = "QUIZ_SENT" /\ o = Complete(flipped, "quiz_passed", cur, pts)
    <3>1. After(flipped.status, "quiz_passed") = "COMPLETED"
      BY <1>1, <2>2, Edges
    <3> QED
      BY <1>1, <2>2, <3>1, CompleteGood DEF Quiet
  <2>3. CASE /\ r.status = "FAILED"
             /\ o = ToTeacher(flipped, "dispute_regrade_passed_teacher")
    BY <1>1, <2>3, ToTeacherGood, Edges DEF Quiet
  <2>4. CASE /\ r.status = "FAILED"
             /\ o = Complete(flipped, "dispute_regrade_passed", cur, pts)
    <3>1. After(flipped.status, "dispute_regrade_passed") = "COMPLETED"
      BY <1>1, <2>4, Edges
    <3> QED
      BY <1>1, <2>4, <3>1, CompleteGood DEF Quiet
  <2>5. CASE r.status = "COMPLETED" /\ o = FinalizeGrade(flipped, cur, pts)
    BY <1>1, <2>5, FinalizeGradeSound DEF Good, Quiet
  <2>6. CASE o = Done(flipped)
    BY <1>1, <2>6, PlainGood, DoneFacts DEF Like, Quiet
  <2> QED
    BY <1>2, <2>1, <2>2, <2>3, <2>4, <2>5, <2>6
<1> QED
  BY <1>1, <1>3, GoodFrom DEF o, Quiet

-----------------------------------------------------------------------------
(* What each handler does to the columns of the quiz and to the status: the   *)
(* facts behind the causes of FAILED and COMPLETED.                           *)

\* q has the attempts, the source and the grants of r.
SameQuiz(r, q) ==
    /\ q.source = r.source /\ q.att = r.att /\ q.used = r.used
    /\ q.failed = r.failed /\ q.passed = r.passed /\ q.extra = r.extra

\* And its pin.
Keeps(r, q) == SameQuiz(r, q) /\ q.pin = r.pin

AiStages == {"AWAITING_AI_REVIEW", "AI_REVIEWING", "AI_REVIEW_FAILED"}

TeacherModes == {"tests_then_teacher", "quiz_then_teacher",
                 "tests_then_ai_then_teacher", "tests_then_ai_teacher"}

\* The allowance of version v is used up; v is the pinned one or the work has
\* passed already.
Spent(r, v) == /\ v = r.pin \/ r.passed = TRUE
               /\ Config[v].cap # 0
               /\ r.used >= Config[v].cap + r.extra

\* An open attempt is of the pinned version at the quiz stage, or the work has
\* passed; FAILED has a cause.
Explained(r, rejected) ==
    /\ r.att # 0 => r.passed = TRUE \/ (r.status = "QUIZ_SENT" /\ r.att = r.pin)
    /\ r.status = "FAILED" => rejected \/ \E v \in Versions : Spent(r, v)

\* The quiz of the row was sent at some time.
WasSent(r) == \/ r.status = "QUIZ_SENT" \/ r.att # 0 \/ r.used > 0
              \/ \E v \in Versions : r.failed[v] > 0

\* The rows of an assignment that has only ever had version c; told: the teacher
\* approved the submission.
OpenedQuiz(r, c) ==
    /\ Config[c].mode = Scored
    /\ r.status \in {"QUIZ_SENT", "AWAITING_TEACHER_REVIEW", "COMPLETED", "FAILED"}
    /\ r.passed = TRUE => r.status \in {"AWAITING_TEACHER_REVIEW", "COMPLETED"}
    /\ r.status = "AWAITING_TEACHER_REVIEW" => r.passed = TRUE
    /\ r.status = "FAILED" => /\ r.att = 0 /\ r.used > 0 /\ Config[c].cap # 0
                              /\ r.used >= Config[c].cap + r.extra

Earned(r, c, told) ==
    /\ r.graded = TRUE
    /\ Config[c].mode \in TeacherModes => told
    /\ Config[c].quiz => r.passed = TRUE

Uniform(r, c, told) ==
    /\ r.pin \in {0, c} /\ (r.status # "PENDING" => r.pin = c)
    /\ r.att \in {0, c}
    /\ \A v \in Versions : r.failed[v] > 0 => v = c
    /\ r.status \in AiStages => Config[c].mode \in DOMAIN AiNext
    /\ Config[c].mode \in TeacherModes \ {"quiz_then_teacher"} /\ WasSent(r) => told
    /\ r.status = "COMPLETED" => Earned(r, c, told)
    /\ r.source = "QUIZ_ONLY" => OpenedQuiz(r, c)

-----------------------------------------------------------------------------
(* The columns each handler keeps, and where it may take the status.          *)

LEMMA FiredKeeps ==
    ASSUME NEW r \in Row, NEW event, After(r.status, event) \in Statuses
    PROVE  LET q == Fired(r, event)
           IN  /\ q \in Row /\ Keeps(r, q)
               /\ q.graded = r.graded /\ q.status = After(r.status, event)
BY DEF Fired, Row, Keeps, SameQuiz

LEMMA ColumnKeeps ==
    ASSUME NEW r \in Row
    PROVE  /\ \A x \in {"none", "reason", "skipped", "passed", "failed"} :
                 LET q == [r EXCEPT !.results = x]
                 IN  /\ q \in Row /\ Keeps(r, q)
                     /\ q.graded = r.graded /\ q.status = r.status
           /\ \A x \in {"none", "clean", "flagged"} :
                 LET q == [r EXCEPT !.ai = x]
                 IN  /\ q \in Row /\ Keeps(r, q)
                     /\ q.graded = r.graded /\ q.status = r.status
           /\ LET q == Enqueued(r)
              IN  /\ q \in Row /\ Keeps(r, q)
                  /\ q.graded = r.graded /\ q.status = r.status
<1>1. ASSUME NEW x \in {"none", "reason", "skipped", "passed", "failed"}
      PROVE  LET q == [r EXCEPT !.results = x]
             IN  /\ q \in Row /\ Keeps(r, q)
                 /\ q.graded = r.graded /\ q.status = r.status
  BY DEF Row, Keeps, SameQuiz
<1>2. ASSUME NEW x \in {"none", "clean", "flagged"}
      PROVE  LET q == [r EXCEPT !.ai = x]
             IN  /\ q \in Row /\ Keeps(r, q)
                 /\ q.graded = r.graded /\ q.status = r.status
  BY DEF Row, Keeps, SameQuiz
<1>3. LET q == Enqueued(r)
      IN  /\ q \in Row /\ Keeps(r, q)
          /\ q.graded = r.graded /\ q.status = r.status
  BY DEF Row, Keeps, SameQuiz, Enqueued, Queue
<1> QED
  BY <1>1, <1>2, <1>3

LEMMA KeepsTransitive ==
    ASSUME NEW r, NEW q, NEW n, Keeps(r, q), Keeps(q, n)
    PROVE  Keeps(r, n)
BY DEF Keeps, SameQuiz

\* finalize_grade changes the breakdown only.
LEMMA FinalizeKeeps ==
    ASSUME NEW r \in Row, NEW cur, NEW pts \in BOOLEAN
    PROVE  LET o == FinalizeGrade(r, cur, pts)
           IN  Keeps(r, o.row) /\ o.row.status = r.status /\ o.send = {}
<1> DEFINE g == [r EXCEPT !.graded = TRUE]
           o == FinalizeGrade(r, cur, pts)
<1>1. g.status = r.status /\ Keeps(r, g) /\ Keeps(r, r)
  BY DEF Row, Keeps, SameQuiz
<1>2. \/ o = Done(r)
      \/ o = [row |-> g, send |-> {}, grades |-> TRUE, ok |-> TRUE]
  BY DEF FinalizeGrade
<1> HIDE DEF g
<1>3. (o.row = r \/ o.row = g) /\ o.send = {}
  BY <1>2 DEF Done
<1> HIDE DEF o
<1> QED
  BY <1>1, <1>3 DEF o

\* It writes the grade unless the scored mode lacks a half of it.
LEMMA FinalizeGrades ==
    ASSUME NEW r \in Row, NEW cur, NEW pts \in BOOLEAN
    PROVE  LET o == FinalizeGrade(r, cur, pts)
           IN  /\ r.graded = TRUE => o.row.graded = TRUE
               /\ \/ Config[cur].mode # Scored
                  \/ r.passed = TRUE /\ pts = TRUE
                  => o.row.graded = TRUE
<1> DEFINE g == [r EXCEPT !.graded = TRUE]
           o == FinalizeGrade(r, cur, pts)
<1>1. g.graded = TRUE
  BY DEF Row
<1>2. CASE Config[cur].mode = Scored /\ ~(r.passed /\ pts)
  <2>1. o.row = r
    BY <1>2 DEF FinalizeGrade, Done
  <2>2. ~(r.passed = TRUE /\ pts = TRUE)
    BY <1>2
  <2> HIDE DEF o
  <2> QED
    BY <1>2, <2>1, <2>2 DEF o
<1>3. CASE ~(Config[cur].mode = Scored /\ ~(r.passed /\ pts))
  <2>1. o.row = g
    BY <1>3 DEF FinalizeGrade
  <2> HIDE DEF o, g
  <2> QED
    BY <1>1, <2>1 DEF o
<1> QED
  BY <1>2, <1>3

LEMMA CompleteKeeps ==
    ASSUME NEW r \in Row, NEW event, After(r.status, event) = "COMPLETED",
           NEW cur, NEW pts \in BOOLEAN
    PROVE  LET o == Complete(r, event, cur, pts)
           IN  /\ Keeps(r, o.row) /\ o.row.status = "COMPLETED"
               /\ o.send = {}
               /\ Config[cur].mode # Scored => o.row.graded = TRUE
               /\ r.passed = TRUE /\ pts = TRUE => o.row.graded = TRUE
<1> DEFINE n == Fired(r, event)
<1>1. n \in Row /\ Keeps(r, n) /\ n.status = "COMPLETED"
  BY FiredKeeps DEF Statuses
<1>2. n.passed = r.passed
  BY <1>1 DEF Keeps, SameQuiz
<1> HIDE DEF n
<1> DEFINE o == FinalizeGrade(n, cur, pts)
<1>3. Complete(r, event, cur, pts) = o
  BY DEF Complete, n
<1>4. Keeps(n, o.row) /\ o.row.status = n.status /\ o.send = {}
  BY <1>1, FinalizeKeeps
<1>5. /\ Config[cur].mode # Scored => o.row.graded = TRUE
      /\ n.passed = TRUE /\ pts = TRUE => o.row.graded = TRUE
  BY <1>1, FinalizeGrades
<1> HIDE DEF o
<1> QED
  BY <1>1, <1>2, <1>3, <1>4, <1>5, KeepsTransitive

LEMMA ToTeacherKeeps ==
    ASSUME NEW r \in Row, NEW event,
           After(r.status, event) = "AWAITING_TEACHER_REVIEW"
    PROVE  LET o == ToTeacher(r, event)
           IN  /\ Keeps(r, o.row) /\ o.row.status = "AWAITING_TEACHER_REVIEW"
               /\ o.send = {}
<1> DEFINE n == Fired(r, event)
           q == Enqueued(n)
<1>1. /\ n \in Row /\ Keeps(r, n) /\ n.status = "AWAITING_TEACHER_REVIEW"
  BY FiredKeeps DEF Statuses
<1>2. ToTeacher(r, event) = Done(q)
  BY DEF ToTeacher
<1> HIDE DEF n
<1>3. Keeps(n, q) /\ q.status = n.status
  BY <1>1, ColumnKeeps
<1> HIDE DEF q
<1> QED
  BY <1>1, <1>2, <1>3, KeepsTransitive DEF Done

\* RUN_CHECKS: the attempts stay, the version is pinned once, and only a row whose
\* checks have not ended moves.
Pinning(r, cur) == IF r.pin = 0 THEN cur ELSE r.pin

Checked(r, o, mode, cur) ==
    \/ /\ o.row.status = r.status /\ o.row.graded = r.graded
       /\ o.send = {} /\ o.ok = FALSE
    \/ /\ r.status \in Unchecked
       /\ o.row.status \in {"VALIDATING", "VALIDATION_FAILED", "TEST_FAILED"}
       /\ o.send = {}
    \/ /\ r.status = "PENDING" /\ o.row.status = "AWAITING_AI_REVIEW"
       /\ mode \in DOMAIN AiNext /\ o.send = {AiNext[mode]}
    \/ /\ r.status = "PENDING" /\ o.row.status = "QUIZ_SENT"
       /\ mode \in QuizFirst \cup {"tests_then_quiz"} /\ o.send = {}
    \/ /\ r.status = "PENDING" /\ o.row.status = "AWAITING_TEACHER_REVIEW"
       /\ mode = "tests_then_teacher" /\ o.send = {}
    \/ /\ r.status = "PENDING" /\ o.row.status = "COMPLETED"
       /\ mode = "tests_only" /\ o.send = {}
       /\ Config[cur].mode # Scored => o.row.graded = TRUE

\* Other columns changed first do not matter.
LEMMA CheckedFrom ==
    ASSUME NEW r, NEW q, NEW o, NEW mode, NEW cur,
           q.status = r.status, q.graded = r.graded, Checked(q, o, mode, cur)
    PROVE  Checked(r, o, mode, cur)
BY DEF Checked, Unchecked

LEMMA FailValidationKeeps ==
    ASSUME NEW r \in Row, NEW mode, NEW cur
    PROVE  LET o == FailValidation(r)
           IN  Keeps(r, o.row) /\ Checked(r, o, mode, cur)
<1> DEFINE noted   == [r EXCEPT !.results = "reason"]
           entered == IF r.status = "PENDING"
                      THEN Fired(noted, "start_validation") ELSE noted
           f == Fired(entered, "validation_failed")
<1>1. /\ noted \in Row /\ Keeps(r, noted)
      /\ noted.status = r.status /\ noted.graded = r.graded
  BY ColumnKeeps
<1>2. FailValidation(r) = IF Allows(entered.status, "validation_failed")
                          THEN Done(f) ELSE Raised(entered)
  BY DEF FailValidation
<1> HIDE DEF noted
<1>3. /\ entered \in Row /\ Keeps(r, entered) /\ entered.graded = r.graded
      /\ r.status = "PENDING" => entered.status = "VALIDATING"
      /\ r.status # "PENDING" => entered.status = r.status
  <2>1. CASE r.status = "PENDING"
    <3> DEFINE e == Fired(noted, "start_validation")
    <3>1. /\ e \in Row /\ Keeps(noted, e) /\ e.graded = noted.graded
          /\ e.status = "VALIDATING"
      BY <1>1, <2>1, FiredKeeps, Edges DEF Statuses
    <3> HIDE DEF e
    <3>2. entered = e
      BY <2>1 DEF e
    <3> HIDE DEF entered
    <3> QED
      BY <1>1, <2>1, <3>1, <3>2, KeepsTransitive
  <2>2. CASE r.status # "PENDING"
    BY <1>1, <2>2
  <2> QED
    BY <2>1, <2>2
<1> HIDE DEF entered
<1>4. entered.status \in Statuses
  BY <1>3 DEF Row
<1>5. CASE entered.status = "VALIDATING"
  <2>1. f \in Row /\ Keeps(entered, f) /\ f.status = "VALIDATION_FAILED"
    BY <1>3, <1>5, FiredKeeps, Edges DEF Statuses
  <2>2. FailValidation(r) = Done(f)
    BY <1>2, <1>4, <1>5, Guards
  <2> HIDE DEF f
  <2>3. Keeps(r, f) /\ r.status \in {"PENDING", "VALIDATING"}
    BY <1>3, <1>5, <2>1, KeepsTransitive
  <2> QED
    BY <2>1, <2>2, <2>3, DoneFacts DEF Checked, Unchecked
<1>6. CASE entered.status # "VALIDATING"
  <2>1. FailValidation(r) = Raised(entered)
    BY <1>2, <1>4, <1>6, Guards
  <2> QED
    BY <1>3, <1>6, <2>1, DoneFacts DEF Checked, Unchecked
<1> QED
  BY <1>5, <1>6

LEMMA RunSandboxKeeps ==
    ASSUME NEW r \in Row, NEW mode \in Modes \ QuizFirst, NEW cur,
           NEW pts \in BOOLEAN, NEW o \in RunSandbox(r, mode, cur, pts)
    PROVE  Keeps(r, o.row) /\ Checked(r, o, mode, cur)
<1>1. r.status \in Statuses
  BY DEF Row
<1>2. CASE r.status # "PENDING"
  <2>1. o = Raised(r)
    BY <1>1, <1>2, Guards DEF RunSandbox
  <2> QED
    BY <2>1, DoneFacts DEF Checked, Unchecked, Keeps, SameQuiz
<1>3. CASE r.status = "PENDING"
  <2> DEFINE v == Fired(r, "start_validation")
             t == Fired(v, "validation_passed")
             vf == Fired(v, "validation_failed")
             vn == [vf EXCEPT !.results = "reason"]
             tf == Fired(t, "test_failed")
             tn == [tf EXCEPT !.results = "failed"]
             p == [t EXCEPT !.results = "passed"]
  <2>1. v \in Row /\ Keeps(r, v) /\ v.status = "VALIDATING"
    BY <1>3, FiredKeeps, Edges DEF Statuses
  <2>2. \/ o = FailValidation(v) \/ o = Raised(v) \/ o = Done(vn) \/ o = Done(tn)
        \/ o = AdvanceAfterTests(p, mode, cur, pts)
    BY <1>1, <1>3, Guards DEF RunSandbox
  <2> HIDE DEF v
  <2>3. t \in Row /\ Keeps(v, t) /\ t.status = "TESTING"
    BY <2>1, FiredKeeps, Edges DEF Statuses
  <2>4. vf \in Row /\ Keeps(v, vf) /\ vf.status = "VALIDATION_FAILED"
    BY <2>1, FiredKeeps, Edges DEF Statuses
  <2> HIDE DEF t, vf
  <2>5. tf \in Row /\ Keeps(t, tf) /\ tf.status = "TEST_FAILED"
    BY <2>3, FiredKeeps, Edges DEF Statuses
  <2> HIDE DEF tf
  <2>6. vn \in Row /\ Keeps(vf, vn) /\ vn.status = "VALIDATION_FAILED"
    BY <2>4, ColumnKeeps
  <2>7. tn \in Row /\ Keeps(tf, tn) /\ tn.status = "TEST_FAILED"
    BY <2>5, ColumnKeeps
  <2>8. p \in Row /\ Keeps(t, p) /\ p.status = "TESTING"
    BY <2>3, ColumnKeeps
  <2> HIDE DEF vn, tn, p
  <2>9. Keeps(r, vn) /\ Keeps(r, tn) /\ Keeps(r, p)
    <3>1. Keeps(r, t) /\ Keeps(r, vf)
      BY <2>1, <2>3, <2>4, KeepsTransitive
    <3>2. Keeps(r, tf)
      BY <2>5, <3>1, KeepsTransitive
    <3> QED
      BY <2>6, <2>7, <2>8, <3>1, <3>2, KeepsTransitive
  <2>10. CASE o = FailValidation(v)
    <3>1. Keeps(v, o.row) /\ Checked(v, o, mode, cur)
      BY <2>1, <2>10, FailValidationKeeps
    <3> QED
      BY <1>3, <2>1, <3>1, KeepsTransitive DEF Checked, Unchecked
  <2>11. CASE o = Raised(v)
    BY <1>3, <2>1, <2>11, DoneFacts DEF Checked, Unchecked
  <2>12. CASE o = Done(vn)
    BY <1>3, <2>6, <2>9, <2>12, DoneFacts DEF Checked, Unchecked
  <2>13. CASE o = Done(tn)
    BY <1>3, <2>7, <2>9, <2>13, DoneFacts DEF Checked, Unchecked
  <2>14. CASE o = AdvanceAfterTests(p, mode, cur, pts)
    <3>1. CASE mode \in DOMAIN AiNext
      <4> DEFINE n == Fired(p, "test_passed_ai")
      <4>1. n \in Row /\ Keeps(p, n) /\ n.status = "AWAITING_AI_REVIEW"
        BY <2>8, FiredKeeps, Edges DEF Statuses
      <4>2. o = [Done(n) EXCEPT !.send = {AiNext[mode]}]
        BY <2>14, <3>1 DEF AdvanceAfterTests, AiNext
      <4> HIDE DEF n
      <4>3. o.row = n /\ o.send = {AiNext[mode]}
        BY <4>2 DEF Done
      <4> QED
        BY <1>3, <2>9, <3>1, <4>1, <4>3, KeepsTransitive DEF Checked, Unchecked
    <3>2. CASE mode = "tests_then_teacher"
      <4>1. o = ToTeacher(p, "test_passed_teacher")
        BY <2>14, <3>2 DEF AdvanceAfterTests, AiNext
      <4>2. /\ Keeps(p, o.row) /\ o.row.status = "AWAITING_TEACHER_REVIEW"
            /\ o.send = {}
        BY <2>8, <4>1, ToTeacherKeeps, Edges
      <4> QED
        BY <1>3, <2>9, <3>2, <4>2, KeepsTransitive DEF Checked, Unchecked
    <3>3. CASE mode = "tests_then_quiz"
      <4> DEFINE n == Fired(p, "test_passed_quiz")
      <4>1. n \in Row /\ Keeps(p, n) /\ n.status = "QUIZ_SENT"
        BY <2>8, FiredKeeps, Edges DEF Statuses
      <4>2. o = Done(n)
        BY <2>14, <3>3 DEF AdvanceAfterTests, AiNext
      <4> HIDE DEF n
      <4> QED
        BY <1>3, <2>9, <3>3, <4>1, <4>2, DoneFacts, KeepsTransitive DEF Checked, Unchecked
    <3>4. CASE mode = "tests_only"
      <4>1. o = Complete(p, "test_passed_tests_only", cur, pts)
        BY <2>14, <3>4 DEF AdvanceAfterTests, AiNext
      <4>2. After(p.status, "test_passed_tests_only") = "COMPLETED"
        BY <2>8, Edges
      <4>3. /\ Keeps(p, o.row) /\ o.row.status = "COMPLETED" /\ o.send = {}
            /\ Config[cur].mode # Scored => o.row.graded = TRUE
        BY <2>8, <4>1, <4>2, CompleteKeeps
      <4> QED
        BY <1>3, <2>9, <3>4, <4>3, KeepsTransitive DEF Checked, Unchecked
    <3> QED
      BY <3>1, <3>2, <3>3, <3>4 DEF Modes, QuizFirst, AiNext
  <2> QED
    BY <2>2, <2>10, <2>11, <2>12, <2>13, <2>14
<1> QED
  BY <1>2, <1>3

LEMMA AcceptWithoutChecksKeeps ==
    ASSUME NEW r \in Row, NEW mode \in QuizFirst, NEW cur,
           NEW o \in AcceptWithoutChecks(r)
    PROVE  Keeps(r, o.row) /\ Checked(r, o, mode, cur)
<1> DEFINE k == [r EXCEPT !.results = "skipped"]
           a == Fired(k, "start_validation")
           b == Fired(a, "validation_passed")
           c == Fired(b, "test_passed_quiz")
<1>1. r.status \in Statuses
  BY DEF Row
<1>2. \/ o = Raised(r) \/ o = FailValidation(r)
      \/ r.status = "PENDING" /\ o = Done(c)
      \/ o = Raised(k)
  BY <1>1, Guards DEF AcceptWithoutChecks
<1>3. k \in Row /\ Keeps(r, k) /\ k.status = r.status /\ k.graded = r.graded
  BY ColumnKeeps
<1> HIDE DEF k
<1>4. CASE o = Raised(r)
  BY <1>4, DoneFacts DEF Checked, Unchecked, Keeps, SameQuiz
<1>5. CASE o = FailValidation(r)
  BY <1>5, FailValidationKeeps
<1>6. CASE r.status = "PENDING" /\ o = Done(c)
  <2>1. a \in Row /\ Keeps(k, a) /\ a.status = "VALIDATING"
    BY <1>3, <1>6, FiredKeeps, Edges DEF Statuses
  <2> HIDE DEF a
  <2>2. b \in Row /\ Keeps(a, b) /\ b.status = "TESTING"
    BY <2>1, FiredKeeps, Edges DEF Statuses
  <2> HIDE DEF b
  <2>3. c \in Row /\ Keeps(b, c) /\ c.status = "QUIZ_SENT"
    BY <2>2, FiredKeeps, Edges DEF Statuses
  <2> HIDE DEF c
  <2>4. Keeps(r, c)
    <3>1. Keeps(r, a)
      BY <1>3, <2>1, KeepsTransitive
    <3>2. Keeps(r, b)
      BY <2>2, <3>1, KeepsTransitive
    <3> QED
      BY <2>3, <3>2, KeepsTransitive
  <2> QED
    BY <1>6, <2>3, <2>4, DoneFacts DEF Checked, Unchecked
<1>7. CASE o = Raised(k)
  BY <1>3, <1>7, DoneFacts DEF Checked, Unchecked
<1> QED
  BY <1>2, <1>4, <1>5, <1>6, <1>7

LEMMA ExecuteCheckShape ==
    ASSUME NEW r \in Row, NEW cur \in Versions, NEW pts \in BOOLEAN,
           NEW o \in ExecuteCheck(r, cur, pts)
    PROVE  LET v == Pinning(r, cur)
           IN  /\ v \in Versions /\ SameQuiz(r, o.row) /\ o.row.pin = v
               /\ Checked(r, o, Config[v].mode, cur)
<1> DEFINE v == Pinning(r, cur)
           q == IF r.pin = 0 THEN [r EXCEPT !.pin = cur] ELSE r
           mode == Config[v].mode
<1>1. v \in Versions /\ mode \in Modes
  <2>1. v \in Versions
    BY DEF Pinning, Row
  <2> QED
    BY <2>1, ConfigAssumption
<1>2. /\ q \in Row /\ SameQuiz(r, q) /\ q.pin = v
      /\ q.status = r.status /\ q.graded = r.graded
  <2>1. CASE r.pin = 0
    BY <2>1 DEF Row, SameQuiz, Pinning
  <2>2. CASE r.pin # 0
    BY <2>2 DEF Row, SameQuiz, Pinning
  <2> QED
    BY <2>1, <2>2
<1>3. \/ mode \in QuizFirst /\ o \in AcceptWithoutChecks(q)
      \/ /\ mode \notin QuizFirst
         /\ \/ o = Raised(q) \/ o = FailValidation(q)
            \/ o \in RunSandbox(q, mode, cur, pts)
  <2>1. mode = Config[q.pin].mode
    BY <1>2
  <2>2. o \in IF Config[q.pin].mode \in QuizFirst
              THEN AcceptWithoutChecks(q)
              ELSE {Raised(q), FailValidation(q)}
                   \cup RunSandbox(q, Config[q.pin].mode, cur, pts)
    BY DEF ExecuteCheck
  <2> HIDE DEF q, v
  <2> QED
    BY <2>1, <2>2
<1> HIDE DEF q, mode
<1>4. Keeps(q, o.row) /\ Checked(q, o, mode, cur)
  <2>1. CASE mode \in QuizFirst /\ o \in AcceptWithoutChecks(q)
    BY <1>2, <2>1, AcceptWithoutChecksKeeps
  <2>2. CASE o = Raised(q)
    BY <1>2, <2>2, DoneFacts DEF Checked, Unchecked, Keeps, SameQuiz
  <2>3. CASE o = FailValidation(q)
    BY <1>2, <2>3, FailValidationKeeps
  <2>4. CASE mode \notin QuizFirst /\ o \in RunSandbox(q, mode, cur, pts)
    BY <1>1, <1>2, <2>4, RunSandboxKeeps
  <2> QED
    BY <1>3, <2>1, <2>2, <2>3, <2>4
<1>5. Checked(r, o, mode, cur)
  BY <1>2, <1>4, CheckedFrom
<1>6. SameQuiz(r, o.row) /\ o.row.pin = v
  BY <1>2, <1>4 DEF Keeps, SameQuiz
<1> QED
  BY <1>1, <1>5, <1>6 DEF mode

-----------------------------------------------------------------------------

\* RUN_AI_REVIEW: only a row at the AI stage moves, where the message says.
Reviewed(r, o, next, cur) ==
    \/ o.row.status = r.status /\ o.row.graded = r.graded
    \/ /\ r.status \in AiStages
       /\ \/ o.row.status \in {"AI_REVIEWING", "AI_REVIEW_FAILED"}
          \/ o.row.status = "QUIZ_SENT" /\ next = "quiz"
          \/ o.row.status = "AWAITING_TEACHER_REVIEW"
          \/ /\ o.row.status = "COMPLETED" /\ next \notin {"quiz", "teacher"}
             /\ Config[cur].mode # Scored => o.row.graded = TRUE

LEMMA ExecuteAiReviewShape ==
    ASSUME NEW r \in Row, NEW next, NEW cur, NEW pts \in BOOLEAN,
           NEW o \in ExecuteAiReview(r, next, cur, pts)
    PROVE  Keeps(r, o.row) /\ Reviewed(r, o, next, cur) /\ o.send = {}
<1> DEFINE e == EnterReviewing(r)
           n == e.row
<1>1. CASE r.status \notin AiStages
  <2>1. e = Raised(r)
    BY <1>1 DEF EnterReviewing, AiStages
  <2>2. ~e.ok
    BY <2>1 DEF Raised
  <2>3. o = Raised(r)
    BY <2>1, <2>2 DEF ExecuteAiReview
  <2> QED
    BY <2>3, DoneFacts DEF Reviewed, Keeps, SameQuiz
<1>2. CASE r.status \in AiStages
  <2>1. n \in Row /\ Keeps(r, n) /\ n.status = "AI_REVIEWING" /\ e.ok = TRUE
    <3>1. CASE r.status = "AI_REVIEWING"
      BY <3>1, DoneFacts DEF EnterReviewing, Keeps, SameQuiz
    <3>2. CASE r.status = "AI_REVIEW_FAILED"
      <4> DEFINE f == Fired(r, "retry_ai_review")
      <4>1. e = Done(f)
        BY <3>2 DEF EnterReviewing
      <4>2. f \in Row /\ Keeps(r, f) /\ f.status = "AI_REVIEWING"
        BY <3>2, FiredKeeps, Edges DEF Statuses
      <4> HIDE DEF f, e
      <4> QED
        BY <4>1, <4>2, DoneFacts
    <3>3. CASE r.status = "AWAITING_AI_REVIEW"
      <4> DEFINE f == Fired(r, "start_ai_review")
      <4>1. e = Done(f)
        BY <3>3 DEF EnterReviewing
      <4>2. f \in Row /\ Keeps(r, f) /\ f.status = "AI_REVIEWING"
        BY <3>3, FiredKeeps, Edges DEF Statuses
      <4> HIDE DEF f, e
      <4> QED
        BY <4>1, <4>2, DoneFacts
    <3> QED
      BY <1>2, <3>1, <3>2, <3>3 DEF AiStages
  <2> DEFINE failed == Fired(n, "ai_review_failed")
  <2>2. \/ o = Raised(failed) \/ o = Raised(n)
        \/ \E verdict \in {"clean", "flagged"} :
              o = AfterVerdict([n EXCEPT !.ai = verdict], next, cur, pts)
    BY <2>1 DEF ExecuteAiReview
  <2> HIDE DEF e, n
  <2>3. failed \in Row /\ Keeps(n, failed) /\ failed.status = "AI_REVIEW_FAILED"
    BY <2>1, FiredKeeps, Edges DEF Statuses
  <2> HIDE DEF failed
  <2>4. CASE o = Raised(failed)
    <3>1. Keeps(r, failed)
      BY <2>1, <2>3, KeepsTransitive
    <3> QED
      BY <1>2, <2>3, <2>4, <3>1, DoneFacts DEF Reviewed
  <2>5. CASE o = Raised(n)
    BY <1>2, <2>1, <2>5, DoneFacts DEF Reviewed
  <2>6. ASSUME NEW verdict \in {"clean", "flagged"},
               o = AfterVerdict([n EXCEPT !.ai = verdict], next, cur, pts)
        PROVE  Keeps(r, o.row) /\ Reviewed(r, o, next, cur) /\ o.send = {}
    <3> DEFINE q == [n EXCEPT !.ai = verdict]
               z == Fired(q, "ai_review_passed_quiz")
    <3>1. q \in Row /\ Keeps(n, q) /\ q.status = "AI_REVIEWING"
      BY <2>1 DEF Row, Keeps, SameQuiz
    <3>2. \/ o = ToTeacher(q, "ai_review_done_teacher")
          \/ next = "quiz" /\ o = Done(z)
          \/ /\ next \notin {"quiz", "teacher"}
             /\ o = Complete(q, "ai_review_done_completed", cur, pts)
      BY <2>6 DEF AfterVerdict
    <3> HIDE DEF q
    <3>3. Keeps(r, q)
      BY <2>1, <3>1, KeepsTransitive
    <3>4. CASE o = ToTeacher(q, "ai_review_done_teacher")
      <4>1. /\ Keeps(q, o.row) /\ o.row.status = "AWAITING_TEACHER_REVIEW"
            /\ o.send = {}
        BY <3>1, <3>4, ToTeacherKeeps, Edges
      <4> QED
        BY <1>2, <3>3, <4>1, KeepsTransitive DEF Reviewed
    <3>5. CASE next = "quiz" /\ o = Done(z)
      <4>1. z \in Row /\ Keeps(q, z) /\ z.status = "QUIZ_SENT"
        BY <3>1, FiredKeeps, Edges DEF Statuses
      <4> HIDE DEF z
      <4> QED
        BY <1>2, <3>3, <3>5, <4>1, KeepsTransitive, DoneFacts DEF Reviewed
    <3>6. CASE /\ next \notin {"quiz", "teacher"}
               /\ o = Complete(q, "ai_review_done_completed", cur, pts)
      <4>1. After(q.status, "ai_review_done_completed") = "COMPLETED"
        BY <3>1, Edges
      <4>2. /\ Keeps(q, o.row) /\ o.row.status = "COMPLETED" /\ o.send = {}
            /\ Config[cur].mode # Scored => o.row.graded = TRUE
        BY <3>1, <3>6, <4>1, CompleteKeeps
      <4> QED
        BY <1>2, <3>3, <3>6, <4>2, KeepsTransitive DEF Reviewed
    <3> QED
      BY <3>2, <3>4, <3>5, <3>6
  <2> QED
    BY <2>2, <2>4, <2>5, <2>6
<1> QED
  BY <1>1, <1>2

-----------------------------------------------------------------------------

\* The teacher's decisions.
LEMMA ApproveShape ==
    ASSUME NEW r \in Row, NEW cur, NEW pts \in BOOLEAN,
           NEW o \in Approve(r, cur, pts)
    PROVE  /\ Keeps(r, o.row) /\ r.status = "AWAITING_TEACHER_REVIEW"
           /\ \/ o.row.status = "QUIZ_SENT" /\ r.passed = FALSE
              \/ /\ o.row.status = "COMPLETED"
                 /\ r.pin = 0 \/ ~Config[r.pin].quiz \/ r.passed = TRUE
                 /\ Config[cur].mode # Scored \/ r.passed = TRUE
                       => o.row.graded = TRUE
<1>1. /\ r.status = "AWAITING_TEACHER_REVIEW"
      /\ Config[cur].mode = Scored => pts = TRUE
  BY DEF Approve
<1>2. r.passed \in BOOLEAN
  BY DEF Row
<1>3. CASE ApproveEvent(r) = "teacher_approve"
  <2>1. o = Complete(r, "teacher_approve", cur, pts)
    BY <1>3 DEF Approve
  <2>2. After(r.status, "teacher_approve") = "COMPLETED"
    BY <1>1, Edges
  <2>3. /\ Keeps(r, o.row) /\ o.row.status = "COMPLETED"
        /\ Config[cur].mode # Scored => o.row.graded = TRUE
        /\ r.passed = TRUE /\ pts = TRUE => o.row.graded = TRUE
    BY <2>1, <2>2, CompleteKeeps
  <2>4. r.pin = 0 \/ ~Config[r.pin].quiz \/ r.passed = TRUE
    BY <1>2, <1>3 DEF ApproveEvent
  <2> QED
    BY <1>1, <2>3, <2>4
<1>4. CASE ApproveEvent(r) # "teacher_approve"
  <2> DEFINE z == Fired(r, "teacher_send_quiz")
  <2>1. o = Done(z)
    BY <1>4 DEF Approve
  <2>2. z \in Row /\ Keeps(r, z) /\ z.status = "QUIZ_SENT"
    BY <1>1, FiredKeeps, Edges DEF Statuses
  <2>3. r.passed = FALSE
    BY <1>2, <1>4 DEF ApproveEvent
  <2> HIDE DEF z
  <2> QED
    BY <1>1, <2>1, <2>2, <2>3, DoneFacts
<1> QED
  BY <1>3, <1>4

LEMMA RejectShape ==
    ASSUME NEW r \in Row, NEW cur, NEW o \in Reject(r, cur)
    PROVE  /\ Keeps(r, o.row) /\ Config[cur].mode # Scored
           /\ r.status = "AWAITING_TEACHER_REVIEW" /\ o.row.status = "FAILED"
<1> DEFINE f == Fired(r, "teacher_reject")
           n == [f EXCEPT !.results = "reason"]
<1>1. /\ r.status = "AWAITING_TEACHER_REVIEW" /\ Config[cur].mode # Scored
      /\ o = Done(n)
  BY DEF Reject
<1>2. f \in Row /\ Keeps(r, f) /\ f.status = "FAILED"
  BY <1>1, FiredKeeps, Edges DEF Statuses
<1> HIDE DEF f
<1>3. n \in Row /\ Keeps(f, n) /\ n.status = "FAILED"
  BY <1>2, ColumnKeeps
<1> HIDE DEF n
<1> QED
  BY <1>1, <1>2, <1>3, KeepsTransitive, DoneFacts

LEMMA RequeueChecksShape ==
    ASSUME NEW r \in Row, NEW o \in RequeueChecks(r)
    PROVE  /\ SameQuiz(r, o.row) /\ o.row.pin = 0 /\ o.row.status = "PENDING"
           /\ r.source # "QUIZ_ONLY" /\ r.status # "QUIZ_SENT"
<1> DEFINE f == Fired(r, "requeue_checks")
           n == [f EXCEPT !.pin = 0, !.results = "none", !.ai = "none"]
<1>1. o = Done(n) /\ r.source # "QUIZ_ONLY" /\ r.status \in RequeueFrom
  BY Guards DEF RequeueChecks, Row
<1>2. f \in Row /\ Keeps(r, f) /\ f.status = "PENDING"
  <2>1. After(r.status, "requeue_checks") = "PENDING"
    BY Guards DEF Row
  <2> QED
    BY <2>1, FiredKeeps DEF Statuses
<1> HIDE DEF f
<1>3. SameQuiz(f, n) /\ n.pin = 0 /\ n.status = "PENDING" /\ n \in Row
  BY <1>2 DEF Row, SameQuiz
<1> HIDE DEF n
<1>4. SameQuiz(r, n)
  BY <1>2, <1>3 DEF Keeps, SameQuiz
<1> QED
  BY <1>1, <1>3, <1>4, DoneFacts DEF RequeueFrom

LEMMA SkipAiReviewShape ==
    ASSUME NEW r \in Row, NEW o \in SkipAiReview(r)
    PROVE  /\ Keeps(r, o.row) /\ r.status = "AI_REVIEW_FAILED"
           /\ o.row.status = "AWAITING_TEACHER_REVIEW"
<1>1. /\ r.status = "AI_REVIEW_FAILED"
      /\ o = ToTeacher(r, "ai_review_skip_to_teacher")
  BY DEF SkipAiReview
<1> QED
  BY <1>1, ToTeacherKeeps, Edges

LEMMA GrantShape ==
    ASSUME NEW r \in Row, NEW o \in GrantExtraAttempt(r)
    PROVE  /\ r.status \in {"FAILED", "QUIZ_SENT"} /\ r.used > 0 /\ r.att = 0
           /\ o.row.status = "QUIZ_SENT" /\ o.row.att = 0 /\ o.row.pin = r.pin
           /\ o.row.source = r.source /\ o.row.used = r.used
           /\ o.row.failed = r.failed /\ o.row.passed = r.passed
<1> DEFINE f == Fired(r, "quiz_attempt_granted")
           n == [f EXCEPT !.extra = @ + 1]
<1>1. /\ r.status \in {"FAILED", "QUIZ_SENT"} /\ r.used > 0 /\ r.att = 0
      /\ o = Done(n)
  BY DEF GrantExtraAttempt, IsExhausted
<1>2. f \in Row /\ Keeps(r, f) /\ f.status = "QUIZ_SENT"
  BY <1>1, FiredKeeps, Edges DEF Statuses
<1> HIDE DEF f
<1>3. /\ n \in Row /\ n.status = "QUIZ_SENT" /\ n.att = f.att /\ n.pin = f.pin
      /\ n.source = f.source /\ n.used = f.used
      /\ n.failed = f.failed /\ n.passed = f.passed
  BY <1>2 DEF Row
<1> HIDE DEF n
<1> QED
  BY <1>1, <1>2, <1>3, DoneFacts DEF Keeps, SameQuiz

-----------------------------------------------------------------------------

\* The quiz.
LEMMA StartShape ==
    ASSUME NEW r \in Row, NEW o \in StartAttempt(r)
    PROVE  /\ r.status = "QUIZ_SENT" /\ o.row.status = "QUIZ_SENT"
           /\ o.row.att = r.pin /\ r.pin # 0 /\ o.row.pin = r.pin
           /\ o.row.source = r.source /\ o.row.used = r.used
           /\ o.row.failed = r.failed /\ o.row.passed = r.passed
           /\ o.row.extra = r.extra /\ o.row.graded = r.graded
<1> DEFINE n == [r EXCEPT !.att = r.pin]
<1>1. o = Done(n) /\ r.status = "QUIZ_SENT" /\ r.pin # 0
  BY DEF StartAttempt, MayStart
<1>2. /\ n \in Row /\ n.status = r.status /\ n.att = r.pin /\ n.pin = r.pin
      /\ n.source = r.source /\ n.used = r.used /\ n.failed = r.failed
      /\ n.passed = r.passed /\ n.extra = r.extra /\ n.graded = r.graded
  BY DEF Row
<1> HIDE DEF n
<1> QED
  BY <1>1, <1>2, DoneFacts

\* Where a pass on version v takes the row: to the teacher, or to a graded end.
PassLands(o, v, cur) ==
    /\ o.row.passed = TRUE
    /\ \/ o.row.status = "AWAITING_TEACHER_REVIEW"
       \/ /\ o.row.status = "COMPLETED" /\ o.row.graded = TRUE
          /\ Config[cur].mode # Scored => Config[v].mode # "quiz_then_teacher"

LEMMA AfterPassShape ==
    ASSUME NEW r \in Row, r.status = "QUIZ_SENT", r.passed = TRUE, NEW v, NEW cur,
           NEW pts \in BOOLEAN
    PROVE  LET o == AfterPass(r, v, cur, pts)
           IN  Keeps(r, o.row) /\ PassLands(o, v, cur)
<1> DEFINE o == AfterPass(r, v, cur, pts)
           c == Complete(r, "quiz_passed", cur, pts)
           t == ToTeacher(r, "quiz_passed_teacher")
<1>1. \/ o = t
      \/ /\ o = c /\ (Config[cur].mode # Scored => Config[v].mode # "quiz_then_teacher")
         /\ Config[cur].mode = Scored => pts = TRUE
  BY DEF AfterPass
<1>2. Keeps(r, t.row) /\ t.row.status = "AWAITING_TEACHER_REVIEW"
  BY ToTeacherKeeps, Edges
<1>3. /\ Keeps(r, c.row) /\ c.row.status = "COMPLETED"
      /\ Config[cur].mode # Scored => c.row.graded = TRUE
      /\ pts = TRUE => c.row.graded = TRUE
  <2>1. After(r.status, "quiz_passed") = "COMPLETED"
    BY Edges
  <2> QED
    BY <2>1, CompleteKeeps
<1> HIDE DEF c, t
<1>4. t.row.passed = TRUE /\ c.row.passed = TRUE
  BY <1>2, <1>3 DEF Keeps, SameQuiz
<1> HIDE DEF o
<1>5. Keeps(r, o.row) /\ PassLands(o, v, cur)
  BY <1>1, <1>2, <1>3, <1>4 DEF PassLands
<1> QED
  BY <1>5 DEF o

\* _grade_and_finalize: what the end of an attempt of version r.att does.
AttemptEnds(r, o, cur) ==
    /\ r.att \in Versions /\ o.row.att = 0 /\ o.row.used = r.used + 1
    /\ o.row.extra = r.extra /\ o.row.pin = r.pin /\ o.row.source = r.source
    /\ r.passed = TRUE => o.row.passed = TRUE
    /\ \A w \in Versions : o.row.failed[w] > 0 => r.failed[w] > 0 \/ w = r.att
    /\ \/ /\ o.row.status = r.status /\ o.row.graded = r.graded
          /\ r.status = "QUIZ_SENT" => o.row.passed = r.passed
       \/ r.status = "QUIZ_SENT" /\ PassLands(o, r.att, cur)
       \/ /\ r.status = "QUIZ_SENT" /\ o.row.status = "FAILED"
          /\ o.row.passed = r.passed
          /\ Config[r.att].cap # 0
          /\ o.row.used >= Config[r.att].cap + r.extra

LEMMA FinishShape ==
    ASSUME NEW r \in Row, NEW result, NEW cur, NEW pts \in BOOLEAN,
           NEW o \in FinishAttempt(r, result, cur, pts)
    PROVE  AttemptEnds(r, o, cur)
<1> DEFINE v == r.att
           p == r.passed \/ result = "pass"
           k == IF result = "fail" THEN r.failed[v] + 1 ELSE r.failed[v]
           n == [r EXCEPT !.att = 0, !.used = @ + 1, !.passed = p, !.failed[v] = k]
           f == Fired(n, "quiz_failed")
           Over == Config[v].cap # 0 /\ n.used >= Config[v].cap + r.extra
<1>1. /\ v \in Versions
      /\ \/ r.status # "QUIZ_SENT" /\ o = Done(n)
         \/ /\ r.status = "QUIZ_SENT" /\ result = "pass"
            /\ o = AfterPass(n, v, cur, pts)
         \/ r.status = "QUIZ_SENT" /\ result # "pass" /\ Over /\ o = Done(f)
         \/ r.status = "QUIZ_SENT" /\ result # "pass" /\ o = Done(n)
  BY DEF FinishAttempt, Row
<1>2. /\ r.passed \in BOOLEAN /\ p \in BOOLEAN /\ k \in Nat /\ r.used + 1 \in Nat
      /\ r.failed \in [Versions -> Nat]
  BY <1>1 DEF Row
<1>3. /\ r.passed = TRUE => p = TRUE
      /\ result = "pass" => p = TRUE
      /\ result # "pass" => p = r.passed
  BY <1>2
<1> HIDE DEF p, k
<1>4. n \in Row
  <2> DEFINE g == [r.failed EXCEPT ![v] = k]
             u == r.used + 1
             m == [r EXCEPT !.att = 0, !.used = u, !.passed = p, !.failed = g]
  <2>1. n = m
    OBVIOUS
  <2>2. g \in [Versions -> Nat] /\ u \in Nat
    BY <1>1, <1>2
  <2> HIDE DEF g, u
  <2>3. m \in Row
    BY <1>2, <2>2, EndedRow, Zenon
  <2> HIDE DEF n, m
  <2> QED
    BY <2>1, <2>3
<1>5. /\ n.att = 0 /\ n.used = r.used + 1 /\ n.passed = p
      /\ n.extra = r.extra /\ n.pin = r.pin /\ n.source = r.source
      /\ n.status = r.status /\ n.graded = r.graded
  BY DEF Row
<1>6. \A w \in Versions : n.failed[w] > 0 => r.failed[w] > 0 \/ w = v
  <2>1. n.failed = [r.failed EXCEPT ![v] = k]
    BY DEF Row
  <2> HIDE DEF n
  <2> QED
    BY <1>1, <1>2, <2>1
<1> HIDE DEF n, v
<1>7. CASE o = Done(n) /\ (r.status = "QUIZ_SENT" => result # "pass")
  <2>1. o.row = n
    BY <1>7 DEF Done
  <2> QED
    BY <1>1, <1>3, <1>5, <1>6, <1>7, <2>1 DEF AttemptEnds, v
<1>8. CASE /\ r.status = "QUIZ_SENT" /\ result = "pass"
           /\ o = AfterPass(n, v, cur, pts)
  <2>1. Keeps(n, o.row) /\ PassLands(o, v, cur)
    BY <1>3, <1>4, <1>5, <1>8, AfterPassShape
  <2>2. /\ o.row.att = 0 /\ o.row.used = r.used + 1 /\ o.row.failed = n.failed
        /\ o.row.extra = r.extra /\ o.row.pin = r.pin /\ o.row.source = r.source
        /\ o.row.passed = p
    BY <1>5, <2>1 DEF Keeps, SameQuiz
  <2> QED
    BY <1>1, <1>3, <1>6, <1>8, <2>1, <2>2 DEF AttemptEnds, v
<1>9. CASE r.status = "QUIZ_SENT" /\ result # "pass" /\ Over /\ o = Done(f)
  <2>1. f \in Row /\ Keeps(n, f) /\ f.status = "FAILED"
    BY <1>4, <1>5, <1>9, FiredKeeps, Edges DEF Statuses
  <2> HIDE DEF f
  <2>2. o.row = f
    BY <1>9 DEF Done
  <2>3. /\ f.att = 0 /\ f.used = r.used + 1 /\ f.failed = n.failed
        /\ f.extra = r.extra /\ f.pin = r.pin /\ f.source = r.source
        /\ f.passed = p /\ f.used = n.used
    BY <1>5, <2>1 DEF Keeps, SameQuiz
  <2> QED
    BY <1>1, <1>3, <1>6, <1>9, <2>1, <2>2, <2>3 DEF AttemptEnds, v
<1> QED
  BY <1>1, <1>7, <1>8, <1>9

\* services/quiz_regrade: an accepted dispute about version v.
DisputeEnds(r, o, v, cur) ==
    /\ o.row.att = r.att /\ o.row.used = r.used /\ o.row.extra = r.extra
    /\ o.row.pin = r.pin /\ o.row.source = r.source /\ o.row.passed = TRUE
    /\ r.failed[v] > 0
    /\ \A w \in Versions : o.row.failed[w] > 0 => r.failed[w] > 0
    /\ \/ /\ r.status \notin {"QUIZ_SENT", "FAILED"} /\ o.row.status = r.status
          /\ r.graded = TRUE => o.row.graded = TRUE
       \/ r.status \in {"QUIZ_SENT", "FAILED"} /\ PassLands(o, v, cur)

LEMMA RegradeShape ==
    ASSUME NEW r \in Row, NEW v \in Versions, NEW k \in 1 .. r.failed[v],
           NEW cur, NEW pts \in BOOLEAN
    PROVE  DisputeEnds(r, Regrade(r, v, k, cur, pts), v, cur)
<1> DEFINE n == [r EXCEPT !.failed[v] = @ - k, !.passed = TRUE]
           teacher == IF Config[cur].mode = Scored
                      THEN ~pts ELSE Config[v].mode = "quiz_then_teacher"
           o == Regrade(r, v, k, cur, pts)
<1>1. /\ n \in Row /\ n.att = r.att /\ n.used = r.used /\ n.extra = r.extra
      /\ n.pin = r.pin /\ n.source = r.source /\ n.status = r.status
      /\ n.graded = r.graded /\ n.passed = TRUE
  <2>1. r.failed[v] - k \in Nat
    BY DEF Row
  <2> QED
    BY <2>1 DEF Row
<1>2. r.failed[v] > 0 /\ \A w \in Versions : n.failed[w] > 0 => r.failed[w] > 0
  <2>1. n.failed = [r.failed EXCEPT ![v] = @ - k] /\ r.failed \in [Versions -> Nat]
    BY DEF Row
  <2> HIDE DEF n
  <2> QED
    BY <2>1
<1>3. /\ \/ r.status = "QUIZ_SENT" /\ o = ToTeacher(n, "quiz_passed_teacher")
         \/ /\ r.status = "QUIZ_SENT" /\ ~teacher
            /\ o = Complete(n, "quiz_passed", cur, pts)
         \/ r.status = "FAILED" /\ o = ToTeacher(n, "dispute_regrade_passed_teacher")
         \/ /\ r.status = "FAILED" /\ ~teacher
            /\ o = Complete(n, "dispute_regrade_passed", cur, pts)
         \/ r.status = "COMPLETED" /\ o = FinalizeGrade(n, cur, pts)
         \/ r.status \notin {"QUIZ_SENT", "FAILED"} /\ o = Done(n)
  BY DEF Regrade
<1>4. ~teacher => /\ Config[cur].mode = Scored => pts = TRUE
                  /\ Config[cur].mode # Scored => Config[v].mode # "quiz_then_teacher"
  OBVIOUS
<1> HIDE DEF n, o, teacher
<1>5. /\ Keeps(n, o.row)
      /\ \/ /\ r.status \notin {"QUIZ_SENT", "FAILED"} /\ o.row.status = r.status
            /\ r.graded = TRUE => o.row.graded = TRUE
         \/ r.status \in {"QUIZ_SENT", "FAILED"} /\ PassLands(o, v, cur)
  <2>1. ASSUME NEW event, After(n.status, event) = "AWAITING_TEACHER_REVIEW",
               o = ToTeacher(n, event)
        PROVE  Keeps(n, o.row) /\ PassLands(o, v, cur)
    <3>1. Keeps(n, o.row) /\ o.row.status = "AWAITING_TEACHER_REVIEW"
      BY <1>1, <2>1, ToTeacherKeeps
    <3> QED
      BY <1>1, <3>1 DEF PassLands, Keeps, SameQuiz
  <2>2. ASSUME NEW event, After(n.status, event) = "COMPLETED", ~teacher,
               o = Complete(n, event, cur, pts)
        PROVE  Keeps(n, o.row) /\ PassLands(o, v, cur)
    <3>1. /\ Keeps(n, o.row) /\ o.row.status = "COMPLETED"
          /\ Config[cur].mode # Scored => o.row.graded = TRUE
          /\ n.passed = TRUE /\ pts = TRUE => o.row.graded = TRUE
      BY <1>1, <2>2, CompleteKeeps
    <3>2. o.row.passed = TRUE
      BY <1>1, <3>1 DEF Keeps, SameQuiz
    <3> QED
      BY <1>1, <1>4, <2>2, <3>1, <3>2 DEF PassLands
  <2>3. CASE r.status = "COMPLETED" /\ o = FinalizeGrade(n, cur, pts)
    <3>1. Keeps(n, o.row) /\ o.row.status = n.status
      BY <1>1, <2>3, FinalizeKeeps
    <3>2. n.graded = TRUE => o.row.graded = TRUE
      BY <1>1, <2>3, FinalizeGrades
    <3> QED
      BY <1>1, <2>3, <3>1, <3>2
  <2>4. CASE r.status \notin {"QUIZ_SENT", "FAILED"} /\ o = Done(n)
    BY <1>1, <2>4 DEF Done, Keeps, SameQuiz
  <2>5. CASE r.status = "QUIZ_SENT"
    <3>1. /\ After(n.status, "quiz_passed_teacher") = "AWAITING_TEACHER_REVIEW"
          /\ After(n.status, "quiz_passed") = "COMPLETED"
      BY <1>1, <2>5, Edges
    <3> QED
      BY <1>3, <2>1, <2>2, <2>5, <3>1
  <2>6. CASE r.status = "FAILED"
    <3>1. /\ After(n.status, "dispute_regrade_passed_teacher") = "AWAITING_TEACHER_REVIEW"
          /\ After(n.status, "dispute_regrade_passed") = "COMPLETED"
      BY <1>1, <2>6, Edges
    <3> QED
      BY <1>3, <2>1, <2>2, <2>6, <3>1
  <2> QED
    BY <1>3, <2>3, <2>4, <2>5, <2>6
<1>6. /\ o.row.att = r.att /\ o.row.used = r.used /\ o.row.extra = r.extra
      /\ o.row.pin = r.pin /\ o.row.source = r.source /\ o.row.passed = TRUE
      /\ o.row.failed = n.failed
  BY <1>1, <1>5 DEF Keeps, SameQuiz
<1>7. DisputeEnds(r, o, v, cur)
  BY <1>2, <1>5, <1>6 DEF DisputeEnds
<1> QED
  BY <1>7 DEF o

-----------------------------------------------------------------------------
(* Each handler explains the FAILED it leaves; and on an assignment of one     *)
(* version, each leaves a row that fits that version.                          *)

LEMMA VersionFacts ==
    ASSUME NEW c \in Versions
    PROVE  /\ c # 0 /\ Config[c].mode \in Modes
           /\ Config[c].mode \in {"tests_only", "tests_then_ai"} => ~Config[c].quiz
           /\ Config[c].mode = Scored => Config[c].quiz
BY ConfigAssumption DEF Versions, QuizReachable

\* A row whose attempts, pin, status and breakdown are those of r.
LEMMA SameFits ==
    ASSUME NEW r, NEW q, Keeps(r, q), q.status = r.status,
           r.graded = TRUE => q.graded = TRUE, NEW c, NEW x, NEW t
    PROVE  /\ Explained(r, x) => Explained(q, x)
           /\ Uniform(r, c, t) => Uniform(q, c, t)
BY DEF Keeps, SameQuiz, Explained, Spent, Uniform, WasSent, Earned, OpenedQuiz

LEMMA ExecuteCheckFits ==
    ASSUME NEW r \in Row, NEW cur \in Versions, NEW pts \in BOOLEAN,
           NEW o \in ExecuteCheck(r, cur, pts), NEW x, NEW t
    PROVE  /\ Explained(r, x) => Explained(o.row, x)
           /\ Uniform(r, cur, t) =>
                 /\ Uniform(o.row, cur, t)
                 /\ o.send # {} => /\ Config[cur].mode \in DOMAIN AiNext
                                   /\ o.send = {AiNext[Config[cur].mode]}
<1> DEFINE v == Pinning(r, cur)
<1>1. /\ v \in Versions /\ SameQuiz(r, o.row) /\ o.row.pin = v
      /\ Checked(r, o, Config[v].mode, cur)
  BY ExecuteCheckShape
<1>2. cur # 0 /\ (r.pin # 0 => v = r.pin) /\ (r.pin = 0 => v = cur) /\ 0 \notin Versions
  BY VersionFacts DEF Pinning
<1> HIDE DEF v
<1>3. ASSUME Explained(r, x) PROVE Explained(o.row, x)
  <2>1. o.row.att # 0 => o.row.passed = TRUE
                         \/ (o.row.status = "QUIZ_SENT" /\ o.row.att = o.row.pin)
    BY <1>1, <1>2, <1>3 DEF Explained, SameQuiz, Checked, Unchecked
  <2>2. o.row.status = "FAILED" => x \/ \E w \in Versions : Spent(o.row, w)
    BY <1>1, <1>2, <1>3 DEF Explained, Spent, SameQuiz, Checked, Unchecked
  <2> QED
    BY <2>1, <2>2 DEF Explained
<1>4. ASSUME Uniform(r, cur, t)
      PROVE  /\ Uniform(o.row, cur, t)
             /\ o.send # {} => /\ Config[cur].mode \in DOMAIN AiNext
                               /\ o.send = {AiNext[Config[cur].mode]}
  <2>1. v = cur
    BY <1>2, <1>4 DEF Uniform
  <2> DEFINE mode == Config[cur].mode
  <2>2. Checked(r, o, mode, cur) /\ o.row.pin = cur
    BY <1>1, <2>1
  <2>3. mode = "tests_only" => ~Config[cur].quiz /\ mode \notin TeacherModes /\ mode # Scored
    BY VersionFacts DEF TeacherModes, Scored
  <2>4. mode \in QuizFirst \cup {"tests_then_quiz"} =>
           mode \notin TeacherModes \ {"quiz_then_teacher"}
    BY DEF QuizFirst, TeacherModes
  <2> HIDE DEF mode
  <2>5. o.row.status \in AiStages => mode \in DOMAIN AiNext
    BY <1>4, <2>2 DEF Uniform, Checked, Unchecked, AiStages, mode
  <2>6. mode \in TeacherModes \ {"quiz_then_teacher"} /\ WasSent(o.row) => t
    BY <1>1, <1>4, <2>2, <2>4 DEF Uniform, WasSent, Checked, Unchecked, SameQuiz, mode
  <2>7. o.row.status = "COMPLETED" => Earned(o.row, cur, t)
    BY <1>1, <1>4, <2>2, <2>3 DEF Uniform, Earned, Checked, Unchecked, SameQuiz, mode
  <2>8. o.row.source = "QUIZ_ONLY" => OpenedQuiz(o.row, cur)
    BY <1>1, <1>4, <2>2 DEF Uniform, OpenedQuiz, Checked, Unchecked, SameQuiz
  <2>9. o.row.att \in {0, cur} /\ \A w \in Versions : o.row.failed[w] > 0 => w = cur
    BY <1>1, <1>4 DEF Uniform, SameQuiz
  <2>10. Uniform(o.row, cur, t)
    BY <2>2, <2>5, <2>6, <2>7, <2>8, <2>9 DEF Uniform, mode
  <2> QED
    BY <2>2, <2>10 DEF Checked, Unchecked, mode
<1> QED
  BY <1>3, <1>4

LEMMA ExecuteAiReviewFits ==
    ASSUME NEW r \in Row, NEW next, NEW cur \in Versions, NEW pts \in BOOLEAN,
           NEW o \in ExecuteAiReview(r, next, cur, pts), NEW x, NEW t
    PROVE  /\ o.send = {}
           /\ Explained(r, x) => Explained(o.row, x)
           /\ /\ Config[cur].mode \in DOMAIN AiNext
              /\ next = AiNext[Config[cur].mode]
              /\ Uniform(r, cur, t)
              => Uniform(o.row, cur, t)
<1>1. Keeps(r, o.row) /\ Reviewed(r, o, next, cur) /\ o.send = {}
  BY ExecuteAiReviewShape
<1>2. Explained(r, x) => Explained(o.row, x)
  BY <1>1 DEF Explained, Spent, Keeps, SameQuiz, Reviewed, AiStages
<1>3. ASSUME Config[cur].mode \in DOMAIN AiNext, next = AiNext[Config[cur].mode],
             Uniform(r, cur, t)
      PROVE  Uniform(o.row, cur, t)
  <2> DEFINE mode == Config[cur].mode
  <2>1. /\ mode \in DOMAIN AiNext /\ mode # Scored
        /\ next = "quiz" => mode \notin TeacherModes
        /\ next \notin {"quiz", "teacher"} => mode \notin TeacherModes /\ ~Config[cur].quiz
    BY <1>3, VersionFacts DEF AiNext, TeacherModes, Scored
  <2> HIDE DEF mode
  <2>2. mode \in TeacherModes \ {"quiz_then_teacher"} /\ WasSent(o.row) => t
    BY <1>1, <1>3, <2>1 DEF Uniform, WasSent, Keeps, SameQuiz, Reviewed, mode
  <2>3. o.row.status = "COMPLETED" => Earned(o.row, cur, t)
    BY <1>1, <1>3, <2>1 DEF Uniform, Earned, Keeps, SameQuiz, Reviewed, mode
  <2>4. o.row.source # "QUIZ_ONLY"
    BY <1>1, <1>3, <2>1 DEF Uniform, OpenedQuiz, Keeps, SameQuiz, mode
  <2>5. /\ o.row.pin \in {0, cur} /\ (o.row.status # "PENDING" => o.row.pin = cur)
        /\ o.row.att \in {0, cur}
        /\ \A w \in Versions : o.row.failed[w] > 0 => w = cur
    BY <1>1, <1>3 DEF Uniform, Keeps, SameQuiz, Reviewed, AiStages
  <2> QED
    BY <2>1, <2>2, <2>3, <2>4, <2>5 DEF Uniform, mode
<1> QED
  BY <1>1, <1>2, <1>3

LEMMA ApproveFits ==
    ASSUME NEW r \in Row, NEW cur \in Versions, NEW pts \in BOOLEAN,
           NEW o \in Approve(r, cur, pts), NEW x, NEW t
    PROVE  /\ Explained(r, x) => Explained(o.row, x)
           /\ Uniform(r, cur, t) => Uniform(o.row, cur, TRUE)
<1>1. /\ Keeps(r, o.row) /\ r.status = "AWAITING_TEACHER_REVIEW"
      /\ \/ o.row.status = "QUIZ_SENT" /\ r.passed = FALSE
         \/ /\ o.row.status = "COMPLETED"
            /\ r.pin = 0 \/ ~Config[r.pin].quiz \/ r.passed = TRUE
            /\ Config[cur].mode # Scored \/ r.passed = TRUE => o.row.graded = TRUE
  BY ApproveShape
<1>2. cur # 0 /\ (Config[cur].mode = Scored => Config[cur].quiz)
  BY VersionFacts
<1>3. Explained(r, x) => Explained(o.row, x)
  BY <1>1 DEF Explained, Keeps, SameQuiz
<1>4. ASSUME Uniform(r, cur, t) PROVE Uniform(o.row, cur, TRUE)
  <2>1. r.pin = cur
    BY <1>1, <1>4 DEF Uniform
  <2>2. o.row.status = "COMPLETED" => Earned(o.row, cur, TRUE)
    BY <1>1, <1>2, <2>1 DEF Earned, Keeps, SameQuiz
  <2>3. o.row.source = "QUIZ_ONLY" => OpenedQuiz(o.row, cur)
    BY <1>1, <1>4 DEF Uniform, OpenedQuiz, Keeps, SameQuiz
  <2> QED
    BY <1>1, <1>4, <2>2, <2>3 DEF Uniform, Keeps, SameQuiz, AiStages
<1> QED
  BY <1>3, <1>4

LEMMA RejectFits ==
    ASSUME NEW r \in Row, NEW cur \in Versions, NEW o \in Reject(r, cur), NEW x, NEW t
    PROVE  /\ Explained(r, x) => Explained(o.row, TRUE)
           /\ Uniform(r, cur, t) => Uniform(o.row, cur, t)
<1>1. /\ Keeps(r, o.row) /\ Config[cur].mode # Scored
      /\ r.status = "AWAITING_TEACHER_REVIEW" /\ o.row.status = "FAILED"
  BY RejectShape
<1>2. Explained(r, x) => Explained(o.row, TRUE)
  BY <1>1 DEF Explained, Keeps, SameQuiz
<1>3. Uniform(r, cur, t) => Uniform(o.row, cur, t)
  BY <1>1 DEF Uniform, WasSent, OpenedQuiz, Keeps, SameQuiz, AiStages
<1> QED
  BY <1>2, <1>3

LEMMA RequeueChecksFits ==
    ASSUME NEW r \in Row, NEW cur \in Versions, NEW o \in RequeueChecks(r), NEW x, NEW t
    PROVE  /\ Explained(r, x) => Explained(o.row, x)
           /\ Uniform(r, cur, t) => Uniform(o.row, cur, t)
<1>1. /\ SameQuiz(r, o.row) /\ o.row.pin = 0 /\ o.row.status = "PENDING"
      /\ r.source # "QUIZ_ONLY" /\ r.status # "QUIZ_SENT"
  BY RequeueChecksShape
<1>2. Explained(r, x) => Explained(o.row, x)
  BY <1>1 DEF Explained, SameQuiz
<1>3. Uniform(r, cur, t) => Uniform(o.row, cur, t)
  BY <1>1 DEF Uniform, WasSent, SameQuiz, AiStages
<1> QED
  BY <1>2, <1>3

LEMMA SkipAiReviewFits ==
    ASSUME NEW r \in Row, NEW cur \in Versions, NEW o \in SkipAiReview(r), NEW x, NEW t
    PROVE  /\ Explained(r, x) => Explained(o.row, x)
           /\ Uniform(r, cur, t) => Uniform(o.row, cur, t)
<1>1. /\ Keeps(r, o.row) /\ r.status = "AI_REVIEW_FAILED"
      /\ o.row.status = "AWAITING_TEACHER_REVIEW"
  BY SkipAiReviewShape
<1>2. Explained(r, x) => Explained(o.row, x)
  BY <1>1 DEF Explained, Keeps, SameQuiz
<1>3. Uniform(r, cur, t) => Uniform(o.row, cur, t)
  BY <1>1 DEF Uniform, WasSent, OpenedQuiz, Keeps, SameQuiz, AiStages
<1> QED
  BY <1>2, <1>3

LEMMA GrantFits ==
    ASSUME NEW r \in Row, NEW cur \in Versions, NEW o \in GrantExtraAttempt(r),
           NEW x, NEW t
    PROVE  /\ Explained(r, x) => Explained(o.row, x)
           /\ Uniform(r, cur, t) => Uniform(o.row, cur, t)
<1>1. /\ r.status \in {"FAILED", "QUIZ_SENT"} /\ r.used > 0 /\ r.att = 0
      /\ o.row.status = "QUIZ_SENT" /\ o.row.att = 0 /\ o.row.pin = r.pin
      /\ o.row.source = r.source /\ o.row.used = r.used
      /\ o.row.failed = r.failed /\ o.row.passed = r.passed
  BY GrantShape
<1>2. Explained(r, x) => Explained(o.row, x)
  BY <1>1 DEF Explained
<1>3. Uniform(r, cur, t) => Uniform(o.row, cur, t)
  BY <1>1 DEF Uniform, WasSent, OpenedQuiz, AiStages
<1> QED
  BY <1>2, <1>3

LEMMA StartFits ==
    ASSUME NEW r \in Row, NEW cur \in Versions, NEW o \in StartAttempt(r), NEW x, NEW t
    PROVE  /\ Explained(r, x) => Explained(o.row, x)
           /\ Uniform(r, cur, t) => Uniform(o.row, cur, t)
<1>1. /\ r.status = "QUIZ_SENT" /\ o.row.status = "QUIZ_SENT"
      /\ o.row.att = r.pin /\ r.pin # 0 /\ o.row.pin = r.pin
      /\ o.row.source = r.source /\ o.row.used = r.used
      /\ o.row.failed = r.failed /\ o.row.passed = r.passed
      /\ o.row.extra = r.extra /\ o.row.graded = r.graded
  BY StartShape
<1>2. Explained(r, x) => Explained(o.row, x)
  BY <1>1 DEF Explained
<1>3. Uniform(r, cur, t) => Uniform(o.row, cur, t)
  BY <1>1 DEF Uniform, WasSent, OpenedQuiz, AiStages
<1> QED
  BY <1>2, <1>3

LEMMA FinishFits ==
    ASSUME NEW r \in Row, NEW result, NEW cur \in Versions, NEW pts \in BOOLEAN,
           NEW o \in FinishAttempt(r, result, cur, pts), NEW x, NEW t
    PROVE  /\ Explained(r, x) => Explained(o.row, x)
           /\ Uniform(r, cur, t) => Uniform(o.row, cur, t)
<1>1. AttemptEnds(r, o, cur)
  BY FinishShape
<1>2. r.used \in Nat /\ r.extra \in Nat /\ \A v \in Versions : Config[v].cap \in Nat
  BY ConfigAssumption DEF Row
<1>3. 0 \notin Versions
  BY VersionFacts
<1>4. ASSUME Explained(r, x) PROVE Explained(o.row, x)
  <2>1. ASSUME o.row.status = "FAILED", ~x
        PROVE  \E v \in Versions : Spent(o.row, v)
    <3>1. CASE r.status = "FAILED"
      <4>1. PICK v \in Versions : Spent(r, v)
        BY <1>4, <2>1, <3>1 DEF Explained
      <4>2. Spent(o.row, v)
        BY <1>1, <1>2, <4>1 DEF Spent, AttemptEnds
      <4> QED
        BY <4>2
    <3>2. CASE r.status # "FAILED"
      <4>1. /\ r.status = "QUIZ_SENT" /\ o.row.passed = r.passed
            /\ Config[r.att].cap # 0 /\ o.row.used >= Config[r.att].cap + r.extra
        BY <1>1, <2>1, <3>2 DEF AttemptEnds, PassLands
      <4>2. Spent(o.row, r.att) /\ r.att \in Versions
        BY <1>1, <1>3, <1>4, <4>1 DEF Spent, Explained, AttemptEnds
      <4> QED
        BY <4>2
    <3> QED
      BY <3>1, <3>2
  <2> QED
    BY <1>1, <2>1 DEF Explained, AttemptEnds
<1>5. ASSUME Uniform(r, cur, t) PROVE Uniform(o.row, cur, t)
  <2>1. r.att = cur /\ WasSent(r)
    BY <1>1, <1>3, <1>5 DEF Uniform, AttemptEnds, WasSent
  <2>2. Config[cur].mode \in TeacherModes \ {"quiz_then_teacher"} => t
    BY <1>5, <2>1 DEF Uniform
  <2>3. o.row.status = "COMPLETED" => Earned(o.row, cur, t)
    <3>1. Scored \notin TeacherModes
      BY DEF Scored, TeacherModes
    <3> QED
      BY <1>1, <1>5, <2>1, <2>2, <3>1 DEF Uniform, Earned, AttemptEnds, PassLands
  <2>4. o.row.source = "QUIZ_ONLY" => OpenedQuiz(o.row, cur)
    <3> SUFFICES ASSUME o.row.source = "QUIZ_ONLY" PROVE OpenedQuiz(o.row, cur)
      OBVIOUS
    <3>1. OpenedQuiz(r, cur) /\ r.status # "FAILED"
      BY <1>1, <1>3, <1>5 DEF Uniform, OpenedQuiz, AttemptEnds
    <3>2. o.row.used > 0
      BY <1>1, <1>2 DEF AttemptEnds
    <3> QED
      BY <1>1, <2>1, <3>1, <3>2 DEF OpenedQuiz, AttemptEnds, PassLands
  <2>5. \A w \in Versions : o.row.failed[w] > 0 => w = cur
    BY <1>1, <1>5, <2>1 DEF Uniform, AttemptEnds
  <2>6. o.row.status # "PENDING" => r.status # "PENDING"
    BY <1>1 DEF AttemptEnds
  <2>7. o.row.status \in AiStages => r.status \in AiStages
    BY <1>1 DEF AttemptEnds, PassLands, AiStages
  <2> QED
    BY <1>1, <1>5, <2>2, <2>3, <2>4, <2>5, <2>6, <2>7 DEF Uniform, AttemptEnds
<1> QED
  BY <1>4, <1>5

LEMMA RegradeFits ==
    ASSUME NEW r \in Row, NEW v \in Versions, NEW k \in 1 .. r.failed[v],
           NEW cur \in Versions, NEW pts \in BOOLEAN, NEW x, NEW t
    PROVE  LET o == Regrade(r, v, k, cur, pts)
           IN  /\ Explained(r, x) => Explained(o.row, x)
               /\ Uniform(r, cur, t) => Uniform(o.row, cur, t)
<1> DEFINE o == Regrade(r, v, k, cur, pts)
<1>1. DisputeEnds(r, o, v, cur)
  BY RegradeShape
<1> HIDE DEF o
<1>2. Explained(r, x) => Explained(o.row, x)
  BY <1>1 DEF Explained, DisputeEnds, PassLands
<1>3. ASSUME Uniform(r, cur, t) PROVE Uniform(o.row, cur, t)
  <2>1. v = cur /\ WasSent(r)
    BY <1>1, <1>3 DEF Uniform, DisputeEnds, WasSent
  <2>2. Config[cur].mode \in TeacherModes \ {"quiz_then_teacher"} => t
    BY <1>3, <2>1 DEF Uniform
  <2>3. o.row.status = "COMPLETED" => Earned(o.row, cur, t)
    <3>1. Scored \notin TeacherModes
      BY DEF Scored, TeacherModes
    <3> QED
      BY <1>1, <1>3, <2>1, <2>2, <3>1 DEF Uniform, Earned, DisputeEnds, PassLands
  <2>4. o.row.source = "QUIZ_ONLY" => OpenedQuiz(o.row, cur)
    BY <1>1, <1>3 DEF Uniform, OpenedQuiz, DisputeEnds, PassLands
  <2>5. \A w \in Versions : o.row.failed[w] > 0 => w = cur
    BY <1>1, <1>3 DEF Uniform, DisputeEnds
  <2>6. o.row.status # "PENDING" => r.status # "PENDING"
    BY <1>1 DEF DisputeEnds
  <2>7. o.row.status \in AiStages => r.status \in AiStages
    BY <1>1 DEF DisputeEnds, PassLands, AiStages
  <2> QED
    BY <1>1, <1>3, <2>2, <2>3, <2>4, <2>5, <2>6, <2>7 DEF Uniform, DisputeEnds
<1> QED
  BY <1>2, <1>3 DEF o

\* teacher_save_scores finishes a work whose quiz is passed.
LEMMA CompleteFits ==
    ASSUME NEW r \in Row, r.status = "AWAITING_TEACHER_REVIEW", r.passed = TRUE,
           NEW cur \in Versions, NEW x, NEW t
    PROVE  LET o == Complete(r, "teacher_approve", cur, TRUE)
           IN  /\ Explained(r, x) => Explained(o.row, x)
               /\ Uniform(r, cur, t) => Uniform(o.row, cur, TRUE)
<1> DEFINE o == Complete(r, "teacher_approve", cur, TRUE)
<1>1. Keeps(r, o.row) /\ o.row.status = "COMPLETED" /\ o.row.graded = TRUE
  <2>1. After(r.status, "teacher_approve") = "COMPLETED"
    BY Edges
  <2> QED
    BY <2>1, CompleteKeeps
<1> HIDE DEF o
<1>2. Explained(r, x) => Explained(o.row, x)
  BY <1>1 DEF Explained, Keeps, SameQuiz
<1>3. Uniform(r, cur, t) => Uniform(o.row, cur, TRUE)
  BY <1>1 DEF Uniform, Earned, OpenedQuiz, Keeps, SameQuiz, AiStages
<1> QED
  BY <1>2, <1>3 DEF o

-----------------------------------------------------------------------------
(* Messages.                                                               *)

LEMMA MessageTypes ==
    ASSUME NEW s \in Sids, NEW next \in NextSteps
    PROVE  /\ RunChecks(s) \in Message
           /\ RunAiReview(s, next) \in Message
           /\ Finished \in Message /\ Finished.state = "FINISHED"
           /\ IsFor(RunChecks(s), "RUN_CHECKS", s)
           /\ IsFor(RunAiReview(s, next), "RUN_AI_REVIEW", s)
           /\ IsLive(RunAiReview(s, next))
           /\ RunChecks(s).sid = s /\ RunAiReview(s, next).sid = s
BY OutboxAssumption DEF RunChecks, RunAiReview, Finished, Message, NextSteps, IsFor,
   IsLive, Sids

\* Adding a message overwrites none that is unfinished.
LEMMA PutFacts ==
    ASSUME NEW box \in [Slots -> Message], NEW msg \in Message,
           NEW b \in Put(box, msg)
    PROVE  /\ b \in [Slots -> Message]
           /\ \E m \in Slots : b[m] = msg
           /\ \A n \in Slots : \/ b[n] = box[n]
                               \/ b[n] = msg /\ box[n].state = "FINISHED"
BY DEF Put

\* A message after its handler.
LEMMA MarkedFacts ==
    ASSUME NEW msg \in Message, IsLive(msg), NEW o \in Outcome
    PROVE  /\ Marked(msg, o) \in Message
           /\ Marked(msg, o).state # "FINISHED" => Marked(msg, o).sid = msg.sid
           /\ o.ok = FALSE => IsFor(Marked(msg, o), msg.event, msg.sid)
           /\ o.ok = TRUE /\ o.send # {} =>
                 /\ IsFor(Marked(msg, o), "RUN_AI_REVIEW", msg.sid)
                 /\ IsLive(Marked(msg, o))
<1>1. CASE o.ok = FALSE
  <2> DEFINE n == [msg EXCEPT !.state = "ERROR", !.retries = @ + 1]
  <2>1. Marked(msg, o) = n
    BY <1>1 DEF Marked
  <2>2. n \in Message /\ n.state = "ERROR" /\ n.sid = msg.sid /\ n.event = msg.event
    <3>1. msg.retries + 1 \in 0 .. MaxRetries
      BY OutboxAssumption DEF Message, IsLive
    <3> QED
      BY <3>1 DEF Message
  <2> HIDE DEF n
  <2> QED
    BY <1>1, <2>1, <2>2 DEF IsFor
<1>2. CASE o.ok = TRUE /\ o.send = {}
  <2>1. Marked(msg, o) = Finished
    BY <1>2 DEF Marked
  <2>2. Finished \in Message /\ Finished.state = "FINISHED"
    BY OutboxAssumption DEF Finished, RunChecks, Message, Sids
  <2> QED
    BY <1>2, <2>1, <2>2
<1>3. CASE o.ok = TRUE /\ o.send # {}
  <2> DEFINE next == CHOOSE x \in o.send : TRUE
  <2>1. next \in NextSteps
    BY <1>3 DEF Outcome
  <2>2. Marked(msg, o) = RunAiReview(msg.sid, next)
    BY <1>3 DEF Marked
  <2> HIDE DEF next
  <2>3. msg.sid \in Sids
    BY DEF Message
  <2> QED
    BY <1>3, <2>1, <2>2, <2>3, MessageTypes
<1> QED
  BY <1>1, <1>2, <1>3 DEF Outcome
=============================================================================
