--------------------------- MODULE SubmissionRows ---------------------------
(***************************************************************************)
(* What each handler does to one row of the submissions table, given the   *)
(* row it loaded.  A handler is an operator from the loaded row to the set *)
(* of outcomes it can have (the sandbox, the AI provider and the object    *)
(* store decide which); SubmissionLifecycle applies the outcomes as atomic *)
(* steps, SubmissionSessions as transactions over a possibly stale copy.   *)
(*                                                                         *)
(* An outcome keeps the row as the handler left it even when the handler   *)
(* raised: the outbox processor catches the exception, marks the message   *)
(* ERROR and commits whatever the session holds.                           *)
(***************************************************************************)
EXTENDS Naturals, StateMachine

CONSTANTS LastVersion,   \* config uploads of the subject, versions 1..LastVersion
          Config         \* what each version says about the assignment

Versions == 1 .. LastVersion

\* check_tasks._QUIZ_FIRST_MODES: no sandbox, straight to the quiz.
QuizFirst == {"quiz_only", "quiz_then_teacher", "quiz_and_teacher_scores"}

\* teacher_scores.MODE: quiz points plus the teacher's points, no upload.
Scored == "quiz_and_teacher_scores"

AiNext == [tests_then_ai              |-> "completed",
           tests_then_ai_then_teacher |-> "teacher",
           tests_then_ai_teacher      |-> "teacher",
           tests_then_ai_then_quiz    |-> "quiz"]

Modes == QuizFirst \cup DOMAIN AiNext
         \cup {"tests_only", "tests_then_teacher", "tests_then_quiz"}

\* config_apply._QUIZ_REACHABLE_MODES.
QuizReachable == Modes \ {"tests_only", "tests_then_ai"}

\* A version that config_apply accepts: a quiz only under a mode that can send
\* it, and always under the scored mode.  cap is max_quiz_attempts, 0 for none.
ASSUME ConfigAssumption ==
    /\ LastVersion \in Nat \ {0}
    /\ Config \in [Versions -> [mode : Modes, quiz : BOOLEAN, cap : Nat]]
    /\ \A v \in Versions :
          /\ Config[v].quiz => Config[v].mode \in QuizReachable
          /\ Config[v].mode = Scored => Config[v].quiz

-----------------------------------------------------------------------------
(* The row, with the student's quiz attempts on it.                        *)

Row == [status  : Statuses,
        source  : {"ZIP_UPLOAD", "QUIZ_ONLY"},
        pin     : Versions \cup {0},          \* plugin_config_id, 0 for NULL
        results : {"none", "reason", "skipped", "passed", "failed"},
        ai      : {"none", "clean", "flagged"},
        graded  : BOOLEAN,                    \* grade_breakdown is not NULL
        staff   : BOOLEAN,                    \* a teacher or admin is there to be told
        queued  : {"none", "nobody", "pending", "sent"}, \* its teacher_notification_queue
                                              \* row; "nobody": asked for, none made
        att     : Versions \cup {0},          \* config of the attempt IN_PROGRESS
        used    : Nat,                        \* attempts in a terminal status
        failed  : [Versions -> Nat],          \* of those, regradable and not passed
        passed  : BOOLEAN,                    \* some attempt is_passed
        extra   : Nat]                        \* quiz attempts granted by a teacher

\* submit_assignment and quiz_open create rows; everything not set is NULL.
NewRow(source, pin, results) ==
    [status |-> "PENDING", source |-> source, pin |-> pin, results |-> results,
     ai |-> "none", graded |-> FALSE, staff |-> TRUE, queued |-> "none",
     att |-> 0, used |-> 0,
     failed |-> [v \in Versions |-> 0], passed |-> FALSE, extra |-> 0]

\* send: the next_step values of the RUN_AI_REVIEW messages added;
\* grades: finalize_grade wrote StudentAssignment.grade;
\* ok: the handler returned (it raised otherwise).
Done(r) == [row |-> r, send |-> {}, grades |-> FALSE, ok |-> TRUE]

Raised(r) == [row |-> r, send |-> {}, grades |-> FALSE, ok |-> FALSE]

Fired(r, event) == [r EXCEPT !.status = After(@, event)]

-----------------------------------------------------------------------------
(* Shared endings.                                                         *)

\* Mutant of FinalizeGrade: the breakdown is not stored with the grade.
FinalizeGradeOnly(r, cur, points) ==
    IF Config[cur].mode = Scored /\ ~(r.passed /\ points)
    THEN Done(r)
    ELSE [row |-> r, send |-> {}, grades |-> TRUE, ok |-> TRUE]

\* services/grading.finalize_grade reads the assignment's current mode: under
\* the scored mode it writes nothing until both halves of the grade are in.
FinalizeGrade(r, cur, points) ==
    IF Config[cur].mode = Scored /\ ~(r.passed /\ points)
    THEN Done(r)
    ELSE [row |-> [r EXCEPT !.graded = TRUE],
          send |-> {}, grades |-> TRUE, ok |-> TRUE]

\* Mutant of Complete: the caller forgets finalize_grade.
CompleteUngraded(r, event, cur, points) == Done(Fired(r, event))

Complete(r, event, cur, points) == FinalizeGrade(Fired(r, event), cur, points)

\* enqueue_teacher_review_notification: INSERT ... ON CONFLICT DO NOTHING for
\* the subject's owner or, without an active one, the active admins; without any
\* of them it returns and no row is made.
Queue(queued, staff) ==
    CASE queued \in {"pending", "sent"} -> queued
      [] queued \in {"none", "nobody"} /\ staff -> "pending"
      [] OTHER -> "nobody"

Enqueued(r) == [r EXCEPT !.queued = Queue(@, r.staff)]

ToTeacher(r, event) == Done(Enqueued(Fired(r, event)))

-----------------------------------------------------------------------------
(* RUN_CHECKS: workers/tasks/check_tasks.py.                               *)

\* The reason is recorded before the transition that may raise.
FailValidation(r) ==
    LET noted   == [r EXCEPT !.results = "reason"]
        entered == IF r.status = "PENDING"
                   THEN Fired(noted, "start_validation") ELSE noted
    IN  IF Allows(entered.status, "validation_failed")
        THEN Done(Fired(entered, "validation_failed"))
        ELSE Raised(entered)

AdvanceAfterTests(r, mode, cur, points) ==
    CASE mode \in DOMAIN AiNext ->
            [Done(Fired(r, "test_passed_ai")) EXCEPT !.send = {AiNext[mode]}]
      [] mode = "tests_then_teacher" -> ToTeacher(r, "test_passed_teacher")
      [] mode = "tests_then_quiz"    -> Done(Fired(r, "test_passed_quiz"))
      [] OTHER -> Complete(r, "test_passed_tests_only", cur, points)

\* The sandbox run.  "crash" is any exception of run_check other than
\* CheckExecutionError (docker missing, result.json not an object): it leaves
\* the row VALIDATING.
RunSandbox(r, mode, cur, points) ==
    LET validating == Fired(r, "start_validation")
        testing    == Fired(validating, "validation_passed")
    IN  IF ~Allows(r.status, "start_validation")
        THEN {Raised(r)}
        ELSE {FailValidation(validating),
              Raised(validating),
              Done([Fired(validating, "validation_failed")
                        EXCEPT !.results = "reason"]),
              Done([Fired(testing, "test_failed") EXCEPT !.results = "failed"]),
              AdvanceAfterTests([testing EXCEPT !.results = "passed"],
                                mode, cur, points)}

\* The archive is opened and thrown away; the three transitions may raise
\* after test_results was overwritten.
AcceptWithoutChecks(r) ==
    LET skipped == [r EXCEPT !.results = "skipped"]
    IN  {Raised(r), FailValidation(r)}
        \cup IF Allows(r.status, "start_validation")
             THEN {Done(Fired(Fired(Fired(skipped, "start_validation"),
                                    "validation_passed"), "test_passed_quiz"))}
             ELSE {Raised(skipped)}

\* Mutant of ExecuteCheck: every try of the message pins the config anew.
ExecuteCheckRepinned(row, cur, points) ==
    LET pinned == [row EXCEPT !.pin = cur]
        mode   == Config[cur].mode
    IN  IF mode \in QuizFirst
        THEN AcceptWithoutChecks(pinned)
        ELSE {Raised(pinned), FailValidation(pinned)}
             \cup RunSandbox(pinned, mode, cur, points)

\* _execute_check.  The config is pinned once; a misconfigured plan or an
\* unusable archive fails validation, an object-store error raises.
ExecuteCheck(row, cur, points) ==
    LET pinned == IF row.pin = 0 THEN [row EXCEPT !.pin = cur] ELSE row
        mode   == Config[pinned.pin].mode
    IN  IF mode \in QuizFirst
        THEN AcceptWithoutChecks(pinned)
        ELSE {Raised(pinned), FailValidation(pinned)}
             \cup RunSandbox(pinned, mode, cur, points)

-----------------------------------------------------------------------------
(* RUN_AI_REVIEW: workers/tasks/review_tasks.py.                           *)

\* The event _enter_reviewing fires; a row already AI_REVIEWING stays there.
EnterReviewing(r) ==
    CASE r.status = "AI_REVIEWING"     -> Done(r)
      [] r.status = "AI_REVIEW_FAILED" -> Done(Fired(r, "retry_ai_review"))
      [] r.status = "AWAITING_AI_REVIEW" -> Done(Fired(r, "start_ai_review"))
      [] OTHER -> Raised(r)

\* Mutant of AfterVerdict: the teacher only gets what the AI flagged.
AfterVerdictFlagged(r, next, cur, points) ==
    CASE next = "quiz" /\ r.ai # "flagged" -> Done(Fired(r, "ai_review_passed_quiz"))
      [] r.ai = "flagged" -> ToTeacher(r, "ai_review_done_teacher")
      [] OTHER -> Complete(r, "ai_review_done_completed", cur, points)

\* Where a verdict sends the row, by the payload's next_step.
AfterVerdict(r, next, cur, points) ==
    CASE next = "quiz" /\ r.ai = "flagged" -> ToTeacher(r, "ai_review_done_teacher")
      [] next = "quiz" /\ r.ai # "flagged" -> Done(Fired(r, "ai_review_passed_quiz"))
      [] next = "teacher" -> ToTeacher(r, "ai_review_done_teacher")
      [] OTHER -> Complete(r, "ai_review_done_completed", cur, points)

\* _execute_ai_review: a provider error records AI_REVIEW_FAILED and raises,
\* any other error raises and leaves AI_REVIEWING behind.
ExecuteAiReview(row, next, cur, points) ==
    LET entered   == EnterReviewing(row)
        reviewing == entered.row
    IN  IF ~entered.ok
        THEN {entered}
        ELSE {Raised(Fired(reviewing, "ai_review_failed")), Raised(reviewing)}
             \cup {AfterVerdict([reviewing EXCEPT !.ai = verdict], next, cur, points)
                     : verdict \in {"clean", "flagged"}}

-----------------------------------------------------------------------------
(* The teacher's controls: api/routes/teacher_portal.py.                   *)

\* Mutant of NextStepFor: modes that end in _teacher but not in _then_teacher.
NextStepForThen(mode) ==
    CASE mode \in {"tests_then_teacher", "tests_then_ai_then_teacher",
                   "quiz_then_teacher"} -> "teacher"
      [] mode \in {"tests_then_quiz", "tests_then_ai_then_quiz"} -> "quiz"
      [] OTHER -> "completed"

\* _next_step_for: the suffix of the assignment's current review mode.
NextStepFor(mode) ==
    CASE mode \in {"tests_then_teacher", "tests_then_ai_then_teacher",
                   "tests_then_ai_teacher", "quiz_then_teacher"} -> "teacher"
      [] mode \in {"tests_then_quiz", "tests_then_ai_then_quiz"} -> "quiz"
      [] OTHER -> "completed"

\* Mutant of ApproveEvent: approving always completes.
ApproveEventAlways(r) == "teacher_approve"

\* Approving sends a configured quiz that nobody passed yet, else completes.
\* The quiz is the pinned version's, the scored mode the current one's.
ApproveEvent(r) ==
    IF r.pin # 0 /\ Config[r.pin].quiz /\ ~r.passed
    THEN "teacher_send_quiz" ELSE "teacher_approve"

Approve(r, cur, points) ==
    IF \/ r.status # "AWAITING_TEACHER_REVIEW"
       \/ Config[cur].mode = Scored /\ ~points
    THEN {}
    ELSE IF ApproveEvent(r) = "teacher_approve"
         THEN {Complete(r, "teacher_approve", cur, points)}
         ELSE {Done(Fired(r, "teacher_send_quiz"))}

Reject(r, cur) ==
    IF r.status # "AWAITING_TEACHER_REVIEW" \/ Config[cur].mode = Scored
    THEN {}
    ELSE {Done([Fired(r, "teacher_reject") EXCEPT !.results = "reason"])}

\* _requeue_checks: the pin and the earlier results are dropped.
RequeueChecks(r) ==
    IF r.source = "QUIZ_ONLY" \/ ~Allows(r.status, "requeue_checks")
    THEN {}
    ELSE {Done([Fired(r, "requeue_checks")
                  EXCEPT !.pin = 0, !.results = "none", !.ai = "none"])}

\* Mutant of SkipAiReview: the teacher is not told.
SkipAiReviewSilently(r) ==
    IF r.status # "AI_REVIEW_FAILED"
    THEN {} ELSE {Done(Fired(r, "ai_review_skip_to_teacher"))}

SkipAiReview(r) ==
    IF r.status # "AI_REVIEW_FAILED"
    THEN {} ELSE {ToTeacher(r, "ai_review_skip_to_teacher")}

\* services/quiz_grants.is_exhausted under an allowance of max attempts.
IsExhausted(r, max) ==
    /\ r.used > 0 /\ r.att = 0
    /\ ~r.passed
    /\ r.used >= max

\* quiz_grants.grant_extra_attempt: the cap is the pinned version's.
GrantExtraAttempt(r) ==
    IF /\ r.status \in {"FAILED", "QUIZ_SENT"}
       /\ r.pin # 0
       /\ Config[r.pin].cap # 0
       /\ IsExhausted(r, Config[r.pin].cap + r.extra)
    THEN {Done([Fired(r, "quiz_attempt_granted") EXCEPT !.extra = @ + 1])}
    ELSE {}

-----------------------------------------------------------------------------
(* The quiz: api/routes/student_quiz.py and services/quiz_regrade.py.      *)

\* start_or_resume_quiz may create an attempt on this row.
MayStart(r) ==
    /\ r.status = "QUIZ_SENT"
    /\ r.att = 0 /\ ~r.passed
    /\ r.pin # 0
    /\ Config[r.pin].quiz
    /\ Config[r.pin].cap # 0 => r.used < Config[r.pin].cap + r.extra

StartAttempt(r) == IF MayStart(r) THEN {Done([r EXCEPT !.att = r.pin])} ELSE {}

\* Where a pass lands: the scored mode is the assignment's current one,
\* quiz_then_teacher is read from the attempt's snapshot (version v).
AfterPass(r, v, cur, points) ==
    CASE Config[cur].mode = Scored /\ points ->
            Complete(r, "quiz_passed", cur, points)
      [] Config[cur].mode = Scored /\ ~points ->
            ToTeacher(r, "quiz_passed_teacher")
      [] Config[cur].mode # Scored /\ Config[v].mode = "quiz_then_teacher" ->
            ToTeacher(r, "quiz_passed_teacher")
      [] OTHER -> Complete(r, "quiz_passed", cur, points)

\* Mutant of FinishAttempt: the attempt that ends is counted twice.
FinishAttemptTwice(r, result, cur, points) ==
    LET v     == r.att
        ended == [r EXCEPT !.att = 0, !.used = @ + 1,
                           !.passed = @ \/ result = "pass",
                           !.failed[v] = IF result = "fail" THEN @ + 1 ELSE @]
        spent == Config[v].cap # 0 /\ ended.used + 1 >= Config[v].cap + r.extra
    IN  CASE v = 0 -> {}
          [] v # 0 /\ r.status # "QUIZ_SENT" -> {Done(ended)}
          [] v # 0 /\ r.status = "QUIZ_SENT" /\ result = "pass" ->
                {AfterPass(ended, v, cur, points)}
          [] OTHER -> {Done(IF spent THEN Fired(ended, "quiz_failed") ELSE ended)}

\* _grade_and_finalize with the given result; "violation" is a forced fail,
\* which no dispute can regrade.
FinishAttempt(r, result, cur, points) ==
    LET v     == r.att
        ended == [r EXCEPT !.att = 0, !.used = @ + 1,
                           !.passed = @ \/ result = "pass",
                           !.failed[v] = IF result = "fail" THEN @ + 1 ELSE @]
        spent == Config[v].cap # 0 /\ ended.used >= Config[v].cap + r.extra
    IN  CASE v = 0 -> {}
          [] v # 0 /\ r.status # "QUIZ_SENT" -> {Done(ended)}
          [] v # 0 /\ r.status = "QUIZ_SENT" /\ result = "pass" ->
                {AfterPass(ended, v, cur, points)}
          [] OTHER -> {Done(IF spent THEN Fired(ended, "quiz_failed") ELSE ended)}

\* _advance_submission, after accepted dispute(s) turned k failed attempts of
\* version v into passes.
Regrade(r, v, k, cur, points) ==
    LET flipped   == [r EXCEPT !.failed[v] = @ - k, !.passed = TRUE]
        toTeacher == IF Config[cur].mode = Scored
                     THEN ~points ELSE Config[v].mode = "quiz_then_teacher"
    IN  CASE r.status = "QUIZ_SENT" /\ toTeacher ->
                ToTeacher(flipped, "quiz_passed_teacher")
          [] r.status = "QUIZ_SENT" /\ ~toTeacher ->
                Complete(flipped, "quiz_passed", cur, points)
          [] r.status = "FAILED" /\ toTeacher ->
                ToTeacher(flipped, "dispute_regrade_passed_teacher")
          [] r.status = "FAILED" /\ ~toTeacher ->
                Complete(flipped, "dispute_regrade_passed", cur, points)
          [] r.status = "COMPLETED" -> FinalizeGrade(flipped, cur, points)
          [] OTHER -> Done(flipped)
=============================================================================
