---------------------------- MODULE StateMachine ----------------------------
(***************************************************************************)
(* The submission state machine of core/state_machine.py: the table of     *)
(* events, and what transition() does with it.  The module has no          *)
(* variables; the modules that move submissions share it.                  *)
(***************************************************************************)

\* db/models/enums.py, SubmissionStatus.
Statuses ==
    {"PENDING", "VALIDATING", "VALIDATION_FAILED", "TESTING", "TEST_FAILED",
     "AWAITING_AI_REVIEW", "AI_REVIEWING", "AI_REVIEW_FAILED", "QUIZ_SENT",
     "AWAITING_TEACHER_REVIEW", "COMPLETED", "FAILED"}

\* The literal table: the status an event leads to, by the status it leaves.
Transitions ==
    [PENDING |->
        [start_validation |-> "VALIDATING", quiz_opened |-> "QUIZ_SENT"],
     VALIDATING |->
        [validation_passed |-> "TESTING",
         validation_failed |-> "VALIDATION_FAILED"],
     TESTING |->
        [test_failed            |-> "TEST_FAILED",
         test_passed_tests_only |-> "COMPLETED",
         test_passed_ai         |-> "AWAITING_AI_REVIEW",
         test_passed_teacher    |-> "AWAITING_TEACHER_REVIEW",
         test_passed_quiz       |-> "QUIZ_SENT"],
     AWAITING_AI_REVIEW |-> [start_ai_review |-> "AI_REVIEWING"],
     AI_REVIEWING |->
        [ai_review_done_teacher   |-> "AWAITING_TEACHER_REVIEW",
         ai_review_done_completed |-> "COMPLETED",
         ai_review_passed_quiz    |-> "QUIZ_SENT",
         ai_review_failed         |-> "AI_REVIEW_FAILED"],
     AI_REVIEW_FAILED |->
        [retry_ai_review           |-> "AI_REVIEWING",
         ai_review_skip_to_teacher |-> "AWAITING_TEACHER_REVIEW"],
     QUIZ_SENT |->
        [quiz_passed          |-> "COMPLETED",
         quiz_passed_teacher  |-> "AWAITING_TEACHER_REVIEW",
         quiz_failed          |-> "FAILED",
         quiz_attempt_granted |-> "QUIZ_SENT"],
     AWAITING_TEACHER_REVIEW |->
        [teacher_approve   |-> "COMPLETED",
         teacher_reject    |-> "FAILED",
         teacher_send_quiz |-> "QUIZ_SENT"],
     FAILED |->
        [dispute_regrade_passed         |-> "COMPLETED",
         dispute_regrade_passed_teacher |-> "AWAITING_TEACHER_REVIEW",
         quiz_attempt_granted           |-> "QUIZ_SENT"]]

\* Mutants of RequeueFrom: COMPLETED gets the exit too; the statuses a dying
\* worker leaves behind do not get it.
RequeueFromAnywhere == Statuses \ {"PENDING", "QUIZ_SENT"}

RequeueFromSettled ==
    {"AWAITING_AI_REVIEW", "AI_REVIEW_FAILED", "VALIDATION_FAILED", "TEST_FAILED",
     "FAILED", "AWAITING_TEACHER_REVIEW"}

\* The statuses the loop below the table gives the event requeue_checks to.
RequeueFrom ==
    {"VALIDATING", "TESTING", "AWAITING_AI_REVIEW", "AI_REVIEWING",
     "AI_REVIEW_FAILED", "VALIDATION_FAILED", "TEST_FAILED", "FAILED",
     "AWAITING_TEACHER_REVIEW"}

\* transition() accepts the event; otherwise it raises InvalidTransitionError.
Allows(status, event) ==
    \/ event = "requeue_checks" /\ status \in RequeueFrom
    \/ status \in DOMAIN Transitions /\ event \in DOMAIN Transitions[status]

\* The status transition() assigns, for an event it accepts.
After(status, event) ==
    IF event = "requeue_checks" THEN "PENDING" ELSE Transitions[status][event]
=============================================================================
