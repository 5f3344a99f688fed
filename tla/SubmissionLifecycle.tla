------------------------- MODULE SubmissionLifecycle -------------------------
(***************************************************************************)
(* The life of one student's submissions to one assignment: uploads, the   *)
(* outbox messages that drive checks and AI reviews, the quiz, the         *)
(* teacher's controls and config re-uploads.  Every operation is one       *)
(* transaction here; SubmissionSessions opens the transactions up.         *)
(***************************************************************************)
EXTENDS Outbox

CONSTANTS MaxGrants,     \* bound on extra quiz attempts a teacher grants
          MaxAttempts,   \* bound on quiz attempts of a submission
          Reupload,      \* whether the teacher uploads further config versions
          StaffChanges,  \* whether accounts are (de)activated meanwhile
          Refusable      \* the reports that the database may refuse

\* What a handler stores that the program did not write: the output of the
\* sandbox (test_results) and of the AI provider (ai_review).
Reports == {"checks", "ai"}

ASSUME BoundsAssumption ==
    /\ MaxGrants \in Nat /\ MaxAttempts \in Nat
    /\ Reupload \in BOOLEAN /\ StaffChanges \in BOOLEAN
    /\ Refusable \subseteq Reports

VARIABLES sub,       \* the submissions rows, those in 1..last exist
          last,      \* number of submissions
          outbox,    \* outbox_messages of the pipeline, by slot
          conf,      \* latest config version of the subject
          points,    \* the teacher's points cover every required criterion
          gradeOf,   \* the submission StudentAssignment.grade was computed for
          notices,   \* SUBMISSION_REVIEWED and QUIZ_RESULT messages ever added
          refused    \* reports no commit can store (a NUL in JSONB); never changes

vars == <<sub, last, outbox, conf, points, gradeOf, notices, refused>>

Existing == 1 .. last

TypeOK ==
    /\ sub \in [Sids -> Row]
    /\ last \in 0 .. MaxUploads
    /\ outbox \in [Slots -> Message]
    /\ conf \in Versions
    /\ points \in BOOLEAN
    /\ gradeOf \in 0 .. MaxUploads
    /\ notices \subseteq ({"approve", "reject", "quiz_result"} \X Sids)
    /\ refused \subseteq (Refusable \X Sids)

Init ==
    /\ sub = [s \in Sids |-> NewRow("ZIP_UPLOAD", 0, "none")]
    /\ last = 0
    /\ outbox = [m \in Slots |-> Finished]
    /\ conf \in Versions
    /\ points = FALSE
    /\ gradeOf = 0
    /\ notices = {}
    /\ refused \in SUBSET (Refusable \X Sids)

-----------------------------------------------------------------------------
(* Effects shared by the operations.                                       *)

\* The row an outcome leaves, and the grade it wrote.
Apply(s, o) ==
    /\ sub' = [sub EXCEPT ![s] = o.row]
    /\ gradeOf' = IF o.grades THEN s ELSE gradeOf

\* db.add(OutboxMessage(...)).
Add(msg) == outbox' \in Put(outbox, msg)

-----------------------------------------------------------------------------
(* The student.                                                            *)

\* submit_assignment: refused once a submission is COMPLETED.  A quiz-first
\* assignment is accepted inline, and an exception there rolls back the upload.
Submit ==
    LET s == last + 1
    IN  /\ last < MaxUploads
        /\ Config[conf].mode # Scored
        /\ \A t \in Existing : sub[t].status # "COMPLETED"
        /\ last' = s
        /\ IF Config[conf].mode \in QuizFirst
           THEN /\ \E o \in ExecuteCheck(NewRow("ZIP_UPLOAD", 0, "none"),
                                         conf, points) : o.ok /\ Apply(s, o)
                /\ UNCHANGED outbox
           ELSE /\ sub' = [sub EXCEPT ![s] = NewRow("ZIP_UPLOAD", 0, "none")]
                /\ Add(RunChecks(s))
                /\ UNCHANGED gradeOf
        /\ UNCHANGED <<conf, points, notices, refused>>

\* quiz_open.open_quiz_submission: the scored mode takes no upload, its quiz
\* opens on a fresh row; the same commit creates the first attempt.
OpenQuiz ==
    LET s   == last + 1
        row == Fired(NewRow("QUIZ_ONLY", conf, "skipped"), "quiz_opened")
    IN  /\ last < MaxUploads
        /\ Config[conf].mode = Scored
        /\ last # 0 => sub[last].status \in {"VALIDATION_FAILED", "TEST_FAILED"}
        /\ last' = s
        /\ \E o \in StartAttempt(row) : Apply(s, o)
        /\ UNCHANGED <<outbox, conf, points, notices, refused>>

\* start_or_resume_quiz on the latest submission.
StartQuiz ==
    /\ last # 0
    /\ sub[last].used < MaxAttempts
    /\ \E o \in StartAttempt(sub[last]) : Apply(last, o)
    /\ UNCHANGED <<last, outbox, conf, points, notices, refused>>

\* An attempt ends: answered, timed out or failed for violations.
FinishQuiz(s) ==
    /\ \E result \in {"pass", "fail", "violation"} :
          \E o \in FinishAttempt(sub[s], result, conf, points) : Apply(s, o)
    /\ notices' = notices \cup {<<"quiz_result", s>>}
    /\ UNCHANGED <<last, outbox, conf, points, refused>>

-----------------------------------------------------------------------------
(* The outbox processor.                                                   *)

\* Whether PostgreSQL takes the row that the handler left.  (The reason of a failed
\* validation may come from the sandbox too, or from the archive.)
Storable(s, o) ==
    /\ <<"checks", s>> \in refused => o.row.results \notin {"passed", "failed"}
    /\ <<"ai", s>> \in refused => o.row.ai = "none"

\* What the handler of a message may come to.
Outcomes(m) == Handle(outbox[m], sub[outbox[m].sid], conf, points)

\* A live message may leave a row that the commit of the batch refuses.  The poll
\* then fails as a whole, no mark or retry of any message is kept, and the next
\* poll selects the same batch: it is no step at all.
Jammed ==
    \E m \in Slots :
        /\ IsLive(outbox[m])
        /\ \E o \in Outcomes(m) : ~Storable(outbox[m].sid, o)

\* process_outbox_messages, one message of a batch that commits.
Dispatch(m) ==
    /\ IsLive(outbox[m])
    /\ \E o \in Outcomes(m) :
          /\ Storable(outbox[m].sid, o)
          /\ Apply(outbox[m].sid, o)
          /\ outbox' = [outbox EXCEPT ![m] = Marked(@, o)]
    /\ UNCHANGED <<last, conf, points, notices, refused>>

\* The digest job mails the teacher and stamps the queue row as sent.
SendDigest(s) ==
    /\ sub[s].queued = "pending"
    /\ sub' = [sub EXCEPT ![s].queued = "sent"]
    /\ UNCHANGED <<last, outbox, conf, points, gradeOf, notices, refused>>

-----------------------------------------------------------------------------
(* The teacher.                                                            *)

\* _apply_review_decision, from the review form or the board's bulk action.
ApproveSubmission(s) ==
    /\ \E o \in Approve(sub[s], conf, points) : Apply(s, o)
    /\ notices' = notices \cup {<<"approve", s>>}
    /\ UNCHANGED <<last, outbox, conf, points, refused>>

RejectSubmission(s) ==
    /\ \E o \in Reject(sub[s], conf) : Apply(s, o)
    /\ notices' = notices \cup {<<"reject", s>>}
    /\ UNCHANGED <<last, outbox, conf, points, refused>>

\* rerun-checks.
RerunChecks(s) ==
    /\ \E o \in RequeueChecks(sub[s]) : Apply(s, o)
    /\ Add(RunChecks(s))
    /\ UNCHANGED <<last, conf, points, notices, refused>>

\* retry-ai-review: the row keeps its status until the worker picks it up; the
\* next step comes from the current config.
RetryAiReview(s) ==
    /\ sub[s].status = "AI_REVIEW_FAILED"
    /\ Add(RunAiReview(s, NextStepFor(Config[conf].mode)))
    /\ UNCHANGED <<sub, last, conf, points, gradeOf, notices, refused>>

\* send-to-teacher.
SendToTeacher(s) ==
    /\ \E o \in SkipAiReview(sub[s]) : Apply(s, o)
    /\ UNCHANGED <<last, outbox, conf, points, notices, refused>>

\* grant-quiz-attempt.
GrantQuizAttempt(s) ==
    /\ sub[s].extra < MaxGrants
    /\ \E o \in GrantExtraAttempt(sub[s]) : Apply(s, o)
    /\ UNCHANGED <<last, outbox, conf, points, notices, refused>>

\* teacher_save_scores on the latest submission: complete points finish a work
\* whose quiz is passed, and a completed work cannot lose a required score.
SaveScores(complete) ==
    LET r == sub[last]
        waiting == last # 0 /\ complete /\ r.passed
                   /\ r.status = "AWAITING_TEACHER_REVIEW"
        regrade == last # 0 /\ complete /\ r.status = "COMPLETED"
    IN  /\ Config[conf].mode = Scored
        /\ last # 0 /\ r.status = "COMPLETED" => complete
        /\ points' = complete
        /\ IF waiting
           THEN /\ Apply(last, Complete(r, "teacher_approve", conf, complete))
                /\ notices' = notices \cup {<<"approve", last>>}
           ELSE /\ IF regrade
                   THEN Apply(last, FinalizeGrade(r, conf, complete))
                   ELSE UNCHANGED <<sub, gradeOf>>
                /\ UNCHANGED notices
        /\ UNCHANGED <<last, outbox, conf, refused>>

\* resolve_dispute accepted for a question of version v: k failed attempts on
\* the submission become passes (attempts on other rows stay failed).
AcceptDispute(s, v) ==
    /\ \E k \in 1 .. sub[s].failed[v] :
          Apply(s, Regrade(sub[s], v, k, conf, points))
    /\ UNCHANGED <<last, outbox, conf, points, notices, refused>>

\* An admin (de)activates accounts: the next notice of a row finds somebody, or
\* nobody.
ToggleStaff(s) ==
    /\ StaffChanges
    /\ sub' = [sub EXCEPT ![s].staff = ~@]
    /\ UNCHANGED <<last, outbox, conf, points, gradeOf, notices, refused>>

\* ConfigApplyService: a new version.  Whether the points already entered cover
\* the criteria of the new version depends on the version.
ApplyConfig ==
    /\ Reupload /\ conf < LastVersion
    /\ conf' = conf + 1
    /\ points' \in BOOLEAN
    /\ UNCHANGED <<sub, last, outbox, gradeOf, notices, refused>>

-----------------------------------------------------------------------------

Student == Submit \/ OpenQuiz \/ StartQuiz \/ \E s \in Existing : FinishQuiz(s)

Worker == (\E m \in Slots : Dispatch(m)) \/ (\E s \in Existing : SendDigest(s))

Teacher ==
    \/ \E s \in Existing :
          \/ ApproveSubmission(s) \/ RejectSubmission(s)
          \/ RerunChecks(s) \/ RetryAiReview(s) \/ SendToTeacher(s)
          \/ GrantQuizAttempt(s)
          \/ \E v \in Versions : AcceptDispute(s, v)
    \/ \E complete \in BOOLEAN : SaveScores(complete)
    \/ \E s \in Existing : ToggleStaff(s)
    \/ ApplyConfig

Next == Student \/ Worker \/ Teacher

Spec == Init /\ [][Next]_vars

\* The scheduler polls every ten seconds and tries every live message; nothing is
\* promised of a poll that may not be able to commit.
FairSpec == Spec /\ \A m \in Slots : WF_vars(~Jammed /\ Dispatch(m))

-----------------------------------------------------------------------------
(* Properties.                                                             *)

Status(s) == sub[s].status
Live(m) == IsLive(outbox[m])
Concerns(m, event, s) == IsFor(outbox[m], event, s)

\* The pipeline never loses a submission: one waiting for its checks still has
\* a RUN_CHECKS message (a dead letter if the retries ran out), and one waiting
\* for the AI has a RUN_AI_REVIEW message the poll will still pick up.  Several
\* handlers and the retries share the messages (check_tasks, outbox_processor).
PipelineHasMessage ==
    \A s \in Existing :
        /\ Status(s) = "PENDING" => \E m \in Slots : Concerns(m, "RUN_CHECKS", s)
        /\ Status(s) = "AWAITING_AI_REVIEW" =>
               \E m \in Slots : Concerns(m, "RUN_AI_REVIEW", s) /\ Live(m)

\* A submission that waits on the teacher has been put before the recipients of its
\* subject, whichever of the five paths brought it there: it has a queue row, or the
\* query found nobody to make one for (enqueue_teacher_review_notification).  The
\* row may be that of an earlier arrival, mailed since: see EveryArrivalQueues.
ReviewIsAnnounced ==
    \A s \in Existing :
        Status(s) = "AWAITING_TEACHER_REVIEW" => sub[s].queued # "none"

\* "When a submission transitions into AWAITING_TEACHER_REVIEW, the system SHALL
\* enqueue exactly one pending teacher-notification entry per responsible teacher"
\* (openspec/specs/teacher-notifications/spec.md:25), where there is one.
EveryArrivalQueues ==
    [][\A s \in Existing :
          Status(s) # "AWAITING_TEACHER_REVIEW"
          /\ sub'[s].status = "AWAITING_TEACHER_REVIEW"
              => sub'[s].queued \in {"pending", "nobody"}]_vars

\* FAILED always has its cause on record: a rejection the student was told of,
\* or the allowance of a version used up (state_machine.py, quiz_grants).  That
\* version is the pinned one, unless an accepted dispute had passed the work while
\* an attempt was open and a rerun brought it back to the quiz (see the README).
FailedIsExplained ==
    \A s \in Existing : Status(s) = "FAILED" =>
        \/ <<"reject", s>> \in notices
        \/ \E v \in Versions : /\ v = sub[s].pin \/ sub[s].passed
                               /\ Config[v].cap # 0
                               /\ sub[s].used >= Config[v].cap + sub[s].extra

\* The grade on the student's assignment comes from a submission that is
\* COMPLETED and carries the breakdown (grading.finalize_grade).
GradeHasSource ==
    gradeOf # 0 => /\ gradeOf \in Existing
                   /\ Status(gradeOf) = "COMPLETED" /\ sub[gradeOf].graded

\* COMPLETED is terminal and the grade stays: no retry, dispute, duplicate
\* message or rerun takes either away (state_machine.py, "terminal COMPLETED is
\* deliberately excluded").
CompletedIsFinal ==
    [][\A s \in Existing : Status(s) = "COMPLETED" =>
            /\ sub'[s].status = "COMPLETED"
            /\ sub[s].graded => sub'[s].graded]_vars

\* A pinned config version is replaced only by dropping it, and dropping it
\* sends the submission back to its checks (Submission.plugin_config_id).
PinIsStable ==
    [][\A s \in Existing : sub[s].pin # 0 /\ sub'[s].pin # sub[s].pin =>
            sub'[s].pin = 0 /\ sub'[s].status = "PENDING"]_vars

\* The outbox drains: every message is finished or given up on, whatever its
\* handler runs into, unless a batch comes to hold a row that cannot be committed
\* (process_outbox_messages).
OutboxDrains == \A m \in Slots : Live(m) ~> (~Live(m) \/ Jammed)

\* A submission does not wait for its checks for ever: it moves on, one of its
\* messages is a dead letter, or the outbox is jammed, by it or by another.
ChecksSettle ==
    \A s \in Sids : (s <= last /\ Status(s) = "PENDING") ~>
        \/ Status(s) # "PENDING"
        \/ \E m \in Slots : Concerns(m, "RUN_CHECKS", s) /\ IsDead(outbox[m])
        \/ Jammed

\* The outbox drains whatever it holds: a message that keeps failing dies after
\* outbox_max_retries (outbox_processor.py:139).
OutboxAlwaysDrains == \A m \in Slots : Live(m) ~> ~Live(m)

-----------------------------------------------------------------------------
(* Properties of an assignment whose config is not re-uploaded.            *)

\* A COMPLETED submission has a grade (every edge into COMPLETED is followed by
\* finalize_grade, which may decline under the scored mode).
CompletedIsGraded ==
    \A s \in Existing : Status(s) = "COMPLETED" => sub[s].graded

\* Nothing completes past the teacher where the review mode promises one: the
\* AI review's retries, the quiz and disputes all lead through an approval.
TeacherApproved ==
    \A s \in Existing :
        Status(s) = "COMPLETED"
        /\ Config[sub[s].pin].mode \in {"tests_then_teacher", "quiz_then_teacher",
               "tests_then_ai_then_teacher", "tests_then_ai_teacher"}
            => <<"approve", s>> \in notices

\* Nothing completes past a configured quiz (PLUGIN_AUTHORING: a quiz block is
\* sent on approval; the *_quiz modes complete on a pass).
QuizWasPassed ==
    \A s \in Existing :
        Status(s) = "COMPLETED" /\ Config[sub[s].pin].quiz => sub[s].passed

\* Something can still move a submission on: a message the poll will pick up, a
\* quiz to sit, a dispute, or one of the teacher's controls.
HasExit(s) ==
    LET r == sub[s]
    IN  \/ \E m \in Slots : outbox[m].sid = s /\ Live(m)
        \/ r.att # 0 \/ MayStart(r)
        \/ Approve(r, conf, points) \cup Reject(r, conf) # {}
        \/ RequeueChecks(r) \cup SkipAiReview(r) \cup GrantExtraAttempt(r) # {}
        \/ Config[conf].mode = Scored /\ r.passed
           /\ r.status = "AWAITING_TEACHER_REVIEW"

\* A submission that is not COMPLETED is never stuck for good, except in two
\* ways: its RUN_CHECKS message died before the checks began, or it is at a
\* quiz stage that has nothing to sit (already passed, or no questions), since
\* requeue_checks leaves neither PENDING nor QUIZ_SENT (state_machine.py).
StuckOnlyWithoutQuiz ==
    \A s \in Existing :
        \/ Status(s) = "COMPLETED"
        \/ HasExit(s)
        \/ Status(s) = "PENDING" /\ \E m \in Slots : Concerns(m, "RUN_CHECKS", s) /\ IsDead(outbox[m])
        \/ Status(s) = "QUIZ_SENT" /\ (sub[s].passed \/ ~Config[sub[s].pin].quiz)

\* "Every state that can be reached by the pipeline (or by a worker dying
\* mid-flight) gets the same exit; terminal COMPLETED is deliberately excluded"
\* (state_machine.py): a submission that is not COMPLETED can still be moved on.
EveryStateHasExit ==
    \A s \in Existing : Status(s) = "COMPLETED" \/ HasExit(s)
=============================================================================
