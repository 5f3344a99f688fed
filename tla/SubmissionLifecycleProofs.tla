---------------------- MODULE SubmissionLifecycleProofs ----------------------
(***************************************************************************)
(* The safety of SubmissionLifecycle for every history of configurations   *)
(* and every bound: the type invariant, that no submission is lost by the  *)
(* pipeline, that the teacher hears of every submission in the queue, that *)
(* the grade has a source, that COMPLETED is final, that a pin is stable   *)
(* and that FAILED has a cause; and of an assignment with one version,     *)
(* that COMPLETED is earned and that nothing is stuck but in two ways.     *)
(***************************************************************************)
EXTENDS SubmissionLifecycle, SubmissionRowsProofs

-----------------------------------------------------------------------------
(* The specification.                                                      *)

\* A message that can still be dispatched belongs to a submission that exists:
\* without it a dispatch could grade a row outside the table.
MessageHasRow ==
    \A m \in Slots : outbox[m].state # "FINISHED" => outbox[m].sid \in Existing

\* The inductive invariant.
IInv == /\ TypeOK
        /\ MessageHasRow
        /\ PipelineHasMessage
        /\ ReviewIsAnnounced
        /\ GradeHasSource

\* What the rows owe to the notices: every FAILED has a cause, and without further
\* uploads of the config every COMPLETED is earned.
RowFits(s) ==
    /\ Explained(sub[s], <<"reject", s>> \in notices)
    /\ Reupload = FALSE => Uniform(sub[s], conf, <<"approve", s>> \in notices)

\* A message was never tried before its first error, and an AI review leads where
\* the mode says.
FitsMode(msg, c) ==
    /\ msg.state = "PENDING" => msg.retries = 0
    /\ Reupload = FALSE /\ msg.state # "FINISHED" /\ msg.event = "RUN_AI_REVIEW" =>
          Config[c].mode \in DOMAIN AiNext /\ msg.next = AiNext[Config[c].mode]

Causes == /\ \A s \in Existing : RowFits(s)
          /\ \A m \in Slots : FitsMode(outbox[m], conf)

\* What a step may never do to a row that exists.
CompletedKept(s) ==
    Status(s) = "COMPLETED" => /\ sub'[s].status = "COMPLETED"
                               /\ sub[s].graded => sub'[s].graded

PinKept(s) ==
    sub[s].pin # 0 /\ sub'[s].pin # sub[s].pin =>
        sub'[s].pin = 0 /\ sub'[s].status = "PENDING"

StepKeeps == \A s \in Existing : CompletedKept(s) /\ PinKept(s)

-----------------------------------------------------------------------------
(* Steps.                                                                  *)

NoticeSet == SUBSET ({"approve", "reject", "quiz_result"} \X Sids)

\* A row is waiting for no message that box does not hold.
Attended(s, status, box) ==
    /\ status = "PENDING" => \E m \in Slots : IsFor(box[m], "RUN_CHECKS", s)
    /\ status = "AWAITING_AI_REVIEW" =>
          \E m \in Slots : IsFor(box[m], "RUN_AI_REVIEW", s) /\ IsLive(box[m])

\* A step that leaves one row s as a sound outcome says, and keeps the messages
\* of the other rows.
LEMMA RowStep ==
    ASSUME IInv, NEW s \in Existing, NEW o, Sound(sub[s], o), Apply(s, o),
           last' = last, refused' = refused, conf' \in Versions, points' \in BOOLEAN,
           notices' \in NoticeSet, outbox' \in [Slots -> Message], MessageHasRow',
           \A m \in Slots : outbox[m].state # "FINISHED" /\ outbox[m].sid # s
                               => outbox'[m] = outbox[m],
           Attended(s, o.row.status, outbox')
    PROVE  IInv' /\ StepKeeps
<1>1. s \in Sids /\ Existing \subseteq Sids /\ Existing' = Existing
  BY OutboxAssumption DEF IInv, TypeOK, Existing, Sids
<1>2. o.row \in Row /\ o.grades \in BOOLEAN
  BY DEF Sound, Outcome
<1>3. /\ sub' = [sub EXCEPT ![s] = o.row] /\ sub \in [Sids -> Row]
      /\ sub'[s] = o.row
      /\ \A t \in Sids : t # s => sub'[t] = sub[t]
  BY <1>1 DEF IInv, TypeOK, Apply
<1>4. /\ o.grades = TRUE => gradeOf' = s
      /\ o.grades = FALSE => gradeOf' = gradeOf
  BY DEF Apply
<1>5. TypeOK'
  <2>1. sub' \in [Sids -> Row]
    BY <1>1, <1>2, <1>3
  <2>2. gradeOf' \in 0 .. MaxUploads
    BY <1>1, <1>2, <1>4 DEF IInv, TypeOK, Sids
  <2> QED
    BY <2>1, <2>2 DEF IInv, TypeOK, NoticeSet
<1>6. PipelineHasMessage'
  <2>1. SUFFICES ASSUME NEW t \in Existing
                 PROVE  Attended(t, sub'[t].status, outbox')
    BY <1>1 DEF PipelineHasMessage, Attended, Status, Concerns, Live
  <2>2. CASE t = s
    BY <1>3, <2>2
  <2>3. CASE t # s
    <3>1. Attended(t, sub[t].status, outbox)
      BY DEF IInv, PipelineHasMessage, Attended, Status, Concerns, Live
    <3>2. \A m \in Slots : \A event : IsFor(outbox[m], event, t) => outbox'[m] = outbox[m]
      BY <2>3 DEF IsFor
    <3>3. sub'[t] = sub[t]
      BY <1>1, <1>3, <2>3
    <3> QED
      BY <3>1, <3>2, <3>3 DEF Attended
  <2> QED
    BY <2>2, <2>3
<1>7. ReviewIsAnnounced'
  <2>1. SUFFICES ASSUME NEW t \in Existing,
                        sub'[t].status = "AWAITING_TEACHER_REVIEW"
                 PROVE  sub'[t].queued # "none"
    BY <1>1 DEF ReviewIsAnnounced, Status
  <2>2. CASE t = s
    BY <1>3, <2>1, <2>2 DEF Sound, Announces, IInv, ReviewIsAnnounced, Status
  <2>3. CASE t # s
    BY <1>1, <1>3, <2>1, <2>3 DEF IInv, ReviewIsAnnounced, Status
  <2> QED
    BY <2>2, <2>3
<1>8. GradeHasSource'
  <2>1. CASE o.grades = TRUE
    <3>1. o.row.status = "COMPLETED" /\ o.row.graded = TRUE
      BY <2>1 DEF Sound, GradesCompleted
    <3> QED
      BY <1>1, <1>3, <1>4, <2>1, <3>1 DEF GradeHasSource, Status
  <2>2. CASE o.grades = FALSE
    <3>1. gradeOf' = gradeOf
      BY <1>4, <2>2
    <3>2. ASSUME gradeOf # 0
          PROVE  /\ gradeOf \in Existing
                 /\ sub'[gradeOf].status = "COMPLETED" /\ sub'[gradeOf].graded = TRUE
      <4>1. /\ gradeOf \in Existing /\ sub[gradeOf].status = "COMPLETED"
            /\ sub[gradeOf].graded = TRUE
        <5>1. gradeOf \in Existing /\ sub[gradeOf].graded \in BOOLEAN
          BY <1>1, <1>3, <3>2 DEF IInv, GradeHasSource, Row
        <5> QED
          BY <3>2, <5>1 DEF IInv, GradeHasSource, Status
      <4> QED
        BY <1>1, <1>3, <4>1 DEF Sound, KeepsCompleted
    <3> QED
      BY <1>1, <3>1, <3>2 DEF GradeHasSource, Status
  <2> QED
    BY <1>2, <2>1, <2>2
<1>9. StepKeeps
  <2>1. SUFFICES ASSUME NEW t \in Existing
                 PROVE  CompletedKept(t) /\ PinKept(t)
    BY DEF StepKeeps
  <2>2. CASE t = s
    <3>1. sub[s].graded \in BOOLEAN
      BY <1>1, <1>3 DEF Row
    <3>2. CompletedKept(s)
      BY <1>3, <3>1 DEF Sound, KeepsCompleted, CompletedKept, Status
    <3>3. PinKept(s)
      BY <1>3 DEF Sound, KeepsPin, PinKept
    <3> QED
      BY <2>2, <3>2, <3>3
  <2>3. CASE t # s
    BY <1>1, <1>3, <2>3 DEF CompletedKept, PinKept, Status
  <2> QED
    BY <2>2, <2>3
<1> QED
  BY <1>5, <1>6, <1>7, <1>8, <1>9 DEF IInv

\* A step that changes one row and no message.
LEMMA QuietStep ==
    ASSUME IInv, NEW s \in Existing, NEW o, Quiet(sub[s], o), Apply(s, o),
           last' = last, refused' = refused, outbox' = outbox, conf' = conf, points' \in BOOLEAN,
           notices' \in NoticeSet
    PROVE  IInv' /\ StepKeeps
<1>1. Sound(sub[s], o) /\ KeepsMessage(sub[s], o) /\ o.send = {}
  BY DEF Quiet, Good
<1>2. Attended(s, sub[s].status, outbox)
  BY DEF IInv, PipelineHasMessage, Attended, Status, Concerns, Live
<1>3. Attended(s, o.row.status, outbox')
  BY <1>1, <1>2 DEF KeepsMessage, Attended
<1>4. MessageHasRow'
  BY DEF IInv, MessageHasRow, Existing
<1>5. conf' \in Versions /\ outbox' \in [Slots -> Message]
  BY DEF IInv, TypeOK
<1> QED
  BY <1>1, <1>3, <1>4, <1>5, RowStep

\* A step that creates the next row.
LEMMA NewStep ==
    ASSUME IInv, last < MaxUploads, NEW row \in Row, last' = last + 1,
           sub' = [sub EXCEPT ![last + 1] = row],
           \/ gradeOf' = gradeOf
           \/ gradeOf' = last + 1 /\ row.status = "COMPLETED" /\ row.graded = TRUE,
           row.status = "AWAITING_TEACHER_REVIEW" => row.queued # "none",
           conf' = conf, refused' = refused, points' = points, notices' = notices,
           outbox' \in [Slots -> Message], MessageHasRow',
           \A m \in Slots : outbox[m].state # "FINISHED" => outbox'[m] = outbox[m],
           Attended(last + 1, row.status, outbox')
    PROVE  IInv' /\ StepKeeps
<1> DEFINE s == last + 1
<1>1. /\ s \in Sids /\ Existing \subseteq Sids /\ s \notin Existing
      /\ Existing' = Existing \cup {s} /\ last' \in 0 .. MaxUploads
  BY OutboxAssumption DEF IInv, TypeOK, Existing, Sids
<1>2. /\ sub' \in [Sids -> Row] /\ sub'[s] = row
      /\ \A t \in Existing : sub'[t] = sub[t]
  BY <1>1 DEF IInv, TypeOK
<1> HIDE DEF s
<1>3. TypeOK'
  <2>1. gradeOf' \in 0 .. MaxUploads
    BY <1>1 DEF IInv, TypeOK, Sids, s
  <2> QED
    BY <1>1, <1>2, <2>1 DEF IInv, TypeOK
<1>4. PipelineHasMessage'
  <2>1. SUFFICES ASSUME NEW t \in Existing \cup {s}
                 PROVE  Attended(t, sub'[t].status, outbox')
    BY <1>1 DEF PipelineHasMessage, Attended, Status, Concerns, Live
  <2>2. CASE t = s
    BY <1>2, <2>2 DEF s
  <2>3. CASE t \in Existing
    <3>1. Attended(t, sub[t].status, outbox)
      BY <2>3 DEF IInv, PipelineHasMessage, Attended, Status, Concerns, Live
    <3>2. \A m \in Slots : \A event : IsFor(outbox[m], event, t) => outbox'[m] = outbox[m]
      BY DEF IsFor
    <3>3. sub'[t] = sub[t]
      BY <1>2, <2>3
    <3> QED
      BY <3>1, <3>2, <3>3 DEF Attended
  <2> QED
    BY <2>2, <2>3
<1>5. ReviewIsAnnounced'
  BY <1>1, <1>2 DEF IInv, ReviewIsAnnounced, Status
<1>6. GradeHasSource'
  <2>1. CASE gradeOf' = gradeOf
    BY <1>1, <1>2, <2>1 DEF IInv, GradeHasSource, Status
  <2>2. CASE gradeOf' = s /\ row.status = "COMPLETED" /\ row.graded = TRUE
    BY <1>1, <1>2, <2>2 DEF GradeHasSource, Status
  <2> QED
    BY <2>1, <2>2 DEF s
<1>7. StepKeeps
  BY <1>2 DEF StepKeeps, CompletedKept, PinKept, Status
<1> QED
  BY <1>3, <1>4, <1>5, <1>6, <1>7 DEF IInv

-----------------------------------------------------------------------------
(* One lemma per operation.                                                *)

LEMMA NewRowFacts ==
    ASSUME NEW source \in {"ZIP_UPLOAD", "QUIZ_ONLY"}, NEW pin \in Versions \cup {0},
           NEW results \in {"none", "skipped"}
    PROVE  LET r == NewRow(source, pin, results)
           IN  r \in Row /\ r.status = "PENDING" /\ r.pin = pin /\ r.queued = "none"
<1>1. [v \in Versions |-> 0] \in [Versions -> Nat]
  OBVIOUS
<1> QED
  BY <1>1 DEF NewRow, Row, Statuses

LEMMA SubmitStep ==
    ASSUME IInv, Submit
    PROVE  IInv' /\ StepKeeps
<1> DEFINE s == last + 1
           r == NewRow("ZIP_UPLOAD", 0, "none")
<1>1. r \in Row /\ r.status = "PENDING" /\ r.pin = 0 /\ r.queued = "none"
  BY NewRowFacts
<1>2. /\ last < MaxUploads /\ last' = s
      /\ conf' = conf /\ points' = points /\ notices' = notices /\ refused' = refused
      /\ s \in Sids /\ Existing \subseteq Existing' /\ s \in Existing'
  BY OutboxAssumption DEF Submit, IInv, TypeOK, Existing, Sids
<1>3. conf \in Versions /\ points \in BOOLEAN /\ outbox \in [Slots -> Message]
  BY DEF IInv, TypeOK
<1>4. CASE Config[conf].mode \in QuizFirst
  <2>1. PICK o \in ExecuteCheck(r, conf, points) : o.ok /\ Apply(s, o)
    BY <1>4 DEF Submit
  <2>2. outbox' = outbox
    BY <1>4 DEF Submit
  <2> HIDE DEF r
  <2>3. Good(r, o) /\ Leaves(o) /\ o.send = {}
    BY <1>1, <1>3, <1>4, ExecuteCheckGood
  <2>4. o.row \in Row /\ o.grades \in BOOLEAN /\ o.ok = TRUE
    BY <2>1, <2>3 DEF Good, Sound, Outcome
  <2>5. o.row.status # "PENDING" /\ o.row.status # "AWAITING_AI_REVIEW"
    BY <1>1, <2>3, <2>4 DEF Leaves, Unchecked, Good, KeepsMessage
  <2>6. /\ o.row.status = "AWAITING_TEACHER_REVIEW" => o.row.queued # "none"
        /\ o.grades = TRUE => o.row.status = "COMPLETED" /\ o.row.graded = TRUE
    BY <1>1, <2>3 DEF Good, Sound, Announces, GradesCompleted
  <2>7. /\ sub' = [sub EXCEPT ![s] = o.row]
        /\ gradeOf' = gradeOf \/ (gradeOf' = s /\ o.grades = TRUE)
    BY <2>1, <2>4 DEF Apply
  <2>8. MessageHasRow' /\ Attended(s, o.row.status, outbox')
    BY <1>2, <2>2, <2>5 DEF IInv, MessageHasRow, Attended
  <2> QED
    BY <1>2, <1>3, <2>2, <2>4, <2>6, <2>7, <2>8, NewStep
<1>5. CASE Config[conf].mode \notin QuizFirst
  <2>1. /\ sub' = [sub EXCEPT ![s] = r] /\ gradeOf' = gradeOf
        /\ outbox' \in Put(outbox, RunChecks(s))
    BY <1>5 DEF Submit, Add
  <2> HIDE DEF r
  <2>2. /\ RunChecks(s) \in Message /\ RunChecks(s).sid = s
        /\ IsFor(RunChecks(s), "RUN_CHECKS", s)
    BY <1>2, MessageTypes DEF NextSteps
  <2>3. /\ outbox' \in [Slots -> Message]
        /\ \E m \in Slots : outbox'[m] = RunChecks(s)
        /\ \A n \in Slots : \/ outbox'[n] = outbox[n]
                            \/ outbox'[n] = RunChecks(s) /\ outbox[n].state = "FINISHED"
    BY <1>3, <2>1, <2>2, PutFacts
  <2>4. MessageHasRow'
    BY <1>2, <2>2, <2>3 DEF IInv, MessageHasRow
  <2>5. Attended(s, r.status, outbox')
    BY <1>1, <2>2, <2>3 DEF Attended
  <2> QED
    BY <1>1, <1>2, <2>1, <2>3, <2>4, <2>5, NewStep
<1> QED
  BY <1>4, <1>5

LEMMA OpenQuizStep ==
    ASSUME IInv, OpenQuiz
    PROVE  IInv' /\ StepKeeps
<1> DEFINE s == last + 1
           r == NewRow("QUIZ_ONLY", conf, "skipped")
           row == Fired(r, "quiz_opened")
<1>1. /\ last < MaxUploads /\ last' = s
      /\ conf' = conf /\ points' = points /\ notices' = notices /\ outbox' = outbox
      /\ refused' = refused
      /\ s \in Sids /\ Existing \subseteq Existing' /\ s \in Existing'
  BY OutboxAssumption DEF OpenQuiz, IInv, TypeOK, Existing, Sids
<1>2. PICK o \in StartAttempt(row) : Apply(s, o)
  BY DEF OpenQuiz
<1>3. conf \in Versions /\ outbox \in [Slots -> Message]
  BY DEF IInv, TypeOK
<1>4. r \in Row /\ r.status = "PENDING"
  BY <1>3, NewRowFacts
<1> HIDE DEF r
<1>5. row \in Row /\ row.status = "QUIZ_SENT"
  BY <1>4, FiredGood, Edges DEF Statuses, Owing
<1> HIDE DEF row
<1> DEFINE n == [row EXCEPT !.att = row.pin]
<1>6. o = Done(n)
  BY DEF StartAttempt
<1>7. n \in Row /\ n.status = "QUIZ_SENT"
  BY <1>5 DEF Row
<1> HIDE DEF n
<1>8. sub' = [sub EXCEPT ![s] = n] /\ gradeOf' = gradeOf
  BY <1>2, <1>6, <1>7, DoneFacts DEF Apply
<1>9. MessageHasRow' /\ Attended(s, n.status, outbox')
  BY <1>1, <1>7 DEF IInv, MessageHasRow, Attended
<1> QED
  BY <1>1, <1>3, <1>7, <1>8, <1>9, NewStep

\* The operations that change one row through a quiet handler.
LEMMA QuietActions ==
    ASSUME IInv,
           \/ StartQuiz
           \/ \E s \in Existing : \/ FinishQuiz(s) \/ SendToTeacher(s)
                                  \/ ApproveSubmission(s) \/ RejectSubmission(s)
                                  \/ GrantQuizAttempt(s)
                                  \/ \E v \in Versions : AcceptDispute(s, v)
    PROVE  IInv' /\ StepKeeps
<1>1. /\ conf \in Versions /\ points \in BOOLEAN /\ notices \in NoticeSet
      /\ Existing \subseteq Sids /\ \A s \in Existing : sub[s] \in Row
      /\ last # 0 => last \in Existing
  BY OutboxAssumption DEF IInv, TypeOK, NoticeSet, Existing, Sids
<1>2. CASE StartQuiz
  <2>1. PICK o \in StartAttempt(sub[last]) : Apply(last, o)
    BY <1>2 DEF StartQuiz
  <2>2. last \in Existing /\ Quiet(sub[last], o)
    BY <1>1, <1>2, StartAttemptGood DEF StartQuiz
  <2> QED
    BY <1>1, <1>2, <2>1, <2>2, QuietStep DEF StartQuiz
<1>3. ASSUME NEW s \in Existing, FinishQuiz(s)
      PROVE  IInv' /\ StepKeeps
  <2>1. PICK result \in {"pass", "fail", "violation"} :
               \E o \in FinishAttempt(sub[s], result, conf, points) : Apply(s, o)
    BY <1>3 DEF FinishQuiz
  <2> PICK o \in FinishAttempt(sub[s], result, conf, points) : Apply(s, o)
    BY <2>1
  <2>2. Quiet(sub[s], o)
    BY <1>1, FinishAttemptGood
  <2>3. notices' \in NoticeSet
    BY <1>1, <1>3 DEF FinishQuiz, NoticeSet
  <2> QED
    BY <1>1, <1>3, <2>1, <2>2, <2>3, QuietStep DEF FinishQuiz
<1>4. ASSUME NEW s \in Existing, SendToTeacher(s)
      PROVE  IInv' /\ StepKeeps
  <2>1. PICK o \in SkipAiReview(sub[s]) : Apply(s, o)
    BY <1>4 DEF SendToTeacher
  <2>2. Quiet(sub[s], o)
    BY <1>1, SkipAiReviewGood
  <2> QED
    BY <1>1, <1>4, <2>1, <2>2, QuietStep DEF SendToTeacher
<1>5. ASSUME NEW s \in Existing, ApproveSubmission(s)
      PROVE  IInv' /\ StepKeeps
  <2>1. PICK o \in Approve(sub[s], conf, points) : Apply(s, o)
    BY <1>5 DEF ApproveSubmission
  <2>2. Quiet(sub[s], o)
    BY <1>1, ApproveGood
  <2>3. notices' \in NoticeSet
    BY <1>1, <1>5 DEF ApproveSubmission, NoticeSet
  <2> QED
    BY <1>1, <1>5, <2>1, <2>2, <2>3, QuietStep DEF ApproveSubmission
<1>6. ASSUME NEW s \in Existing, RejectSubmission(s)
      PROVE  IInv' /\ StepKeeps
  <2>1. PICK o \in Reject(sub[s], conf) : Apply(s, o)
    BY <1>6 DEF RejectSubmission
  <2>2. Quiet(sub[s], o)
    BY <1>1, RejectGood
  <2>3. notices' \in NoticeSet
    BY <1>1, <1>6 DEF RejectSubmission, NoticeSet
  <2> QED
    BY <1>1, <1>6, <2>1, <2>2, <2>3, QuietStep DEF RejectSubmission
<1>7. ASSUME NEW s \in Existing, GrantQuizAttempt(s)
      PROVE  IInv' /\ StepKeeps
  <2>1. PICK o \in GrantExtraAttempt(sub[s]) : Apply(s, o)
    BY <1>7 DEF GrantQuizAttempt
  <2>2. Quiet(sub[s], o)
    BY <1>1, GrantExtraAttemptGood
  <2> QED
    BY <1>1, <1>7, <2>1, <2>2, QuietStep DEF GrantQuizAttempt
<1>8. ASSUME NEW s \in Existing, NEW v \in Versions, AcceptDispute(s, v)
      PROVE  IInv' /\ StepKeeps
  <2>1. PICK k \in 1 .. sub[s].failed[v] :
               Apply(s, Regrade(sub[s], v, k, conf, points))
    BY <1>8 DEF AcceptDispute
  <2> DEFINE o == Regrade(sub[s], v, k, conf, points)
  <2>2. Quiet(sub[s], o)
    BY <1>1, RegradeGood
  <2>3. Apply(s, o)
    BY <2>1
  <2> HIDE DEF o
  <2> QED
    BY <1>1, <1>8, <2>2, <2>3, QuietStep DEF AcceptDispute
<1> QED
  BY <1>2, <1>3, <1>4, <1>5, <1>6, <1>7, <1>8

\* One message of the batch.
LEMMA DispatchStep ==
    ASSUME IInv, NEW m \in Slots, Dispatch(m)
    PROVE  IInv' /\ StepKeeps
<1> DEFINE msg == outbox[m]
           s == msg.sid
<1>1. PICK o \in Handle(msg, sub[s], conf, points) :
             Apply(s, o) /\ outbox' = [outbox EXCEPT ![m] = Marked(msg, o)]
  BY DEF Dispatch, Outcomes
<1>2. /\ conf \in Versions /\ points \in BOOLEAN /\ notices \in NoticeSet
      /\ outbox \in [Slots -> Message] /\ msg \in Message /\ IsLive(msg)
      /\ last' = last /\ conf' = conf /\ points' = points /\ notices' = notices
      /\ refused' = refused
  BY DEF IInv, TypeOK, NoticeSet, Dispatch
<1>3. s \in Existing /\ s \in Sids /\ sub[s] \in Row /\ Existing' = Existing
  <2>1. s \in Existing
    BY <1>2 DEF IInv, MessageHasRow, IsLive
  <2> QED
    BY <1>2, <2>1 DEF IInv, TypeOK, Message, Existing
<1>4. /\ Good(sub[s], o)
      /\ msg.event = "RUN_CHECKS" => Leaves(o)
      /\ msg.event = "RUN_AI_REVIEW" => o.row.status # "AWAITING_AI_REVIEW"
  <2>1. CASE msg.event = "RUN_CHECKS"
    BY <1>2, <1>3, <2>1, ExecuteCheckGood DEF Handle
  <2>2. CASE msg.event = "RUN_AI_REVIEW"
    BY <1>2, <1>3, <2>2, ExecuteAiReviewGood DEF Handle
  <2> QED
    BY <1>2, <2>1, <2>2 DEF Message
<1>5. o \in Outcome /\ Sound(sub[s], o) /\ KeepsMessage(sub[s], o)
  BY <1>4 DEF Good, Sound
<1> DEFINE new == Marked(msg, o)
<1>6. /\ new \in Message
      /\ new.state # "FINISHED" => new.sid = s
      /\ o.ok = FALSE => IsFor(new, msg.event, s)
      /\ o.ok = TRUE /\ o.send # {} => IsFor(new, "RUN_AI_REVIEW", s) /\ IsLive(new)
  BY <1>2, <1>5, MarkedFacts
<1>7. /\ outbox' \in [Slots -> Message] /\ outbox'[m] = new
      /\ \A n \in Slots : n # m => outbox'[n] = outbox[n]
  BY <1>1, <1>2, <1>6
<1> HIDE DEF new
<1>8. MessageHasRow'
  BY <1>3, <1>6, <1>7 DEF IInv, MessageHasRow
<1>9. \A n \in Slots : outbox[n].state # "FINISHED" /\ outbox[n].sid # s
                          => outbox'[n] = outbox[n]
  BY <1>7
<1>10. Attended(s, sub[s].status, outbox)
  BY <1>3 DEF IInv, PipelineHasMessage, Attended, Status, Concerns, Live
<1>11. ASSUME o.row.status = "PENDING"
       PROVE  \E n \in Slots : IsFor(outbox'[n], "RUN_CHECKS", s)
  <2>1. PICK n \in Slots : IsFor(outbox[n], "RUN_CHECKS", s)
    BY <1>5, <1>10, <1>11 DEF KeepsMessage, Attended
  <2>2. CASE n = m
    <3>1. msg.event = "RUN_CHECKS"
      BY <2>1, <2>2 DEF IsFor
    <3>2. o.ok = FALSE
      BY <1>4, <1>5, <1>11, <3>1 DEF Leaves, Unchecked, Outcome
    <3> QED
      BY <1>6, <1>7, <3>1, <3>2
  <2>3. CASE n # m
    BY <1>7, <2>1, <2>3
  <2> QED
    BY <2>2, <2>3
<1>12. ASSUME o.row.status = "AWAITING_AI_REVIEW"
       PROVE  \E n \in Slots : IsFor(outbox'[n], "RUN_AI_REVIEW", s) /\ IsLive(outbox'[n])
  <2>1. CASE o.send # {} /\ o.ok = TRUE
    BY <1>6, <1>7, <2>1
  <2>2. CASE sub[s].status = "AWAITING_AI_REVIEW"
    <3>1. PICK n \in Slots : IsFor(outbox[n], "RUN_AI_REVIEW", s) /\ IsLive(outbox[n])
      BY <1>10, <2>2 DEF Attended
    <3>2. n # m
      BY <1>4, <1>12, <3>1 DEF IsFor
    <3> QED
      BY <1>7, <3>1, <3>2
  <2> QED
    BY <1>5, <1>12, <2>1, <2>2 DEF KeepsMessage
<1>13. Attended(s, o.row.status, outbox')
  BY <1>11, <1>12 DEF Attended
<1> HIDE DEF s
<1> QED
  BY <1>1, <1>2, <1>3, <1>5, <1>7, <1>8, <1>9, <1>13, RowStep

\* Adding a message for a row that exists.
LEMMA AddFacts ==
    ASSUME IInv, NEW s \in Existing, NEW msg \in Message, msg.sid = s, Add(msg),
           last' = last
    PROVE  /\ outbox' \in [Slots -> Message] /\ MessageHasRow'
           /\ \E m \in Slots : outbox'[m] = msg
           /\ \A n \in Slots : outbox[n].state # "FINISHED" => outbox'[n] = outbox[n]
<1>1. /\ outbox' \in [Slots -> Message]
      /\ \E m \in Slots : outbox'[m] = msg
      /\ \A n \in Slots : \/ outbox'[n] = outbox[n]
                          \/ outbox'[n] = msg /\ outbox[n].state = "FINISHED"
  BY PutFacts DEF Add, IInv, TypeOK
<1>2. MessageHasRow'
  BY <1>1 DEF IInv, MessageHasRow, Existing
<1> QED
  BY <1>1, <1>2

LEMMA RerunChecksStep ==
    ASSUME IInv, NEW s \in Existing, RerunChecks(s)
    PROVE  IInv' /\ StepKeeps
<1>1. PICK o \in RequeueChecks(sub[s]) : Apply(s, o)
  BY DEF RerunChecks
<1>2. /\ conf' \in Versions /\ points' \in BOOLEAN /\ notices' \in NoticeSet /\ refused' = refused
      /\ last' = last /\ s \in Sids /\ sub[s] \in Row
  BY OutboxAssumption DEF RerunChecks, IInv, TypeOK, NoticeSet, Existing, Sids
<1>3. Sound(sub[s], o) /\ o.row.status = "PENDING"
  BY <1>2, RequeueChecksSound
<1>4. /\ RunChecks(s) \in Message /\ RunChecks(s).sid = s
      /\ IsFor(RunChecks(s), "RUN_CHECKS", s)
  BY <1>2, MessageTypes DEF NextSteps
<1>5. /\ outbox' \in [Slots -> Message] /\ MessageHasRow'
      /\ \E m \in Slots : outbox'[m] = RunChecks(s)
      /\ \A n \in Slots : outbox[n].state # "FINISHED" => outbox'[n] = outbox[n]
  BY <1>2, <1>4, AddFacts DEF RerunChecks
<1>6. Attended(s, o.row.status, outbox')
  BY <1>3, <1>4, <1>5 DEF Attended
<1> QED
  BY <1>1, <1>2, <1>3, <1>5, <1>6, RowStep

\* A step that changes no row, keeps the unfinished messages and the grade.
LEMMA RowsUnchanged ==
    ASSUME IInv, sub' = sub, refused' = refused, last' = last, gradeOf' = gradeOf, conf' \in Versions,
           points' \in BOOLEAN, notices' = notices,
           outbox' \in [Slots -> Message], MessageHasRow',
           \A m \in Slots : outbox[m].state # "FINISHED" => outbox'[m] = outbox[m]
    PROVE  IInv' /\ StepKeeps
<1>1. TypeOK' /\ Existing' = Existing
  BY DEF IInv, TypeOK, Existing
<1>2. \A m \in Slots : \A event, s : IsFor(outbox[m], event, s) => outbox'[m] = outbox[m]
  BY DEF IsFor
<1>3. PipelineHasMessage'
  BY <1>1, <1>2 DEF IInv, PipelineHasMessage, Status, Concerns, Live
<1>4. ReviewIsAnnounced' /\ GradeHasSource'
  BY <1>1 DEF IInv, ReviewIsAnnounced, GradeHasSource, Status
<1>5. StepKeeps
  BY DEF StepKeeps, CompletedKept, PinKept, Status
<1> QED
  BY <1>1, <1>3, <1>4, <1>5 DEF IInv

LEMMA RetryAiReviewStep ==
    ASSUME IInv, NEW s \in Existing, RetryAiReview(s)
    PROVE  IInv' /\ StepKeeps
<1> DEFINE next == NextStepFor(Config[conf].mode)
<1>1. /\ conf' \in Versions /\ points' \in BOOLEAN /\ notices' = notices /\ refused' = refused
      /\ last' = last /\ sub' = sub /\ gradeOf' = gradeOf /\ s \in Sids
  BY OutboxAssumption DEF RetryAiReview, IInv, TypeOK, Existing, Sids
<1>2. next \in NextSteps /\ Add(RunAiReview(s, next))
  BY DEF NextStepFor, NextSteps, RetryAiReview
<1> HIDE DEF next
<1>3. RunAiReview(s, next) \in Message /\ RunAiReview(s, next).sid = s
  BY <1>1, <1>2, MessageTypes
<1>4. /\ outbox' \in [Slots -> Message] /\ MessageHasRow'
      /\ \A n \in Slots : outbox[n].state # "FINISHED" => outbox'[n] = outbox[n]
  BY <1>1, <1>2, <1>3, AddFacts
<1> QED
  BY <1>1, <1>4, RowsUnchanged

\* The digest stamps the queue row.
LEMMA SendDigestStep ==
    ASSUME IInv, NEW s \in Existing, SendDigest(s)
    PROVE  IInv' /\ StepKeeps
<1> DEFINE n == [sub[s] EXCEPT !.queued = "sent"]
           o == Done(n)
<1>1. s \in Sids /\ sub[s] \in Row /\ notices \in NoticeSet /\ points \in BOOLEAN
  BY OutboxAssumption DEF IInv, TypeOK, Existing, Sids, NoticeSet
<1>2. /\ n \in Row /\ n.status = sub[s].status /\ n.graded = sub[s].graded
      /\ n.queued = "sent" /\ n.pin = sub[s].pin
  BY <1>1 DEF Row
<1>3. sub' = [sub EXCEPT ![s] = n] /\ gradeOf' = gradeOf
  BY DEF SendDigest
<1> HIDE DEF n
<1>4. Quiet(sub[s], o) /\ o.row = n /\ o.grades = FALSE
  BY <1>2, DoneFacts DEF Quiet, Good, Sound, KeepsCompleted, Announces,
     GradesCompleted, KeepsPin, KeepsMessage
<1> HIDE DEF o
<1>5. Apply(s, o)
  BY <1>3, <1>4 DEF Apply
<1> QED
  BY <1>1, <1>4, <1>5, QuietStep DEF SendDigest

\* Accounts are (de)activated.
LEMMA ToggleStaffStep ==
    ASSUME IInv, NEW s \in Existing, ToggleStaff(s)
    PROVE  IInv' /\ StepKeeps
<1> DEFINE n == [sub[s] EXCEPT !.staff = ~@]
           o == Done(n)
<1>1. s \in Sids /\ sub[s] \in Row /\ notices \in NoticeSet /\ points \in BOOLEAN
  BY OutboxAssumption DEF IInv, TypeOK, Existing, Sids, NoticeSet
<1>2. /\ n \in Row /\ n.status = sub[s].status /\ n.graded = sub[s].graded
      /\ n.queued = sub[s].queued /\ n.pin = sub[s].pin
  BY <1>1 DEF Row
<1>3. sub' = [sub EXCEPT ![s] = n] /\ gradeOf' = gradeOf
  BY DEF ToggleStaff
<1> HIDE DEF n
<1>4. Quiet(sub[s], o) /\ o.row = n /\ o.grades = FALSE
  BY <1>2, DoneFacts DEF Quiet, Good, Sound, KeepsCompleted, Announces,
     GradesCompleted, KeepsPin, KeepsMessage
<1> HIDE DEF o
<1>5. Apply(s, o)
  BY <1>3, <1>4 DEF Apply
<1> QED
  BY <1>1, <1>4, <1>5, QuietStep DEF ToggleStaff

LEMMA SaveScoresStep ==
    ASSUME IInv, NEW complete \in BOOLEAN, SaveScores(complete)
    PROVE  IInv' /\ StepKeeps
<1> DEFINE r == sub[last]
           c == Complete(r, "teacher_approve", conf, complete)
           f == FinalizeGrade(r, conf, complete)
<1>1. /\ conf \in Versions /\ notices \in NoticeSet /\ points' = complete
      /\ last' = last /\ outbox' = outbox /\ conf' = conf /\ refused' = refused
      /\ last # 0 => last \in Existing /\ last \in Sids /\ r \in Row
  BY OutboxAssumption DEF IInv, TypeOK, Existing, Sids, NoticeSet, SaveScores
<1>2. \/ /\ last # 0 /\ r.status = "AWAITING_TEACHER_REVIEW" /\ Apply(last, c)
         /\ notices' = notices \cup {<<"approve", last>>}
      \/ last # 0 /\ r.status = "COMPLETED" /\ Apply(last, f) /\ notices' = notices
      \/ sub' = sub /\ gradeOf' = gradeOf /\ notices' = notices
  BY DEF SaveScores
<1>3. CASE /\ last # 0 /\ r.status = "AWAITING_TEACHER_REVIEW" /\ Apply(last, c)
           /\ notices' = notices \cup {<<"approve", last>>}
  <2>1. After(r.status, "teacher_approve") = "COMPLETED"
    BY <1>3, Edges
  <2>2. Quiet(r, c)
    BY <1>1, <1>3, <2>1, CompleteGood DEF Quiet
  <2>3. notices' \in NoticeSet
    BY <1>1, <1>3 DEF NoticeSet
  <2> HIDE DEF c
  <2> QED
    BY <1>1, <1>3, <2>2, <2>3, QuietStep
<1>4. CASE last # 0 /\ r.status = "COMPLETED" /\ Apply(last, f) /\ notices' = notices
  <2>1. Quiet(r, f)
    BY <1>1, <1>4, FinalizeGradeSound DEF Quiet, Good
  <2> HIDE DEF f
  <2> QED
    BY <1>1, <1>4, <2>1, QuietStep
<1>5. CASE sub' = sub /\ gradeOf' = gradeOf /\ notices' = notices
  BY <1>1, <1>5, RowsUnchanged DEF IInv, TypeOK, MessageHasRow, Existing
<1> QED
  BY <1>2, <1>3, <1>4, <1>5

LEMMA ApplyConfigStep ==
    ASSUME IInv, ApplyConfig
    PROVE  IInv' /\ StepKeeps
<1>1. conf' \in Versions
  BY ConfigAssumption DEF ApplyConfig, IInv, TypeOK, Versions
<1> QED
  BY <1>1, RowsUnchanged DEF ApplyConfig, IInv, TypeOK, MessageHasRow, Existing

-----------------------------------------------------------------------------
(* The causes of FAILED and COMPLETED.                                     *)

\* A step that changes one row.
LEMMA FitStep ==
    ASSUME IInv, Causes, NEW s \in Existing, NEW o, Apply(s, o),
           last' = last, conf' = conf, notices \subseteq notices',
           Explained(sub[s], <<"reject", s>> \in notices) =>
               Explained(o.row, <<"reject", s>> \in notices'),
           Reupload = FALSE /\ Uniform(sub[s], conf, <<"approve", s>> \in notices) =>
               Uniform(o.row, conf, <<"approve", s>> \in notices'),
           \A m \in Slots : FitsMode(outbox'[m], conf)
    PROVE  Causes'
<1>1. /\ sub'[s] = o.row /\ Existing' = Existing
      /\ \A t \in Existing : t # s => sub'[t] = sub[t]
  BY OutboxAssumption DEF IInv, TypeOK, Existing, Sids, Apply
<1>2. ASSUME NEW t \in Existing PROVE RowFits(t)'
  <2>1. RowFits(t)
    BY DEF Causes
  <2>2. CASE t = s
    BY <1>1, <2>1, <2>2 DEF RowFits
  <2>3. CASE t # s
    <3>1. sub'[t] = sub[t]
      BY <1>1, <2>3
    <3>2. /\ <<"reject", t>> \in notices => <<"reject", t>> \in notices'
          /\ <<"approve", t>> \in notices => <<"approve", t>> \in notices'
      OBVIOUS
    <3>3. Explained(sub[t], <<"reject", t>> \in notices')
      BY <2>1, <3>2 DEF RowFits, Explained
    <3>4. Reupload = FALSE => Uniform(sub[t], conf, <<"approve", t>> \in notices')
      BY <2>1, <3>2 DEF RowFits, Uniform, Earned
    <3> QED
      BY <3>1, <3>3, <3>4 DEF RowFits
  <2> QED
    BY <2>2, <2>3
<1>3. (\A m \in Slots : FitsMode(outbox[m], conf))'
  BY DEF FitsMode
<1> QED
  BY <1>1, <1>2, <1>3 DEF Causes

\* A step that creates the next row.
LEMMA FitNew ==
    ASSUME IInv, Causes, last < MaxUploads, NEW row, last' = last + 1,
           sub' = [sub EXCEPT ![last + 1] = row], conf' = conf, notices' = notices,
           Explained(row, FALSE), Reupload = FALSE => Uniform(row, conf, FALSE),
           \A m \in Slots : FitsMode(outbox'[m], conf)
    PROVE  Causes'
<1> DEFINE s == last + 1
<1>1. /\ s \in Sids /\ Existing \subseteq Sids /\ s \notin Existing
      /\ Existing' = Existing \cup {s}
  BY OutboxAssumption DEF IInv, TypeOK, Existing, Sids
<1>2. sub'[s] = row /\ \A t \in Existing : sub'[t] = sub[t]
  BY <1>1 DEF IInv, TypeOK
<1> HIDE DEF s
<1>3. ASSUME NEW t \in Existing PROVE RowFits(t)'
  BY <1>2 DEF Causes, RowFits
<1>4. ASSUME NEW t, t = s PROVE RowFits(t)'
  <2>1. Explained(row, <<"reject", t>> \in notices)
    BY DEF Explained
  <2>2. Reupload = FALSE => Uniform(row, conf, <<"approve", t>> \in notices)
    BY DEF Uniform, Earned
  <2> QED
    BY <1>2, <1>4, <2>1, <2>2 DEF RowFits
<1>5. (\A m \in Slots : FitsMode(outbox[m], conf))'
  BY DEF FitsMode
<1> QED
  BY <1>1, <1>3, <1>4, <1>5 DEF Causes

\* A new message fits, and so does one after its handler.
LEMMA AddedFits ==
    ASSUME IInv, Causes, NEW s \in Sids, NEW msg, msg \in Message, Add(msg), FitsMode(msg, conf)
    PROVE  \A m \in Slots : FitsMode(outbox'[m], conf)
<1>1. \A n \in Slots : outbox'[n] = outbox[n] \/ outbox'[n] = msg
  BY PutFacts DEF Add, IInv, TypeOK
<1> QED
  BY <1>1 DEF Causes

LEMMA RunChecksFits ==
    ASSUME NEW s, NEW c
    PROVE  FitsMode(RunChecks(s), c)
BY DEF FitsMode, RunChecks

LEMMA SubmitCauses ==
    ASSUME IInv, Causes, Submit
    PROVE  Causes'
<1> DEFINE s == last + 1
           r == NewRow("ZIP_UPLOAD", 0, "none")
<1>1. r \in Row
  BY NewRowFacts
<1>2. /\ last < MaxUploads /\ last' = s /\ conf' = conf /\ notices' = notices
      /\ s \in Sids /\ conf \in Versions /\ points \in BOOLEAN
  BY OutboxAssumption DEF Submit, IInv, TypeOK, Sids
<1>3. Explained(r, FALSE) /\ Uniform(r, conf, FALSE)
  <2>1. /\ r.status = "PENDING" /\ r.source = "ZIP_UPLOAD" /\ r.pin = 0
        /\ r.att = 0 /\ r.used = 0 /\ \A v \in Versions : r.failed[v] = 0
    BY DEF NewRow
  <2> HIDE DEF r
  <2> QED
    BY <2>1 DEF Explained, Uniform, WasSent, AiStages
<1>4. CASE Config[conf].mode \in QuizFirst
  <2>1. PICK o \in ExecuteCheck(r, conf, points) : o.ok /\ Apply(s, o)
    BY <1>4 DEF Submit
  <2>2. outbox' = outbox
    BY <1>4 DEF Submit
  <2> HIDE DEF r
  <2>3. Explained(o.row, FALSE) /\ Uniform(o.row, conf, FALSE)
    BY <1>1, <1>2, <1>3, ExecuteCheckFits
  <2>4. sub' = [sub EXCEPT ![s] = o.row]
    BY <2>1 DEF Apply
  <2>5. \A m \in Slots : FitsMode(outbox'[m], conf)
    BY <2>2 DEF Causes
  <2> QED
    BY <1>2, <2>3, <2>4, <2>5, FitNew
<1>5. CASE Config[conf].mode \notin QuizFirst
  <2>1. sub' = [sub EXCEPT ![s] = r] /\ Add(RunChecks(s))
    BY <1>5 DEF Submit
  <2>2. RunChecks(s) \in Message
    BY <1>2, MessageTypes DEF NextSteps
  <2>3. \A m \in Slots : FitsMode(outbox'[m], conf)
    BY <1>2, <2>1, <2>2, AddedFits, RunChecksFits
  <2> HIDE DEF r
  <2> QED
    BY <1>2, <1>3, <2>1, <2>3, FitNew
<1> QED
  BY <1>4, <1>5

LEMMA OpenQuizCauses ==
    ASSUME IInv, Causes, OpenQuiz
    PROVE  Causes'
<1> DEFINE s == last + 1
           r == NewRow("QUIZ_ONLY", conf, "skipped")
           row == Fired(r, "quiz_opened")
<1>1. /\ last < MaxUploads /\ last' = s /\ conf' = conf /\ notices' = notices
      /\ outbox' = outbox /\ conf \in Versions /\ Config[conf].mode = Scored
  BY DEF OpenQuiz, IInv, TypeOK
<1>2. PICK o \in StartAttempt(row) : Apply(s, o)
  BY DEF OpenQuiz
<1>3. r \in Row
  BY <1>1, NewRowFacts
<1>4. /\ r.status = "PENDING" /\ r.source = "QUIZ_ONLY" /\ r.pin = conf
      /\ r.att = 0 /\ r.used = 0 /\ r.passed = FALSE
      /\ \A v \in Versions : r.failed[v] = 0
  BY DEF NewRow
<1> HIDE DEF r
<1>5. row \in Row /\ row.status = "QUIZ_SENT" /\ Keeps(r, row)
  BY <1>3, <1>4, FiredKeeps, Edges DEF Statuses
<1> HIDE DEF row
<1>6. Explained(row, FALSE) /\ Uniform(row, conf, FALSE)
  <2>1. /\ row.source = "QUIZ_ONLY" /\ row.pin = conf /\ row.att = 0
        /\ row.used = 0 /\ row.passed = FALSE
        /\ \A v \in Versions : row.failed[v] = 0
    BY <1>4, <1>5 DEF Keeps, SameQuiz
  <2>2. Scored \notin TeacherModes
    BY DEF Scored, TeacherModes
  <2> QED
    BY <1>1, <1>5, <2>1, <2>2 DEF Explained, Uniform, OpenedQuiz, AiStages
<1>7. Explained(o.row, FALSE) /\ Uniform(o.row, conf, FALSE)
  BY <1>1, <1>5, <1>6, StartFits
<1>8. sub' = [sub EXCEPT ![s] = o.row]
  BY <1>2 DEF Apply
<1>9. \A m \in Slots : FitsMode(outbox'[m], conf)
  BY <1>1 DEF Causes
<1> QED
  BY <1>1, <1>7, <1>8, <1>9, FitNew

\* The operations of QuietActions.
LEMMA QuietCauses ==
    ASSUME IInv, Causes,
           \/ StartQuiz
           \/ \E s \in Existing : \/ FinishQuiz(s) \/ SendToTeacher(s)
                                  \/ ApproveSubmission(s) \/ RejectSubmission(s)
                                  \/ GrantQuizAttempt(s)
                                  \/ \E v \in Versions : AcceptDispute(s, v)
    PROVE  Causes'
<1>1. /\ conf \in Versions /\ points \in BOOLEAN
      /\ \A s \in Existing : sub[s] \in Row
      /\ last # 0 => last \in Existing
  BY OutboxAssumption DEF IInv, TypeOK, Existing, Sids
<1>2. outbox' = outbox => \A m \in Slots : FitsMode(outbox'[m], conf)
  BY DEF Causes
<1>3. CASE StartQuiz
  <2>1. PICK o \in StartAttempt(sub[last]) : Apply(last, o)
    BY <1>3 DEF StartQuiz
  <2>2. /\ last \in Existing /\ last' = last /\ conf' = conf /\ notices' = notices
        /\ outbox' = outbox
    BY <1>1, <1>3 DEF StartQuiz
  <2>3. /\ Explained(sub[last], <<"reject", last>> \in notices) =>
              Explained(o.row, <<"reject", last>> \in notices)
        /\ Uniform(sub[last], conf, <<"approve", last>> \in notices) =>
              Uniform(o.row, conf, <<"approve", last>> \in notices)
    BY <1>1, <2>2, StartFits
  <2> QED
    BY <1>2, <2>1, <2>2, <2>3, FitStep
<1>4. ASSUME NEW s \in Existing, FinishQuiz(s) PROVE Causes'
  <2>1. PICK result \in {"pass", "fail", "violation"} :
               \E o \in FinishAttempt(sub[s], result, conf, points) : Apply(s, o)
    BY <1>4 DEF FinishQuiz
  <2> PICK o \in FinishAttempt(sub[s], result, conf, points) : Apply(s, o)
    BY <2>1
  <2>2. /\ last' = last /\ conf' = conf /\ outbox' = outbox
        /\ notices' = notices \cup {<<"quiz_result", s>>}
    BY <1>4 DEF FinishQuiz
  <2>3. /\ Explained(sub[s], <<"reject", s>> \in notices) =>
              Explained(o.row, <<"reject", s>> \in notices)
        /\ Uniform(sub[s], conf, <<"approve", s>> \in notices) =>
              Uniform(o.row, conf, <<"approve", s>> \in notices)
    BY <1>1, FinishFits
  <2>4. /\ (<<"reject", s>> \in notices') = (<<"reject", s>> \in notices)
        /\ (<<"approve", s>> \in notices') = (<<"approve", s>> \in notices)
        /\ notices \subseteq notices'
    BY <2>2
  <2> QED
    BY <1>2, <2>1, <2>2, <2>3, <2>4, FitStep
<1>5. ASSUME NEW s \in Existing, SendToTeacher(s) PROVE Causes'
  <2>1. PICK o \in SkipAiReview(sub[s]) : Apply(s, o)
    BY <1>5 DEF SendToTeacher
  <2>2. last' = last /\ conf' = conf /\ outbox' = outbox /\ notices' = notices
    BY <1>5 DEF SendToTeacher
  <2>3. /\ Explained(sub[s], <<"reject", s>> \in notices) =>
              Explained(o.row, <<"reject", s>> \in notices)
        /\ Uniform(sub[s], conf, <<"approve", s>> \in notices) =>
              Uniform(o.row, conf, <<"approve", s>> \in notices)
    BY <1>1, SkipAiReviewFits
  <2> QED
    BY <1>2, <2>1, <2>2, <2>3, FitStep
<1>6. ASSUME NEW s \in Existing, ApproveSubmission(s) PROVE Causes'
  <2>1. PICK o \in Approve(sub[s], conf, points) : Apply(s, o)
    BY <1>6 DEF ApproveSubmission
  <2>2. /\ last' = last /\ conf' = conf /\ outbox' = outbox
        /\ notices' = notices \cup {<<"approve", s>>}
    BY <1>6 DEF ApproveSubmission
  <2>3. /\ Explained(sub[s], <<"reject", s>> \in notices) =>
              Explained(o.row, <<"reject", s>> \in notices)
        /\ Uniform(sub[s], conf, <<"approve", s>> \in notices) =>
              Uniform(o.row, conf, TRUE)
    BY <1>1, ApproveFits
  <2>4. /\ (<<"reject", s>> \in notices') = (<<"reject", s>> \in notices)
        /\ (<<"approve", s>> \in notices') = TRUE
        /\ notices \subseteq notices'
    BY <2>2
  <2> QED
    BY <1>2, <2>1, <2>2, <2>3, <2>4, FitStep
<1>7. ASSUME NEW s \in Existing, RejectSubmission(s) PROVE Causes'
  <2>1. PICK o \in Reject(sub[s], conf) : Apply(s, o)
    BY <1>7 DEF RejectSubmission
  <2>2. /\ last' = last /\ conf' = conf /\ outbox' = outbox
        /\ notices' = notices \cup {<<"reject", s>>}
    BY <1>7 DEF RejectSubmission
  <2>3. /\ Explained(sub[s], <<"reject", s>> \in notices) => Explained(o.row, TRUE)
        /\ Uniform(sub[s], conf, <<"approve", s>> \in notices) =>
              Uniform(o.row, conf, <<"approve", s>> \in notices)
    BY <1>1, RejectFits
  <2>4. /\ (<<"reject", s>> \in notices') = TRUE
        /\ (<<"approve", s>> \in notices') = (<<"approve", s>> \in notices)
        /\ notices \subseteq notices'
    BY <2>2
  <2> QED
    BY <1>2, <2>1, <2>2, <2>3, <2>4, FitStep
<1>8. ASSUME NEW s \in Existing, GrantQuizAttempt(s) PROVE Causes'
  <2>1. PICK o \in GrantExtraAttempt(sub[s]) : Apply(s, o)
    BY <1>8 DEF GrantQuizAttempt
  <2>2. last' = last /\ conf' = conf /\ outbox' = outbox /\ notices' = notices
    BY <1>8 DEF GrantQuizAttempt
  <2>3. /\ Explained(sub[s], <<"reject", s>> \in notices) =>
              Explained(o.row, <<"reject", s>> \in notices)
        /\ Uniform(sub[s], conf, <<"approve", s>> \in notices) =>
              Uniform(o.row, conf, <<"approve", s>> \in notices)
    BY <1>1, GrantFits
  <2> QED
    BY <1>2, <2>1, <2>2, <2>3, FitStep
<1>9. ASSUME NEW s \in Existing, NEW v \in Versions, AcceptDispute(s, v) PROVE Causes'
  <2>1. PICK k \in 1 .. sub[s].failed[v] :
               Apply(s, Regrade(sub[s], v, k, conf, points))
    BY <1>9 DEF AcceptDispute
  <2> DEFINE o == Regrade(sub[s], v, k, conf, points)
  <2>2. last' = last /\ conf' = conf /\ outbox' = outbox /\ notices' = notices
    BY <1>9 DEF AcceptDispute
  <2>3. /\ Explained(sub[s], <<"reject", s>> \in notices) =>
              Explained(o.row, <<"reject", s>> \in notices)
        /\ Uniform(sub[s], conf, <<"approve", s>> \in notices) =>
              Uniform(o.row, conf, <<"approve", s>> \in notices)
    BY <1>1, RegradeFits
  <2>4. Apply(s, o)
    BY <2>1
  <2> HIDE DEF o
  <2> QED
    BY <1>2, <2>2, <2>3, <2>4, FitStep
<1> QED
  BY <1>3, <1>4, <1>5, <1>6, <1>7, <1>8, <1>9

\* The message a dispatch leaves.
LEMMA MarkedFits ==
    ASSUME NEW msg \in Message, msg.state # "FINISHED", NEW o \in Outcome, NEW c,
           FitsMode(msg, c),
           Reupload = FALSE /\ o.send # {} =>
               Config[c].mode \in DOMAIN AiNext /\ o.send = {AiNext[Config[c].mode]}
    PROVE  FitsMode(Marked(msg, o), c)
<1>1. CASE o.ok = FALSE
  <2> DEFINE n == [msg EXCEPT !.state = "ERROR", !.retries = @ + 1]
  <2>1. Marked(msg, o) = n
    BY <1>1 DEF Marked
  <2>2. n.state = "ERROR" /\ n.event = msg.event /\ n.next = msg.next
    BY DEF Message
  <2>3. FitsMode(n, c)
    BY <2>2 DEF FitsMode
  <2> HIDE DEF n
  <2> QED
    BY <2>1, <2>3
<1>2. CASE o.ok = TRUE /\ o.send = {}
  <2>1. Marked(msg, o) = Finished
    BY <1>2 DEF Marked
  <2>2. Finished.state = "FINISHED"
    BY DEF Finished, RunChecks
  <2> QED
    BY <2>1, <2>2 DEF FitsMode
<1>3. CASE o.ok = TRUE /\ o.send # {}
  <2> DEFINE next == CHOOSE w \in o.send : TRUE
  <2>1. Marked(msg, o) = RunAiReview(msg.sid, next)
    BY <1>3 DEF Marked
  <2>2. next \in o.send
    BY <1>3
  <2> HIDE DEF next
  <2>3. FitsMode(RunAiReview(msg.sid, next), c)
    BY <1>3, <2>2 DEF FitsMode, RunAiReview
  <2> QED
    BY <2>1, <2>3
<1> QED
  BY <1>1, <1>2, <1>3 DEF Outcome

LEMMA DispatchCauses ==
    ASSUME IInv, Causes, NEW m \in Slots, Dispatch(m)
    PROVE  Causes'
<1> DEFINE msg == outbox[m]
           s == msg.sid
           x == <<"reject", s>> \in notices
           t == <<"approve", s>> \in notices
<1>1. PICK o \in Handle(msg, sub[s], conf, points) :
             Apply(s, o) /\ outbox' = [outbox EXCEPT ![m] = Marked(msg, o)]
  BY DEF Dispatch, Outcomes
<1>2. /\ conf \in Versions /\ points \in BOOLEAN
      /\ outbox \in [Slots -> Message] /\ msg \in Message /\ msg.state # "FINISHED"
      /\ last' = last /\ conf' = conf /\ notices' = notices
  BY DEF IInv, TypeOK, Dispatch, IsLive
<1>3. s \in Existing /\ sub[s] \in Row
  <2>1. s \in Existing
    BY <1>2 DEF IInv, MessageHasRow
  <2> QED
    BY <1>2, <2>1 DEF IInv, TypeOK, Message
<1>4. FitsMode(msg, conf) /\ RowFits(s)
  BY <1>3 DEF Causes
<1>5. /\ o \in Outcome
      /\ Explained(sub[s], x) => Explained(o.row, x)
      /\ Reupload = FALSE => Uniform(o.row, conf, t)
      /\ Reupload = FALSE /\ o.send # {} =>
            /\ Config[conf].mode \in DOMAIN AiNext
            /\ o.send = {AiNext[Config[conf].mode]}
  <2>1. CASE msg.event = "RUN_CHECKS"
    <3>1. o \in ExecuteCheck(sub[s], conf, points)
      BY <2>1 DEF Handle
    <3> HIDE DEF s, x, t
    <3>2. o \in Outcome
      BY <1>2, <1>3, <3>1, ExecuteCheckGood DEF Good, Sound
    <3>3. /\ Explained(sub[s], x) => Explained(o.row, x)
          /\ Uniform(sub[s], conf, t) =>
                /\ Uniform(o.row, conf, t)
                /\ o.send # {} => /\ Config[conf].mode \in DOMAIN AiNext
                                  /\ o.send = {AiNext[Config[conf].mode]}
      BY <1>2, <1>3, <3>1, ExecuteCheckFits
    <3> QED
      BY <1>4, <3>2, <3>3 DEF RowFits, t
  <2>2. CASE msg.event = "RUN_AI_REVIEW"
    <3>1. o \in ExecuteAiReview(sub[s], msg.next, conf, points)
      BY <2>2 DEF Handle
    <3>2. Reupload = FALSE => /\ Config[conf].mode \in DOMAIN AiNext
                              /\ msg.next = AiNext[Config[conf].mode]
      BY <1>2, <1>4, <2>2 DEF FitsMode
    <3> HIDE DEF s, x, t
    <3>3. o \in Outcome
      BY <1>2, <1>3, <3>1, ExecuteAiReviewGood DEF Good, Sound
    <3>4. /\ o.send = {}
          /\ Explained(sub[s], x) => Explained(o.row, x)
          /\ /\ Config[conf].mode \in DOMAIN AiNext
             /\ msg.next = AiNext[Config[conf].mode]
             /\ Uniform(sub[s], conf, t)
             => Uniform(o.row, conf, t)
      BY <1>2, <1>3, <3>1, ExecuteAiReviewFits
    <3> QED
      BY <1>4, <3>2, <3>3, <3>4 DEF RowFits, t
  <2> QED
    BY <1>2, <2>1, <2>2 DEF Message
<1>6. FitsMode(Marked(msg, o), conf)
  BY <1>2, <1>4, <1>5, MarkedFits
<1>7. \A n \in Slots : FitsMode(outbox'[n], conf)
  BY <1>1, <1>2, <1>6 DEF Causes
<1> HIDE DEF s
<1> QED
  BY <1>1, <1>2, <1>3, <1>5, <1>7, FitStep

LEMMA RerunChecksCauses ==
    ASSUME IInv, Causes, NEW s \in Existing, RerunChecks(s)
    PROVE  Causes'
<1>1. PICK o \in RequeueChecks(sub[s]) : Apply(s, o)
  BY DEF RerunChecks
<1>2. /\ last' = last /\ conf' = conf /\ notices' = notices /\ Add(RunChecks(s))
      /\ s \in Sids /\ sub[s] \in Row /\ conf \in Versions
  BY OutboxAssumption DEF RerunChecks, IInv, TypeOK, Existing, Sids
<1>3. /\ Explained(sub[s], <<"reject", s>> \in notices) =>
            Explained(o.row, <<"reject", s>> \in notices)
      /\ Uniform(sub[s], conf, <<"approve", s>> \in notices) =>
            Uniform(o.row, conf, <<"approve", s>> \in notices)
  BY <1>2, RequeueChecksFits
<1>4. RunChecks(s) \in Message
  BY <1>2, MessageTypes DEF NextSteps
<1>5. \A m \in Slots : FitsMode(outbox'[m], conf)
  BY <1>2, <1>4, AddedFits, RunChecksFits
<1> QED
  BY <1>1, <1>2, <1>3, <1>5, FitStep

\* A step that changes no row and no notice.
LEMMA FitSame ==
    ASSUME Causes, sub' = sub, last' = last, notices' = notices,
           Reupload = FALSE => conf' = conf,
           \A m \in Slots : FitsMode(outbox'[m], conf')
    PROVE  Causes'
<1>1. \A s \in Existing : RowFits(s)'
  BY DEF Causes, RowFits
<1>2. (\A m \in Slots : FitsMode(outbox[m], conf))'
  BY DEF FitsMode
<1> QED
  BY <1>1, <1>2 DEF Causes, Existing

\* A retried review leads where the first one did.
LEMMA RetryAiReviewCauses ==
    ASSUME IInv, Causes, NEW s \in Existing, RetryAiReview(s)
    PROVE  Causes'
<1> DEFINE next == NextStepFor(Config[conf].mode)
<1>1. /\ sub' = sub /\ last' = last /\ conf' = conf /\ notices' = notices
      /\ s \in Sids /\ sub[s].status = "AI_REVIEW_FAILED"
  BY OutboxAssumption DEF RetryAiReview, IInv, TypeOK, Existing, Sids
<1>2. next \in NextSteps /\ Add(RunAiReview(s, next))
  BY DEF NextStepFor, NextSteps, RetryAiReview
<1>3. Reupload = FALSE => /\ Config[conf].mode \in DOMAIN AiNext
                          /\ next = AiNext[Config[conf].mode]
  <2>1. Reupload = FALSE => Config[conf].mode \in DOMAIN AiNext
    BY <1>1 DEF Causes, RowFits, Uniform, AiStages
  <2>2. Config[conf].mode \in DOMAIN AiNext => next = AiNext[Config[conf].mode]
    BY DEF AiNext, NextStepFor
  <2> QED
    BY <2>1, <2>2
<1> HIDE DEF next
<1>4. FitsMode(RunAiReview(s, next), conf)
  BY <1>3 DEF FitsMode, RunAiReview
<1>5. RunAiReview(s, next) \in Message
  BY <1>1, <1>2, MessageTypes
<1>6. \A m \in Slots : FitsMode(outbox'[m], conf)
  BY <1>1, <1>2, <1>4, <1>5, AddedFits
<1> QED
  BY <1>1, <1>6, FitSame

LEMMA SendDigestCauses ==
    ASSUME IInv, Causes, NEW s \in Existing, SendDigest(s)
    PROVE  Causes'
<1> DEFINE n == [sub[s] EXCEPT !.queued = "sent"]
           o == Done(n)
<1>1. sub[s] \in Row
  BY OutboxAssumption DEF IInv, TypeOK, Existing, Sids
<1>2. n.status = sub[s].status /\ n.graded = sub[s].graded /\ Keeps(sub[s], n)
  BY <1>1 DEF Row, Keeps, SameQuiz
<1>3. /\ sub' = [sub EXCEPT ![s] = n] /\ gradeOf' = gradeOf /\ last' = last
      /\ conf' = conf /\ notices' = notices /\ outbox' = outbox
  BY DEF SendDigest
<1> HIDE DEF n
<1>4. o.row = n /\ o.grades = FALSE
  BY DEF Done
<1> HIDE DEF o
<1>5. Apply(s, o)
  BY <1>3, <1>4 DEF Apply
<1>6. /\ Explained(sub[s], <<"reject", s>> \in notices) =>
            Explained(o.row, <<"reject", s>> \in notices)
      /\ Uniform(sub[s], conf, <<"approve", s>> \in notices) =>
            Uniform(o.row, conf, <<"approve", s>> \in notices)
  BY <1>2, <1>4, SameFits
<1>7. \A m \in Slots : FitsMode(outbox'[m], conf)
  BY <1>3 DEF Causes
<1> QED
  BY <1>3, <1>5, <1>6, <1>7, FitStep

LEMMA ToggleStaffCauses ==
    ASSUME IInv, Causes, NEW s \in Existing, ToggleStaff(s)
    PROVE  Causes'
<1> DEFINE n == [sub[s] EXCEPT !.staff = ~@]
           o == Done(n)
<1>1. sub[s] \in Row
  BY OutboxAssumption DEF IInv, TypeOK, Existing, Sids
<1>2. n.status = sub[s].status /\ n.graded = sub[s].graded /\ Keeps(sub[s], n)
  BY <1>1 DEF Row, Keeps, SameQuiz
<1>3. /\ sub' = [sub EXCEPT ![s] = n] /\ gradeOf' = gradeOf /\ last' = last
      /\ conf' = conf /\ notices' = notices /\ outbox' = outbox
  BY DEF ToggleStaff
<1> HIDE DEF n
<1>4. o.row = n /\ o.grades = FALSE
  BY DEF Done
<1> HIDE DEF o
<1>5. Apply(s, o)
  BY <1>3, <1>4 DEF Apply
<1>6. /\ Explained(sub[s], <<"reject", s>> \in notices) =>
            Explained(o.row, <<"reject", s>> \in notices)
      /\ Uniform(sub[s], conf, <<"approve", s>> \in notices) =>
            Uniform(o.row, conf, <<"approve", s>> \in notices)
  BY <1>2, <1>4, SameFits
<1>7. \A m \in Slots : FitsMode(outbox'[m], conf)
  BY <1>3 DEF Causes
<1> QED
  BY <1>3, <1>5, <1>6, <1>7, FitStep

LEMMA SaveScoresCauses ==
    ASSUME IInv, Causes, NEW complete \in BOOLEAN, SaveScores(complete)
    PROVE  Causes'
<1> DEFINE r == sub[last]
           c == Complete(r, "teacher_approve", conf, TRUE)
           f == FinalizeGrade(r, conf, complete)
           x == <<"reject", last>> \in notices
           t == <<"approve", last>> \in notices
<1>1. /\ conf \in Versions /\ last' = last /\ outbox' = outbox /\ conf' = conf
      /\ last # 0 => last \in Existing /\ r \in Row
  BY OutboxAssumption DEF IInv, TypeOK, Existing, Sids, SaveScores
<1>2. \/ /\ last # 0 /\ r.status = "AWAITING_TEACHER_REVIEW" /\ r.passed /\ complete
         /\ Apply(last, Complete(r, "teacher_approve", conf, complete))
         /\ notices' = notices \cup {<<"approve", last>>}
      \/ last # 0 /\ r.status = "COMPLETED" /\ Apply(last, f) /\ notices' = notices
      \/ sub' = sub /\ notices' = notices
  BY DEF SaveScores
<1>3. \A m \in Slots : FitsMode(outbox'[m], conf)
  BY <1>1 DEF Causes
<1>4. CASE /\ last # 0 /\ r.status = "AWAITING_TEACHER_REVIEW" /\ r.passed /\ complete
           /\ Apply(last, Complete(r, "teacher_approve", conf, complete))
           /\ notices' = notices \cup {<<"approve", last>>}
  <2>1. complete = TRUE /\ r.passed = TRUE
    BY <1>1, <1>4 DEF Row
  <2>2. Apply(last, c)
    BY <1>4, <2>1
  <2>3. /\ Explained(r, x) => Explained(c.row, x)
        /\ Uniform(r, conf, t) => Uniform(c.row, conf, TRUE)
    BY <1>1, <1>4, <2>1, CompleteFits
  <2>4. /\ (<<"reject", last>> \in notices') = x
        /\ (<<"approve", last>> \in notices') = TRUE
        /\ notices \subseteq notices'
    BY <1>4
  <2> HIDE DEF c
  <2> QED
    BY <1>1, <1>3, <1>4, <2>2, <2>3, <2>4, FitStep
<1>5. CASE last # 0 /\ r.status = "COMPLETED" /\ Apply(last, f) /\ notices' = notices
  <2>1. Keeps(r, f.row) /\ f.row.status = r.status
    BY <1>1, <1>5, FinalizeKeeps
  <2>2. r.graded = TRUE => f.row.graded = TRUE
    BY <1>1, <1>5, FinalizeGrades
  <2> HIDE DEF f
  <2>3. /\ Explained(r, x) => Explained(f.row, x)
        /\ Uniform(r, conf, t) => Uniform(f.row, conf, t)
    BY <2>1, <2>2, SameFits
  <2> QED
    BY <1>1, <1>3, <1>5, <2>3, FitStep
<1>6. CASE sub' = sub /\ notices' = notices
  BY <1>1, <1>3, <1>6, FitSame
<1> QED
  BY <1>2, <1>4, <1>5, <1>6

LEMMA ApplyConfigCauses ==
    ASSUME IInv, Causes, ApplyConfig
    PROVE  Causes'
<1>1. /\ Reupload = TRUE /\ sub' = sub /\ last' = last /\ notices' = notices
      /\ outbox' = outbox
  BY BoundsAssumption DEF ApplyConfig
<1>2. \A m \in Slots : FitsMode(outbox'[m], conf')
  BY <1>1 DEF Causes, FitsMode
<1> QED
  BY <1>1, <1>2, FitSame

LEMMA NextCauses ==
    ASSUME IInv, Causes, [Next]_vars
    PROVE  Causes'
<1>1. CASE Student
  BY <1>1, SubmitCauses, OpenQuizCauses, QuietCauses DEF Student
<1>2. CASE Worker
  BY <1>2, DispatchCauses, SendDigestCauses DEF Worker
<1>3. CASE Teacher
  <2>1. ASSUME NEW s \in Existing,
               \/ ApproveSubmission(s) \/ RejectSubmission(s)
               \/ RerunChecks(s) \/ RetryAiReview(s) \/ SendToTeacher(s)
               \/ GrantQuizAttempt(s)
               \/ \E v \in Versions : AcceptDispute(s, v)
        PROVE  Causes'
    BY <2>1, QuietCauses, RerunChecksCauses, RetryAiReviewCauses
  <2> QED
    BY <1>3, <2>1, SaveScoresCauses, ApplyConfigCauses, ToggleStaffCauses DEF Teacher
<1>4. CASE UNCHANGED vars
  <2>1. \A m \in Slots : FitsMode(outbox'[m], conf')
    BY <1>4 DEF Causes, vars
  <2> QED
    BY <1>4, <2>1, FitSame DEF vars
<1> QED
  BY <1>1, <1>2, <1>3, <1>4 DEF Next

-----------------------------------------------------------------------------
(* The theorems.                                                           *)

LEMMA InitIInv == Init => IInv
<1> SUFFICES ASSUME Init PROVE IInv
  OBVIOUS
<1>1. Finished \in Message /\ Finished.state = "FINISHED"
  BY OutboxAssumption DEF Finished, RunChecks, Message, Sids
<1>2. NewRow("ZIP_UPLOAD", 0, "none") \in Row
  BY NewRowFacts
<1>3. Existing = {}
  BY DEF Init, Existing
<1>4. TypeOK
  <2>1. sub \in [Sids -> Row] /\ outbox \in [Slots -> Message]
    BY <1>1, <1>2 DEF Init
  <2>2. last \in 0 .. MaxUploads /\ gradeOf \in 0 .. MaxUploads
    BY OutboxAssumption DEF Init
  <2> QED
    BY <2>1, <2>2 DEF TypeOK, Init
<1>5. MessageHasRow
  BY <1>1 DEF MessageHasRow, Init
<1>6. PipelineHasMessage /\ ReviewIsAnnounced /\ GradeHasSource
  BY <1>3 DEF PipelineHasMessage, ReviewIsAnnounced, GradeHasSource, Init
<1> QED
  BY <1>4, <1>5, <1>6 DEF IInv

\* Every operation keeps the invariant and what a step may never change.
LEMMA NextStep ==
    ASSUME IInv, [Next]_vars
    PROVE  IInv' /\ (Next => StepKeeps)
<1>1. CASE Student
  BY <1>1, SubmitStep, OpenQuizStep, QuietActions DEF Student
<1>2. CASE Worker
  BY <1>2, DispatchStep, SendDigestStep DEF Worker
<1>3. CASE Teacher
  <2>1. ASSUME NEW s \in Existing,
               \/ ApproveSubmission(s) \/ RejectSubmission(s)
               \/ RerunChecks(s) \/ RetryAiReview(s) \/ SendToTeacher(s)
               \/ GrantQuizAttempt(s)
               \/ \E v \in Versions : AcceptDispute(s, v)
        PROVE  IInv' /\ StepKeeps
    BY <2>1, QuietActions, RerunChecksStep, RetryAiReviewStep
  <2> QED
    BY <1>3, <2>1, SaveScoresStep, ApplyConfigStep, ToggleStaffStep DEF Teacher
<1>4. CASE UNCHANGED vars
  <2>1. IInv' /\ StepKeeps
    BY <1>4, RowsUnchanged DEF vars, IInv, TypeOK, MessageHasRow, Existing
  <2> QED
    BY <2>1
<1> QED
  BY <1>1, <1>2, <1>3, <1>4 DEF Next

\* The inductive invariant holds throughout.
THEOREM Invariance == Spec => []IInv
<1>1. IInv /\ [Next]_vars => IInv'
  BY NextStep
<1> QED
  BY InitIInv, <1>1, PTL DEF Spec

\* Every variable keeps its type: every row a handler leaves is a row of the
\* table, every message one of outbox_messages, whatever the configurations.
THEOREM TypeCorrect == Spec => []TypeOK
<1>1. IInv => TypeOK
  BY DEF IInv
<1> QED
  BY Invariance, <1>1, PTL

\* The pipeline loses no submission: a PENDING row has a RUN_CHECKS message and
\* one waiting for the AI a message that the poll still picks up, through any
\* retries, reruns and duplicate messages (outbox_processor, check_tasks).
THEOREM NoSubmissionLost == Spec => []PipelineHasMessage
<1>1. IInv => PipelineHasMessage
  BY DEF IInv
<1> QED
  BY Invariance, <1>1, PTL

\* Every submission in the teacher's queue has a row in the notification queue, or
\* its recipients were asked for and there was nobody (enqueue_teacher_review_notification).
THEOREM TeacherHears == Spec => []ReviewIsAnnounced
<1>1. IInv => ReviewIsAnnounced
  BY DEF IInv
<1> QED
  BY Invariance, <1>1, PTL

\* The grade of the assignment belongs to a COMPLETED submission that carries
\* the breakdown (grading.finalize_grade).
THEOREM GradeSound == Spec => []GradeHasSource
<1>1. IInv => GradeHasSource
  BY DEF IInv
<1> QED
  BY Invariance, <1>1, PTL

\* COMPLETED is terminal as long as every operation is a transaction of its own
\* (state_machine.py); SubmissionSessions shows what stale reads do to it.
THEOREM CompletedStays == Spec => CompletedIsFinal
<1>1. IInv /\ [Next]_vars =>
         [\A s \in Existing : Status(s) = "COMPLETED" =>
             /\ sub'[s].status = "COMPLETED"
             /\ sub[s].graded => sub'[s].graded]_vars
  BY NextStep DEF StepKeeps, CompletedKept
<1> QED
  BY Invariance, <1>1, PTL DEF Spec, CompletedIsFinal

\* A pinned configuration version is never exchanged for another
\* (Submission.plugin_config_id).
THEOREM PinStays == Spec => PinIsStable
<1>1. IInv /\ [Next]_vars =>
         [\A s \in Existing : sub[s].pin # 0 /\ sub'[s].pin # sub[s].pin =>
             sub'[s].pin = 0 /\ sub'[s].status = "PENDING"]_vars
  BY NextStep DEF StepKeeps, PinKept
<1> QED
  BY Invariance, <1>1, PTL DEF Spec, PinIsStable

\* The causes are on record throughout.
LEMMA CausesRecorded == Spec => []Causes
<1>1. Init => Causes
  <2> SUFFICES ASSUME Init PROVE Causes
    OBVIOUS
  <2>1. Existing = {}
    BY DEF Init, Existing
  <2>2. \A m \in Slots : FitsMode(outbox[m], conf)
    BY DEF Init, FitsMode, Finished, RunChecks
  <2> QED
    BY <2>1, <2>2 DEF Causes
<1>2. IInv /\ Causes /\ [Next]_vars => Causes'
  BY NextCauses
<1> QED
  BY Invariance, <1>1, <1>2, PTL DEF Spec

\* A FAILED submission has its cause on record, whatever configurations are
\* uploaded in between: a rejection the student was told of, or an allowance of
\* quiz attempts used up (student_quiz._grade_and_finalize, quiz_grants).
THEOREM FailureExplained == Spec => []FailedIsExplained
<1>1. IInv /\ Causes => FailedIsExplained
  <2> SUFFICES ASSUME IInv, Causes, NEW s \in Existing, Status(s) = "FAILED",
                      <<"reject", s>> \notin notices
               PROVE  \E v \in Versions : /\ v = sub[s].pin \/ sub[s].passed
                                          /\ Config[v].cap # 0
                                          /\ sub[s].used >= Config[v].cap + sub[s].extra
    BY DEF FailedIsExplained
  <2>1. PICK v \in Versions : Spent(sub[s], v)
    BY DEF Causes, RowFits, Explained, Status
  <2> QED
    BY <2>1 DEF Spent
<1> QED
  BY Invariance, CausesRecorded, <1>1, PTL

\* Under one version every row fits that version.
LEMMA RowsAreUniform ==
    ASSUME Reupload = FALSE, IInv, Causes, NEW s \in Existing
    PROVE  /\ sub[s] \in Row /\ conf \in Versions
           /\ Uniform(sub[s], conf, <<"approve", s>> \in notices)
<1>1. sub[s] \in Row /\ conf \in Versions
  BY OutboxAssumption DEF IInv, TypeOK, Existing, Sids
<1>2. RowFits(s)
  BY DEF Causes
<1> QED
  BY <1>1, <1>2 DEF RowFits

\* Without config uploads in between, finalize_grade has graded every COMPLETED
\* submission: under the scored mode no edge into COMPLETED is taken before both
\* halves of the grade are in.
THEOREM CompletedHasGrade ==
    ASSUME Reupload = FALSE
    PROVE  Spec => []CompletedIsGraded
<1>1. IInv /\ Causes => CompletedIsGraded
  BY RowsAreUniform DEF CompletedIsGraded, Status, Uniform, Earned
<1> QED
  BY Invariance, CausesRecorded, <1>1, PTL

\* Without config uploads in between, nothing completes past the teacher where the
\* review mode promises one: not by the AI's retries, a quiz or a dispute.
THEOREM TeacherHasApproved ==
    ASSUME Reupload = FALSE
    PROVE  Spec => []TeacherApproved
<1>1. IInv /\ Causes => TeacherApproved
  <2> SUFFICES ASSUME IInv, Causes, NEW s \in Existing, Status(s) = "COMPLETED",
                      Config[sub[s].pin].mode \in TeacherModes
               PROVE  <<"approve", s>> \in notices
    BY DEF TeacherApproved, TeacherModes
  <2>1. sub[s].pin = conf /\ Earned(sub[s], conf, <<"approve", s>> \in notices)
    BY RowsAreUniform DEF Status, Uniform
  <2> QED
    BY <2>1 DEF Earned
<1> QED
  BY Invariance, CausesRecorded, <1>1, PTL

\* Without config uploads in between, nothing completes past a configured quiz.
THEOREM QuizHasPassed ==
    ASSUME Reupload = FALSE
    PROVE  Spec => []QuizWasPassed
<1>1. IInv /\ Causes => QuizWasPassed
  <2> SUFFICES ASSUME IInv, Causes, NEW s \in Existing, Status(s) = "COMPLETED",
                      Config[sub[s].pin].quiz
               PROVE  sub[s].passed
    BY DEF QuizWasPassed
  <2>1. sub[s].pin = conf /\ Earned(sub[s], conf, <<"approve", s>> \in notices)
    BY RowsAreUniform DEF Status, Uniform
  <2> QED
    BY <2>1 DEF Earned
<1> QED
  BY Invariance, CausesRecorded, <1>1, PTL

\* The teacher can grant an attempt on a row whose allowance is used up.
LEMMA GrantIsOpen ==
    ASSUME NEW r \in Row, r.status \in {"FAILED", "QUIZ_SENT"}, r.pin # 0,
           r.att = 0, r.passed = FALSE, Config[r.pin].cap # 0,
           r.used >= Config[r.pin].cap + r.extra
    PROVE  GrantExtraAttempt(r) # {}
<1>1. Config[r.pin].cap \in Nat /\ r.extra \in Nat /\ r.used \in Nat
  BY ConfigAssumption DEF Row
<1>2. IsExhausted(r, Config[r.pin].cap + r.extra)
  BY <1>1 DEF IsExhausted
<1> QED
  BY <1>2 DEF GrantExtraAttempt

\* Without config uploads in between, a submission that is not COMPLETED can always
\* be moved on, but for the two gaps of state_machine.py: a dead RUN_CHECKS message
\* of a PENDING row, and a quiz stage with nothing to sit.
THEOREM StuckNowhereElse ==
    ASSUME Reupload = FALSE
    PROVE  Spec => []StuckOnlyWithoutQuiz
<1>1. ASSUME IInv, Causes, NEW s \in Existing,
             sub[s].status # "COMPLETED",
             ~(sub[s].status = "PENDING" /\
                 \E m \in Slots : Concerns(m, "RUN_CHECKS", s) /\ IsDead(outbox[m])),
             ~(sub[s].status = "QUIZ_SENT" /\ (sub[s].passed \/ ~Config[sub[s].pin].quiz))
      PROVE  HasExit(s)
  <2> DEFINE r == sub[s]
  <2>1. /\ r \in Row /\ conf \in Versions
        /\ Uniform(r, conf, <<"approve", s>> \in notices)
    BY <1>1, RowsAreUniform
  <2>2. r.status # "PENDING" => r.pin = conf /\ r.pin # 0
    BY <2>1, VersionFacts DEF Uniform
  <2>3. /\ r.used \in Nat /\ r.extra \in Nat /\ r.passed \in BOOLEAN
        /\ r.status \in Statuses /\ Config[conf].cap \in Nat
    BY <2>1, ConfigAssumption DEF Row
  <2>4. CASE r.status = "PENDING"
    <3>1. PICK m \in Slots : Concerns(m, "RUN_CHECKS", s)
      BY <1>1, <2>4 DEF IInv, PipelineHasMessage, Status
    <3>2. ~IsDead(outbox[m]) /\ outbox[m] \in Message /\ FitsMode(outbox[m], conf)
      BY <1>1, <2>4, <3>1 DEF IInv, TypeOK, Causes
    <3>3. outbox[m].sid = s /\ outbox[m].state # "FINISHED"
      BY <3>1 DEF Concerns, IsFor
    <3>4. Live(m)
      BY <3>2, <3>3, OutboxAssumption DEF Live, IsLive, IsDead, FitsMode, Message
    <3> QED
      BY <3>3, <3>4 DEF HasExit
  <2>5. CASE r.status = "QUIZ_SENT"
    <3>1. r.passed = FALSE /\ Config[r.pin].quiz
      BY <1>1, <2>3, <2>5
    <3>2. CASE r.att # 0
      BY <3>2 DEF HasExit
    <3>3. CASE r.att = 0 /\ (Config[r.pin].cap # 0 => r.used < Config[r.pin].cap + r.extra)
      <4>1. MayStart(r)
        BY <2>2, <2>5, <3>1, <3>3 DEF MayStart
      <4> QED
        BY <4>1 DEF HasExit
    <3>4. CASE /\ r.att = 0 /\ Config[r.pin].cap # 0
               /\ r.used >= Config[r.pin].cap + r.extra
      <4>1. GrantExtraAttempt(r) # {}
        BY <2>1, <2>2, <2>5, <3>1, <3>4, GrantIsOpen
      <4> QED
        BY <4>1 DEF HasExit
    <3> QED
      BY <2>2, <2>3, <2>5, <3>2, <3>3, <3>4
  <2>6. CASE r.status \in RequeueFrom /\ r.source # "QUIZ_ONLY"
    <3>1. RequeueChecks(r) # {}
      BY <2>3, <2>6, Guards DEF RequeueChecks
    <3> QED
      BY <3>1 DEF HasExit
  <2>7. CASE r.status \in RequeueFrom /\ r.source = "QUIZ_ONLY"
    <3>1. OpenedQuiz(r, conf)
      BY <2>1, <2>7 DEF Uniform
    <3>2. CASE r.status = "AWAITING_TEACHER_REVIEW"
      BY <3>1, <3>2 DEF OpenedQuiz, HasExit
    <3>3. CASE r.status = "FAILED"
      <4>1. /\ r.att = 0 /\ r.passed = FALSE /\ Config[r.pin].cap # 0
            /\ r.used >= Config[r.pin].cap + r.extra
        BY <2>2, <2>3, <3>1, <3>3 DEF OpenedQuiz
      <4>2. GrantExtraAttempt(r) # {}
        BY <2>1, <2>2, <3>3, <4>1, GrantIsOpen
      <4> QED
        BY <4>2 DEF HasExit
    <3> QED
      BY <2>7, <3>1, <3>2, <3>3 DEF OpenedQuiz, RequeueFrom
  <2> QED
    BY <1>1, <2>3, <2>4, <2>5, <2>6, <2>7 DEF Statuses, RequeueFrom
<1>2. IInv /\ Causes => StuckOnlyWithoutQuiz
  BY <1>1 DEF StuckOnlyWithoutQuiz, Status
<1> QED
  BY Invariance, CausesRecorded, <1>2, PTL
=============================================================================
