------------------------ MODULE SubmissionSessions ------------------------
(***************************************************************************)
(* One submission under concurrent database sessions: the outbox batch,    *)
(* which loads the row, works for minutes and commits once at its end, and *)
(* teacher requests that load, decide and commit meanwhile.                *)
(*                                                                         *)
(* Transactions run at READ COMMITTED and nothing versions the row.  A     *)
(* session decides on the copy it loaded, and its flush updates only the   *)
(* columns it changed, so a commit merges into whatever is there by then.  *)
(* Assignments here have no quiz, whose own locking is a different matter. *)
(***************************************************************************)
EXTENDS Outbox

CONSTANTS Clerks,        \* teacher requests that can be in flight together
          MaxCrashes     \* bound on worker deaths (and failed commits)

ASSUME SessionsAssumption ==
    /\ MaxUploads = 1 /\ MaxCrashes \in Nat
    /\ \A v \in Versions : ~Config[v].quiz /\ Config[v].mode \notin QuizFirst

VARIABLES row,       \* the submission as committed
          outbox,    \* its pipeline messages as committed
          conf,      \* the config version of the subject
          batch,     \* the outbox processor's session
          req,       \* the sessions of the teacher's requests
          decided,   \* decisions committed on the submission
          crashes    \* worker deaths so far

vars == <<row, outbox, conf, batch, req, decided, crashes>>

NewSubmission == NewRow("ZIP_UPLOAD", 0, "none")

\* A session's copy of the row: as loaded and as changed since.
Copy == [base : Row, cur : Row]
Load(r) == [base |-> r, cur |-> r]

\* The batch: messages it selected and has yet to try, its view of them, and
\* its copy of the row.
Batch == [todo : SUBSET Slots, took : SUBSET Slots,
          box : [Slots -> Message], copy : Copy]

IdleBatch == [todo |-> {}, took |-> {}, box |-> [m \in Slots |-> Finished],
              copy |-> Load(NewSubmission)]

\* A request: its copy, the messages it adds and the decision it records.
Request == [open : BOOLEAN, copy : Copy,
            adds : SUBSET Message, decision : {"none", "approve", "reject"}]

IdleRequest == [open |-> FALSE, copy |-> Load(NewSubmission),
                adds |-> {}, decision |-> "none"]

TypeOK ==
    /\ row \in Row
    /\ outbox \in [Slots -> Message]
    /\ conf \in Versions
    /\ batch \in Batch
    /\ req \in [Clerks -> Request]
    /\ decided \subseteq {"approve", "reject"}
    /\ crashes \in 0 .. MaxCrashes

\* After submit_assignment committed.
Init ==
    /\ row \in {[NewSubmission EXCEPT !.staff = b] : b \in BOOLEAN}
    /\ outbox = [m \in Slots |-> IF m = 1 THEN RunChecks(1) ELSE Finished]
    /\ conf \in Versions
    /\ batch = IdleBatch
    /\ req = [c \in Clerks |-> IdleRequest]
    /\ decided = {}
    /\ crashes = 0

-----------------------------------------------------------------------------
(* The session's flush.                                                    *)

Columns == {"status", "pin", "results", "ai", "graded"}

\* UPDATE of the columns with a net change; the queue row is an INSERT that does
\* nothing when the row is there already, or none if nobody was found to tell.
Flush(r, copy) ==
    [f \in DOMAIN r |->
        IF f \in Columns
        THEN IF copy.cur[f] # copy.base[f] THEN copy.cur[f] ELSE r[f]
        ELSE IF f = "queued" /\ copy.cur.queued # copy.base.queued
             THEN Queue(r.queued, copy.cur.queued = "pending")
             ELSE r[f]]

Dirty(copy) == copy.cur # copy.base

-----------------------------------------------------------------------------
(* The outbox processor.                                                   *)

\* The poll selects every live message.
Poll ==
    LET live == {m \in Slots : IsLive(outbox[m])}
    IN  /\ batch.took = {} /\ live # {}
        /\ batch' = [IdleBatch EXCEPT !.todo = live, !.took = live, !.box = outbox]
        /\ UNCHANGED <<row, outbox, conf, req, decided, crashes>>

\* One message of the batch.  created_at is when the adding transaction began,
\* which need not be the order they committed in: the batch may hold its
\* messages in any order.  The first one loads the row; later ones find it in the
\* identity map, or load it again if it is unchanged and was dropped from there.
Process(m) ==
    /\ m \in batch.todo
    /\ \E copy \in {batch.copy, Load(row)} :
          /\ batch.todo = batch.took => copy = Load(row)
          /\ Dirty(batch.copy) => copy = batch.copy
          /\ \E o \in Handle(batch.box[m], copy.cur, conf, FALSE) :
                batch' = [batch EXCEPT !.todo = @ \ {m},
                                       !.box[m] = Marked(@, o),
                                       !.copy = [copy EXCEPT !.cur = o.row]]
    /\ UNCHANGED <<row, outbox, conf, req, decided, crashes>>

\* The one commit at the end of the batch.
CommitBatch ==
    /\ batch.took # {} /\ batch.todo = {}
    /\ row' = Flush(row, batch.copy)
    /\ outbox' = [m \in Slots |-> IF m \in batch.took THEN batch.box[m] ELSE outbox[m]]
    /\ batch' = IdleBatch
    /\ UNCHANGED <<conf, req, decided, crashes>>

\* Mutant of Crash: the messages were marked in a transaction of their own.
CrashAfterMarking ==
    /\ batch.took # {} /\ crashes < MaxCrashes
    /\ outbox' = [m \in Slots |-> IF m \in batch.took THEN batch.box[m] ELSE outbox[m]]
    /\ batch' = IdleBatch
    /\ crashes' = crashes + 1
    /\ UNCHANGED <<row, conf, req, decided>>

\* The worker dies, or the commit fails: the whole batch is rolled back.
Crash ==
    /\ batch.took # {} /\ crashes < MaxCrashes
    /\ batch' = IdleBatch
    /\ crashes' = crashes + 1
    /\ UNCHANGED <<row, outbox, conf, req, decided>>

\* The digest job mails the teacher and stamps the queue row as sent.
SendDigest ==
    /\ row.queued = "pending"
    /\ row' = [row EXCEPT !.queued = "sent"]
    /\ UNCHANGED <<outbox, conf, batch, req, decided, crashes>>

-----------------------------------------------------------------------------
(* The teacher's requests: load, check, decide; commit as a later step.    *)

Decide(c, r, adds, decision) ==
    /\ ~req[c].open
    /\ req' = [req EXCEPT ![c] = [open |-> TRUE, copy |-> [base |-> row, cur |-> r],
                                  adds |-> adds, decision |-> decision]]
    /\ UNCHANGED <<row, outbox, conf, batch, decided, crashes>>

ApproveSubmission(c) ==
    \E o \in Approve(row, conf, FALSE) : Decide(c, o.row, {}, "approve")

RejectSubmission(c) ==
    \E o \in Reject(row, conf) : Decide(c, o.row, {}, "reject")

RerunChecks(c) ==
    \E o \in RequeueChecks(row) : Decide(c, o.row, {RunChecks(1)}, "none")

RetryAiReview(c) ==
    /\ row.status = "AI_REVIEW_FAILED"
    /\ Decide(c, row, {RunAiReview(1, NextStepFor(Config[conf].mode))}, "none")

SendToTeacher(c) ==
    \E o \in SkipAiReview(row) : Decide(c, o.row, {}, "none")

\* The request's commit.
CommitRequest(c) ==
    /\ req[c].open
    /\ row' = Flush(row, req[c].copy)
    /\ IF req[c].adds = {}
       THEN UNCHANGED outbox
       ELSE \E msg \in req[c].adds : outbox' \in Put(outbox, msg)
    /\ decided' = decided \cup ({req[c].decision} \ {"none"})
    /\ req' = [req EXCEPT ![c] = IdleRequest]
    /\ UNCHANGED <<conf, batch, crashes>>

-----------------------------------------------------------------------------

Worker == Poll \/ (\E m \in Slots : Process(m)) \/ CommitBatch

Teacher ==
    \E c \in Clerks :
        \/ ApproveSubmission(c) \/ RejectSubmission(c)
        \/ RerunChecks(c) \/ RetryAiReview(c) \/ SendToTeacher(c)
        \/ CommitRequest(c)

Next == Worker \/ Crash \/ SendDigest \/ Teacher

Spec == Init /\ [][Next]_vars

-----------------------------------------------------------------------------
(* Properties.                                                             *)

\* The pipeline never loses a submission, in whatever order the batch and the
\* requests commit and wherever the worker dies: a row waiting for its checks
\* has a RUN_CHECKS message, one waiting for the AI a live RUN_AI_REVIEW message
\* (process_outbox_messages' single commit, _requeue_checks).
PipelineHasMessage ==
    /\ row.status = "PENDING" =>
           \E m \in Slots : IsFor(outbox[m], "RUN_CHECKS", 1)
    /\ row.status = "AWAITING_AI_REVIEW" =>
           \E m \in Slots : IsFor(outbox[m], "RUN_AI_REVIEW", 1) /\ IsLive(outbox[m])

\* A row that waits on the teacher was put before its recipients, if there were any,
\* although the status and the notification come from sessions with stale copies
\* (enqueue_teacher_review_notification).
ReviewIsAnnounced ==
    row.status = "AWAITING_TEACHER_REVIEW" => row.queued # "none"

\* COMPLETED carries a grade: lost updates of the status never separate it from
\* the breakdown that finalize_grade wrote.
CompletedIsGraded == row.status = "COMPLETED" => row.graded

\* Under a mode that ends with the teacher, nothing completes without an
\* approval the teacher committed, and nothing FAILED without a rejection,
\* whatever the worker overwrites (_apply_review_decision).
TeacherDecided ==
    /\ row.status = "COMPLETED" /\ NextStepFor(Config[conf].mode) = "teacher"
           => "approve" \in decided
    /\ row.status = "FAILED" => "reject" \in decided

\* "terminal COMPLETED is deliberately excluded" (state_machine.py): once
\* COMPLETED is committed, no commit takes it away.
CompletedIsFinal ==
    [][row.status = "COMPLETED" => row'.status = "COMPLETED"]_vars
=============================================================================
