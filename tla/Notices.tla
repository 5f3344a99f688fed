------------------------------- MODULE Notices -------------------------------
(***************************************************************************)
(* What students and teachers are told about one assignment: the mail      *)
(* events of the outbox, reported questions and the rulings on them,       *)
(* deadline reminders, feedback links, and the teachers' digest, a job     *)
(* that commits once per teacher under a lock it may lose.                 *)
(***************************************************************************)
EXTENDS Mailer

CONSTANTS Members,     \* the squad of the submission, its uploader first
          Teachers,    \* those a submission is announced to
          Subs,        \* submissions that come up for review
          Replicas, NoReplica, Rulings, Free,
          MaxOps       \* bound on requests and job runs

Students == {Members[p] : p \in DOMAIN Members}

ASSUME NoticesAssumption == Members \in Seq(Students) /\ Members # <<>>

Cases == {"SUBMISSION_CHECKED", "DEADLINE_REMINDER", "FEEDBACK_REQUEST"}

VARIABLES muted,       \* notification_preferences with enabled = FALSE
          submitted,   \* students with a submission of their own
          due,         \* the deadline is within the reminder's horizon
          assigned,    \* students with a students_assignments row
          rowless,     \* reminders whose handler found no such row
          reminded,    \* times a reminder of the student was handed to the dispatcher
          disputes,    \* quiz_question_disputes on one question
          override,    \* its quiz_question_overrides row exists
          ruling,      \* the dispute each teacher's request has loaded
          asked,       \* students with a feedback token; unused and used ones
          answered,
          queue,       \* teacher_notification_queue
          digest,      \* the digest job of each replica
          lock,        \* who holds TEACHER_DIGEST_LOCK_ID
          told,        \* <<teacher, submission>> that a digest mail carried
          ops

deadlines == <<submitted, due, assigned, rowless, reminded>>
quiz == <<disputes, override, ruling>>
feedback == <<asked, answered>>
digests == <<queue, digest, lock, told>>
vars == <<mail, muted, deadlines, quiz, feedback, digests, ops>>

Events == {"SUBMISSION_REVIEWED", "QUIZ_RESULT", "QUIZ_DISPUTE_RESOLVED",
           "DEADLINE_REMINDER", "FEEDBACK_REQUEST_SENT"}

\* A row of outbox_messages, of quiz_question_disputes, and a digest job.
Message ==
    [event : Events, who : Students, secret : {NoSecret, "link"},
     state : {"PENDING", "ERROR", "FINISHED"}, retries : Nat,
     rung : SUBSET Students, skipped : SUBSET Students]
Dispute == [of : Students, status : {"OPEN", "ACCEPTED", "REJECTED"}]
Entry == Teachers \X Subs
Digest == [on : BOOLEAN, rows : SUBSET Entry, left : SUBSET Teachers,
           mailed : SUBSET Entry, commits : {0, 1}]

\* The poll works on a copy of rows that are in the table.
TypeOK ==
    /\ box \in Seq(Message)
    /\ batch \in [on : BOOLEAN, left : SUBSET Nat, rows : [DOMAIN batch.rows -> Message]]
    /\ batch.left \subseteq DOMAIN batch.rows /\ DOMAIN batch.rows \subseteq Ids
    /\ sent \subseteq Nat \X Students \X Channels
    /\ crashes \in Nat /\ ops \in Nat
    /\ muted \subseteq Students \X Cases
    /\ submitted \subseteq Students /\ due \in BOOLEAN
    /\ assigned \subseteq Students /\ rowless \subseteq Nat
    /\ reminded \in [Students -> Nat]
    /\ disputes \in Seq(Dispute) /\ override \in BOOLEAN
    /\ ruling \in [Rulings -> {Free} \cup [dispute : DOMAIN disputes, accept : BOOLEAN]]
    /\ asked \subseteq Students /\ answered \subseteq Students
    /\ queue \in [Entry -> {"none", "unsent", "sent"}]
    /\ digest \in [Replicas -> Digest]
    /\ lock \in Replicas \cup {NoReplica}
    /\ told \subseteq Entry

Resting == [on |-> FALSE, rows |-> {}, left |-> {}, mailed |-> {}, commits |-> 0]

Init ==
    /\ MailInit
    /\ muted = {} /\ submitted = {} /\ due = FALSE
    /\ assigned \in {R \in SUBSET Students : Members[1] \in R}
    /\ rowless = {} /\ reminded = [s \in Students |-> 0]
    /\ disputes = <<>> /\ override = FALSE /\ ruling = [r \in Rulings |-> Free]
    /\ asked = {} /\ answered = {}
    /\ queue = [e \in Entry |-> "none"]
    /\ digest = [r \in Replicas |-> Resting] /\ lock = NoReplica /\ told = {}
    /\ ops = 0

Op == ops < MaxOps /\ ops' = ops + 1

\* A request that only adds messages, in its one transaction.
Announce(msgs) == Op /\ Enqueue(msgs) /\ UNCHANGED <<batch, sent, crashes>>

-----------------------------------------------------------------------------
(* Handlers of notification_tasks.                                         *)

\* Whom a message goes to.  A ruling is mailed to the student the submission
\* belongs to, a quiz result to the one who sat it.
Recipients(msg) ==
    CASE msg.event = "SUBMISSION_REVIEWED"   -> Members
      [] msg.event = "QUIZ_DISPUTE_RESOLVED" -> <<Members[1]>>
      [] OTHER -> <<msg.who>>

\* _is_email_enabled is FALSE.
Suppressed(case) == {s \in Students : <<s, case>> \in muted}

\* The handlers: each sends to its recipients in turn, and a review rings too.
ExecuteSubmissionReviewed(i) ==
    /\ box[i].event = "SUBMISSION_REVIEWED"
    /\ Handle(i, Recipients(box[i]), Suppressed("SUBMISSION_CHECKED"), TRUE)
    /\ UNCHANGED <<rowless, reminded>>

ExecuteQuizResult(i) ==
    /\ box[i].event = "QUIZ_RESULT"
    /\ Handle(i, Recipients(box[i]), {}, FALSE)
    /\ UNCHANGED <<rowless, reminded>>

ExecuteQuizDisputeResolved(i) ==
    /\ box[i].event = "QUIZ_DISPUTE_RESOLVED"
    /\ Handle(i, Recipients(box[i]), Suppressed("SUBMISSION_CHECKED"), FALSE)
    /\ UNCHANGED <<rowless, reminded>>

\* The student is reached through the students_assignments row: without one the
\* handler returns, and the message is done.
ExecuteDeadlineReminder(i) ==
    /\ box[i].event = "DEADLINE_REMINDER"
    /\ LET s == box[i].who
           off == Suppressed("DEADLINE_REMINDER")
       IN  /\ Handle(i, IF s \in assigned THEN Recipients(box[i]) ELSE <<>>, off, FALSE)
           /\ rowless' = IF s \in assigned THEN rowless ELSE rowless \cup {i}
           /\ reminded' = IF s \in assigned \ off THEN [reminded EXCEPT ![s] = @ + 1]
                          ELSE reminded

ExecuteFeedbackRequest(i) ==
    /\ box[i].event = "FEEDBACK_REQUEST_SENT"
    /\ Handle(i, Recipients(box[i]), Suppressed("FEEDBACK_REQUEST"), FALSE)
    /\ UNCHANGED <<rowless, reminded>>

Deliver(i) ==
    /\ \/ ExecuteSubmissionReviewed(i) \/ ExecuteQuizResult(i)
       \/ ExecuteQuizDisputeResolved(i) \/ ExecuteDeadlineReminder(i)
       \/ ExecuteFeedbackRequest(i)
    /\ UNCHANGED <<muted, submitted, due, assigned, quiz, feedback, digests, ops>>

OutboxStep ==
    /\ Poll \/ Commit \/ Crash
    /\ UNCHANGED <<muted, deadlines, quiz, feedback, digests, ops>>

-----------------------------------------------------------------------------
(* Requests that announce something.                                       *)

\* _apply_review_decision, and a finished attempt of member s.
Reviewed ==
    /\ Announce(<<New("SUBMISSION_REVIEWED", Members[1], NoSecret)>>)
    /\ UNCHANGED <<muted, deadlines, quiz, feedback, digests>>

QuizFinished(s) ==
    /\ Announce(<<New("QUIZ_RESULT", s, NoSecret)>>)
    /\ UNCHANGED <<muted, deadlines, quiz, feedback, digests>>

\* toggle_notification_preference.
TogglePreference(s, case) ==
    /\ Op
    /\ muted' = IF <<s, case>> \in muted THEN muted \ {<<s, case>>}
                ELSE muted \cup {<<s, case>>}
    /\ UNCHANGED <<mail, deadlines, quiz, feedback, digests>>

\* request_feedback: one request per subject and semester, a link for everyone.
RequestFeedback ==
    /\ asked = {}
    /\ asked' = Students
    /\ Announce([p \in DOMAIN Members |-> New("FEEDBACK_REQUEST_SENT", Members[p], "link")])
    /\ UNCHANGED <<muted, deadlines, quiz, answered, digests>>

\* submit_feedback through a link that was mailed; a second response meets the
\* unique constraint.
SubmitFeedback(s) ==
    /\ s \in asked \ answered
    /\ \E i \in Ids, c \in Channels :
        box[i].event = "FEEDBACK_REQUEST_SENT" /\ box[i].who = s /\ <<i, s, c>> \in sent
    /\ answered' = answered \cup {s}
    /\ UNCHANGED <<mail, muted, deadlines, quiz, asked, digests, ops>>

-----------------------------------------------------------------------------
(* Deadline reminders.                                                     *)

\* submit_assignment on the student's row; a config upload that moves the deadline;
\* an import of the students, which gives missing rows.
Submit(s) ==
    /\ Op /\ s \in assigned \ submitted
    /\ submitted' = submitted \cup {s}
    /\ UNCHANGED <<mail, muted, due, assigned, rowless, reminded, quiz, feedback, digests>>

MoveDeadline ==
    /\ Op /\ due' = ~due
    /\ UNCHANGED <<mail, muted, submitted, assigned, rowless, reminded, quiz, feedback, digests>>

GainRow(s) ==
    /\ Op /\ s \notin assigned
    /\ assigned' = assigned \cup {s}
    /\ UNCHANGED <<mail, muted, submitted, due, rowless, reminded, quiz, feedback, digests>>

\* Mutant of AlreadyQueued: a reminder that was sent is forgotten.
AlreadyQueuedLive(s) ==
    \E i \in Ids : /\ box[i].event = "DEADLINE_REMINDER" /\ box[i].who = s
                   /\ box[i].state # "FINISHED"

AlreadyQueued(s) ==
    \E i \in Ids : box[i].event = "DEADLINE_REMINDER" /\ box[i].who = s

\* enqueue_due_deadline_reminders: one transaction under the job's lock.  The outer
\* join selects students without a row as well.
RunDeadlineReminders ==
    /\ due
    /\ LET late == {s \in Students : /\ s \notin submitted /\ ~AlreadyQueued(s)
                                     /\ <<s, "DEADLINE_REMINDER">> \notin muted}
       IN  late # {} /\ \E order \in Orders(late) :
                Announce([p \in DOMAIN order |-> New("DEADLINE_REMINDER", order[p], NoSecret)])
    /\ UNCHANGED <<muted, deadlines, quiz, feedback, digests>>

-----------------------------------------------------------------------------
(* Reported questions.                                                     *)

\* report_question on an attempt of s, in any state of it.
ReportQuestion(s) ==
    /\ Op /\ disputes' = Append(disputes, [of |-> s, status |-> "OPEN"])
    /\ UNCHANGED <<mail, muted, deadlines, override, ruling, feedback, digests>>

\* resolve: the dispute is loaded and found OPEN.
ResolveBegin(r, d, accept) ==
    /\ Op /\ ruling[r] = Free /\ disputes[d].status = "OPEN"
    /\ ruling' = [ruling EXCEPT ![r] = [dispute |-> d, accept |-> accept]]
    /\ UNCHANGED <<mail, muted, deadlines, disputes, override, feedback, digests>>

\* resolve_dispute on the rows: an accepted one answers every open sibling.
Ruled(ds, d, accept) ==
    [k \in DOMAIN ds |->
        IF k = d THEN [ds[k] EXCEPT !.status = IF accept THEN "ACCEPTED" ELSE "REJECTED"]
        ELSE IF accept /\ ds[k].status = "OPEN" THEN [ds[k] EXCEPT !.status = "ACCEPTED"]
        ELSE ds[k]]

\* resolve_dispute, _notify_students and the commit; the regrade flips the
\* results in flipped.
ResolveEnd(r, flipped) ==
    /\ ruling[r] # Free
    /\ LET d == ruling[r].dispute
           accept == ruling[r].accept
       IN  /\ flipped # {} => accept /\ ~override
           /\ disputes' = Ruled(disputes, d, accept)
           /\ override' = (override \/ accept)
           /\ \E order \in Orders(flipped \ {disputes[d].of}) :
                 Enqueue([p \in DOMAIN (<<disputes[d].of>> \o order) |->
                    New("QUIZ_DISPUTE_RESOLVED", (<<disputes[d].of>> \o order)[p], NoSecret)])
    /\ ruling' = [ruling EXCEPT ![r] = Free]
    /\ UNCHANGED <<batch, sent, crashes, muted, deadlines, feedback, digests, ops>>

-----------------------------------------------------------------------------
(* The teachers' digest.                                                   *)

\* enqueue_teacher_review_notification: ON CONFLICT DO NOTHING.
EnqueueReview(u) ==
    /\ Op
    /\ queue' = [e \in DOMAIN queue |->
                    IF e[2] = u /\ queue[e] = "none" THEN "unsent" ELSE queue[e]]
    /\ UNCHANGED <<mail, muted, deadlines, quiz, feedback, digest, lock, told>>

Unsent(t) == {e \in DOMAIN queue : e[1] = t /\ queue[e] = "unsent"}

\* The lock is free, or held by a pooled connection of the same replica.
DigestBegin(r) ==
    /\ Op /\ ~digest[r].on /\ lock \in {NoReplica, r}
    /\ lock' = r
    /\ LET rows == UNION {Unsent(t) : t \in Teachers}
       IN  digest' = [digest EXCEPT ![r] = [Resting EXCEPT
                !.on = TRUE, !.rows = rows, !.left = {e[1] : e \in rows}]]
    /\ UNCHANGED <<mail, muted, deadlines, quiz, feedback, queue, told>>

Entries(r, t) == {e \in digest[r].rows : e[1] = t}

\* A digest that is ready goes out.
DigestSend(r, t) ==
    /\ t \in digest[r].left /\ digest[r].mailed = {}
    /\ digest' = [digest EXCEPT ![r].mailed = Entries(r, t), ![r].left = @ \ {t}]
    /\ told' = told \cup Entries(r, t)
    /\ UNCHANGED <<mail, muted, deadlines, quiz, feedback, queue, lock, ops>>

\* Not ready yet, without an address, or the channel raised.
DigestSkip(r, t) ==
    /\ t \in digest[r].left /\ digest[r].mailed = {}
    /\ digest' = [digest EXCEPT ![r].left = @ \ {t}]
    /\ UNCHANGED <<mail, muted, deadlines, quiz, feedback, queue, lock, told, ops>>

\* Mutant of DigestMarked: every unsent row of the teacher counts as sent.
DigestMarkedAll(q, mailed) ==
    [e \in DOMAIN q |-> IF \E m \in mailed : m[1] = e[1] /\ q[e] = "unsent"
                        THEN "sent" ELSE q[e]]

\* The UPDATE by the ids that were loaded.
DigestMarked(q, mailed) == [e \in DOMAIN q |-> IF e \in mailed THEN "sent" ELSE q[e]]

\* The commit per teacher gives the connection back to the pool.
DigestCommit(r) ==
    /\ digest[r].mailed # {}
    /\ queue' = DigestMarked(queue, digest[r].mailed)
    /\ digest' = [digest EXCEPT ![r].mailed = {}, ![r].commits = 1]
    /\ UNCHANGED <<mail, muted, deadlines, quiz, feedback, lock, told, ops>>

\* The pool closes the connection that took the lock, while the job goes on.
DigestLockLost(r) ==
    /\ digest[r].commits = 1 /\ lock = r
    /\ lock' = NoReplica
    /\ UNCHANGED <<mail, muted, deadlines, quiz, feedback, queue, digest, told, ops>>

\* The end of the run; the unlock may meet another connection.
DigestEnd(r) ==
    /\ digest[r].on /\ digest[r].left = {} /\ digest[r].mailed = {}
    /\ digest' = [digest EXCEPT ![r] = Resting]
    /\ lock' \in IF lock = r THEN {NoReplica, r} ELSE {lock}
    /\ UNCHANGED <<mail, muted, deadlines, quiz, feedback, queue, told, ops>>

\* The replica dies between two statements.
DigestCrash(r) ==
    /\ digest[r].on /\ crashes < MaxCrashes
    /\ crashes' = crashes + 1
    /\ digest' = [digest EXCEPT ![r] = Resting]
    /\ lock' = IF lock = r THEN NoReplica ELSE lock
    /\ UNCHANGED <<box, batch, sent, muted, deadlines, quiz, feedback, queue, told, ops>>

-----------------------------------------------------------------------------
Next ==
    \/ OutboxStep \/ \E i \in Ids : Deliver(i)
    \/ Reviewed \/ RequestFeedback \/ MoveDeadline \/ RunDeadlineReminders
    \/ \E s \in Students :
        \/ QuizFinished(s) \/ SubmitFeedback(s) \/ Submit(s) \/ GainRow(s)
        \/ ReportQuestion(s)
        \/ \E case \in Cases : TogglePreference(s, case)
    \/ \E r \in Rulings :
        \/ \E d \in DOMAIN disputes, accept \in BOOLEAN : ResolveBegin(r, d, accept)
        \/ \E F \in SUBSET Students : ResolveEnd(r, F)
    \/ \E u \in Subs : EnqueueReview(u)
    \/ \E r \in Replicas :
        \/ DigestBegin(r) \/ DigestCommit(r) \/ DigestLockLost(r) \/ DigestEnd(r)
        \/ DigestCrash(r)
        \/ \E t \in Teachers : DigestSend(r, t) \/ DigestSkip(r, t)

Spec == Init /\ [][Next]_vars

-----------------------------------------------------------------------------
(* Properties.                                                             *)

\* A message is FINISHED only when every recipient got it through every channel
\* or had switched it off, and, for a review, every member has the in-app
\* notice: a failure in the middle of the squad or a crash cannot hide one.  The
\* reminders of a student without a row are the exception: nobody gets them.
FinishedWasTold ==
    \A i \in Ids : box[i].state = "FINISHED" /\ i \notin rowless =>
        \A p \in DOMAIN Recipients(box[i]) :
            LET r == Recipients(box[i])[p]
            IN  /\ r \in box[i].skipped \/ Mailed(i, r)
                /\ box[i].event = "SUBMISSION_REVIEWED" => r \in box[i].rung

\* A student is reminded again only because a try failed on some channel or the
\* worker died before the batch was committed: not by the job's next run, a moved
\* deadline, or a preference switched off and on (enqueue_due_deadline_reminders,
\* process_outbox_messages).
RepeatsAreRetries ==
    \A i \in Ids : box[i].event = "DEADLINE_REMINDER" =>
        reminded[box[i].who] <= 1 + box[i].retries + crashes

\* A queue row counts as sent only if a digest with it went out, also when
\* rows are added during the run, the replica dies or two replicas overlap.
SentWasInDigest == \A e \in DOMAIN queue : queue[e] = "sent" => e \in told
=============================================================================
