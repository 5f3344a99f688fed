# Verification of submissions-checker

TLA+ models of the parts of submissions-checker that move a student's work
through its checks, reviews, quiz and grade, form squads, pull work from Google
Classroom, send mail and let people in; the TLC instances that check them and the
TLAPS proofs of what holds for every instance. Paths below are relative
to `src/src/submissions_checker/`.

## The system

A FastAPI application over PostgreSQL. Students upload work, sit quizzes and read
grades; teachers review, correct and configure; an APScheduler in every replica
runs the background jobs. All long work goes through a transactional outbox.

| component | state | operations | interacts with |
|---|---|---|---|
| state machine (`core/state_machine.py`) | the status of a submission | `transition(event)` | everyone who moves a submission |
| check worker (`workers/tasks/check_tasks.py`) | status, config pin, results | RUN_CHECKS: pin the config, unpack, run the sandbox, route by review mode | outbox, grading, notification queue |
| AI review (`workers/tasks/review_tasks.py`) | status, verdict | RUN_AI_REVIEW with a `next_step` | outbox, grading, notification queue |
| outbox (`db/models/outbox.py`, `workers/scheduled/outbox_processor.py`) | messages: state, retries | poll, dispatch, mark, one commit per batch | all workers |
| advisory lock and pool (`core/database.py`, `outbox_processor.py`) | the owner connection of a session-level lock, the pool | try-lock, commit, unlock | replicas, web requests |
| teacher portal (`api/routes/teacher_portal.py`) | decisions, grants, points | approve, reject, bulk, rerun, retry or skip the AI, grant an attempt, save points | the same rows as the workers |
| upload (`api/routes/student_portal.py`) | new submissions | `submit_assignment` | check worker (inline for quiz-first modes), outbox |
| quiz (`api/routes/student_quiz.py`, `services/quiz_*.py`) | attempts, allowance, overrides | open, start, finish, grant, regrade after a dispute | state machine, grading, teacher points |
| grading (`services/grading.py`) | grade and breakdown | `finalize_grade` | called on every edge into COMPLETED |
| config upload and enrolment (`services/config_apply.py`, `teacher_portal.py`) | versions, mirrored rows, objects in the store; enrolments with a row per assignment | `apply`, enrol, unenrol | pins, current mode of every assignment, squads |
| notification queue, digest, mail (`notification_tasks.py`, `teacher_digest_processor.py`, `deadline_reminders.py`) | one queue row per (teacher, submission); messages; in-app notices | enqueue, mail a digest, remind, mail a result | every path into AWAITING_TEACHER_REVIEW, disputes, feedback |
| squads (`services/squads.py`, `api/routes/student_squads.py`) | squads, members, invites, `locked_at`; the draw in `source_metadata` | create with invites, accept, decline, cancel, assign, lock at the upload, sit the shared quiz | upload, quiz, config (`squad_max_size`), enrolment |
| quiz clock (`api/routes/student_quiz.py`) | anchor, budget, pauses, event counts of an attempt | answer, expire, pause, resume, report an event, finish | quiz attempts, air-raid provider |
| Classroom sync and LLM grading (`services/google/`, `services/llm_grading/`) | links, works with their gradings, sync runs | sync, nightly job, link by hand, retry, approve a draft | teacher points, scheduler |
| grades and gradebook (`services/grading.py`, `quiz_scoring.py`, `check_core.py`, `gradebook.py`) | grade, breakdown; cells, cards | score a check, a sheet, blend, report | every stage of a submission |
| accounts (`api/routes/auth.py`, `core/security.py`, `core/rate_limit.py`) | password, its stamp, sessions, reset tokens, failure times | create, resend, log in, change, reset | outbox |

What is hard here: handlers that fail half-way and are committed by the
processor's `except` branch; retries and duplicates of messages on rows that have
moved on; requests that decide on rows loaded without a lock while a batch works
for minutes and commits at its end; config re-uploads between any two steps, with
some code reading the pinned version and some the current one; a session-level
lock over a connection pool; answers to invites that overlap accepts and uploads;
members of a squad who finish at once; clocks made of stored timestamps; a queue
whose rows are rewritten by syncs, nights and teachers; credentials that exist only
in a message; one grade computed from parts that may be missing.
`PROJECT.json` lists these as hazards, each at its
line.

## Modules

| module | models | notes |
|---|---|---|
| `StateMachine` | the event table, `transition()` | no variables |
| `SubmissionRows` | every handler as an operator from the loaded row to the set of its outcomes | shared by the two modules below |
| `Outbox` | messages, their marks and the dispatch | |
| `SubmissionLifecycle` | one student's submissions to one assignment; every operation is one action | `MCSubmissionLifecycle` |
| `SubmissionSessions` | one submission under overlapping transactions: the batch, teacher requests, a worker death | `MCSubmissionSessions` |
| `AdvisoryLock` | the processor's lock over the connection pools of several replicas | run as it is |
| `Squads` | the squads of one subject, each request in two steps, an upload in five | `MCSquads` |
| `QuizStopwatch` | what the clock promises: a stopwatch per attempt and question that a pause stops, with requests for a pause that wait for an answer | no timestamps |
| `QuizClock` | one attempt with its stored anchor, budget, pauses and events; implements `QuizStopwatch` | `MCQuizClock` |
| `SquadQuiz` | the shared quiz of one squad, each request in two steps | `MCSquadQuiz` |
| `ClassroomSync` | sync, overnight grading and the teacher's board of one assignment | `MCClassroomSync` |
| `ConfigApply` | uploads of one subject's archive, its tables and objects, enrolment | `MCConfigApply` |
| `Mailer` | mail messages in the outbox: marks, crashes, finish hooks | extended by the next two |
| `Accounts` | accounts, sessions, throttle, reset | `MCAccounts` |
| `Notices` | mail events, reminders, the digest job | `MCNotices` |
| `Marks` | the arithmetic: check plan, sheet, blend, points | no variables |
| `Gradebook` | the reports on the tables: grid, cards, integrity rows, a student's pages | no variables |
| `Grades` | submissions of a squad or a student that fill the tables | `MCGrades` |
| `SubmissionRowsProofs` | what each handler may make of a row and its messages | shared by the next two |
| `SubmissionLifecycleProofs` | the invariants of `SubmissionLifecycle` | |
| `OutboxWorkerProofs` | one processor at a time (`AdvisoryLock`), and its batch beside the teacher's requests (`SubmissionSessions`) | |
| `QuizProofs` | the refinement of `QuizStopwatch`; one draw, and a squad that moves on together (`SquadQuiz`) | |
| `CourseProofs` | what holds of squads under any overlap (`Squads`); the live version, drafts, approvals and the nightly cap (`ClassroomSync`) | |
| `ConfigApplyProofs` | tables, files and rows that follow the live version | |
| `MailProofs` | what finished mail, reminders and digests mean (`Notices`); passwords, sessions and the throttle (`Accounts`) | |
| `GradesProofs` | the arithmetic of a grade, draws and shuffles, and that evidence, grade and books are right (`Marks`, `Gradebook`, `Grades`) | |

**The row.** `Row` holds the columns of `submissions` the control depends on:
status, source, `plugin_config_id` (`pin`, 0 for NULL), what `test_results` and
`ai_review` hold, whether the breakdown is there, the state of the teacher's
queue row, and the student's attempts as counters (`used`, `failed` per config
version, `passed`, the version of the one in progress). A config version is its
review mode, whether it has a quiz, and the cap on attempts; `ConfigAssumption`
is what `config_apply` validates. `queued` is the state of the row for the subject's
recipients together, its owner or else the active admins; `staff` says whether there is
one now, and "nobody" that the last attempt to make a row found none
(`notification_tasks.py:395`). `ToggleStaff` changes it between any two steps.

**Outcomes.** A handler returns or raises. The processor commits the session
either way, so an outcome carries the row as it was left, the message added, whether
a grade was written, and `ok`. Its mark stands once the batch has committed, and the
batch commits once (`outbox_processor.py:143`). What a handler stores may be refused by
PostgreSQL: a NUL in the output of the sandbox or of the AI provider cannot go into a
JSONB column. Then the commit raises, every mark and retry count of the batch is lost,
and the next poll selects the same messages, those of other submissions and the mail
included. `refused` is chosen at the start, the reports that cannot be stored;
`Dispatch` takes only outcomes that can (`Storable`), and `Jammed` says that a live
message may produce one that cannot. A poll that rolls back is no step. The reason
stored for a failed validation can carry the same text; it is not told apart, since
the run that could report it may as well pass or fail and the batch is jammed already. The sandbox, the AI provider, the object store and
the archive choose among outcomes; everything else is determined by the row.
Points of a scored assignment are one Boolean, "every required criterion is in".

**Sessions.** `SubmissionSessions` opens the transactions up. A session has the
row as loaded and as changed; its flush writes the changed columns only (READ
COMMITTED, no version column), and the queue row is an `INSERT ... ON CONFLICT DO
NOTHING` (whether there are recipients is fixed during a behaviour). The batch loads a row with its first message and may load it again while it
is clean (the identity map is weak). Its assignments have no quiz: the quiz has
row locks of its own and is planned.

**Lock.** `db.commit()` gives the connection back to the FIFO pool; a connection
beyond the pool's size is closed when it returns, and PostgreSQL drops its locks.
Pool and lock are external code, modelled from how the job uses them.

**Squads.** A request reads and checks (`CreateBegin`, `AssignBegin`, `AnswerBegin`)
and later writes and commits (`CreateEnd`, ...), other requests
committing in between. An upload awaits four queries in turn, each of which sees what
has been committed by then: the student's invites (`UploadBegin`), their squad
(`UploadLook`), its invites (`UploadCount`) and the squad once more (`UploadFind`); then it
writes (`UploadEnd`). The last lookup may find a squad the first did not: a student without one
passes both checks, creates or joins a squad with open invites, and the upload locks it.
`rushed` remembers such squads, the one exception of `LockedIsSettled`. A request keeps what it loaded of the squad, which is what
`_delete_if_empty` uses; `accept_invite` locks the row and reads it again, so its
decision is on current state. An invite is PENDING or not: how it was closed
matters to nobody (the accept that fills a squad even leaves its own invite
CANCELLED, since the session does not autoflush before the sweep of the others).
The squads that an accept or an assignment empties are judged on the rows at its commit,
where the code works partly on copies of the same transaction (`Emptied`).
The unique index on (subject, student) and the foreign keys are `Fail`. The squad
part of `open_quiz_submission` makes the same checks as the upload and is not an
action of its own.

**Quiz clock.** The code keeps no clock: elapsed time is `now` minus a stored
timestamp, a pause freezes `now`, and closing it shifts the anchor (stepped) or adds
whole seconds to `paused_seconds`. `QuizStopwatch` has a counter that runs and stops;
`KeepsStopwatch` says that the stored values, mapped to it, step as it does: a pause
costs less than one second, a question is lost only after its window and grace, an
answer counts only before, a penalty only ever shortens. Times are ticks, two in a
second, so that the truncation of `int(...)` shows.

A request for a pause checks the attempt and settles its clock (`RequestPause`), then
awaits its body and the alert provider, and writes without looking again (`BeginPause`),
or does not (`RefusePause`). `asking` counts those that wait. In between the
attempt may be paused by another request, lose its window, or end. `clashed` remembers
that an answer came back to an attempt paused or closed: then `paused_at` is set on a
closed attempt, or set anew while the row of the earlier pause stays open. For the watch a
second answer is `Restart`: the pause begins anew and the time since the first is spent. It is
never given back twice, since `paused_at` is one column and the resume folds in what it says.
Every other handler is one step. They too decide on a loaded copy (an answer and the
submitted page await their form after the checks, a snapshot the object store), for as long as
a request takes rather than for a call to another service: two of them at once on one attempt
are not modelled, nor a pause that begins inside one.

**Squad quiz.** A request loads the submission and later finishes; the draw, the
pass and the grant take or do not take the row lock as the code does. Two members,
three questions of which two are sent. A ruling credits a question for everyone. An
attempt is ended by one request at a time: a form sent twice at once is not modelled.

**Classroom.** The lock is held on a connection of its own; the holder (a manual
run or the nightly job) works in steps (roster, one version after another, the
grading list, one job after another) and teachers' requests fall between them. A
version is its content hash. An exception that `grade_one` does not handle, as when its
row or its result cannot be committed, is logged and the loop goes on (`JobError`): what was being
judged stays RUNNING, which `_used_tonight` does not count. `lost` counts the gradings started
tonight that stopped counting: left RUNNING so or by a worker's death, reopened by a
teacher after they failed, or superseded after they failed; `NightBudget` allows as many
over the cap. `confirm_all_links` is a step of its own, with its threshold and without
`release_waiting`. A coursework that cannot be listed is skipped (`MergeRoster`).

**Config upload.** An upload reads, sends files, writes and cleans up in separate
steps; its transaction is its reads (`ApplyWrite`) and its commit, which the unique
indexes and the RESTRICT of `students_assignments` refuse (`Violates`, then only
`Abort` is left). A config is the values the diff compares: subject columns, columns,
config keys, file names; the archive says which files it holds. The reads inside the
transaction are one step. `overlap` and `raced` remember that two uploads, or an
enrolment and a transaction, have met: the code has no lock against either, and the
properties are about the rest.

**Mail.** `Mailer` has the marks of the outbox and the crash that rolls a batch back
although its mails are out; a message remembers who was mailed, skipped and notified,
which the properties compare with the recipients the code derives. At least one
channel is configured: without any, the handlers return and the message finishes. A
reminder needs the student's row in `students_assignments`, which the job that queues it does
not: without the row the handler returns and the message finishes with nobody told
(`rowless`). `reminded` counts how often a reminder was handed to the channels.

**Accounts.** A password is a value; `known` is what its owner was mailed or chose.
Session tokens carry whole seconds; `began` is when the request that changed the
password started, the stamp that the code takes before it commits. The limiter's deque
is pruned from the left, as `_prune` does it (`Stale`): times are appended in order, so
nothing within the window is ever dropped and nothing outside it kept.

**Grades.** Scores are exact rationals where the code has floats rounded to six
digits; weights are whole multiples of some unit. A check plan is the scripts the config names, a sheet is the drawn questions
with their options in a shuffled order, an answer is what was meant by it. Statistics
are computed on the tables as they are; when the refresh job caches them is left out.

Operators named as mutants in comments are plausible bugs used to test that each
property can fail; no specification uses them.

## Runs

| run | instance | shows |
|---|---|---|
| `lifecycle` | one submission, a history of three config uploads with caps 1, 2 and 3, 2 message slots, 2 retries, 3 attempts, 1 grant, recipients that come and go | pipeline message, announcement, cause of failure, source of the grade; COMPLETED and the pin are stable |
| `lifecycle_oneconfig` | one submission, each of the modes (12 configs), no re-upload, reports that the database refuses, fair polls | completed work has its grade, approval and quiz; stuck only in the two known ways; the outbox drains and checks settle unless a batch cannot be committed |
| `sessions` | batch, one request, one worker death, four modes | message and teacher's decision survive every order of commits |
| `lock` | 2 replicas, pool 2 + 1 overflow, 3 borrowings, failing statements, 1 restart | one processor at a time; a leaked lock does not stop the queue |
| `squads` | 3 students, limit none, 2 or 3, 2 squads, 2 uploads, 2 overlapping requests, 1 change of limit or enrolment | a locked squad has no open invite unless it was entered in the middle of an upload, a shared submission has a locked squad, nobody joins beyond the limit |
| `quiz_clock` | three quizzes (stepped, stepped with an unlimited question, one budget), 7 ticks, 2 pauses, 2 requests for one that wait at once, 2 events | the clock implements the stopwatch; a pause has its row, alone unless alerts came back too late; a forced failure has its event |
| `squad_quiz` | 2 members, 3 questions, 2 overlapping requests, 3 attempts, 1 grant, 1 ruling, 1 unenrolment | one draw for all, the last pass moves the work on and only it, a violation is never regraded |
| `classroom` | 2 roster entries, 2 contents, 3 edits, 2 nights, cap 1, 1 manual run, 1 teacher's request, 1 fault | the latest version is live, the nightly cap is exceeded only by what the count loses, drafts are kept, an approved draft was seen |
| `config` | 4 archives, uploads started from up to 2 earlier versions, 1 student, 2 overlapping requests | rows mirror the live version, links lead to files, everyone has a row |
| `accounts` | student, teacher, tester, 2 overlapping requests, 5 in all, 2 messages, 1 crash | a password stays deliverable, sessions follow it, the throttle's overshoot is bounded |
| `notices` | squad of 2, 2 teachers, 2 submissions, 2 replicas, 2 channels, 3 messages, 1 crash | a finished message reached everyone with a row, a reminder is repeated only by a retry or a crash, a sent queue row was in a digest |
| `grades` | 2 students, 22 configs, 2 uploads | scripts count once, a shuffle keeps the key, grades are monotone in the evidence, grid and cards agree |

**Bounds.** Rows meet only in the upload gate, in the outbox and in the grade, so
one submission explores its handlers; the theorems cover any number of them. Two
message slots allow a duplicate next to the message it duplicates; a
finished message frees its slot. A cap of 3 with 3 attempts lets a passed work come
back to its quiz and fail there (see Observations). Two retries distinguish a first failure, a retry
and a dead letter. `MaxAttempts` and `MaxGrants` cover a cap reached, raised by a
grant and reached again. Batches are no longer than the poll's limit of 20. In
`AdvisoryLock` the pool of 2 with 1 overflow connection reaches both the reuse and
the closing of a connection; a saturated lock count stands for larger ones. Three
students and two squads allow two invitees of one squad and a student invited
twice; two overlapping requests are what every race of `services/squads.py` needs,
and the proofs cover any number; a second upload reaches a squad that the first locked.
Seven ticks cover two questions, their grace, a pause and what comes after, with a
second request for a pause while the first one waits; three attempts a first one each and a retry. In
`classroom` a cap of one is reached by one grading, so the second night, the second
start of a night and a reopened grading all meet it; one submitter edits, reverts and
edits again within three edits, and the second roster entry is there to take the
link. The archives of `config` add, drop and re-create an assignment, a
handout and a picture, change config keys alone and omit a listed file; three versions
reach a rollback. With one request at a time, two students and six versions the
properties hold as well. `accounts` needs creation, a resend or reset, a change, a login before and one
after, within five requests and three seconds. `notices` allows a retry, a crash and
a dead letter of one message beside two others. In `grades` one submission is under
way at a time and one sheet is scored at a time; the configs cover five review modes,
both layouts of the check section with its three misconfigurations,
each question type, missing and zero components, and points that do not add up.

**Deadlock** is not checked in the submission runs: a COMPLETED submission, or a
stuck one, is a legitimate end. Neither is it for squads, which end when
everyone has one and the bounds are used up, nor in the other runs, where an attempt
ends, a night is over, or the bounds are used up. It is checked for the lock.

**Fairness.** `lifecycle_oneconfig` assumes weak fairness of each `Dispatch(m)` while
the outbox is not `Jammed`: the scheduler polls every ten seconds, selects every live message
(fewer than the batch size), tries each, a raising handler included, and commits. Nothing is
assumed of a poll whose batch may hold a row that cannot be stored, and `OutboxDrains` and
`ChecksSettle` end with that alternative. `HasExit` counts a live message as a way on
even then. `lock` assumes that each
replica's job keeps being scheduled and makes its next step, and that web requests
give their connection back (`get_db` does in its `finally`). `Leave`, traffic and
restarts are not fair.

## Proofs

TLAPS proves every safety invariant and action property of the runs, the refinement
of `quiz_clock`, and the type invariant of each module, for every value of the constants that satisfies the named assumptions. TLC checked each inductive
invariant on the run first.

**Submissions.** For every `LastVersion`, `Config`, number of uploads, slots, retries
and grants: `TypeCorrect`, `NoSubmissionLost`, `TeacherHears`, `GradeSound` and
`FailureExplained` as invariants, `CompletedStays` and `PinStays` as action properties.
With `Reupload = FALSE`, the case the run `lifecycle_oneconfig` instantiates:
`CompletedHasGrade`, `TeacherHasApproved`, `QuizHasPassed` and `StuckNowhereElse`.

The argument has two layers. `SubmissionRowsProofs` shows of each
handler, for any row, that its outcomes are *good*: rows of the type, COMPLETED and the breakdown
kept, a pin only dropped, an arrival at the teacher announced or without anyone to announce it to, a grade only with
COMPLETED, PENDING never newly created, and AWAITING_AI_REVIEW only with the
message that serves it (`Good`; the rerun is `Sound` and adds its own message).
`SubmissionLifecycleProofs` lifts this: `RowStep` says that a step which leaves one
row as a sound outcome and keeps the other rows' messages preserves the invariant,
`NewStep` the same for a new row, and each operation is an instance of one.
The invariant needs one conjunct beyond the properties, `MessageHasRow`: an
unfinished message belongs to a submission that exists, or a dispatch could write
a grade for none. `NoSubmissionLost` rests on two facts about the dispatched message
itself: a RUN_CHECKS handler that returns has left PENDING, and an AI review never
leaves its row waiting for the AI.

The causes are a second invariant over the first, `Causes`. The `...Shape` lemmas say
where each handler may take the status and which columns of the quiz it keeps; the
`...Fits` lemmas conclude that it keeps two predicates of a row. `Explained`: an open
attempt is of the pinned version at the quiz stage or the work has passed already, and
FAILED has a cause; the first half is needed because the cap is read from the attempt's
own version, and the second must hold of the pinned one. `Uniform`, for an assignment
that has only ever had version c: pin, attempts and disputes are of c, the AI stages
occur only under the AI modes, a quiz under a mode that reviews first was sent by an
approval, COMPLETED is earned, and a submission opened for the scored quiz is at the
quiz or waits with its quiz passed. Messages owe two things: an AI review leads where
the mode says (so a teacher's retry repeats the first `next_step`), and one that never
failed has all its retries. With re-uploads the four properties are false, not
unproved: TLC refutes three on the history of `lifecycle` (`retry-ai-review` takes its next
step from the current version) and `StuckOnlyWithoutQuiz` on one that leaves the scored
mode: a quiz-only work that waits for its points is rejected, and FAILED, passed and
without an upload it has no way out.

**Lock.** `OneProcessor` for any number of replicas and any pool:
the working replica's connection owns the lock and is neither idle nor lent, and
no connection is in a pool twice.

**Sessions.** `SessionsTyped`, `NoMessageLost`, `OnlyTheTeacherDecides` and
`StatusKeepsItsCompanion` for any configuration, slots, retries and worker
deaths. The handlers are those of the lifecycle, so their outcomes are known; what is new
is that a flush writes the columns that differ from a copy loaded earlier, over a row
that has moved on. `SessionsInv` therefore ties each open session to the row. For the
batch: nobody else touches the messages it selected (`Holds`); its copy is one it could
have loaded from (`Working`), and grade and notice have only been added to the row since
(`Follows`), so no flush takes them away; and while the row is PENDING in the table, RUN_CHECKS is
either in the box as the batch will leave it or the flush will overwrite the status
(`PendingKept`), which is what saves a rerun that commits in the middle of a batch. For a
request: what it decided, it decided on a status that allowed it (`Deciding`). `BoxLeads`
says of the messages that where the mode ends with the teacher, an AI review leads there.

**Quiz clock.** `ImplementsStopwatch` (`Spec => KeepsStopwatch`) and
`TimelineIsComplete`, for any windows, budget, length of a second, grace, penalty, rules
and caps. Every step is a step of `QuizStopwatch` or leaves both watches as they are. The
invariant says that an attempt in progress is on a question, that a pause began
in the past and its row is the last (`PauseHasRow`), that no other is open and rows do not
overlap until an alert has come back too late (`RowsApart`), and that whoever is to fail has the
event that says why. The two halves of a request for a pause share nothing but the count of
those that wait, so a pause may begin on any state of the attempt. Three lemmas carry the clock. `OpenedSums`: the loop of
`_advance_expired`, which opens one window where the last one closed, arrives at the
anchor plus the windows in between. `FirstOpenIs`: it stops, at the first question that is
not lost. `Length`: folding a pause in by whole seconds moves anchor and budget by the same
amount and leaves less than a second. The first two are inductions. The library's
induction theorems take an operator, which the provers cannot instantiate; `LeastNat`
instead derives the least element of a set of naturals from the well-foundedness of `<`,
and each induction looks at the least counterexample.

**Squads.** `LockedIsSettled`, `SharedIsLocked` and `JoinsWithinSize` for
any students, limits, squads and overlapping requests. The invariant adds that a
squad not yet created is fresh (neither members nor invites), that a student is in one
squad, and that an upload which has looked its squad up is for a created squad
without open invites or one that was entered meanwhile (`rushed`). Invites are only made
with their squad, so once a squad has been found without any, none can appear; what can change
between the two lookups is which squad it is.

**Squad quiz.** `DrawIsOne`, `NobodyIsLeftWaiting` and `SquadMovesOnTogether` for any
squad, questions, allowance and overlapping requests. `Sane` says what a request in
flight relies on (its attempt is open and its alone, the draw it writes back is the
one there is); `LoadedSent` that whoever ends an attempt loaded QUIZ_SENT while no
grant has brought the work back, which is why the pass that sees everyone passed also
fires the event; `SomebodyMissing` is the property with requests in flight.

**Classroom.** `LatestStaysLive`, `ApprovedOnlySeen`, `NightStaysInBudget` as
invariants and `DraftsAreFinal` as an action property, for any roster, contents and
caps. `JobOK` ties what the lock's holder has loaded to the tables. `Budget` counts:
every judge call of the night is paid by a work that counts against the cap, by
the one being judged or by one that was lost, and what is left on the list fits and is
unpaid; a second start of the night therefore finds the first one's gradings.

**Config upload.** `TablesMirror`, `LinksWork` and `RowsComplete` for any archives,
students and overlapping requests. An upload writes only what differs from the archive it
read before its transaction, so the invariant says that without overlap that archive is
still the live one (`Alone`, `Current`) and its files are sent before the
commit (`SentFirst`); `Apart` and `ReadAll` say the same of students and assignments read by
an upload and an enrolment that never met.

**Mail.** `FinishedReachedAll`, `RemindersAreNotRepeated` and `SentWasMailed` for any squad,
channels, retries, crashes, teachers and replicas. A reminder is queued once for a student,
so each time it goes out beyond the first was preceded by a counted retry or by a crash that
rolled its mark back. The poll works on copies:
`CopiesAgree` and `CopiesTold` say they are of the messages in the table and that those
about to be committed as finished went out; `MailedWasTold` the same of a digest's rows.

**Accounts.** `AccountsTyped`, `PasswordsAreDeliverable`, `SessionsFollowPasswords` and
`FailuresBounded` for any accounts, limits, lifetimes and overlapping requests. A
password survives because a message is redacted only in the transaction that finishes
it: the copies of a batch carry the secrets of the table, and what a copy is about to finish
has been mailed (known). For sessions: a password changed at second c was changed by a request
that began then or earlier, a session of the current password was minted no earlier than
the stamp, and none is from the future. For the throttle: deques are in order and hold no
future times, so pruning keeps exactly the window; and the failures of an account in the
window plus its unchecked logins are at most the budget and the other slots. The count of
requests in flight is a cardinality, and each step changes it by one.

**Grades.** `EvidenceExact`, `GradesFair` and `BooksAgreeAlways` for any class, reports,
answers, points, number of uploads and configurations. `IsConfig` is what is assumed of
a configuration: 0 <= `min_grade` <= `max_grade` (the table's CHECK constraint), points
that are whole and criteria that are worth something (`validate_assignment`), and a key
that names options of its question. The last is how `choices` with `is_correct` flags
are read; of `options` with `correct` indices the code checks nothing, and an index
beyond the options, or a single choice without options, is outside the theorems.

The argument has three parts. The first is arithmetic without a state. `Total`
and `SumOf` are recursive functions, and what is needed of them (they are whole and grow with their terms) goes by the least counterexample, as for the clock.
Blending keeps the order of fractions because a weight is dropped on both sides or on
neither (`BlendGrows`); rounding in each of the three ways and clamping are monotone
and fix whole numbers; together `ComputeGrows`, `ComputeFull`, `ScoredGrows`,
`ScoredFull`. The second is about lists: `Ascending` enumerates a finite set once, so a
draw, a slice of it and a redraw show supported questions without a repeat (`Drawn`);
an arrangement is onto, so the key in terms of what is shown is met exactly
by an answer that means the right thing (`AnswerWorth`); a plan names each script once
(`PlanIs`). The third is `GradesInv`. `BaseInv` has types, the scripts run so far and
to come as the plan, and sheets and draws that are drawn from the config. `FlowInv` has what makes
the books agree: submissions before the last have ended, nobody uploads over a work that
is done, a passed attempt is the only one of its member, and a QUIZ_SENT work has a
member who has not passed. `GradedInv` says that the grade of everybody a COMPLETED work covers
is what its evidence earns now; points saved later keep it because the save grades
again or is refused, and works of different students do not touch each other (`Apart`).

**Only model-checked.** Liveness (`OutboxDrains`, `ChecksSettle`, `QueueIsServed`): out
of the prover's reach.

## Statements that do not hold

These definitions state what a comment or document says; TLC refutes each when it is
checked in place of the properties of the run named. No run of the project claims
them.

| statement | run | what happens |
|---|---|---|
| `SubmissionSessions!CompletedIsFinal` (docstring at `teacher_portal.py:1783`, comment at `state_machine.py:73`) | `sessions` | a rerun that loaded AWAITING_AI_REVIEW commits PENDING, pin and results dropped, over the COMPLETED that the batch has committed meanwhile: `_requeue_checks` decides on an unlocked row |
| `SubmissionLifecycle!EveryStateHasExit` (comment at `state_machine.py:71`) | `lifecycle` without re-uploads | `requeue_checks` leaves out PENDING and QUIZ_SENT: a dead RUN_CHECKS letter leaves a PENDING row nothing can move. `StuckOnlyWithoutQuiz` states what remains true |
| `SubmissionLifecycle!EveryArrivalQueues` (`openspec/specs/teacher-notifications/spec.md:25`) | `lifecycle` | a submission that comes back to the teacher after its notice was mailed keeps the sent row (`ON CONFLICT DO NOTHING`): no pending entry is made, and no digest lists it again. `ReviewIsAnnounced` states what remains true |
| `SubmissionLifecycle!OutboxAlwaysDrains` (`outbox_processor.py:139`, "outbox_dead") | `lifecycle_oneconfig` | a row the database refuses fails the commit of its batch for ever: its retry count never moves, so it never becomes a dead letter |
| `AdvisoryLock!LockIsReleased` (`outbox_processor.py:158`) | `lock` without failing statements | a web request takes the connection that owns the lock, the unlock runs on another one. `OneProcessor` and `QueueIsServed` hold nevertheless |
| `Squads!LockedIsImmutable` (`db/models/squad.py:4`) | `squads` | a decline that overlaps the accept which fills the squad deletes the locked squad: `_delete_if_empty` uses a copy loaded without a lock |
| `Squads!LockedIsAlwaysSettled` (comment at `student_portal.py:592`) | `squads` | a student without a squad passes both checks of an upload, creates a squad with an open invite, and the second lookup finds it: it is locked with the invite open |
| `Squads!NoLingeringSolo` (`services/squads.py:342`) | `squads` with one request at a time | a refused accept closes the last invite without `_delete_if_empty`; the inviter can neither invite again nor join another squad |
| `QuizClock!PausedIsOpen` (comment at `db/models/quiz_template.py:70`) | `quiz_clock` | the page is handed in while the provider is asked; the alert then sets `paused_at` on the closed attempt |
| `SquadQuiz!CreditReachesAll` (comment in `_grade_and_finalize`) | `squad_quiz` | a ruling that lands between the load and the end of an attempt reaches neither |
| `SquadQuiz!PassedIsFinal` (comment there) | `squad_quiz` | a member unenrolled in the middle of an attempt fails it after the others have passed: `quiz_failed` is fired on the status it loaded before |
| `ClassroomSync!WaitingHasNoStudent` (`docs/superpowers/specs/2026-10-05-classroom-llm-grading-design.md:191`) | `classroom` | a link confirmed while an ingestion holds its copy: `_fresh_status` creates the grading WAITING_LINK and nothing flips it |
| `ClassroomSync!NightCap` (docstring of `grading_loop`, `services/llm_grading/runner.py`) | `classroom` | the result of a grading cannot be committed, the row stays RUNNING, and the second start of the night does not count it. `NightBudget` bounds the excess |

## Observations

Behaviour the models contain and no document excludes:

- Quiz: `answer_question` does not check the total budget, only the question's own
  window (`docs/PLUGIN_AUTHORING.md:433`); a pause row stays open when a force-fail meets a pause
  that the page shows only later. Two alerts that come back one after the other leave two
  rows, and the resume closes the later one only. A window that closes while the provider
  is asked is lost, but is recorded as lost only after the pause (`student_quiz.py:1410`
  settles the clock for the time of the request). A pause that begins on a closed attempt
  can be resumed (the resume does not look at the status) and adds to `paused_seconds`,
  which the durations of `gradebook.py:251` subtract. A squad with more members than questions gives
  some an empty slice. Two concurrent grants lose one. A submission whose members have all
  passed can stay in QUIZ_SENT when an accepted dispute overlaps a pass, when the
  last missing member is unenrolled, or when a pass loaded FAILED before a grant;
  hence the conditions of `NobodyWaitsForNothing`.
- Classroom: a later match may overwrite a MANUAL link; two starts at once both insert
  RUNNING; a stale run that is alive writes DONE over FAILED; reopening or superseding a FAILED
  grading takes it out of the nightly count, as does leaving it RUNNING; a revert re-queues an exhausted grading.
- Mail: an accepted dispute mails the uploader, not the squad member who reported
  it; a retry in the middle of a squad mails the first members again; a
  digest is mailed again after a crash between mail and commit; a partner is reminded of work the squad has handed in, since the submission hangs
  on the uploader's row; an extended deadline never reminds again. A student without a row is
  selected for a reminder that reaches nobody and, since it counts as queued, gets none after
  the row is there either: without the exception of `rowless`, `FinishedWasTold` fails
  in `notices`.
- Accounts: an older credentials mail can arrive after a newer one; older unused reset
  tokens stay valid; two resets on one token both pass; the throttle is per process.
- Grades: a blank TRUE_FALSE reads as false and is credited when false is right; the
  clamp to `min_grade` makes every graded cell "passed"; a quiz-only assignment without a
  grading block gets `min_grade` whatever the quiz; VALIDATION_FAILED and TEST_FAILED
  count as pending, COMPLETED and FAILED being the only terminal statuses; the cards count pending
  work on a student's own row, the grid also the squad's; a student whose own earlier upload
  ended FAILED is `not_submitted` in the grid while their page shows the squad's newer work.
- Config: removing an assignment that any student has a row for is refused by the
  foreign key, and with it the whole upload; `llm_grading` is copied but not compared,
  so a change of it alone does not reach the row; a handout first listed without its file
  keeps an empty link when the file comes later; a picture taken out, or moved to
  the other place, leaves a URL to a deleted object. Two uploads at once leave rows that
  no later upload repairs, and the cleanup of one may delete what the other has sent.
  A student enrolled during the transaction of an upload has no row for its new
  assignments until the CSV is imported again.
- Quiz start: two clicks at once create two attempts (`student_quiz.py:792`). The
  assignment page counts COMPLETED and TIMED_OUT attempts as used, the start also
  VIOLATION_FAIL.
- Failure after a pass: an accepted dispute passes the work while a second attempt is
  open; the teacher reruns the checks, the row is pinned to a newer version and comes
  back to QUIZ_SENT; the open attempt then fails against the cap of its own version and
  the work is FAILED although an attempt of it is passed (`_grade_and_finalize` does not
  look at the others). Only another dispute or a rerun leads out: no attempt can be
  granted to a passed work. The proof of `FailureExplained` found it, and its property
  allows it.
- Review: a rerun that commits inside a batch leaves AWAITING_TEACHER_REVIEW without a
  pin; approving then reads no quiz (`teacher_portal.py:1570`).
- Outbox: a batch that cannot be committed stops every message of the poll, the mail of
  others included, until the row is repaired by hand; handlers that have mailed mail again
  with every poll.
- Upload: `max_submissions` is counted without a lock; a student can upload alone while
  their accept commits; with the squads block removed an upload ignores a locked squad.

## Plan

1. The quiz in `SubmissionSessions`, with two teachers' requests in flight.
2. An abstract phase specification refined by `SubmissionLifecycle`.

Not modelled: deadlines and the late policy, similarity, the layout of pages, exports, the
validation of archives, variants, the OAuth connection, storage, sandbox and Google client
internals, migrations, dashboards and the CLI. They are I/O, reads, deployment or data the
properties do not tell apart; group and subject management write single rows.
