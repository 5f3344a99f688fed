---------------------------- MODULE ClassroomSync ----------------------------
(***************************************************************************)
(* Google Classroom ingest and overnight LLM grading of one assignment:    *)
(* services/google, services/llm_grading, the nightly job and the teacher's *)
(* pages.  A manual sync and the nightly job take one lock, held on a       *)
(* connection of its own; teachers' requests overlap with both.             *)
(***************************************************************************)
EXTENDS Naturals, FiniteSets

CONSTANTS Users,        \* roster entries, each with one Classroom submission
          Submitters,   \* those who ever turn in
          Students, NoStudent,
          Contents,     \* what a submission's files may hold, by content hash
          Matches,      \* Matches[u]: what match() may say about u over time
          Nobody,       \* no user, no content
          MaxAttempts, Cap, Streak,                    \* of the runner
          Runs,         \* as many manual syncs as there are ids
          MaxEdits, MaxNights, MaxTeacher, MaxFaults   \* bounds

Methods == {"NONE", "NAME", "EMAIL", "MANUAL", "IGNORED"}

Link == [method : Methods, student : Students \cup {NoStudent},
         confirmed : BOOLEAN, close : BOOLEAN]   \* close: score >= BULK_CONFIRM

ASSUME SyncAssumption ==
    /\ IsFiniteSet(Users) /\ IsFiniteSet(Contents)
    /\ NoStudent \notin Students
    /\ Nobody \notin Users \cup Contents /\ Submitters \subseteq Users
    /\ MaxAttempts \in Nat \ {0} /\ Cap \in Nat /\ Streak \in Nat \ {0}
    /\ \A u \in Users : Matches[u] \subseteq
          {m \in Link : /\ m.method \in {"NONE", "NAME", "EMAIL"}
                        /\ m.method = "EMAIL" => m.confirmed
                        /\ (m.method = "NONE") = (m.student = NoStudent)
                        /\ m.method = "NONE" => ~m.confirmed}

VARIABLES remote,    \* what each user has turned in: [content, stamp]
          link,      \* classroom_student_links, or NoLink
          works,     \* classroom_works with their llm_gradings, by user and content
          latest,    \* the version seen last
          linked,    \* the assignment has a coursework
          active,    \* the Google connection's status is ACTIVE
          job,       \* what the holder of the Classroom lock is doing
          run,       \* classroom_sync_runs and their background tasks
          night, fired,    \* the night, and how often the nightly job started in it
          jobs, lost,      \* gradings started tonight; those that stopped counting
          page,            \* the draft a teacher's board shows
          seen,            \* drafts a teacher has been shown
          edits, teacher, faults

rows == <<remote, link, works, latest>>
bounds == <<edits, teacher, faults>>
nightly == <<night, fired, jobs, lost>>
vars == <<rows, linked, active, job, run, nightly, page, seen, bounds>>

NoLink == [method |-> "ABSENT"]
NoWork == [status |-> "ABSENT"]

Statuses == {"WAITING_LINK", "PENDING", "RUNNING", "DONE", "FAILED", "SUPERSEDED"}

Work == [stamp : Nat,           \* the manifest's modification times
         status : Statuses, attempts : Nat,
         touched : Nat,         \* the night of updated_at
         approved : BOOLEAN]

Idle == [phase |-> "idle"]

\* The holder of the lock: a manual sync, or Nobody for the nightly job.
Job ==
    LET by == Runs \cup {Nobody}
    IN  {Idle}
        \cup [phase : {"roster", "list"}, by : by]
        \cup [phase : {"merge"}, by : by, copy : [Users -> Link \cup {NoLink}]]
        \cup [phase : {"works"}, by : by, todo : SUBSET Users]
        \cup [phase : {"fetch"}, by : by, todo : SUBSET Users, user : Users,
               stamp : Nat, link : Link]
        \cup [phase : {"grade"}, by : {Nobody}, list : SUBSET (Users \X Contents),
               streak : Nat]
        \cup [phase : {"judge"}, by : {Nobody}, list : SUBSET (Users \X Contents),
               streak : Nat, user : Users, content : Contents]

TypeOK ==
    /\ remote \in [Users -> [content : Contents \cup {Nobody}, stamp : Nat]]
    /\ link \in [Users -> Link \cup {NoLink}]
    /\ works \in [Users -> [Contents -> Work \cup {NoWork}]]
    /\ latest \in [Users -> Contents \cup {Nobody}]
    /\ run \in [Runs -> [row : {"none", "RUNNING", "DONE", "FAILED"}, fresh : BOOLEAN,
                         task : {"none", "starting", "spawned", "working", "gone"}]]
    /\ linked \in BOOLEAN /\ active \in BOOLEAN
    /\ job \in Job
    /\ night \in Nat /\ jobs \in Nat /\ lost \in Nat

Init ==
    /\ remote = [u \in Users |-> [content |-> Nobody, stamp |-> 0]]
    /\ link = [u \in Users |-> NoLink]
    /\ works = [u \in Users |-> [c \in Contents |-> NoWork]]
    /\ latest = [u \in Users |-> Nobody]
    /\ linked = TRUE /\ active = TRUE /\ job = Idle
    /\ run = [r \in Runs |-> [row |-> "none", fresh |-> FALSE, task |-> "none"]]
    /\ night = 1 /\ fired = 0 /\ jobs = 0 /\ lost = 0
    /\ page = [user |-> Nobody, content |-> Nobody] /\ seen = {}
    /\ edits = 0 /\ teacher = 0 /\ faults = 0

-----------------------------------------------------------------------------
(* Rows.                                                                   *)

Has(u, c) == c # Nobody /\ works[u][c] # NoWork

\* What finished this night (_used_tonight): a draft by graded_at, a failure by
\* updated_at.
Counted ==
    {x \in Users \X Contents :
        Has(x[1], x[2]) /\ works[x[1]][x[2]].touched = night
        /\ works[x[1]][x[2]].status \in {"DONE", "FAILED"}}

\* release_waiting: the works of u as its link gets a student.
Released(ws) ==
    [c \in Contents |-> IF ws[c] # NoWork /\ ws[c].status = "WAITING_LINK"
                        THEN [ws[c] EXCEPT !.status = "PENDING"] ELSE ws[c]]

\* _fresh_status on the link as it was loaded.
FreshStatus(l) == IF l.student = NoStudent THEN "WAITING_LINK" ELSE "PENDING"

\* Mutant of Supersedable: a finished draft goes too.
SupersedableAll == {"PENDING", "WAITING_LINK", "FAILED", "DONE"}

Supersedable == {"PENDING", "WAITING_LINK", "FAILED"}

\* _supersede_others.
Superseded(ws, keep) ==
    [c \in Contents |->
        IF c # keep /\ ws[c] # NoWork /\ ws[c].status \in Supersedable
        THEN [ws[c] EXCEPT !.status = "SUPERSEDED"] ELSE ws[c]]

\* Mutant of Reverted: the version stays out of the queue.
RevertedSilently(w, stamp, l) == [w EXCEPT !.stamp = stamp]

\* An older version is turned in again: its manifest is refreshed and it is
\* queued if a newer one had pushed it out.
Reverted(w, stamp, l) ==
    [w EXCEPT !.stamp = stamp,
              !.status = IF @ = "SUPERSEDED" THEN FreshStatus(l) ELSE @]

\* The end of _ingest_submission for content c.
Ingested(ws, c, stamp, l) ==
    Superseded([ws EXCEPT ![c] =
                   IF @ # NoWork THEN Reverted(@, stamp, l)
                   ELSE [stamp |-> stamp, status |-> FreshStatus(l), attempts |-> 0,
                         touched |-> night, approved |-> FALSE]], c)

\* upsert_links for one entry: the row as the session would have it.
Matched(l, m) ==
    CASE l = NoLink -> m
      [] l # NoLink /\ l.method = "NAME" /\ ~l.confirmed ->
            [l EXCEPT !.confirmed = m.confirmed /\ m.student = l.student]
      [] l # NoLink /\ l.method = "NONE" /\ l.student = NoStudent ->
            IF m.method \in {"NAME", "EMAIL"} THEN m ELSE [l EXCEPT !.close = m.close]
      [] OTHER -> l

\* The UPDATE that the session flushes: the columns that differ from its copy.
Flushed(row, copy, new) ==
    IF copy = NoLink THEN new
    ELSE [f \in DOMAIN new |-> IF new[f] # copy[f] THEN new[f] ELSE row[f]]

-----------------------------------------------------------------------------
(* Manual syncs: sync_runs.py.                                             *)

Stale(r) == run[r].row = "RUNNING" /\ ~run[r].fresh

\* sync_now and start, up to the check for a live run.
StartCheck(r) ==
    /\ active /\ run[r].task = "none"
    /\ \A s \in Runs : run[s].row = "RUNNING" => Stale(s)
    /\ run' = [run EXCEPT ![r].task = "starting"]
    /\ UNCHANGED <<rows, linked, active, job, nightly, page, seen, bounds>>

\* Stale rows are closed, the new one is committed, the task is spawned.
StartCommit(r) ==
    /\ run[r].task = "starting"
    /\ run' = [s \in Runs |-> IF s = r THEN [row |-> "RUNNING", fresh |-> TRUE, task |-> "spawned"]
                              ELSE IF Stale(s) THEN [run[s] EXCEPT !.row = "FAILED"] ELSE run[s]]
    /\ UNCHANGED <<rows, linked, active, job, nightly, page, seen, bounds>>

\* _update at the end of run(): whatever the row says by now.
Closed(r, row) == [run EXCEPT ![r] = [row |-> row, fresh |-> TRUE, task |-> "gone"]]

Beat(r) == IF r \in Runs THEN [run EXCEPT ![r].fresh = TRUE] ELSE run

\* run takes the lock, or gives up as busy.
RunBegin(r) ==
    /\ run[r].task = "spawned"
    /\ \/ /\ job # Idle
          /\ run' = Closed(r, "FAILED") /\ UNCHANGED job
       \/ /\ job = Idle
          /\ run' = [run EXCEPT ![r].task = "working"]
          /\ job' = [phase |-> "roster", by |-> r]
    /\ UNCHANGED <<rows, linked, active, nightly, page, seen, bounds>>

\* Five minutes pass without a heartbeat: the task is dead, or slow.
Stall(r) ==
    /\ run[r].row = "RUNNING" /\ run[r].fresh
    /\ run[r].task = "gone" \/ faults < MaxFaults
    /\ run' = [run EXCEPT ![r].fresh = FALSE]
    /\ faults' = IF run[r].task = "gone" THEN faults ELSE faults + 1
    /\ UNCHANGED <<rows, linked, active, job, nightly, page, seen, edits, teacher>>

-----------------------------------------------------------------------------
(* Ingest: ingest_subject.                                                 *)

\* The ingest is over: a manual sync records how and unlocks, the nightly job
\* goes on to grade.
AfterIngest(row) ==
    IF job.by \in Runs THEN /\ job' = Idle /\ run' = Closed(job.by, row)
    ELSE /\ job' = [phase |-> "list", by |-> job.by] /\ UNCHANGED run

\* The roster has been fetched and the links loaded.
LoadRoster ==
    /\ job.phase = "roster" /\ active
    /\ job' = [phase |-> "merge", by |-> job.by, copy |-> link]
    /\ UNCHANGED <<rows, linked, active, run, nightly, page, seen, bounds>>

\* The rest of upsert_links, which flushes what it changed and commits.  Then the
\* submissions are listed; when that fails, the coursework is skipped.
MergeRoster ==
    /\ job.phase = "merge"
    /\ \E m \in [Users -> UNION {Matches[u] : u \in Users}] :
         LET new(u) == Matched(job.copy[u], m[u])
             gets(u) == job.copy[u] # NoLink /\ job.copy[u].student = NoStudent
                        /\ new(u).student # NoStudent
         IN  /\ \A u \in Users : m[u] \in Matches[u]
             /\ link' = [u \in Users |-> Flushed(link[u], job.copy[u], new(u))]
             /\ works' = [u \in Users |-> IF gets(u) THEN Released(works[u]) ELSE works[u]]
    /\ \E listed \in BOOLEAN :
         /\ listed \/ faults < MaxFaults
         /\ faults' = IF listed THEN faults ELSE faults + 1
         /\ job' = [phase |-> "works", by |-> job.by,
                    todo |-> {u \in Users : listed /\ linked /\ remote[u].content # Nobody}]
    /\ run' = Beat(job.by)
    /\ UNCHANGED <<remote, latest, linked, active, nightly, page, seen, edits, teacher>>

\* _ingest_submission up to the downloads.  An unchanged manifest ends it here,
\* as do an unknown submitter and an ignored one.
Fetch(u) ==
    /\ job.phase = "works" /\ u \in job.todo
    /\ IF link[u] = NoLink \/ link[u].method = "IGNORED"
          \/ (Has(u, latest[u]) /\ works[u][latest[u]].stamp = remote[u].stamp)
       THEN /\ job' = [job EXCEPT !.todo = @ \ {u}] /\ run' = Beat(job.by)
       ELSE /\ job' = [phase |-> "fetch", by |-> job.by, todo |-> job.todo \ {u},
                       user |-> u, stamp |-> remote[u].stamp, link |-> link[u]]
            /\ UNCHANGED run
    /\ UNCHANGED <<rows, linked, active, nightly, page, seen, bounds>>

\* The files are in: what they hold now, under the stamps read before.  A failure
\* of tonight that it supersedes no longer counts.
Store ==
    LET u == job.user
        c == remote[u].content
    IN  /\ job.phase = "fetch"
        /\ works' = [works EXCEPT ![u] = Ingested(@, c, job.stamp, job.link)]
        /\ latest' = [latest EXCEPT ![u] = c]
        /\ lost' = lost + Cardinality({x \in Counted : /\ x[1] = u /\ x[2] # c
                                                       /\ works[u][x[2]].status = "FAILED"})
        /\ job' = [phase |-> "works", by |-> job.by, todo |-> job.todo]
        /\ run' = Beat(job.by)
        /\ UNCHANGED <<remote, link, linked, active, night, fired, jobs, page, seen, bounds>>

\* A download or an upload fails: the others still come.
SkipWork ==
    /\ job.phase = "fetch" /\ faults < MaxFaults
    /\ job' = [phase |-> "works", by |-> job.by, todo |-> job.todo]
    /\ run' = Beat(job.by) /\ faults' = faults + 1
    /\ UNCHANGED <<rows, linked, active, nightly, page, seen, edits, teacher>>

FinishIngest ==
    /\ job.phase = "works" /\ job.todo = {}
    /\ AfterIngest("DONE")
    /\ UNCHANGED <<rows, linked, active, nightly, page, seen, bounds>>

\* Google refuses: the whole sync ends.  A dead refresh token also marks the
\* connection (_mark_reconnect).
GoogleFails(dead) ==
    /\ job.phase \in {"roster", "works", "fetch"} /\ faults < MaxFaults
    /\ job.phase # "roster" => dead
    /\ job.phase = "works" => job.todo # {}
    /\ active' = (active /\ ~dead)
    /\ AfterIngest("FAILED") /\ faults' = faults + 1
    /\ UNCHANGED <<rows, linked, nightly, page, seen, edits, teacher>>

\* A nightly run has no subject to ingest when the connection is not ACTIVE.
NothingToIngest ==
    /\ job.phase = "roster" /\ ~active
    /\ AfterIngest("FAILED")
    /\ UNCHANGED <<rows, linked, active, nightly, page, seen, bounds>>

-----------------------------------------------------------------------------
(* The nightly job: classroom_nightly.py and llm_grading/runner.py.         *)

Failed(w) == [w EXCEPT !.status = "FAILED", !.attempts = @ + 1, !.touched = night]

\* reap_stale: what an earlier night left RUNNING fails, tonight's too if an hour
\* has passed.
Reaped(hour) ==
    [u \in Users |-> [c \in Contents |->
        IF /\ Has(u, c) /\ works[u][c].status = "RUNNING"
           /\ works[u][c].touched < night \/ hour
        THEN Failed(works[u][c])
        ELSE works[u][c]]]

\* _run takes the lock and reaps.  On a DST night the job starts twice.
NightlyBegin(hour) ==
    /\ job = Idle /\ fired < 2
    /\ fired' = fired + 1
    /\ works' = Reaped(hour)
    /\ job' = [phase |-> "roster", by |-> Nobody]
    /\ UNCHANGED <<remote, link, latest, linked, active, run, night, jobs, lost,
                   page, seen, bounds>>

\* _in_scope.
InScope(u, c) == Has(u, c) /\ latest[u] = c /\ link[u].method # "IGNORED" /\ linked

\* _eligible.
Eligible(u, c) ==
    \/ works[u][c].status = "PENDING"
    \/ works[u][c].status = "FAILED" /\ works[u][c].attempts < MaxAttempts

\* _candidate: nothing that has already failed tonight.
IsCandidate(u, c) ==
    /\ InScope(u, c) /\ Eligible(u, c)
    /\ works[u][c].status = "FAILED" => works[u][c].touched < night

\* Mutant of UsedTonight: a version that is no longer the latest is not counted.
UsedTonightInScope == Cardinality({x \in Counted : InScope(x[1], x[2])})

\* _used_tonight.
UsedTonight == Cardinality(Counted)

\* grading_loop takes its list once, within what is left of the cap.
TakeList ==
    /\ job.phase = "list"
    /\ LET all  == {x \in Users \X Contents : IsCandidate(x[1], x[2])}
           left == IF Cap > UsedTonight THEN Cap - UsedTonight ELSE 0
       IN  \E list \in SUBSET all :
              /\ Cardinality(list) = IF left < Cardinality(all) THEN left ELSE Cardinality(all)
              /\ job' = [phase |-> "grade", by |-> Nobody, list |-> list, streak |-> 0]
    /\ UNCHANGED <<rows, linked, active, run, nightly, page, seen, bounds>>

\* The next of the list, unless it left the queue in the meantime.
TakeJob(u, c) ==
    /\ job.phase = "grade" /\ <<u, c>> \in job.list /\ job.streak < Streak
    /\ IF InScope(u, c) /\ Eligible(u, c)
       THEN /\ works' = [works EXCEPT ![u][c].status = "RUNNING", ![u][c].touched = night]
            /\ job' = [phase |-> "judge", by |-> Nobody, list |-> job.list \ {<<u, c>>},
                       streak |-> job.streak, user |-> u, content |-> c]
            /\ jobs' = jobs + 1
       ELSE job' = [job EXCEPT !.list = @ \ {<<u, c>>}] /\ UNCHANGED <<works, jobs>>
    /\ UNCHANGED <<remote, link, latest, linked, active, run, night, fired, lost,
                   page, seen, bounds>>

\* grade_one after the judge: a draft, a failed try, or no file it can read (which
\* works have one is not told apart).
Judge(outcome) ==
    LET u == job.user
        c == job.content
    IN  /\ job.phase = "judge"
        /\ works' = [works EXCEPT ![u][c] =
               CASE outcome = "done" -> [@ EXCEPT !.status = "DONE", !.touched = night]
                 [] outcome = "no_files" -> [@ EXCEPT !.status = "FAILED",
                                                !.attempts = MaxAttempts, !.touched = night]
                 [] OTHER -> Failed(@)]
        /\ job' = [phase |-> "grade", by |-> Nobody, list |-> job.list,
                   streak |-> IF outcome = "judge_error" THEN job.streak + 1 ELSE 0]
        /\ UNCHANGED <<remote, link, latest, linked, active, run, nightly, page, seen, bounds>>

\* An exception that grade_one does not handle: its row or its result cannot be
\* committed.  The loop logs it and goes on; what was being judged stays RUNNING.
JobError ==
    /\ faults < MaxFaults /\ faults' = faults + 1
    /\ \/ /\ job.phase = "grade" /\ job.streak < Streak
          /\ \E x \in job.list : job' = [job EXCEPT !.list = @ \ {x}]
          /\ UNCHANGED lost
       \/ /\ job.phase = "judge"
          /\ job' = [phase |-> "grade", by |-> Nobody, list |-> job.list,
                     streak |-> job.streak]
          /\ lost' = lost + 1
    /\ UNCHANGED <<rows, linked, active, run, night, fired, jobs, page, seen, edits, teacher>>

\* The list is done, the window closed or the judge is presumed down.
NightlyEnd ==
    /\ job.phase = "grade" /\ job' = Idle
    /\ UNCHANGED <<rows, linked, active, run, nightly, page, seen, bounds>>

NextNight ==
    /\ night < MaxNights /\ job = Idle
    /\ night' = night + 1 /\ fired' = 0 /\ jobs' = 0 /\ lost' = 0
    /\ UNCHANGED <<rows, linked, active, job, run, page, seen, bounds>>

\* The process that holds the lock dies: its connection closes, its run's row
\* stays RUNNING.
Crash ==
    /\ job # Idle /\ faults < MaxFaults
    /\ job' = Idle /\ faults' = faults + 1
    /\ lost' = IF job.phase = "judge" THEN lost + 1 ELSE lost
    /\ run' = IF job.by \in Runs THEN [run EXCEPT ![job.by].task = "gone"] ELSE run
    /\ UNCHANGED <<rows, linked, active, night, fired, jobs, page, seen, edits, teacher>>

-----------------------------------------------------------------------------
(* Students and teachers.                                                  *)

\* A student turns in other contents, or the same again.
TurnIn(u, c) ==
    /\ u \in Submitters /\ edits < MaxEdits
    /\ remote' = [remote EXCEPT ![u] = [content |-> c, stamp |-> @.stamp + 1]]
    /\ edits' = edits + 1
    /\ UNCHANGED <<link, works, latest, linked, active, job, run, nightly, page, seen,
                   teacher, faults>>

Acts == teacher < MaxTeacher /\ teacher' = teacher + 1

\* _student_taken.
IsTaken(s, u) == \E v \in Users \ {u} : link[v] # NoLink /\ link[v].confirmed /\ link[v].student = s

\* resolve_link with action link.
ResolveLink(u, s) ==
    /\ Acts /\ link[u] # NoLink /\ ~IsTaken(s, u)
    /\ link' = [link EXCEPT ![u].method = "MANUAL", ![u].confirmed = TRUE, ![u].student = s]
    /\ works' = [works EXCEPT ![u] = Released(@)]
    /\ UNCHANGED <<remote, latest, linked, active, job, run, nightly, page, seen, edits, faults>>

\* resolve_link with action ignore.
IgnoreLink(u) ==
    /\ Acts /\ link[u] # NoLink
    /\ link' = [link EXCEPT ![u].method = "IGNORED", ![u].confirmed = TRUE,
                            ![u].student = NoStudent]
    /\ UNCHANGED <<remote, works, latest, linked, active, job, run, nightly, page, seen,
                   edits, faults>>

\* resolve_link with action confirm.
ConfirmLink(u) ==
    /\ Acts /\ link[u] # NoLink /\ link[u].method = "NAME" /\ ~IsTaken(link[u].student, u)
    /\ link' = [link EXCEPT ![u].method = "MANUAL", ![u].confirmed = TRUE]
    /\ works' = [works EXCEPT ![u] = Released(@)]
    /\ UNCHANGED <<remote, latest, linked, active, job, run, nightly, page, seen, edits, faults>>

\* _bulk_confirmable: name matches at or above the threshold.
Confirmable ==
    {u \in Users : link[u] # NoLink /\ link[u].method = "NAME"
                   /\ ~link[u].confirmed /\ link[u].close}

\* confirm_all_links: one entry for each student who is not taken.  It releases
\* nothing: a match by name has queued its works already.
ConfirmAllLinks ==
    /\ Acts /\ Confirmable # {}
    /\ \E chosen \in SUBSET Confirmable :
         LET taken(u) == \/ IsTaken(link[u].student, u)
                         \/ \E v \in chosen \ {u} : link[v].student = link[u].student
         IN  /\ chosen = {u \in Confirmable : ~taken(u)}
             /\ link' = [u \in Users |-> IF u \in chosen
                            THEN [link[u] EXCEPT !.method = "MANUAL", !.confirmed = TRUE]
                            ELSE link[u]]
    /\ UNCHANGED <<remote, works, latest, linked, active, job, run, nightly, page, seen,
                   edits, faults>>

\* retry_grading.
RetryGrading(u, c) ==
    /\ Acts /\ Has(u, c) /\ works[u][c].status = "FAILED"
    /\ works' = [works EXCEPT ![u][c].status = "PENDING", ![u][c].attempts = 0]
    /\ lost' = IF <<u, c>> \in Counted THEN lost + 1 ELSE lost
    /\ UNCHANGED <<remote, link, latest, linked, active, job, run, night, fired, jobs,
                   page, seen, edits, faults>>

\* link_coursework_batch sets or clears the assignment's coursework.
LinkCoursework ==
    /\ Acts /\ linked' = ~linked /\ (linked' => active)
    /\ UNCHANGED <<rows, active, job, run, nightly, page, seen, edits, faults>>

\* google_complete after the connection was marked.
Reconnect ==
    /\ ~active /\ active' = TRUE
    /\ UNCHANGED <<rows, linked, job, run, nightly, page, seen, bounds>>

\* llm_board_state: the latest version's draft, or an older one while it has none.
Draft(u) ==
    IF Has(u, latest[u]) /\ works[u][latest[u]].status = "DONE" THEN {latest[u]}
    ELSE {c \in Contents : Has(u, c) /\ works[u][c].status = "DONE"}

\* The board is rendered for the student of u.
ShowBoard(u) ==
    /\ link[u] # NoLink /\ link[u].student # NoStudent
    /\ \E c \in Draft(u) : page' = [user |-> u, content |-> c] /\ seen' = seen \cup {<<u, c>>}
    /\ page' # page
    /\ UNCHANGED <<rows, linked, active, job, run, nightly, bounds>>

\* Mutant of IsShown: the draft of the moment is approved, whatever was posted.
IsShownAnyway(u, c) == c \in Draft(u)

\* teacher_save_scores: the draft it finds is the one that the form names.
IsShown(u, c) == c \in Draft(u) /\ page = [user |-> u, content |-> c]

\* teacher_save_scores: refused while the name match is unconfirmed.
SaveScores(u, c) ==
    /\ link[u] # NoLink /\ link[u].student # NoStudent
    /\ ~(link[u].method = "NAME" /\ ~link[u].confirmed)
    /\ IsShown(u, c)
    /\ works' = [works EXCEPT ![u][c].approved = TRUE]
    /\ UNCHANGED <<remote, link, latest, linked, active, job, run, nightly, page, seen,
                   bounds>>

Next ==
    \/ \E r \in Runs : StartCheck(r) \/ StartCommit(r) \/ RunBegin(r) \/ Stall(r)
    \/ LoadRoster \/ MergeRoster \/ Store \/ SkipWork \/ FinishIngest \/ NothingToIngest
    \/ \E b \in BOOLEAN : GoogleFails(b) \/ NightlyBegin(b)
    \/ TakeList \/ JobError \/ NightlyEnd \/ NextNight \/ Crash
    \/ LinkCoursework \/ Reconnect \/ ConfirmAllLinks
    \/ \E outcome \in {"done", "failed", "judge_error", "no_files"} : Judge(outcome)
    \/ \E u \in Users :
          \/ Fetch(u) \/ IgnoreLink(u) \/ ConfirmLink(u) \/ ShowBoard(u)
          \/ \E s \in Students : ResolveLink(u, s)
          \/ \E c \in Contents :
                TurnIn(u, c) \/ TakeJob(u, c) \/ RetryGrading(u, c) \/ SaveScores(u, c)

Spec == Init /\ [][Next]_vars

-----------------------------------------------------------------------------
(* Properties.                                                             *)

\* The version a student turned in last is never left out of the queue: whatever
\* the order of versions, reverts, crashes and reaping, a newer or an older one
\* never supersedes it (_supersede_others, the reverted branch).
LatestIsLive ==
    \A u \in Users : Has(u, latest[u]) => works[u][latest[u]].status # "SUPERSEDED"

\* grading_loop: the cap is per night and the runs of a night share it.  It is
\* exceeded only by as many starts as _used_tonight loses: a failure of tonight that
\* is reopened or superseded, and a grading whose worker died or whose result could
\* not be committed.
NightBudget == jobs <= Cap + lost

\* The same with nothing lost, as the docstring of grading_loop has it: "the budget
\* is cap per night, shared by every run of that night".
NightCap == jobs <= Cap

\* Drafts are final: no sync, night, retry or teacher's request takes a finished
\* draft or its approval away, so that no work is judged twice.
DraftIsKept ==
    [][ \A u \in Users, c \in Contents :
          Has(u, c) /\ works[u][c].status = "DONE" =>
             /\ works'[u][c].status = "DONE"
             /\ works[u][c].approved => works'[u][c].approved ]_vars

\* The comment in teacher_save_scores: a newer draft that landed after the page
\* was rendered is never approved unseen.
ApprovedWasSeen ==
    \A u \in Users, c \in Contents : Has(u, c) /\ works[u][c].approved => <<u, c>> \in seen

\* The design document, 4: when a link becomes confirmed or manual, its
\* WAITING_LINK gradings flip to PENDING.
WaitingHasNoStudent ==
    \A u \in Users, c \in Contents :
       Has(u, c) /\ works[u][c].status = "WAITING_LINK" /\ latest[u] = c
       => link[u].student = NoStudent
=============================================================================
