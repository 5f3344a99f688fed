------------------------------ MODULE QuizClock ------------------------------
(***************************************************************************)
(* One quiz attempt from its start to its end: api/routes/student_quiz.py. *)
(* Every clock is the difference between now and a stored timestamp; a     *)
(* pause freezes now, and closing it moves the timestamps.  A request for a *)
(* pause waits for the alert provider while other requests are served; the *)
(* others are one step each.  Times are in ticks, Sec of them in a second, *)
(* so that fractions of a second exist.                                    *)
(***************************************************************************)
EXTENDS Integers, Sequences, FiniteSets

CONSTANTS Quizzes,     \* what may have been drawn: [limits, total], in ticks, 0 for none
          Sec, Grace, Penalty,
          Rules,       \* anti_cheat.rules: [event, threshold, action], in order
          Events,      \* event names that are not informational
          MaxTypes,    \* _MAX_DISTINCT_EVENT_TYPES
          MaxRows,     \* MAX_EVENTS_STORED_PER_ATTEMPT
          MaxSnapshots,\* _MAX_SNAPSHOTS_PER_ATTEMPT
          MaxTime, MaxReports, MaxPauses, MaxAsking   \* bounds of the model

Actions == {"none", "warn", "flag", "reduce_time", "fail"}

ASSUME ClockAssumption ==
    /\ Sec \in Nat \ {0} /\ Grace \in Nat /\ Penalty \in Nat
    /\ MaxTypes \in Nat /\ MaxRows \in Nat /\ MaxSnapshots \in Nat
    /\ Quizzes \subseteq [limits : Seq(Nat), total : Nat]
    /\ \A z \in Quizzes : z.limits # << >>
    /\ Rules \in Seq([event : Events, threshold : Nat, action : Actions \ {"none"}])

VARIABLES now,
          quiz,      \* questions_snapshot and config_snapshot of the attempt
          att,       \* the row of quiz_attempts
          results,   \* quiz_answers of a stepped attempt, in order
          pauses,    \* quiz_attempt_pauses, in order
          timeline,  \* quiz_attempt_events: how many, and whether one says fail
          snapshots,
          asking,    \* how many requests for a pause wait for the provider
          clashed    \* an alert came back to an attempt paused or closed meanwhile

asks == <<asking, clashed>>
vars == <<now, quiz, att, results, pauses, timeline, snapshots, asks>>

None == -1

Attempt == [status     : {"IN_PROGRESS", "COMPLETED", "TIMED_OUT", "VIOLATION_FAIL"},
            index      : Nat,               \* current_index, counted from 1
            anchor     : Int,               \* question_started_at
            pausedAt   : Nat \cup {None},
            pausedSecs : Nat,               \* in ticks
            counts     : [Events -> Nat],   \* violations, by event
            force      : BOOLEAN,           \* violations._force_fail
            flagged    : BOOLEAN,           \* violations._flagged_events
            penalty    : Nat]               \* violations._time_penalty_seconds

TypeOK ==
    /\ now \in Nat
    /\ quiz \in Quizzes
    /\ att \in Attempt
    /\ results \in Seq({"answered", "timed_out"})
    /\ pauses \in Seq([start : Nat, end : Nat \cup {None}])
    /\ timeline \in [rows : Nat, fail : BOOLEAN]
    /\ snapshots \in 0 .. MaxSnapshots
    /\ asking \in Nat /\ clashed \in BOOLEAN

\* start_or_resume_quiz has just created the attempt.
Init ==
    /\ now = 0
    /\ quiz \in Quizzes
    /\ att = [status |-> "IN_PROGRESS", index |-> 1, anchor |-> 0,
              pausedAt |-> None, pausedSecs |-> 0,
              counts |-> [e \in Events |-> 0], force |-> FALSE,
              flagged |-> FALSE, penalty |-> 0]
    /\ results = << >> /\ pauses = << >>
    /\ timeline = [rows |-> 0, fail |-> FALSE]
    /\ snapshots = 0 /\ asking = 0 /\ clashed = FALSE

-----------------------------------------------------------------------------
(* The clocks.                                                             *)

Last == Len(quiz.limits)

\* per_question_timing: one question at a time if any drawn one has a limit.
Stepped == \E q \in 1 .. Last : quiz.limits[q] # 0

InProgress == att.status = "IN_PROGRESS"

Paused == att.pausedAt # None

EffectiveNow == IF Paused THEN att.pausedAt ELSE now

Elapsed == EffectiveNow - att.pausedSecs

IsTimedOut == quiz.total # 0 /\ Elapsed > quiz.total - att.penalty

\* Mutant of PauseClosed: the question's window is not moved.
PauseClosedInPlace(a) ==
    IF a.pausedAt = None THEN a
    ELSE LET length == ((now - a.pausedAt) \div Sec) * Sec
         IN  [a EXCEPT !.pausedAt = None, !.pausedSecs = @ + length]

\* _close_open_pause: whole seconds, the rest is the student's loss.
PauseClosed(a) ==
    IF a.pausedAt = None THEN a
    ELSE LET length == ((now - a.pausedAt) \div Sec) * Sec
         IN  [a EXCEPT !.pausedAt = None, !.pausedSecs = @ + length,
                       !.anchor = @ + length]

\* When the window of question q opened, the ones from index on being lost.
OpenedAt(q) ==
    LET opened[p \in att.index .. q] ==
            IF p = att.index THEN att.anchor ELSE opened[p - 1] + quiz.limits[p - 1]
    IN  opened[q]

IsExpired(q) == quiz.limits[q] # 0 /\ EffectiveNow - OpenedAt(q) > quiz.limits[q] + Grace

\* The loop of _advance_expired: the question it stops at.
FirstOpen ==
    CHOOSE q \in att.index .. Last + 1 :
        /\ \A p \in att.index .. q - 1 : IsExpired(p)
        /\ q <= Last => ~IsExpired(q)

\* _advance_expired and _record_timed_out.
Advanced ==
    IF Paused THEN att
    ELSE [att EXCEPT !.index = FirstOpen, !.anchor = OpenedAt(FirstOpen)]

Burned == [q \in 1 .. Advanced.index - att.index |-> "timed_out"]

\* The part of _grade_and_finalize that ends the attempt: a forced failure wins
\* over the status asked for and an open pause is folded in.
Finished(a, status) ==
    PauseClosed([a EXCEPT !.status = IF a.force THEN "VIOLATION_FAIL" ELSE status])

-----------------------------------------------------------------------------
(* Requests.                                                               *)

Tick ==
    /\ now < MaxTime /\ (InProgress \/ Paused \/ asking > 0)
    /\ now' = now + 1
    /\ UNCHANGED <<quiz, att, results, pauses, timeline, snapshots, asks>>

\* Questions are burned; then the attempt ends if none is left.
Settle(finished) ==
    /\ results' = results \o Burned
    /\ att' = IF Advanced.index > Last THEN Finished(Advanced, "COMPLETED")
              ELSE finished

\* show_quiz.
Show ==
    /\ InProgress /\ (Paused => att.force)
    /\ \/ /\ att.force
          /\ att' = Finished(att, "VIOLATION_FAIL") /\ UNCHANGED results
       \/ /\ ~att.force /\ IsTimedOut
          /\ att' = Finished(att, "TIMED_OUT") /\ UNCHANGED results
       \/ /\ ~att.force /\ ~IsTimedOut /\ Stepped
          /\ Settle(Advanced)
    /\ UNCHANGED <<now, quiz, pauses, timeline, snapshots, asks>>

\* answer_question for the question with number i: graded only if nothing has
\* just been burned and i is the question the attempt is on.
AnswerQuestion(i) ==
    /\ InProgress /\ Stepped /\ ~Paused
    /\ \/ /\ att.force
          /\ att' = Finished(att, "VIOLATION_FAIL") /\ UNCHANGED results
       \/ /\ ~att.force /\ (Advanced.index # att.index \/ i # att.index)
          /\ Settle(Advanced)
       \/ /\ ~att.force /\ Advanced.index = att.index /\ i = att.index
          /\ results' = Append(results, "answered")
          /\ LET next == [att EXCEPT !.index = @ + 1, !.anchor = now]
             IN  att' = IF next.index > Last THEN Finished(next, "COMPLETED") ELSE next
    /\ UNCHANGED <<now, quiz, pauses, timeline, snapshots, asks>>

\* submit_quiz: the page with all questions.
SubmitQuiz ==
    /\ InProgress /\ ~Stepped /\ ~Paused
    /\ att' = Finished(att, IF IsTimedOut THEN "TIMED_OUT" ELSE "COMPLETED")
    /\ results' = [q \in 1 .. Last |-> "answered"]
    /\ UNCHANGED <<now, quiz, pauses, timeline, snapshots, asks>>

\* request_air_raid_pause up to the wait for its body and for the provider: the
\* clock is settled.
RequestPause ==
    /\ InProgress /\ ~Paused /\ asking < MaxAsking
    /\ \/ /\ IsTimedOut
          /\ att' = Finished(att, "TIMED_OUT") /\ UNCHANGED <<results, asking>>
       \/ /\ ~IsTimedOut
          /\ Settle(Advanced)
          /\ asking' = IF Advanced.index > Last THEN asking ELSE asking + 1
    /\ UNCHANGED <<now, quiz, pauses, timeline, snapshots, clashed>>

\* The provider reports an alert: paused_at and the row are written over whatever
\* has become of the attempt.
BeginPause ==
    /\ asking > 0 /\ Len(pauses) < MaxPauses
    /\ asking' = asking - 1
    /\ att' = [att EXCEPT !.pausedAt = now]
    /\ pauses' = Append(pauses, [start |-> now, end |-> None])
    /\ clashed' = (clashed \/ Paused \/ ~InProgress)
    /\ UNCHANGED <<now, quiz, results, timeline, snapshots>>

\* No coordinates, no region, no provider or no alert: no pause.
RefusePause ==
    /\ asking > 0 /\ asking' = asking - 1
    /\ UNCHANGED <<now, quiz, att, results, pauses, timeline, snapshots, clashed>>

\* resume_after_air_raid: the latest open row gets its end.
ResumeQuiz ==
    /\ Paused
    /\ att' = PauseClosed(att)
    /\ pauses' = LET open == {i \in DOMAIN pauses : pauses[i].end = None}
                     last == CHOOSE i \in open : \A j \in open : j <= i
                 IN  IF open = {} THEN pauses
                     ELSE [pauses EXCEPT ![last].end =
                               att.pausedAt + PauseClosed(att).pausedSecs - att.pausedSecs]
    /\ UNCHANGED <<now, quiz, results, timeline, snapshots, asks>>

-----------------------------------------------------------------------------
(* Anti-cheat events.                                                      *)

\* Mutant of Recorded: past the cap a failing event is dropped like any other.
RecordedBelowCap(action) ==
    IF timeline.rows >= MaxRows THEN timeline
    ELSE [rows |-> timeline.rows + 1, fail |-> timeline.fail \/ action = "fail"]

\* _record_event: a row below the cap, and always when it explains a failure.
Recorded(action) ==
    IF action # "fail" /\ timeline.rows >= MaxRows THEN timeline
    ELSE [rows |-> timeline.rows + 1, fail |-> timeline.fail \/ action = "fail"]

\* How many keys the violations object has, its own bookkeeping included.
KeyCount ==
    Cardinality({e \in Events : att.counts[e] > 0})
    + Cardinality({k \in {"force", "flagged"} : att[k]})
    + (IF att.penalty > 0 THEN 1 ELSE 0)

\* The first rule for e that its count has reached decides.
ActionOf(e, count) ==
    LET hits == {i \in DOMAIN Rules : Rules[i].event = e /\ count >= Rules[i].threshold}
    IN  IF hits = {} THEN "none"
        ELSE Rules[CHOOSE i \in hits : \A j \in hits : i <= j].action

Punished(a, action) ==
    CASE action = "fail" -> [a EXCEPT !.force = TRUE]
      [] action = "flag" -> [a EXCEPT !.flagged = TRUE]
      [] action = "reduce_time" /\ Stepped -> [a EXCEPT !.anchor = @ - Penalty]
      [] action = "reduce_time" /\ ~Stepped -> [a EXCEPT !.penalty = @ + Penalty]
      [] OTHER -> a

\* Why report_violation only notes an event: the attempt is closed or paused, or
\* the name is one too many.
IsIgnored(e) == ~InProgress \/ Paused \/ (att.counts[e] = 0 /\ KeyCount >= MaxTypes)

\* report_violation for an event that can break a rule.
ReportViolation(e) ==
    /\ att.counts[e] < MaxReports
    /\ LET count  == att.counts[e] + 1
           action == ActionOf(e, count)
       IN  \/ /\ IsIgnored(e)
              /\ timeline' = Recorded("none") /\ UNCHANGED att
           \/ /\ ~IsIgnored(e)
              /\ att' = Punished([att EXCEPT !.counts[e] = count], action)
              /\ timeline' = Recorded(action)
    /\ UNCHANGED <<now, quiz, results, pauses, snapshots, asks>>

\* report_violation for tab_return and focus_return: evidence only.
ReportReturn ==
    /\ timeline' = Recorded("none")
    /\ UNCHANGED <<now, quiz, att, results, pauses, snapshots, asks>>

\* upload_snapshot: stored while the attempt runs, up to the cap.
UploadSnapshot ==
    /\ InProgress /\ ~Paused /\ snapshots < MaxSnapshots
    /\ snapshots' = snapshots + 1
    /\ UNCHANGED <<now, quiz, att, results, pauses, timeline, asks>>

Next ==
    \/ Tick \/ Show \/ SubmitQuiz
    \/ RequestPause \/ BeginPause \/ RefusePause \/ ResumeQuiz
    \/ \E i \in 1 .. Last : AnswerQuestion(i)
    \/ \E e \in Events : ReportViolation(e)
    \/ ReportReturn \/ UploadSnapshot

Spec == Init /\ [][Next]_vars

-----------------------------------------------------------------------------
(* Properties.                                                             *)

\* The timestamps behave like two stopwatches (QuizStopwatch): no window or budget
\* runs during a pause unless it is asked for twice at once, a pause cannot rescue a
\* lost question, and a question is lost or counted by its own time alone.
Watch == INSTANCE QuizStopwatch WITH
    status <- att.status,
    index  <- att.index,
    spent  <- IF InProgress THEN Elapsed ELSE 0,
    window <- IF ~InProgress THEN 0
              ELSE IF Stepped THEN EffectiveNow - att.anchor ELSE Elapsed,
    paused <- InProgress /\ Paused,
    asked  <- asking

KeepsStopwatch == Watch!Spec

\* The comment on QuizAttempt.paused_at: a paused attempt is in progress.
PausedIsOpen == Paused => InProgress

\* A pause has the row that began with it.  Unless two requests for a pause, or one
\* and the end of the attempt, overlap, the attempt is in progress and no two rows
\* overlap.
PauseIsRecorded ==
    /\ Paused => \E i \in DOMAIN pauses : pauses[i] = [start |-> att.pausedAt, end |-> None]
    /\ ~clashed =>
          /\ PausedIsOpen
          /\ \A i, j \in DOMAIN pauses :
                i < j => pauses[i].end # None /\ pauses[i].end <= pauses[j].start

\* _record_event: the row that explains an automatic failure is never crowded
\* out by the rows before it.
FailureIsExplained == att.status = "VIOLATION_FAIL" => timeline.fail

\* Whoever reads an attempt afterwards can tell what its clock did: the pauses
\* and the failure are on record.
TimelineExplains == PauseIsRecorded /\ FailureIsExplained
=============================================================================
