----------------------------- MODULE Gradebook -----------------------------
(***************************************************************************)
(* What the teacher's pages read off the tables (services/gradebook.py),   *)
(* as operators of a snapshot t of one assignment's tables:                *)
(*   t.subs      the submissions in order of created_at: by, status        *)
(*   t.attempts  the finished quiz attempts in order of started_at: sub,   *)
(*               student, passed, conduct                                  *)
(*   t.grade     the grade on each student's row, Blank for NULL           *)
(*   t.squad     whether the students are one squad                        *)
(*   t.min       the assignment's min_grade                                *)
(* The stat cards and the grid are computed by different code from         *)
(* different queries.                                                      *)
(***************************************************************************)
EXTENDS Marks

Terminal == {"COMPLETED", "FAILED"}
NoStatus == "NONE"

StatusAt(t, i) == IF i = 0 THEN NoStatus ELSE t.subs[i].status

\* The latest submission on the student's own row, 0 if there is none.
OwnLatest(t, s) == SelectLastInSeq(t.subs, LAMBDA r : r.by = s)

\* squads.shared_submissions: the squad's latest, for every member.
SharedLatest(t) == IF t.squad THEN Len(t.subs) ELSE 0

\* fetch_roster_rows: what the stat cards know of a student.
RosterRow(t, s) == [grade |-> t.grade[s], status |-> StatusAt(t, OwnLatest(t, s))]

\* fetch_grid_rows: a student without a submission shows the squad's; one
\* who has passed while the squad's quiz is open waits for the others.
GridStatus(t, s) ==
    LET own == StatusAt(t, OwnLatest(t, s))
    IN  IF own = NoStatus THEN StatusAt(t, SharedLatest(t)) ELSE own

\* squads._passed_student_ids for submission i.
PassedIds(t, i) == {a.student : a \in {x \in ToSet(t.attempts) : x.sub = i /\ x.passed}}

IsWaiting(t, s) ==
    /\ SharedLatest(t) > 0
    /\ GridStatus(t, s) = "QUIZ_SENT"
    /\ s \in PassedIds(t, SharedLatest(t))

\* cell_status
CellStatus(grade, min, status) ==
    CASE grade # Blank -> IF grade >= min THEN "passed" ELSE "failed"
      [] grade = Blank /\ status \notin Terminal \cup {NoStatus} -> "pending"
      [] OTHER -> "not_submitted"

\* build_student_grid
Cell(t, s) ==
    IF IsWaiting(t, s) THEN "waiting_partner"
    ELSE CellStatus(t.grade[s], t.min, GridStatus(t, s))

----------------------------------------------------------------------------
(* The student's own pages: api/routes/student_portal.py. *)

\* squads.latest_submission_for: the latest of the student or of their squad.
ScopeLatest(t, s) == SelectLastInSeq(t.subs, LAMBDA r : t.squad \/ r.by = s)

\* The list of assignments, the assignment's page and its poll.
PageStatus(t, s) == StatusAt(t, ScopeLatest(t, s))

\* student_summary: the student's own latest, unless the squad has one.
SummaryStatus(t, s) ==
    StatusAt(t, IF t.squad /\ ScopeLatest(t, s) > 0 THEN ScopeLatest(t, s)
                ELSE OwnLatest(t, s))

\* assignments_list: whom a member who has passed is told to wait for.
WaitingFor(t, s) ==
    LET passed == PassedIds(t, ScopeLatest(t, s))
    IN  IF t.squad /\ PageStatus(t, s) = "QUIZ_SENT" /\ s \in passed
        THEN People \ passed ELSE {}

----------------------------------------------------------------------------
(* Integrity: the latest finished attempt of each student. *)

\* Mutant: a squad-mate's attempt counts as the uploader's.
AttemptOwnerUploader(t, a) == t.subs[a.sub].by

\* coalesce(attempt.student_id, student_assignment.student_id)
AttemptOwner(t, a) == a.student

Integrity(t, s) == SelectLastInSeq(t.attempts, LAMBDA a : AttemptOwner(t, a) = s)

Judged(t) == {s \in People : Integrity(t, s) > 0}

Conduct(t, s) == t.attempts[Integrity(t, s)].conduct

\* median_duration, rounded as Python rounds.
MedianDuration(t) ==
    LET secs == SetToSortSeq({<<Conduct(t, s).secs, s>> : s \in Judged(t)},
                             LAMBDA x, y : x[1] < y[1])
        n    == Len(secs)
    IN  HalfEven(Share(secs[(n + 1) \div 2][1] + secs[(n + 2) \div 2][1], 2))

DurationAnomalous(t, s) ==
    MedianDuration(t) > 0 /\ 10 * Conduct(t, s).secs < 3 * MedianDuration(t)

\* severity_for: any switch or blur, or a forced failure.
HasSeverity(c) == c.forced \/ c.switches > 0

IsFlagged(t, s) ==
    HasSeverity(Conduct(t, s)) \/ DurationAnomalous(t, s) \/ Conduct(t, s).other > 0

----------------------------------------------------------------------------
(* compute_cached_stats: the numbers of the cards, as counts. *)

Graded(t) == {s \in People : RosterRow(t, s).grade # Blank}

IsPending(r) == r.grade = Blank /\ r.status \notin Terminal \cup {NoStatus}

CachedStats(t) ==
    [pending |-> Cardinality({s \in People : IsPending(RosterRow(t, s))}),
     marks   |-> MapThenSumSet(LAMBDA s : RosterRow(t, s).grade, Graded(t)),
     graded  |-> Cardinality(Graded(t)),
     passed  |-> Cardinality({s \in Graded(t) : RosterRow(t, s).grade >= t.min}),
     judged  |-> Cardinality(Judged(t)),
     flagged |-> Cardinality({s \in Judged(t) : IsFlagged(t, s)})]
=============================================================================
