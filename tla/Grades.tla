------------------------------ MODULE Grades -------------------------------
(***************************************************************************)
(* One assignment of two or more students, from the upload to the grade    *)
(* and the gradebook, with the marks computed: the scripts of the check    *)
(* plan, the draw and the shuffled options of the quiz, the answers, the   *)
(* teacher's points, the grade.  SubmissionLifecycle has the pipeline's    *)
(* failures, retries and controls; here the pipeline goes straight and the *)
(* data is real.                                                           *)
(*                                                                         *)
(* cfg       the assignment's configuration, fixed                         *)
(* subs      the submissions: by, status, tests, mark, draw                *)
(* check     the check under way: the scripts left, the reports of those   *)
(*           that ran                                                      *)
(* sheet     the attempt in progress: student, ids, arrs (how the options  *)
(*           are arranged), meant (what the answers given mean), points    *)
(* attempts  the finished attempts                                         *)
(* scores    teacher_scores of each student's row                          *)
(* grade     the grade of each student's row                               *)
(***************************************************************************)
EXTENDS Gradebook

CONSTANTS
    Configs,        \* the configurations considered
    Reports,        \* what a script may report: earned and max
    AiMarks,        \* code marks of the AI, None among them
    Conducts,       \* what may be recorded of an attempt
    MaxField,       \* the largest number typed into a field
    MaxUploads      \* bound: submissions, the next when the last has ended

\* A key names options of its question, and the range is one.
IsConfig(c) ==
    /\ c.g \in GradingBlock /\ c.g.min <= c.g.max
    /\ c.squad \in BOOLEAN /\ c.variant \in BOOLEAN
    /\ c.check.nested \in BOOLEAN
    /\ c.quiz.send \in Int /\ c.quiz.shuffle \in BOOLEAN
    /\ Len(c.quiz.questions) \in Nat
    /\ DOMAIN c.quiz.questions = 1 .. Len(c.quiz.questions)
    /\ \A i \in DOMAIN c.quiz.questions : IsQuestion(c.quiz.questions[i])

ASSUME GradesAssumption ==
    /\ Reports \subseteq [earned : Int, max : Int] /\ AiMarks \subseteq Fraction
    /\ MaxField \in Nat /\ MaxUploads \in Nat
    /\ \A c \in Configs : IsConfig(c)

VARIABLES cfg, subs, check, sheet, attempts, scores, grade

vars == <<cfg, subs, check, sheet, attempts, scores, grade>>

NoSheet == [student |-> NoScript, ids |-> <<>>, arrs |-> <<>>,
            meant |-> <<>>, points |-> <<>>]
NoCheck == [left |-> <<>>, ran |-> <<>>]

Now == Len(subs)
Current == subs[Now]
IsAt(status) == Now > 0 /\ Current.status = status

\* Where the pipeline leaves a submission.  The gradebook calls only two of
\* these terminal.
Ended == Terminal \cup {"VALIDATION_FAILED", "TEST_FAILED"}

\* Whom a submission covers, and whose rows an upload or points touch.
Covered(s) == IF cfg.squad THEN People ELSE {s}

Question(i) == cfg.quiz.questions[i]
SendsQuiz == cfg.mode \in {"tests_then_quiz", "tests_then_ai_then_quiz"}
WithAi == cfg.mode \in {"tests_then_ai", "tests_then_ai_then_quiz"}
Scored == cfg.mode = "quiz_and_teacher_scores"

PassedOf(att, i) == {a \in ToSet(att) : a.sub = i /\ a.passed}

\* config_apply takes a scored assignment only if its points add up.
Init ==
    /\ cfg \in {c \in Configs : c.mode = "quiz_and_teacher_scores"
                                    => ValidAssignment(c.g)}
    /\ subs = <<>> /\ check = NoCheck /\ sheet = NoSheet /\ attempts = <<>>
    /\ scores = [s \in People |-> [i \in DOMAIN cfg.g.criteria |-> Blank]]
    /\ grade = [s \in People |-> Blank]

----------------------------------------------------------------------------
(* Grading *)

\* finalize_grade's quiz part: the passed attempt, in a squad the mean.
QuizPct(sub, att) ==
    LET passed == PassedOf(att, sub)
    IN  IF cfg.squad THEN SquadQuizPct(passed)
        ELSE IF passed = {} THEN None ELSE (CHOOSE a \in passed : TRUE).pct

Evidence(sub, row, att, pts) ==
    [works |-> row.tests, mark |-> row.mark, quiz |-> QuizPct(sub, att),
     points |-> pts]

\* finalize_grade: the grade the evidence is worth.
GradeOf(e) ==
    IF Scored THEN ComputeScored(cfg.g, e.quiz, e.points, cfg.squad)
    ELSE ComputeGrade(cfg.g, e.works, e.mark, e.quiz, cfg.squad)

\* Submission i goes to status; a grade is written for all it
\* covers if it is COMPLETED and, in scored mode, both halves are in.
SettleAt(i, row, status, att, scr) ==
    LET e     == Evidence(i, row, att, scr[row.by])
        there == status = "COMPLETED"
                 /\ (Scored => IsSome(e.quiz) /\ IsComplete(cfg.g, e.points))
    IN  /\ subs' = [subs EXCEPT ![i] = [row EXCEPT !.status = status]]
        /\ grade' = [s \in People |->
               IF there /\ s \in Covered(row.by) THEN GradeOf(e) ELSE grade[s]]

Settle(row, status, att, scr) == SettleAt(Now, row, status, att, scr)

\* Where a submission goes once tests and AI have let it through.
AfterReview == IF SendsQuiz THEN "QUIZ_SENT" ELSE "COMPLETED"

----------------------------------------------------------------------------
(* Upload and checks *)

\* submit_assignment.  A scored assignment opens its quiz at once.
Upload(s) ==
    /\ Now < MaxUploads
    /\ Now > 0 => Current.status \in Ended
    /\ \A i \in 1..Now : subs[i].by \in Covered(s)
                         => subs[i].status # "COMPLETED"
    /\ Cardinality({i \in 1..Now : subs[i].by \in Covered(s)}) < cfg.maxSubs
    /\ subs' = Append(subs, [by |-> s, tests |-> None, mark |-> None,
                             draw |-> <<>>,
                             status |-> IF Scored THEN "QUIZ_SENT" ELSE "PENDING"])
    /\ check' = NoCheck
    /\ UNCHANGED <<cfg, sheet, attempts, scores, grade>>

\* The plan is resolved and the validator, if there is one, says yes or no.
StartCheck(ok) ==
    /\ IsAt("PENDING")
    /\ ~ok => cfg.check.validate
    /\ IF IsConfigError(cfg.check, cfg.variant) \/ ~ok
       THEN /\ Settle(Current, "VALIDATION_FAILED", attempts, scores)
            /\ check' = check
       ELSE /\ Settle(Current, "VALIDATING", attempts, scores)
            /\ check' = [left |-> ResolveCheckPlan(cfg.check, cfg.variant),
                         ran |-> <<>>]
    /\ UNCHANGED <<cfg, sheet, attempts, scores>>

\* _run_one_check returns the script's tests ...
RunScript(r) ==
    /\ IsAt("VALIDATING") /\ check.left # <<>>
    /\ check' = [left |-> Tail(check.left),
                 ran |-> Append(check.ran, [script |-> Head(check.left),
                                            earned |-> r.earned,
                                            max |-> r.max])]
    /\ UNCHANGED <<cfg, subs, sheet, attempts, scores, grade>>

\* ... or raises: exit code, missing or malformed result.json.
ScriptBreaks ==
    /\ IsAt("VALIDATING") /\ check.left # <<>>
    /\ Settle(Current, "VALIDATION_FAILED", attempts, scores)
    /\ UNCHANGED <<cfg, check, sheet, attempts, scores>>

\* The end of run_check and the routing by mode.
DecideChecks ==
    LET row == [Current EXCEPT
                   !.tests = Pct(Earned(check.ran), MaxPoints(check.ran))]
    IN  /\ IsAt("VALIDATING") /\ check.left = <<>>
        /\ Settle(row, IF ~ChecksPassed(cfg.check, check.ran) THEN "TEST_FAILED"
                       ELSE IF WithAi THEN "AWAITING_AI_REVIEW"
                       ELSE AfterReview, attempts, scores)
        /\ UNCHANGED <<cfg, check, sheet, attempts, scores>>

\* A clean verdict, with or without a code mark.
AiReview(mark) ==
    /\ IsAt("AWAITING_AI_REVIEW")
    /\ Settle([Current EXCEPT !.mark = mark], AfterReview, attempts, scores)
    /\ UNCHANGED <<cfg, check, sheet, attempts, scores>>

----------------------------------------------------------------------------
(* The quiz *)

Used(s) == Cardinality({i \in DOMAIN attempts :
                           attempts[i].sub = Now /\ attempts[i].student = s})

Place(s) == CHOOSE i \in DOMAIN Students : Students[i] = s

\* The shared draw of a squad, made by whoever opens the quiz first.
Draws == IF ~cfg.squad \/ Current.draw # <<>> THEN {Current.draw}
         ELSE SelectQuestionIds(cfg.quiz)

\* The ids an attempt may show, given the squad's draw.
IdsFor(s, draw) ==
    LET mine == Slice(cfg.quiz, draw, Len(Students), Place(s))
    IN  IF ~cfg.squad THEN SelectQuestionIds(cfg.quiz)
        ELSE IF Used(s) > 0 THEN SelectQuestionIds(RetryConfig(cfg.quiz, mine))
        ELSE IF cfg.quiz.shuffle THEN Orders(ToSet(mine)) ELSE {mine}

OpenAttempt(s) ==
    /\ IsAt("QUIZ_SENT") /\ sheet = NoSheet
    /\ s \in Covered(Current.by)
    /\ Used(s) < cfg.cap
    /\ ~\E a \in PassedOf(attempts, Now) : a.student = s
    /\ \E draw \in Draws : \E ids \in IdsFor(s, draw) :
         \E arrs \in [DOMAIN ids -> UNION {Arrangements(cfg.quiz, Question(i)) :
                                              i \in ToSet(ids)}] :
             /\ \A k \in DOMAIN ids :
                   arrs[k] \in Arrangements(cfg.quiz, Question(ids[k]))
             /\ sheet' = [NoSheet EXCEPT !.student = s, !.ids = ids, !.arrs = arrs]
             /\ subs' = [subs EXCEPT ![Now].draw = draw]
    /\ UNCHANGED <<cfg, check, attempts, scores, grade>>

\* answer_question: the next question, graded against the snapshot.
AnswerQuestion ==
    LET k == Len(sheet.points) + 1
        q == Question(sheet.ids[k])
    IN  /\ sheet # NoSheet /\ k <= Len(sheet.ids)
        /\ \E meaning \in Meanings(q) :
              sheet' = [sheet EXCEPT
                  !.meant  = Append(@, meaning),
                  !.points = Append(@, GradeAnswer(q, SnapshotKey(q, sheet.arrs[k]),
                                           Posted(q, sheet.arrs[k], meaning)))]
        /\ UNCHANGED <<cfg, subs, check, attempts, scores, grade>>

\* _grade_and_finalize: score, record, and move the submission if the quiz
\* is over for everybody it covers.
FinishAttempt(conduct) ==
    LET s      == sheet.student
        score  == Total(sheet.points)
        max    == Total([k \in DOMAIN sheet.ids |-> Question(sheet.ids[k]).points])
        passed == IsPassed(cfg.quiz, score, max, conduct.forced)
        att    == Append(attempts, [sub |-> Now, student |-> s, passed |-> passed,
                                    pct |-> Pct(score, max), conduct |-> conduct])
        over   == \A p \in Covered(Current.by) :
                     \E a \in PassedOf(att, Now) : a.student = p
        status == CASE passed /\ ~over -> "QUIZ_SENT"
                    [] passed /\ over  ->
                          IF Scored /\ ~IsComplete(cfg.g, scores[Current.by])
                          THEN "AWAITING_TEACHER_REVIEW" ELSE "COMPLETED"
                    [] ~passed -> IF Used(s) + 1 >= cfg.cap THEN "FAILED"
                                  ELSE "QUIZ_SENT"
    IN  /\ sheet # NoSheet
        /\ attempts' = att
        /\ sheet' = NoSheet
        /\ Settle(Current, status, att, scores)
        /\ UNCHANGED <<cfg, check, scores>>

----------------------------------------------------------------------------
(* The teacher's points *)

\* Complete points end the review, or grade a completed work again.
AfterScores(i, scr) ==
    IF i > 0 /\ subs[i].status \in {"AWAITING_TEACHER_REVIEW", "COMPLETED"}
    THEN SettleAt(i, subs[i], "COMPLETED", attempts, scr)
    ELSE UNCHANGED <<subs, grade>>

\* teacher_save_scores for student s; form holds one field per criterion.
SaveScores(s, form) ==
    LET i   == SelectLastInSeq(subs, LAMBDA r : r.by \in Covered(s))
        scr == [p \in People |-> IF p \in Covered(s) THEN form ELSE scores[p]]
    IN  /\ Scored /\ ParseForm(cfg.g, form)
        /\ scores' = scr
        /\ IF IsComplete(cfg.g, form) THEN AfterScores(i, scr)
           ELSE /\ i > 0 => subs[i].status # "COMPLETED"
                /\ UNCHANGED <<subs, grade>>
        /\ UNCHANGED <<cfg, check, sheet, attempts>>

Forms == [DOMAIN cfg.g.criteria -> Blank..MaxField]

Next ==
    \/ \E s \in People : Upload(s)
    \/ \E ok \in BOOLEAN : StartCheck(ok)
    \/ \E r \in Reports : RunScript(r)
    \/ ScriptBreaks
    \/ DecideChecks
    \/ \E mark \in AiMarks : AiReview(mark)
    \/ \E s \in People : OpenAttempt(s)
    \/ AnswerQuestion
    \/ \E c \in Conducts : FinishAttempt(c)
    \/ \E s \in People : \E form \in Forms : SaveScores(s, form)

Spec == Init /\ [][Next]_vars
----------------------------------------------------------------------------
(* Properties *)

\* The scripts that are to check the student's work, read off the config.
Named ==
    LET own == IF cfg.variant THEN cfg.check.own ELSE NoScript
    IN  (IF cfg.check.nested THEN {cfg.check.base, own}
         ELSE IF own = NoScript THEN {cfg.check.base} ELSE {own}) \ {NoScript}

(***************************************************************************)
(* EachScriptCountsOnce: the tests a submission is judged and graded by    *)
(* are those of every script the config names for the student, each once:  *)
(* a script named in the common and in the variant block, or in a flat     *)
(* config and overridden, is not counted twice                             *)
(* (check_core.resolve_check_plan, run_check).                             *)
(***************************************************************************)
EachScriptCountsOnce ==
    LET scripts == [i \in DOMAIN check.ran |-> check.ran[i].script]
    IN  /\ IsInjective(scripts)
        /\ Now > 0 /\ IsSome(Current.tests) =>
              /\ ToSet(scripts) = Named
              /\ Current.tests.n = Earned(check.ran)
              /\ Current.tests.d = MaxPoints(check.ran)

\* What an answer is worth by the config alone, however it was shown.
Worth(q, meaning) ==
    LET said == IF q.type = "TRUE_FALSE" /\ meaning = "blank" THEN "false"
                ELSE meaning
    IN  IF said = Key(q) THEN q.points ELSE 0

(***************************************************************************)
(* ShuffleKeepsTheKey: an answer earns what it is worth in the config,     *)
(* whichever questions were drawn, in whichever order, and however their   *)
(* options were shuffled; nobody is shown a question twice or one of an    *)
(* unsupported type (student_quiz._snapshot_questions, _grade_answer).     *)
(***************************************************************************)
ShuffleKeepsTheKey ==
    /\ IsInjective(sheet.ids)
    /\ \A i \in ToSet(sheet.ids) : Question(i).type \in Supported
    /\ \A k \in DOMAIN sheet.points :
          sheet.points[k] = Worth(Question(sheet.ids[k]), sheet.meant[k])

\* What the grade is computed from is what the config says: each script and each
\* question once, and each answer at its worth.
EvidenceIsExact == EachScriptCountsOnce /\ ShuffleKeepsTheKey

\* A component of the evidence, replaced by another value if it is there.
Variants(f) == IF IsSome(f) THEN {f, Share(0, 1), Share(1, 2), Share(1, 1)}
               ELSE {None}

\* Evidence that differs in the scores, with the same components there.
Alternatives(e) ==
    [works : Variants(e.works), mark : Variants(e.mark), quiz : Variants(e.quiz),
     points : {e.points, [i \in DOMAIN e.points |-> 0],
               [i \in DOMAIN e.points |-> cfg.g.criteria[i].max]}]

NotWorse(e, f) ==
    /\ AtLeast(e.works, f.works) /\ AtLeast(e.mark, f.mark) /\ AtLeast(e.quiz, f.quiz)
    /\ \A i \in DOMAIN e.points : e.points[i] >= f.points[i]

IsFull(e) ==
    /\ \A f \in {e.works, e.mark, e.quiz} : IsSome(f) => f.n = f.d
    /\ \A i \in DOMAIN e.points : e.points[i] = cfg.g.criteria[i].max

\* Some component counts: with none the grade is the floor.
Counts(e) ==
    \/ Scored
    \/ cfg.g.quiz > 0 /\ IsSome(e.quiz)
    \/ cfg.g.code > 0 /\ cfg.g.works > 0 /\ IsSome(e.works)
    \/ cfg.g.code > 0 /\ cfg.g.quality > 0 /\ IsSome(e.mark)

(***************************************************************************)
(* GradeIsFair: the grade of a COMPLETED work stands for the evidence as   *)
(* it is now, points saved since then included: worse evidence would not   *)
(* have given more and better evidence not less, full marks give the       *)
(* maximum whichever components are missing, and all whom the work covers  *)
(* have the same grade (grading.compute_grade, teacher_scores.compute,     *)
(* finalize_grade).                                                        *)
(***************************************************************************)
GradeIsFair ==
    \A i \in 1..Now : subs[i].status = "COMPLETED" =>
        LET e == Evidence(i, subs[i], attempts, scores[subs[i].by])
        IN  \A s \in Covered(subs[i].by) :
              /\ \A f \in Alternatives(e) :
                    /\ NotWorse(f, e) => GradeOf(f) >= grade[s]
                    /\ NotWorse(e, f) => GradeOf(f) <= grade[s]
              /\ IsFull(e) /\ Counts(e) => grade[s] = cfg.g.max

Tables == [subs |-> subs, attempts |-> attempts, grade |-> grade,
           squad |-> cfg.squad, min |-> cfg.g.min]

(***************************************************************************)
(* BooksAgree: the stat cards and the grid, computed apart, tell one       *)
(* story: as many students passed as cells say so, a student counted as    *)
(* pending is shown as pending or waiting for a partner, a graded one      *)
(* never as waiting; and the conduct held against a student is that of     *)
(* their own last attempt (gradebook.compute_cached_stats,                 *)
(* build_student_grid, fetch_integrity_rows).  The student's pages agree   *)
(* with each other, with the grid on a cell that waits for a partner, and  *)
(* a student who waits does so for somebody (student_portal).              *)
(***************************************************************************)
BooksAgree ==
    LET t == Tables
    IN  /\ CachedStats(t).passed
              = Cardinality({s \in People : Cell(t, s) = "passed"})
        /\ CachedStats(t).pending
              <= Cardinality({s \in People : Cell(t, s) \in
                                 {"pending", "waiting_partner"}})
        /\ \A s \in People : IsPending(RosterRow(t, s)) =>
              Cell(t, s) \in {"pending", "waiting_partner"}
        /\ \A s \in People :
              LET sat == {i \in DOMAIN attempts : attempts[i].student = s}
              IN  Integrity(t, s) = IF sat = {} THEN 0 ELSE Max(sat)
        /\ \A s \in People :
              /\ SummaryStatus(t, s) = PageStatus(t, s)
              /\ PageStatus(t, s) = "COMPLETED" => Cell(t, s) = "passed"
              /\ Cell(t, s) = "waiting_partner" => WaitingFor(t, s) # {}
=============================================================================
