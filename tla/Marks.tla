------------------------------- MODULE Marks -------------------------------
(***************************************************************************)
(* The rules that turn evidence into marks, as operators: which scripts    *)
(* check a submission (services/check_core.py), which questions a student  *)
(* is shown and what an answer earns (api/routes/student_quiz.py), and the *)
(* grade (services/grading.py, services/teacher_scores.py).                *)
(*                                                                         *)
(* A score is a share of 1, the fraction n/d; d = 0 is None.  Python       *)
(* computes with floats and rounds to six places where it matters; the     *)
(* model is exact.                                                         *)
(***************************************************************************)
EXTENDS Integers, SequencesExt

CONSTANT
    Students            \* the students, as the sequence of their ids

ASSUME StudentsAssumption ==
    Students \in Seq(ToSet(Students)) /\ IsInjective(Students) /\ Len(Students) > 0

NoScript == "none"
Blank == -1             \* an empty form field, an unset grade

People == ToSet(Students)

Orders(S) == SetToSeqs(S)

\* A set of indices in increasing order.
Ascending(S) ==
    [k \in 1 .. Cardinality(S) |->
        CHOOSE i \in S : Cardinality({j \in S : j <= i}) = k]

----------------------------------------------------------------------------
(* Fractions *)

Fraction == [n : Int, d : Nat]
None == [n |-> 0, d |-> 0]
Share(n, d) == [n |-> n, d |-> d]
IsSome(f) == f.d > 0
AtLeast(f, g) == f.n * g.d >= g.n * f.d

\* _pct, without the factor 100.
Pct(score, max) == IF max > 0 THEN Share(score, max) ELSE None

Plus(f, g) == Share(f.n * g.d + g.n * f.d, f.d * g.d)

SumOf(fs) ==
    LET sum[k \in 0 .. Len(fs)] == IF k = 0 THEN Share(0, 1) ELSE Plus(sum[k - 1], fs[k])
    IN  sum[Len(fs)]

Total(ns) ==
    LET sum[k \in 0 .. Len(ns)] == IF k = 0 THEN 0 ELSE sum[k - 1] + ns[k]
    IN  sum[Len(ns)]

\* Python's round: a tie goes to the even neighbour.
HalfEven(f) ==
    LET q == f.n \div f.d
        r == 2 * (f.n % f.d)
    IN  IF r = f.d THEN q + (q % 2) ELSE IF r < f.d THEN q ELSE q + 1

HalfUp(f) == (2 * f.n + f.d) \div (2 * f.d)
Ceil(f) == (f.n + f.d - 1) \div f.d

AtMost(hi, x) == IF x > hi THEN hi ELSE x
Clamp(lo, hi, x) == IF AtMost(hi, x) < lo THEN lo ELSE AtMost(hi, x)

----------------------------------------------------------------------------
(* The check plan.  c is the assignment's section of the config: whether   *)
(* the assignment is listed, the common/variants layout or the flat one,   *)
(* the script of the sandbox block, the script of the student's variant,   *)
(* whether a validator is named; variant says that the student has one.    *)

OwnScript(c, variant) == IF variant THEN c.own ELSE NoScript

Scripts(c, variant) ==
    LET own == OwnScript(c, variant)
    IN  CASE c.nested -> <<c.base, own>>
          [] OTHER    -> <<NoScript, IF own # NoScript THEN own ELSE c.base>>

\* The script that both blocks name is run once.
WithoutRepeat(c, variant) ==
    LET s == Scripts(c, variant)
    IN  IF s[1] = s[2] THEN <<s[1], NoScript>> ELSE s

ResolveCheckPlan(c, variant) ==
    LET s     == WithoutRepeat(c, variant)
        Of(x) == IF x = NoScript THEN <<>> ELSE <<x>>
    IN  Of(s[1]) \o Of(s[2])

IsConfigError(c, variant) ==
    \/ ~c.listed
    \/ c.needsVariant /\ ~variant
    \/ ResolveCheckPlan(c, variant) = <<>>

\* run_check's verdict on what the scripts reported.
Earned(ran) == Total([i \in DOMAIN ran |-> ran[i].earned])
MaxPoints(ran) == Total([i \in DOMAIN ran |-> ran[i].max])
ChecksPassed(c, ran) ==
    MaxPoints(ran) > 0 /\ Earned(ran) * 100 >= c.minPass * MaxPoints(ran)

----------------------------------------------------------------------------
(* The quiz.  A question has a type, its options 1..size, the options      *)
(* flagged right (for ORDERING the right order), its points and whether    *)
(* it is required.                                                         *)

IsQuestion(q) ==
    /\ q.size \in Nat /\ q.points \in Int /\ q.required \in BOOLEAN
    /\ q.type = "SINGLE_CHOICE" => q.size > 0 /\ q.right \subseteq 1 .. q.size
    /\ q.type = "MULTIPLE_CHOICE" => q.right \subseteq 1 .. q.size

Supported == {"SINGLE_CHOICE", "MULTIPLE_CHOICE", "ORDERING", "TRUE_FALSE"}
Shuffled == {"SINGLE_CHOICE", "MULTIPLE_CHOICE"}

\* _build_question_config: a single choice with nothing flagged means its
\* first option.
Key(q) ==
    IF q.type # "SINGLE_CHOICE" THEN q.right
    ELSE IF q.right = {} THEN 1 ELSE Min(q.right)

\* _select_question_ids: the required ones and a slice of the optional ones.
IdsWhere(z, req) == Ascending({i \in DOMAIN z.questions :
    z.questions[i].type \in Supported /\ z.questions[i].required = req})

SelectQuestionIds(z) ==
    LET required == IdsWhere(z, TRUE)
        optional == IdsWhere(z, FALSE)
        room     == Clamp(0, Len(optional), z.send - Len(required))
    IN  IF ~z.shuffle THEN {required \o SubSeq(optional, 1, room)}
        ELSE UNION {Orders(ToSet(required) \cup T) :
                       T \in {U \in SUBSET ToSet(optional) :
                                 Cardinality(U) = room}}

\* split_draw: the required ones first, dealt in turn.
Slice(z, ids, m, k) ==
    LET Where(req) == Ascending({p \in DOMAIN ids : z.questions[ids[p]].required = req})
        dealt      == Where(TRUE) \o Where(FALSE)
    IN  [j \in 1..((Len(ids) + m - k) \div m) |-> ids[dealt[(j - 1) * m + k]]]

\* The config a member's retry draws from: as many questions as the slice,
\* required only if they were in it.
RetryConfig(z, mine) ==
    [send |-> Len(mine), shuffle |-> z.shuffle,
     questions |-> [i \in DOMAIN z.questions |->
                       [type |-> z.questions[i].type,
                        required |-> z.questions[i].required /\ i \in ToSet(mine)]]]

\* The arrangements of the options a snapshot may show: shown position ->
\* option of the config.
Arrangements(z, q) ==
    IF z.mix /\ q.type \in Shuffled THEN Orders(1..q.size)
    ELSE {[p \in 1..q.size |-> p]}

\* Mutant: the key is looked up in the arrangement the wrong way round.
SnapshotKeyForward(q, arr) ==
    CASE q.type = "SINGLE_CHOICE"   -> arr[Key(q)]
      [] q.type = "MULTIPLE_CHOICE" -> {arr[p] : p \in Key(q)}
      [] OTHER -> Key(q)

\* _snapshot_questions: the key in terms of what is shown.
SnapshotKey(q, arr) ==
    CASE q.type = "SINGLE_CHOICE" ->
             CHOOSE p \in DOMAIN arr : arr[p] = Key(q)
      [] q.type = "MULTIPLE_CHOICE" ->
             {p \in DOMAIN arr : arr[p] \in Key(q)}
      [] OTHER -> Key(q)

\* What a student may mean by an answer, in terms of the config; a blank
\* single choice is option 0.
Meanings(q) ==
    CASE q.type = "SINGLE_CHOICE"   -> 0..q.size
      [] q.type = "MULTIPLE_CHOICE" -> SUBSET (1..q.size)
      [] q.type = "ORDERING"        -> {<<>>} \cup Orders(1..q.size)
      [] q.type = "TRUE_FALSE"      -> {"true", "false", "blank"}

\* The form value that says it, in terms of what is shown.
Posted(q, arr, meaning) ==
    CASE q.type = "SINGLE_CHOICE" /\ meaning # 0 ->
             CHOOSE p \in DOMAIN arr : arr[p] = meaning
      [] q.type = "MULTIPLE_CHOICE" ->
             {p \in DOMAIN arr : arr[p] \in meaning}
      [] OTHER -> meaning

\* _grade_answer.  A blank true/false reads as false.
GradeAnswer(q, key, posted) ==
    LET right == IF q.type = "TRUE_FALSE" /\ posted = "blank"
                 THEN key = "false" ELSE posted = key
    IN  IF right THEN q.points ELSE 0

\* score_attempt.
IsPassed(z, score, max, forced) ==
    ~forced /\ max > 0 /\ score * 100 >= z.threshold * max

----------------------------------------------------------------------------
(* The grade.  g is the assignment's grading block with its grade range.   *)

GradingBlock ==
    [min : Nat, max : Nat, code : Int, quiz : Int, works : Int, quality : Int,
     quizPoints : Nat, criteria : Seq([max : Nat \ {0}, optional : BOOLEAN])]

\* Mutant: a component that earned nothing counts as missing.
IsPresentTruthy(p) == IsSome(p.value) /\ p.value.n > 0 /\ p.weight > 0

\* _blend: the weighted mean of the components that have a value.
IsPresent(p) == IsSome(p.value) /\ p.weight > 0

WeightOf(p) == IF IsPresent(p) THEN p.weight ELSE 0
Weighted(p) == IF IsPresent(p) THEN Share(p.value.n * p.weight, p.value.d) ELSE Share(0, 1)

Blend(p, q) ==
    LET weight == WeightOf(p) + WeightOf(q)
        sum    == Plus(Weighted(p), Weighted(q))
    IN  IF weight = 0 THEN None ELSE Share(sum.n, sum.d * weight)

Pair(value, weight) == [value |-> value, weight |-> weight]

\* compute_grade: blend, scale into the range, round, clamp.
ComputeGrade(g, works, mark, quiz, roundUp) ==
    LET code    == Blend(Pair(works, g.works), Pair(mark, g.quality))
        blended == Blend(Pair(code, g.code), Pair(quiz, g.quiz))
        norm    == IF IsSome(blended) THEN blended ELSE Share(0, 1)
        scaled  == Share(g.min * norm.d + (g.max - g.min) * norm.n, norm.d)
    IN  Clamp(g.min, g.max, IF roundUp THEN Ceil(scaled) ELSE HalfEven(scaled))

\* validate_assignment: the points add up to the range.
ValidAssignment(g) ==
    g.quizPoints + Total([i \in DOMAIN g.criteria |-> g.criteria[i].max])
        = g.max - g.min

\* parse_form: every field is empty or within its maximum, or the form is
\* refused.
ParseForm(g, form) ==
    \A i \in DOMAIN g.criteria : form[i] <= g.criteria[i].max

IsComplete(g, scores) ==
    \A i \in DOMAIN g.criteria : g.criteria[i].optional \/ scores[i] # Blank

QuizPointsFor(g, quiz, roundUp) ==
    LET raw == Share(quiz.n * g.quizPoints, quiz.d)
    IN  IF roundUp THEN Ceil(raw) ELSE HalfUp(raw)

\* teacher_scores.compute.
ComputeScored(g, quiz, scores, roundUp) ==
    Clamp(g.min, g.max,
          g.min + QuizPointsFor(g, quiz, roundUp)
          + Total([i \in DOMAIN g.criteria |-> IF scores[i] = Blank THEN 0 ELSE scores[i]]))

\* squad_quiz_pct: the mean of the members' best passed attempts.
SquadQuizPct(passed) ==
    LET Of(s)   == {a \in passed : a.student = s}
        Best(s) == CHOOSE a \in Of(s) : \A b \in Of(s) : AtLeast(a.pct, b.pct)
        sat     == {s \in People : Of(s) # {}}
        sum     == SumOf([i \in DOMAIN Students |->
                       IF Students[i] \in sat THEN Best(Students[i]).pct ELSE Share(0, 1)])
    IN  IF sat = {} THEN None ELSE Share(sum.n, sum.d * Cardinality(sat))
=============================================================================
