------------------------------ MODULE MCGrades ------------------------------
(***************************************************************************)
(* Instances of Grades for TLC: configurations chosen so that every rule   *)
(* has a case.                                                             *)
(***************************************************************************)
EXTENDS Grades

Q(type, size, right, points, required) ==
    [type |-> type, size |-> size, right |-> right, points |-> points,
     required |-> required]

Quiz(questions, send, shuffle, mix, threshold) ==
    [questions |-> questions, send |-> send, shuffle |-> shuffle, mix |-> mix,
     threshold |-> threshold]

NoQuiz == Quiz(<<>>, 0, FALSE, FALSE, 60)

Check(listed, nested, base, own, needsVariant, validate, minPass) ==
    [listed |-> listed, nested |-> nested, base |-> base, own |-> own,
     needsVariant |-> needsVariant, validate |-> validate, minPass |-> minPass]

Points(quizPoints, criteria, min, max) ==
    [quizPoints |-> quizPoints, criteria |-> criteria, min |-> min, max |-> max,
     code |-> 1, quiz |-> 0, works |-> 1, quality |-> 0]

Weights(code, quiz, works, quality, min, max) ==
    [Points(0, <<>>, min, max) EXCEPT !.code = code, !.quiz = quiz,
                                      !.works = works, !.quality = quality]

Criterion(max, optional) == [max |-> max, optional |-> optional]

Cfg(mode, chk, variant, quiz, g, cap, maxSubs, squad) ==
    [mode |-> mode, maxSubs |-> maxSubs, check |-> chk, variant |-> variant, quiz |-> quiz,
     g |-> g, cap |-> cap, squad |-> squad]

Plain == Check(TRUE, TRUE, "common", NoScript, FALSE, FALSE, 50)

Single == Q("SINGLE_CHOICE", 3, {2}, 2, FALSE)
Several == Q("MULTIPLE_CHOICE", 3, {1, 3}, 1, TRUE)
YesNo == Q("TRUE_FALSE", 1, "true", 1, TRUE)
Unflagged == Q("SINGLE_CHOICE", 2, {}, 1, FALSE)
Order == Q("ORDERING", 2, <<2, 1>>, 1, FALSE)
TrueFalse == Q("TRUE_FALSE", 1, "false", 1, FALSE)
Old == Q("SHORT_ANSWER", 1, "text", 1, TRUE)

\* Check sections: both layouts, with and without a variant, the same script
\* in both blocks, and the three misconfigurations.
CheckSections ==
    {Cfg("tests_only", c, v, NoQuiz, Weights(1, 0, 1, 0, 0, 5), 1, 2, FALSE) :
        v \in BOOLEAN,
        c \in {Check(TRUE, TRUE, "common", "own", FALSE, FALSE, 100),
               Check(TRUE, TRUE, "common", "common", FALSE, TRUE, 60),
               Check(TRUE, FALSE, "common", "own", FALSE, FALSE, 60),
               Check(TRUE, TRUE, NoScript, "own", TRUE, FALSE, 50),
               Check(TRUE, TRUE, NoScript, NoScript, FALSE, FALSE, 50),
               Check(FALSE, TRUE, "common", "own", FALSE, FALSE, 50)}}

\* Blends: all components, without the AI, squads, a weight of zero.
Blends ==
    {Cfg("tests_then_ai_then_quiz", Plain, FALSE,
         Quiz(<<TrueFalse, YesNo>>, 1, TRUE, TRUE, 30),
         Weights(2, 1, 2, 1, 1, 10), 1, 1, FALSE),
     Cfg("tests_then_quiz", Plain, FALSE,
         Quiz(<<Single, Several>>, 2, FALSE, TRUE, 30),
         Weights(0, 1, 1, 0, 1, 10), 1, 1, FALSE),
     Cfg("tests_then_quiz", Plain, FALSE,
         Quiz(<<Order, TrueFalse, Old>>, 2, TRUE, TRUE, 0),
         Weights(1, 1, 1, 0, 2, 5), 2, 2, FALSE),
     Cfg("tests_then_quiz", Plain, FALSE,
         Quiz(<<Unflagged, TrueFalse, YesNo>>, 3, FALSE, FALSE, 30),
         Weights(1, 2, 1, 1, 0, 12), 2, 1, TRUE),
     Cfg("tests_then_quiz", Plain, FALSE,
         Quiz(<<Unflagged, TrueFalse, YesNo>>, 3, TRUE, FALSE, 50),
         Weights(1, 1, 1, 0, 0, 7), 1, 1, TRUE),
     Cfg("tests_then_ai", Plain, FALSE, NoQuiz,
         Weights(1, 0, 0, 0, 1, 3), 1, 1, FALSE)}

\* Points of the teacher: for one, for a squad, and a block that does not
\* add up.
PointBlocks ==
    {Cfg("quiz_and_teacher_scores", Plain, FALSE,
         Quiz(<<TrueFalse, YesNo>>, 2, FALSE, TRUE, 50),
         Points(n, <<Criterion(1, FALSE), Criterion(1, TRUE)>>, 1, 8), 1, 2, squad) :
        squad \in BOOLEAN, n \in {4, 5}}

MCStudents == <<"ann", "bob">>

MCConfigs == CheckSections \cup Blends \cup PointBlocks

MCReports == {[earned |-> 0, max |-> 0], [earned |-> 0, max |-> 1],
              [earned |-> 1, max |-> 2], [earned |-> 2, max |-> 2]}

MCAiMarks == {None, Share(0, 1), Share(3, 4), Share(1, 1)}

Behaved(secs, switches, other, forced) ==
    [secs |-> secs, switches |-> switches, other |-> other, forced |-> forced]

MCConducts == {Behaved(10, 0, 0, FALSE), Behaved(1, 3, 1, TRUE)}
=============================================================================
