----------------------- MODULE MCSubmissionLifecycle -----------------------
(***************************************************************************)
(* Instances of SubmissionLifecycle for TLC.                               *)
(***************************************************************************)
EXTENDS SubmissionLifecycle

Version(mode, quiz, cap) == [mode |-> mode, quiz |-> quiz, cap |-> cap]

\* Every review mode once, the teacher-gated ones with and without a quiz.
MCAllModes ==
    <<Version("tests_only", FALSE, 0),
      Version("tests_then_ai", FALSE, 0),
      Version("tests_then_teacher", FALSE, 0),
      Version("tests_then_teacher", TRUE, 1),
      Version("tests_then_ai_then_teacher", FALSE, 0),
      Version("tests_then_ai_teacher", TRUE, 2),
      Version("tests_then_quiz", TRUE, 2),
      Version("tests_then_quiz", FALSE, 0),
      Version("tests_then_ai_then_quiz", TRUE, 1),
      Version("quiz_only", TRUE, 0),
      Version("quiz_then_teacher", TRUE, 2),
      Version("quiz_and_teacher_scores", TRUE, 1)>>

\* A config history: the AI stage gains a teacher, then the quiz replaces it,
\* then the work is graded by points.
MCHistory ==
    <<Version("tests_then_ai_then_quiz", TRUE, 1),
      Version("quiz_then_teacher", TRUE, 2),
      Version("quiz_and_teacher_scores", TRUE, 3)>>
=============================================================================
