------------------------ MODULE MCSubmissionSessions ------------------------
(***************************************************************************)
(* Instances of SubmissionSessions for TLC.                                *)
(***************************************************************************)
EXTENDS SubmissionSessions

Version(mode) == [mode |-> mode, quiz |-> FALSE, cap |-> 0]

\* The modes without a quiz.
MCModes == <<Version("tests_then_ai_then_teacher"), Version("tests_then_ai"),
             Version("tests_then_teacher"), Version("tests_only")>>
=============================================================================
