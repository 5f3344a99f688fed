------------------------------- MODULE Outbox -------------------------------
(***************************************************************************)
(* The rows of outbox_messages that drive a submission (RUN_CHECKS and     *)
(* RUN_AI_REVIEW), as a fixed set of slots.  A FINISHED row is never read  *)
(* again, so its slot serves the next message.  MaxMessages stays below    *)
(* outbox_batch_size: one poll selects every live message.                 *)
(***************************************************************************)
EXTENDS SubmissionRows

CONSTANTS MaxUploads,    \* max_submissions of the assignment
          MaxMessages,   \* bound on unfinished messages that exist at once
          MaxRetries     \* outbox_max_retries

ASSUME OutboxAssumption ==
    /\ MaxUploads \in Nat \ {0}
    /\ MaxMessages \in Nat \ {0}
    /\ MaxRetries \in Nat \ {0}

Sids == 1 .. MaxUploads
Slots == 1 .. MaxMessages

Message == [event   : {"RUN_CHECKS", "RUN_AI_REVIEW"},
            sid     : Sids,
            next    : {"completed", "teacher", "quiz"},
            state   : {"PENDING", "ERROR", "FINISHED"},
            retries : 0 .. MaxRetries]

RunChecks(s) == [event |-> "RUN_CHECKS", sid |-> s, next |-> "completed",
                 state |-> "PENDING", retries |-> 0]

RunAiReview(s, next) == [event |-> "RUN_AI_REVIEW", sid |-> s, next |-> next,
                         state |-> "PENDING", retries |-> 0]

Finished == [RunChecks(1) EXCEPT !.state = "FINISHED"]

\* Mutant of IsLive: failed messages are not retried.
IsLiveUntried(msg) == msg.state = "PENDING" /\ msg.retries < MaxRetries

\* The poll's WHERE clause.
IsLive(msg) == msg.state # "FINISHED" /\ msg.retries < MaxRetries

\* A dead letter: its retries are used up.
IsDead(msg) == msg.state = "ERROR" /\ msg.retries = MaxRetries

IsFor(msg, event, s) == msg.state # "FINISHED" /\ msg.event = event /\ msg.sid = s

\* db.add(OutboxMessage(...)): the message in the first free slot, if any.
Put(box, msg) ==
    {[box EXCEPT ![m] = msg] :
        m \in {n \in Slots : /\ box[n].state = "FINISHED"
                             /\ \A k \in 1 .. n - 1 : box[k].state # "FINISHED"}}

\* Mutants of Marked: an exception finishes the message; a failed try is not
\* counted.
MarkedFinished(msg, o) ==
    IF o.send = {} THEN Finished
    ELSE RunAiReview(msg.sid, CHOOSE next \in o.send : TRUE)

MarkedUncounted(msg, o) ==
    IF o.ok THEN MarkedFinished(msg, o) ELSE [msg EXCEPT !.state = "ERROR"]

\* The message after its handler: mark_error, or mark_finished with its slot
\* taken by the follow-up message the handler added.  The mark stands once the
\* batch has committed.
Marked(msg, o) ==
    CASE ~o.ok -> [msg EXCEPT !.state = "ERROR", !.retries = @ + 1]
      [] o.ok /\ o.send = {} -> Finished
      [] OTHER -> RunAiReview(msg.sid, CHOOSE next \in o.send : TRUE)

\* dispatch_outbox_message: the outcomes of the handler on the loaded row.
Handle(msg, row, cur, points) ==
    IF msg.event = "RUN_CHECKS"
    THEN ExecuteCheck(row, cur, points)
    ELSE ExecuteAiReview(row, msg.next, cur, points)
=============================================================================
