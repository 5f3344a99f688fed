------------------------------- MODULE Mailer -------------------------------
(***************************************************************************)
(* The outbox as the mail handlers see it.  A handler sends outside the    *)
(* transaction that records what became of it: one commit ends a batch,    *)
(* and what was mailed before a failure or a crash stays mailed.           *)
(***************************************************************************)
EXTENDS Naturals, Sequences, FiniteSets

CONSTANTS MaxMessages,   \* bound on rows of outbox_messages
          MaxRetries,    \* outbox_max_retries
          NChannels,     \* mail channels that are configured
          MaxCrashes,    \* bound on deaths of the worker
          NoSecret       \* no secret in the payload, or a redacted one

ASSUME MailerAssumption ==
    /\ MaxMessages \in Nat /\ MaxRetries \in Nat \ {0}
    /\ NChannels \in Nat \ {0} /\ MaxCrashes \in Nat

VARIABLES box,      \* outbox_messages in the order of created_at
          batch,    \* the poll under way: ids left, and its copy of the rows
          sent,     \* <<message, recipient, channel>>: mail handed to a channel
          crashes

mail == <<box, batch, sent, crashes>>

Channels == 1 .. NChannels
Ids == DOMAIN box
NoBatch == [on |-> FALSE, left |-> {}, rows |-> <<>>]

\* A message for one student; rung are the in-app notices and skipped the
\* suppressed mails of its handler, committed together with its state.
New(event, who, secret) ==
    [event |-> event, who |-> who, secret |-> secret, state |-> "PENDING",
     retries |-> 0, rung |-> {}, skipped |-> {}]

MailInit == box = <<>> /\ batch = NoBatch /\ sent = {} /\ crashes = 0

\* The orders a query may return a set of students in.
Orders(S) == {f \in [1 .. Cardinality(S) -> S] : \A a \in S : \E n \in DOMAIN f : f[n] = a}

\* db.add(OutboxMessage(...)) for each of msgs, in the caller's transaction.
Enqueue(msgs) ==
    /\ Len(box) + Len(msgs) <= MaxMessages
    /\ box' = box \o msgs

IsLive(msg) == msg.state # "FINISHED" /\ msg.retries < MaxRetries

\* process_outbox_messages selects and loads.
Poll ==
    /\ ~batch.on
    /\ LET live == {i \in Ids : IsLive(box[i])} IN
       /\ live # {}
       /\ batch' = [on |-> TRUE, left |-> live, rows |-> [i \in live |-> box[i]]]
    /\ UNCHANGED <<box, sent, crashes>>

\* NotificationDispatcher.notify for each recipient that is not muted: channel
\* t[2] has the mail to to[t[1]].
Sends(to, muted) == {t \in (DOMAIN to) \X Channels : to[t[1]] \notin muted}

Before(t, u) == t[1] < u[1] \/ (t[1] = u[1] /\ t[2] < u[2])

\* After the last recipient.
AllSent(to) == <<Len(to) + 1, 1>>

\* The recipients whose turn came before the handler stopped at a send.
Reached(to, stop) == {to[p] : p \in {p \in DOMAIN to : p <= stop[1]}}

\* Mutants of Marked: an exception ends the message as well; the secret goes
\* with the first try.
MarkedAlways(msg, ok, muted) ==
    [msg EXCEPT !.state = "FINISHED", !.skipped = muted, !.secret = NoSecret]
MarkedScrubbed(msg, ok, muted) ==
    IF ok THEN MarkedAlways(msg, ok, muted)
    ELSE [msg EXCEPT !.state = "ERROR", !.retries = @ + 1, !.secret = NoSecret]

\* mark_finished after redact_credentials, or mark_error.
Marked(msg, ok, muted) ==
    IF ok
    THEN [msg EXCEPT !.state = "FINISHED", !.skipped = muted, !.secret = NoSecret]
    ELSE [msg EXCEPT !.state = "ERROR", !.retries = @ + 1]

\* The next message of the batch: the sends before stop go out, and stop raises
\* unless all are out.  rings: the handler writes in-app notices too.
Handle(i, to, muted, rings) ==
    /\ i \in batch.left /\ \A k \in batch.left : i <= k
    /\ \E stop \in Sends(to, muted) \cup {AllSent(to)} :
        LET done == {t \in Sends(to, muted) : Before(t, stop)}
            skipped == {r \in muted : \E p \in DOMAIN to : to[p] = r}
            row == Marked(batch.rows[i], stop = AllSent(to), skipped)
        IN  /\ sent' = sent \cup {<<i, to[t[1]], t[2]>> : t \in done}
            /\ batch' = [batch EXCEPT
                  !.left = @ \ {i},
                  !.rows[i] = [row EXCEPT !.rung = IF rings THEN @ \cup Reached(to, stop)
                                                   ELSE @]]
    /\ UNCHANGED <<box, crashes>>

\* The batch's only commit.
Commit ==
    /\ batch.on /\ batch.left = {}
    /\ box' = [i \in Ids |-> IF i \in DOMAIN batch.rows THEN batch.rows[i] ELSE box[i]]
    /\ batch' = NoBatch
    /\ UNCHANGED <<sent, crashes>>

\* The worker dies: its transaction is rolled back, its mail is not.
Crash ==
    /\ batch.on /\ crashes < MaxCrashes
    /\ batch' = NoBatch /\ crashes' = crashes + 1
    /\ UNCHANGED <<box, sent>>

\* What became of message i for recipient r.
Mailed(i, r) == \A c \in Channels : <<i, r, c>> \in sent
=============================================================================
