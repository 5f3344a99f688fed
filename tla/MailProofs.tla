----------------------------- MODULE MailProofs -----------------------------
(***************************************************************************)
(* The two specifications over the outbox's mail.                          *)
(* Notices: for any squad, channels, retries, crashes, teachers and        *)
(* replicas, a finished message reached everybody it was for and who had a *)
(* row, a reminder goes out again only after a retry or a crash, and a     *)
(* queue row counts as sent only after a digest carried it.                *)
(* Accounts: for any accounts, requests in flight, throttles, channels,    *)
(* retries and crashes, no student is left without a password they can     *)
(* learn, sessions follow the password, and the throttle holds up to the   *)
(* overlap.                                                                *)
(***************************************************************************)
EXTENDS Notices, Accounts, FiniteSetTheorems, TLAPS

-----------------------------------------------------------------------------
(* Notices.                                                                *)

\* With the mail in out, message i, as row, went to everyone it was for.
Told(i, row, out) ==
    \A p \in DOMAIN Recipients(row) :
        LET r == Recipients(row)[p]
        IN  /\ r \in row.skipped \/ \A c \in Channels : <<i, r, c>> \in out
            /\ row.event = "SUBMISSION_REVIEWED" => r \in row.rung

\* The copies of a poll are of the messages in the table, and what they will
\* commit as finished went out.
CopiesAgree ==
    \A i \in DOMAIN batch.rows :
        batch.rows[i].event = box[i].event /\ batch.rows[i].who = box[i].who
CopiesTold ==
    \A i \in DOMAIN batch.rows :
        batch.rows[i].state = "FINISHED" /\ i \notin rowless => Told(i, batch.rows[i], sent)

\* What a digest job has yet to mark was mailed.
MailedWasTold == \A r \in Replicas : digest[r].mailed \subseteq told

\* The job queues one reminder for a student, which its handler may run for again.
OneReminder ==
    \A i, k \in Ids :
        box[i].event = "DEADLINE_REMINDER" /\ box[k].event = "DEADLINE_REMINDER"
            /\ box[i].who = box[k].who => i = k

\* What a reminder accounts for: its failed tries and the one that ended it.  A
\* run of the batch under way is in its copy, or lost with a crash.
Tries(row) == IF row.state = "FINISHED" THEN row.retries + 1 ELSE row.retries
Ran(i) == i \in DOMAIN batch.rows \ batch.left
Counted ==
    \A i \in Ids : box[i].event = "DEADLINE_REMINDER" =>
        IF Ran(i)
        THEN /\ reminded[box[i].who] <= Tries(batch.rows[i]) + crashes
             /\ reminded[box[i].who] <= box[i].retries + 1 + crashes
        ELSE reminded[box[i].who] <= Tries(box[i]) + crashes
Waiting ==
    /\ \A i \in batch.left : batch.rows[i] = box[i] /\ box[i].state # "FINISHED"
    /\ ~batch.on => DOMAIN batch.rows = {}
Unreminded == \A s \in Students : reminded[s] = 0 \/ AlreadyQueued(s)

\* The inductive invariant.
IInv ==
    /\ TypeOK /\ CopiesAgree /\ CopiesTold /\ MailedWasTold
    /\ FinishedWasTold /\ SentWasInDigest
    /\ OneReminder /\ Counted /\ Waiting /\ Unreminded

-----------------------------------------------------------------------------
(* The outbox.                                                             *)

MailTypes ==
    /\ box \in Seq(Message)
    /\ batch \in [on : BOOLEAN, left : SUBSET Nat, rows : [DOMAIN batch.rows -> Message]]
    /\ batch.left \subseteq DOMAIN batch.rows /\ DOMAIN batch.rows \subseteq Ids
    /\ sent \subseteq Nat \X Students \X Channels
    /\ crashes \in Nat

MailInv == MailTypes /\ CopiesAgree /\ CopiesTold /\ FinishedWasTold

\* FinishedWasTold in terms of Told.
LEMMA FinishedIsTold ==
    FinishedWasTold <=>
        \A i \in Ids : box[i].state = "FINISHED" /\ i \notin rowless => Told(i, box[i], sent)
BY DEF FinishedWasTold, Told, Mailed

\* Mail that went out stays out.
LEMMA ToldStays ==
    ASSUME NEW i, NEW row, NEW out, NEW more, out \subseteq more, Told(i, row, out)
    PROVE  Told(i, row, more)
BY DEF Told

LEMMA MembersType ==
    /\ Members \in Seq(Students) /\ Len(Members) \in Nat \ {0}
    /\ DOMAIN Members = 1 .. Len(Members)
    /\ Members[1] \in Students /\ IsFiniteSet(Students)
<1>1. Members \in Seq(Students) /\ Len(Members) \in Nat \ {0} /\ DOMAIN Members = 1 .. Len(Members)
  BY NoticesAssumption
<1>2. Members[1] \in Students
  BY <1>1
<1>3. IsFiniteSet(DOMAIN Members)
  BY <1>1, FS_Interval
<1>4. Members \in Surjection(DOMAIN Members, Students)
  BY <1>1 DEF Surjection, Students
<1>5. IsFiniteSet(Students)
  BY <1>3, <1>4, FS_Surjection
<1> QED BY <1>1, <1>2, <1>5

\* A new row of the table.
LEMMA NewType ==
    ASSUME NEW event \in Events, NEW who \in Students, NEW secret \in {NoSecret, "link"}
    PROVE  /\ New(event, who, secret) \in Message
           /\ New(event, who, secret).state = "PENDING"
           /\ New(event, who, secret).event = event /\ New(event, who, secret).who = who
BY DEF New, Message

\* What Enqueue does to the table.
LEMMA EnqueueBox ==
    ASSUME MailTypes, NEW msgs \in Seq(Message), Enqueue(msgs)
    PROVE  /\ box' \in Seq(Message)
           /\ \A i \in Ids : i \in DOMAIN box' /\ box'[i] = box[i]
           /\ \A i \in DOMAIN box' \ Ids :
                 i - Len(box) \in DOMAIN msgs /\ box'[i] = msgs[i - Len(box)]
BY DEF MailTypes, Enqueue, Ids

\* Rows that are added wait to be sent.
LEMMA EnqueueMail ==
    ASSUME MailInv, NEW msgs \in Seq(Message), Enqueue(msgs),
           \A p \in DOMAIN msgs : msgs[p].state = "PENDING",
           UNCHANGED <<batch, sent, crashes, rowless>>
    PROVE  MailInv'
<1>1. /\ box' \in Seq(Message)
      /\ \A i \in Ids : i \in DOMAIN box' /\ box'[i] = box[i]
      /\ \A i \in DOMAIN box' \ Ids :
            i - Len(box) \in DOMAIN msgs /\ box'[i] = msgs[i - Len(box)]
  BY EnqueueBox DEF MailInv
<1>2. MailTypes'
  BY <1>1 DEF MailInv, MailTypes, Ids
<1>3. CopiesAgree'
  BY <1>1 DEF MailInv, CopiesAgree, MailTypes
<1>4. CopiesTold'
  <2> SUFFICES ASSUME NEW i \in DOMAIN batch.rows, batch.rows[i].state = "FINISHED",
                      i \notin rowless
               PROVE  Told(i, batch'.rows[i], sent')
    BY DEF CopiesTold
  <2>1. Told(i, batch.rows[i], sent)
    BY DEF MailInv, CopiesTold
  <2> QED BY <2>1 
<1>5. FinishedWasTold'
  <2> SUFFICES ASSUME NEW i \in DOMAIN box', box'[i].state = "FINISHED",
                      i \notin rowless
               PROVE  Told(i, box'[i], sent')
    BY DEF FinishedWasTold, Told, Mailed, Ids
  <2>1. i \in Ids /\ box'[i] = box[i]
    BY <1>1
  <2>2. Told(i, box[i], sent)
    BY <2>1, FinishedIsTold DEF MailInv
  <2> QED BY <2>1, <2>2 
<1> QED BY <1>2, <1>3, <1>4, <1>5 DEF MailInv

LEMMA PollMail ==
    ASSUME MailInv, Poll, rowless' = rowless
    PROVE  MailInv'
<1> DEFINE live == {i \in Ids : IsLive(box[i])}
           rows == [i \in live |-> box[i]]
<1>1. /\ batch' = [on |-> TRUE, left |-> live, rows |-> rows]
      /\ UNCHANGED <<box, sent, crashes>>
  BY DEF Poll
<1>2. live \subseteq Nat /\ live \subseteq Ids /\ rows \in [live -> Message]
  BY DEF MailInv, MailTypes, Ids
<1>3. batch'.rows = rows /\ batch'.left = live /\ DOMAIN rows = live
  BY <1>1
<1>4. \A i \in live : rows[i] = box[i] /\ box[i].state # "FINISHED"
  BY DEF IsLive
<1> HIDE DEF live, rows
<1>5. MailTypes'
  BY <1>1, <1>2, <1>3 DEF MailInv, MailTypes, Ids
<1>6. CopiesAgree' /\ CopiesTold'
  BY <1>1, <1>3, <1>4 DEF CopiesAgree, CopiesTold
<1>7. FinishedWasTold'
  BY <1>1 DEF MailInv, FinishedWasTold, Ids, Mailed
<1> QED BY <1>5, <1>6, <1>7 DEF MailInv

LEMMA NoCopies ==
    ASSUME batch' = NoBatch
    PROVE  /\ DOMAIN batch'.rows = {} /\ batch'.left = {} /\ CopiesAgree' /\ CopiesTold'
           /\ batch' \in [on : BOOLEAN, left : SUBSET Nat, rows : [DOMAIN batch'.rows -> Message]]
<1>1. batch'.rows = <<>> /\ batch'.left = {} /\ batch'.on = FALSE
  BY DEF NoBatch
<1>2. DOMAIN batch'.rows = {}
  BY <1>1
<1>3. batch'.rows \in [DOMAIN batch'.rows -> Message]
  BY <1>1, <1>2
<1>4. batch' \in [on : BOOLEAN, left : SUBSET Nat, rows : [DOMAIN batch'.rows -> Message]]
  <2> DEFINE R == [DOMAIN batch'.rows -> Message]
  <2>1. batch'.rows \in R
    BY <1>3
  <2> HIDE DEF R
  <2>2. batch' \in [on : BOOLEAN, left : SUBSET Nat, rows : R]
    BY <1>1, <2>1 DEF NoBatch
  <2> QED BY <2>2 DEF R
<1> QED BY <1>1, <1>2, <1>4 DEF CopiesAgree, CopiesTold

LEMMA CommitMail ==
    ASSUME MailInv, Commit, rowless' = rowless
    PROVE  MailInv'
<1>1. /\ batch' = NoBatch /\ UNCHANGED <<sent, crashes>>
      /\ box' = [i \in Ids |-> IF i \in DOMAIN batch.rows THEN batch.rows[i] ELSE box[i]]
  BY DEF Commit
<1>2. box' \in Seq(Message) /\ DOMAIN box' = Ids
  BY <1>1 DEF MailInv, MailTypes, Ids
<1>3. MailTypes'
  BY <1>1, <1>2, NoCopies DEF MailInv, MailTypes, Ids
<1>4. FinishedWasTold'
  <2> SUFFICES ASSUME NEW i \in Ids, box'[i].state = "FINISHED", i \notin rowless
               PROVE  Told(i, box'[i], sent')
    BY <1>2 DEF FinishedWasTold, Told, Mailed, Ids
  <2>1. Told(i, box'[i], sent)
    BY <1>1, FinishedIsTold DEF MailInv, CopiesTold
  <2> QED BY <1>1, <2>1 
<1> QED BY <1>1, <1>3, <1>4, NoCopies DEF MailInv

LEMMA CrashMail ==
    ASSUME MailInv, batch' = NoBatch, UNCHANGED <<box, sent, rowless>>, crashes' \in Nat
    PROVE  MailInv'
<1>1. MailTypes'
  BY NoCopies DEF MailInv, MailTypes, Ids
<1>2. FinishedWasTold'
  BY DEF MailInv, FinishedWasTold, Ids, Mailed
<1> QED BY <1>1, <1>2, NoCopies DEF MailInv

\* The handler of message i: it ends FINISHED only when all is out, or nobody is
\* found to send it to.
LEMMA HandleMail ==
    ASSUME MailInv, NEW i \in Ids, NEW off \in SUBSET Students, NEW rings \in BOOLEAN,
           NEW to \in Seq(Students), Handle(i, to, off, rings),
           rowless \subseteq rowless', i \notin rowless' => to = Recipients(box[i]),
           box[i].event = "SUBMISSION_REVIEWED" => rings
    PROVE  MailInv'
<1> DEFINE skipped == {r \in off : \E p \in DOMAIN to : to[p] = r}
<1>1. PICK stop \in Sends(to, off) \cup {AllSent(to)} :
        LET done == {t \in Sends(to, off) : Before(t, stop)}
            row == Marked(batch.rows[i], stop = AllSent(to), skipped)
        IN  /\ sent' = sent \cup {<<i, to[t[1]], t[2]>> : t \in done}
            /\ batch' = [batch EXCEPT
                  !.left = @ \ {i},
                  !.rows[i] = [row EXCEPT !.rung = IF rings THEN @ \cup Reached(to, stop)
                                                   ELSE @]]
  BY DEF Handle
<1> DEFINE all == stop = AllSent(to)
           done == {t \in Sends(to, off) : Before(t, stop)}
           row == Marked(batch.rows[i], all, skipped)
           new == [row EXCEPT !.rung = IF rings THEN @ \cup Reached(to, stop) ELSE @]
<1>2. UNCHANGED <<box, crashes>> /\ i \in batch.left
  BY DEF Handle
<1>3. /\ batch.rows \in [DOMAIN batch.rows -> Message] /\ i \in DOMAIN batch.rows
      /\ batch.rows[i] \in Message /\ i \in Nat
      /\ batch.on \in BOOLEAN /\ batch.left \in SUBSET Nat
      /\ DOMAIN batch.rows \subseteq Ids /\ batch.left \subseteq DOMAIN batch.rows
  BY <1>2 DEF MailInv, MailTypes, Ids
<1>4. batch.rows[i].event = box[i].event /\ batch.rows[i].who = box[i].who
  BY <1>3 DEF MailInv, CopiesAgree
<1>5. all \in BOOLEAN /\ skipped \in SUBSET Students
  OBVIOUS
<1>6. Reached(to, stop) \in SUBSET Students
  BY DEF Reached
<1>7. sent' = sent \cup {<<i, to[t[1]], t[2]>> : t \in done}
  BY <1>1
<1>8. batch' = [batch EXCEPT !.left = @ \ {i}, !.rows[i] = new]
  BY <1>1
<1> DEFINE rung == IF rings THEN row.rung \cup Reached(to, stop) ELSE row.rung
<1>9. /\ row \in Message
      /\ row.event = box[i].event /\ row.who = box[i].who
      /\ row.state = "FINISHED" => all /\ row.skipped = skipped
  <2> HIDE DEF all, skipped
  <2>1. CASE all
    BY <1>3, <1>4, <1>5, <2>1 DEF Marked, Message
  <2>2. CASE ~all
    <3> DEFINE m == batch.rows[i]
               n == m.retries + 1
    <3>1. m \in Message /\ n \in Nat
      BY <1>3 DEF Message
    <3>2. row = [m EXCEPT !.state = "ERROR", !.retries = n]
      BY <2>2, <3>1 DEF Marked, Message
    <3>3. m.event = box[i].event /\ m.who = box[i].who
      BY <1>4
    <3> HIDE DEF m, n, row
    <3> QED BY <3>1, <3>2, <3>3 DEF Message
  <2> QED BY <1>5, <2>1, <2>2
<1>10. new = [row EXCEPT !.rung = rung] /\ rung \in SUBSET Students
  <2> HIDE DEF row
  <2> QED BY <1>6, <1>9 DEF Message
<1>11. rings => Reached(to, stop) \subseteq rung
  OBVIOUS
<1>12. /\ new \in Message /\ new.event = box[i].event /\ new.who = box[i].who
       /\ new.state = "FINISHED" => all /\ new.skipped = skipped
       /\ new.rung = rung
  <2> HIDE DEF row, rung, all, skipped
  <2>1. [row EXCEPT !.rung = rung] \in Message
    BY <1>9, <1>10 DEF Message
  <2>2. /\ [row EXCEPT !.rung = rung].event = row.event
        /\ [row EXCEPT !.rung = rung].who = row.who
        /\ [row EXCEPT !.rung = rung].state = row.state
        /\ [row EXCEPT !.rung = rung].skipped = row.skipped
        /\ [row EXCEPT !.rung = rung].rung = rung
    BY <1>9 DEF Message
  <2> HIDE DEF new
  <2> QED BY <1>9, <1>10, <2>1, <2>2
<1> HIDE DEF new
<1>13. /\ batch'.on = batch.on /\ batch'.left = batch.left \ {i}
       /\ batch'.rows = [batch.rows EXCEPT ![i] = new]
       /\ batch' = [on |-> batch'.on, left |-> batch'.left, rows |-> batch'.rows]
  BY <1>8 DEF MailInv, MailTypes
<1>14. /\ DOMAIN batch'.rows = DOMAIN batch.rows /\ batch'.rows[i] = new
       /\ \A k \in DOMAIN batch.rows \ {i} : batch'.rows[k] = batch.rows[k]
       /\ batch'.rows \in [DOMAIN batch'.rows -> Message]
  BY <1>3, <1>12, <1>13
<1>15. sent \subseteq sent'
  BY <1>7
<1>16. sent' \subseteq Nat \X Students \X Channels
  <2> SUFFICES ASSUME NEW t \in Sends(to, off)
               PROVE  <<i, to[t[1]], t[2]>> \in Nat \X Students \X Channels
    BY <1>7 DEF MailInv, MailTypes
  <2>1. t[1] \in DOMAIN to /\ t[2] \in Channels
    BY DEF Sends
  <2> QED BY <1>3, <2>1
<1>17. MailTypes'
  <2>1. batch' \in [on : BOOLEAN, left : SUBSET Nat, rows : [DOMAIN batch'.rows -> Message]]
    <3> DEFINE R == [DOMAIN batch'.rows -> Message]
    <3>1. batch'.rows \in R /\ batch'.on \in BOOLEAN /\ batch'.left \in SUBSET Nat
      BY <1>3, <1>13, <1>14
    <3> HIDE DEF R
    <3>2. batch' \in [on : BOOLEAN, left : SUBSET Nat, rows : R]
      BY <1>13, <3>1
    <3> QED BY <3>2 DEF R
  <2> QED BY <1>2, <1>3, <1>13, <1>14, <1>16, <2>1 DEF MailInv, MailTypes, Ids
<1>18. CopiesAgree'
  BY <1>2, <1>12, <1>14 DEF MailInv, CopiesAgree
<1>19. ASSUME new.state = "FINISHED", i \notin rowless'
       PROVE  Told(i, new, sent')
  <2>1. all /\ new.skipped = skipped
    BY <1>12, <1>19
  <2>2. Recipients(new) = to
    BY <1>12, <1>19 DEF Recipients
  <2>3. \A t \in Sends(to, off) : Before(t, stop)
    BY <2>1 DEF Sends, Before, AllSent
  <2>4. ASSUME NEW p \in DOMAIN to
        PROVE  /\ to[p] \in skipped \/ \A c \in Channels : <<i, to[p], c>> \in sent'
               /\ new.event = "SUBMISSION_REVIEWED" => to[p] \in new.rung
    <3>1. to[p] \in off => to[p] \in skipped
      OBVIOUS
    <3>2. ASSUME to[p] \notin off, NEW c \in Channels
          PROVE  <<i, to[p], c>> \in sent'
      <4>1. <<p, c>> \in done
        BY <2>3, <3>2 DEF Sends
      <4>2. <<i, to[<<p, c>>[1]], <<p, c>>[2]>> \in sent'
        BY <1>7, <4>1
      <4> QED BY <4>2
    <3>3. to[p] \in Reached(to, stop)
      BY <2>1 DEF Reached, AllSent
    <3> QED BY <1>11, <1>12, <3>1, <3>2, <3>3
  <2> HIDE DEF skipped
  <2> QED BY <2>1, <2>2, <2>4 DEF Told
<1>20. CopiesTold'
  <2> SUFFICES ASSUME NEW k \in DOMAIN batch.rows, batch'.rows[k].state = "FINISHED",
                      k \notin rowless'
               PROVE  Told(k, batch'.rows[k], sent')
    BY <1>14 DEF CopiesTold
  <2>1. CASE k = i
    BY <1>14, <1>19, <2>1
  <2>2. CASE k # i
    <3>1. Told(k, batch.rows[k], sent)
      BY <1>14, <2>2 DEF MailInv, CopiesTold
    <3> QED BY <1>14, <1>15, <2>2, <3>1, ToldStays
  <2> QED BY <2>1, <2>2
<1>21. FinishedWasTold'
  BY <1>2, <1>15 DEF MailInv, FinishedWasTold, Ids, Mailed
<1> QED BY <1>17, <1>18, <1>20, <1>21 DEF MailInv

\* A message has recipients.
LEMMA RecipientsType ==
    ASSUME MailTypes, NEW i \in Ids
    PROVE  Recipients(box[i]) \in Seq(Students)
<1>0. box[i] \in Message
  BY DEF MailTypes, Ids
<1>1. box[i].who \in Students
  BY <1>0 DEF Message
<1>2. <<box[i].who>> \in Seq(Students) /\ <<Members[1]>> \in Seq(Students)
  BY <1>1, MembersType
<1> QED BY <1>2, MembersType DEF Recipients

LEMMA DeliverMail ==
    ASSUME MailInv, NEW i \in Ids, Deliver(i)
    PROVE  MailInv'
<1>1. Recipients(box[i]) \in Seq(Students)
  BY RecipientsType DEF MailInv
<1>2. \/ /\ UNCHANGED rowless
         /\ \E off \in SUBSET Students, rings \in BOOLEAN :
               /\ Handle(i, Recipients(box[i]), off, rings)
               /\ box[i].event = "SUBMISSION_REVIEWED" => rings
      \/ ExecuteDeadlineReminder(i)
  <2>1. \A case : Suppressed(case) \in SUBSET Students
    BY DEF Suppressed
  <2>2. CASE ExecuteSubmissionReviewed(i)
    BY <2>1, <2>2 DEF ExecuteSubmissionReviewed
  <2>3. CASE ExecuteQuizResult(i)
    BY <2>1, <2>3 DEF ExecuteQuizResult
  <2>4. CASE ExecuteQuizDisputeResolved(i)
    BY <2>1, <2>4 DEF ExecuteQuizDisputeResolved
  <2>5. CASE ExecuteDeadlineReminder(i)
    BY <2>5
  <2>6. CASE ExecuteFeedbackRequest(i)
    BY <2>1, <2>6 DEF ExecuteFeedbackRequest
  <2> QED BY <2>2, <2>3, <2>4, <2>5, <2>6 DEF Deliver
<1>3. PICK off \in SUBSET Students, rings \in BOOLEAN, to \in Seq(Students) :
        /\ Handle(i, to, off, rings) /\ rowless \subseteq rowless'
        /\ i \notin rowless' => to = Recipients(box[i])
        /\ box[i].event = "SUBMISSION_REVIEWED" => rings
  <2>1. CASE ExecuteDeadlineReminder(i)
    <3>1. Suppressed("DEADLINE_REMINDER") \in SUBSET Students /\ <<>> \in Seq(Students)
      BY DEF Suppressed
    <3>2. CASE box[i].who \in assigned
      BY <1>1, <2>1, <3>1, <3>2 DEF ExecuteDeadlineReminder
    <3>3. CASE box[i].who \notin assigned
      BY <2>1, <3>1, <3>3 DEF ExecuteDeadlineReminder
    <3> QED BY <3>2, <3>3
  <2> QED BY <1>1, <1>2, <2>1
<1> QED BY <1>3, HandleMail

-----------------------------------------------------------------------------
(* Reminders.                                                              *)

ReminderTypes == rowless \subseteq Nat /\ reminded \in [Students -> Nat]
ReminderInv == ReminderTypes /\ OneReminder /\ Counted /\ Waiting /\ Unreminded

\* The numbers of a row that is in the table.
LEMMA ReminderFacts ==
    ASSUME MailTypes, ReminderTypes
    PROVE  /\ crashes \in Nat
           /\ \A i \in Ids : /\ i \in Nat /\ box[i].retries \in Nat /\ box[i].who \in Students
                            /\ reminded[box[i].who] \in Nat
           /\ \A i \in DOMAIN batch.rows : batch.rows[i].retries \in Nat /\ i \in Ids
<1>1. \A i \in Ids : i \in Nat /\ box[i] \in Message
  BY DEF MailTypes, Ids
<1>2. \A i \in DOMAIN batch.rows : batch.rows[i] \in Message /\ i \in Ids
  BY DEF MailTypes
<1> QED BY <1>1, <1>2 DEF MailTypes, ReminderTypes, Message

\* What a handler makes of its copy.
LEMMA HandleRow ==
    ASSUME MailInv, NEW i \in Ids, NEW off, NEW to, NEW rings, Handle(i, to, off, rings)
    PROVE  /\ UNCHANGED <<box, crashes>> /\ i \in batch.left /\ i \in DOMAIN batch.rows
           /\ batch'.left = batch.left \ {i} /\ batch'.on = batch.on
           /\ DOMAIN batch'.rows = DOMAIN batch.rows
           /\ \A k \in DOMAIN batch.rows \ {i} : batch'.rows[k] = batch.rows[k]
           /\ Tries(batch'.rows[i]) = batch.rows[i].retries + 1
<1>1. PICK stop \in Sends(to, off) \cup {AllSent(to)} :
        LET skipped == {r \in off : \E p \in DOMAIN to : to[p] = r}
            row == Marked(batch.rows[i], stop = AllSent(to), skipped)
        IN  batch' = [batch EXCEPT
                  !.left = @ \ {i},
                  !.rows[i] = [row EXCEPT !.rung = IF rings THEN @ \cup Reached(to, stop)
                                                   ELSE @]]
  BY DEF Handle
<1> DEFINE all == stop = AllSent(to)
           skipped == {r \in off : \E p \in DOMAIN to : to[p] = r}
           row == Marked(batch.rows[i], all, skipped)
           rung == IF rings THEN row.rung \cup Reached(to, stop) ELSE row.rung
           new == [row EXCEPT !.rung = rung]
<1>2. UNCHANGED <<box, crashes>> /\ i \in batch.left
  BY DEF Handle
<1>3. i \in DOMAIN batch.rows /\ batch.rows[i] \in Message
  BY <1>2 DEF MailInv, MailTypes
<1>4. batch' = [batch EXCEPT !.left = @ \ {i}, !.rows[i] = new]
  BY <1>1
<1>5. new.state = row.state /\ new.retries = row.retries
  <2>1. row.state = row.state /\ DOMAIN row = DOMAIN batch.rows[i]
    BY <1>3 DEF Marked
  <2> HIDE DEF row, rung
  <2> QED BY <1>3, <2>1 DEF Message
<1>6. \/ row.state = "FINISHED" /\ row.retries = batch.rows[i].retries
      \/ row.state = "ERROR" /\ row.retries = batch.rows[i].retries + 1
  <2> HIDE DEF all, skipped
  <2> QED BY <1>3 DEF Marked, Message
<1> HIDE DEF new, row
<1>7. Tries(new) = batch.rows[i].retries + 1
  BY <1>5, <1>6 DEF Tries
<1>8. /\ batch'.on = batch.on /\ batch'.left = batch.left \ {i}
      /\ batch'.rows = [batch.rows EXCEPT ![i] = new]
  BY <1>4 DEF MailInv, MailTypes
<1> QED BY <1>2, <1>3, <1>7, <1>8

\* The handlers other than a reminder's leave the reminders alone.
LEMMA DeliverReminders ==
    ASSUME MailInv, ReminderInv, NEW i \in Ids, Deliver(i)
    PROVE  box' = box /\ ReminderInv'
<1>1. /\ UNCHANGED <<box, crashes>> /\ i \in batch.left /\ i \in DOMAIN batch.rows
      /\ batch'.left = batch.left \ {i} /\ batch'.on = batch.on
      /\ DOMAIN batch'.rows = DOMAIN batch.rows
      /\ \A k \in DOMAIN batch.rows \ {i} : batch'.rows[k] = batch.rows[k]
      /\ Tries(batch'.rows[i]) = batch.rows[i].retries + 1
  BY HandleRow DEF Deliver, ExecuteSubmissionReviewed, ExecuteQuizResult,
     ExecuteQuizDisputeResolved, ExecuteDeadlineReminder, ExecuteFeedbackRequest
<1> DEFINE s == box[i].who
<1>2. /\ crashes \in Nat
      /\ \A k \in Ids : /\ k \in Nat /\ box[k].retries \in Nat /\ box[k].who \in Students
                       /\ reminded[box[k].who] \in Nat
      /\ \A k \in DOMAIN batch.rows : batch.rows[k].retries \in Nat /\ k \in Ids
  BY ReminderFacts DEF MailInv, ReminderInv
<1>3. /\ rowless' \subseteq Nat
      /\ \/ reminded' = reminded
         \/ box[i].event = "DEADLINE_REMINDER" /\ reminded' = [reminded EXCEPT ![s] = @ + 1]
  BY <1>2 DEF Deliver, ExecuteSubmissionReviewed, ExecuteQuizResult,
     ExecuteQuizDisputeResolved, ExecuteDeadlineReminder, ExecuteFeedbackRequest,
     ReminderInv, ReminderTypes
<1>4. /\ \A t \in Students : t # s => reminded'[t] = reminded[t]
      /\ reminded'[s] \in {reminded[s], reminded[s] + 1}
      /\ reminded' \in [Students -> Nat]
      /\ box[i].event # "DEADLINE_REMINDER" => reminded' = reminded
  BY <1>2, <1>3 DEF ReminderInv, ReminderTypes
<1>5. batch.rows[i] = box[i] /\ box[i].state # "FINISHED"
  BY <1>1 DEF ReminderInv, Waiting
<1>6. Counted'
  <2> SUFFICES ASSUME NEW k \in Ids, box[k].event = "DEADLINE_REMINDER"
               PROVE  IF Ran(k)'
                      THEN /\ reminded'[box[k].who] <= Tries(batch'.rows[k]) + crashes
                           /\ reminded'[box[k].who] <= box[k].retries + 1 + crashes
                      ELSE reminded'[box[k].who] <= Tries(box[k]) + crashes
    BY <1>1 DEF Counted, Ids
  <2>1. CASE k = i
    <3>1. ~Ran(i) /\ Ran(i)'
      BY <1>1 DEF Ran
    <3>2. reminded[s] <= box[i].retries + crashes
      BY <1>5, <2>1, <3>1 DEF ReminderInv, Counted, Tries
    <3>3. reminded'[s] <= box[i].retries + 1 + crashes
      BY <1>2, <1>4, <3>2
    <3> QED BY <1>1, <1>5, <2>1, <3>1, <3>3
  <2>2. CASE k # i
    <3>1. Ran(k)' = Ran(k) /\ (Ran(k) => batch'.rows[k] = batch.rows[k])
      BY <1>1, <2>2 DEF Ran
    <3>2. reminded'[box[k].who] = reminded[box[k].who]
      <4>1. CASE box[i].event = "DEADLINE_REMINDER"
        <5>1. box[k].who # s
          BY <2>2, <4>1 DEF ReminderInv, OneReminder
        <5> QED BY <1>2, <1>4, <5>1
      <4> QED BY <1>4, <4>1
    <3>3. /\ Ran(k) => /\ reminded[box[k].who] <= Tries(batch.rows[k]) + crashes
                       /\ reminded[box[k].who] <= box[k].retries + 1 + crashes
          /\ ~Ran(k) => reminded[box[k].who] <= Tries(box[k]) + crashes
      BY DEF ReminderInv, Counted
    <3> QED BY <3>1, <3>2, <3>3
  <2> QED BY <2>1, <2>2
<1>7. Waiting'
  <2>1. \A k \in batch.left \ {i} : k \in DOMAIN batch.rows
    BY DEF MailInv, MailTypes
  <2> QED BY <1>1, <2>1 DEF ReminderInv, Waiting
<1>8. OneReminder'
  BY <1>1 DEF ReminderInv, OneReminder, Ids
<1>9. Unreminded'
  <2> SUFFICES ASSUME NEW t \in Students, reminded'[t] # 0
               PROVE  AlreadyQueued(t)
    BY <1>1 DEF Unreminded, AlreadyQueued, Ids
  <2>1. CASE reminded' = reminded
    BY <2>1 DEF ReminderInv, Unreminded
  <2>2. CASE reminded' # reminded
    <3>1. box[i].event = "DEADLINE_REMINDER"
      BY <1>4, <2>2
    <3>2. CASE t = s
      BY <3>1, <3>2 DEF AlreadyQueued
    <3>3. CASE t # s
      BY <1>4, <3>3 DEF ReminderInv, Unreminded
    <3> QED BY <3>2, <3>3
  <2> QED BY <2>1, <2>2
<1> QED BY <1>1, <1>3, <1>4, <1>6, <1>7, <1>8, <1>9 DEF ReminderInv, ReminderTypes

\* A query returns every student of a set, and none twice.
LEMMA OrderType ==
    ASSUME NEW S, IsFiniteSet(S), NEW order \in Orders(S)
    PROVE  /\ order \in Seq(S) /\ DOMAIN order = 1 .. Cardinality(S)
           /\ \A m, n \in DOMAIN order : order[m] = order[n] => m = n
<1>1. Cardinality(S) \in Nat
  BY FS_CardinalityType
<1>2. order \in [1 .. Cardinality(S) -> S] /\ DOMAIN order = 1 .. Cardinality(S)
  BY DEF Orders
<1>3. order \in Surjection(1 .. Cardinality(S), S)
  BY <1>2 DEF Orders, Surjection
<1>4. IsFiniteSet(1 .. Cardinality(S)) /\ Cardinality(1 .. Cardinality(S)) = Cardinality(S)
  BY <1>1, FS_Interval
<1>5. order \in Injection(1 .. Cardinality(S), S)
  BY <1>3, <1>4, FS_Surjection
<1>6. \A m, n \in DOMAIN order : order[m] = order[n] => m = n
  BY <1>2, <1>5 DEF Injection, IsInjective
<1>7. order \in Seq(S)
  BY <1>1, <1>2
<1> QED BY <1>2, <1>6, <1>7

\* New messages count from zero.
LEMMA AddedReminders ==
    ASSUME MailInv, ReminderInv, UNCHANGED <<batch, crashes, rowless, reminded>>,
           MailTypes', OneReminder',
           \A i \in Ids : i \in DOMAIN box' /\ box'[i] = box[i],
           \A i \in DOMAIN box' \ Ids : box'[i].event = "DEADLINE_REMINDER" =>
                ~AlreadyQueued(box'[i].who)
    PROVE  ReminderInv'
<1>1. /\ crashes \in Nat
      /\ \A i \in DOMAIN box' : box'[i].retries \in Nat /\ box'[i].who \in Students
  <2>1. \A i \in DOMAIN box' : box'[i] \in Message
    BY DEF MailTypes
  <2> QED BY <2>1 DEF MailTypes, Message
<1>2. DOMAIN batch.rows \subseteq Ids /\ batch.left \subseteq DOMAIN batch.rows
  BY DEF MailInv, MailTypes
<1>3. Counted'
  <2> SUFFICES ASSUME NEW i \in DOMAIN box', box'[i].event = "DEADLINE_REMINDER"
               PROVE  IF Ran(i)
                      THEN /\ reminded[box'[i].who] <= Tries(batch.rows[i]) + crashes
                           /\ reminded[box'[i].who] <= box'[i].retries + 1 + crashes
                      ELSE reminded[box'[i].who] <= Tries(box'[i]) + crashes
    BY DEF Counted, Ids, Ran
  <2>1. CASE i \in Ids
    BY <2>1 DEF ReminderInv, Counted
  <2>2. CASE i \notin Ids
    <3>1. ~Ran(i)
      BY <1>2, <2>2 DEF Ran
    <3>2. reminded[box'[i].who] = 0
      BY <1>1, <2>2 DEF ReminderInv, Unreminded
    <3> QED BY <1>1, <3>1, <3>2 DEF Tries
  <2> QED BY <2>1, <2>2
<1>4. Waiting'
  BY <1>2 DEF ReminderInv, Waiting
<1>5. Unreminded'
  BY DEF ReminderInv, Unreminded, AlreadyQueued, Ids
<1> QED BY <1>3, <1>4, <1>5 DEF ReminderInv, ReminderTypes

\* A transaction adds messages none of which is a reminder.
Adds ==
    \E msgs \in Seq(Message) :
        /\ Enqueue(msgs) /\ UNCHANGED <<batch, sent, crashes>>
        /\ \A p \in DOMAIN msgs : /\ msgs[p].state = "PENDING"
                                  /\ msgs[p].event # "DEADLINE_REMINDER"

LEMMA AddsKeeps ==
    ASSUME MailInv, ReminderInv, Adds, UNCHANGED <<rowless, reminded>>
    PROVE  MailInv' /\ ReminderInv'
<1>1. PICK msgs \in Seq(Message) :
        /\ Enqueue(msgs) /\ UNCHANGED <<batch, sent, crashes>>
        /\ \A p \in DOMAIN msgs : /\ msgs[p].state = "PENDING"
                                  /\ msgs[p].event # "DEADLINE_REMINDER"
  BY DEF Adds
<1>2. MailInv'
  BY <1>1, EnqueueMail
<1>3. ReminderInv'
  <2>1. /\ \A i \in Ids : i \in DOMAIN box' /\ box'[i] = box[i]
        /\ \A i \in DOMAIN box' : box'[i].event = "DEADLINE_REMINDER" =>
              i \in Ids /\ box'[i] = box[i]
    BY <1>1, EnqueueBox DEF MailInv
  <2>2. OneReminder'
    BY <2>1 DEF ReminderInv, OneReminder, Ids
  <2>3. UNCHANGED <<batch, crashes>> /\ MailTypes'
    BY <1>1, <1>2 DEF MailInv
  <2> QED BY <2>1, <2>2, <2>3, AddedReminders
<1> QED BY <1>2, <1>3

\* The messages each request adds.
LEMMA ReviewedAdds == Reviewed => Adds
<1> SUFFICES ASSUME Reviewed PROVE Adds
  OBVIOUS
<1> DEFINE m == New("SUBMISSION_REVIEWED", Members[1], NoSecret)
<1>1. m \in Message /\ m.state = "PENDING" /\ m.event = "SUBMISSION_REVIEWED"
  BY NewType, MembersType DEF Events
<1>2. Enqueue(<<m>>) /\ UNCHANGED <<batch, sent, crashes>>
  BY DEF Reviewed, Announce
<1> HIDE DEF m
<1>3. <<m>> \in Seq(Message) /\ \A p \in DOMAIN <<m>> : <<m>>[p] = m
  BY <1>1
<1> QED BY <1>1, <1>2, <1>3 DEF Adds

LEMMA QuizFinishedAdds ==
    ASSUME NEW s \in Students, QuizFinished(s)
    PROVE  Adds
<1> DEFINE m == New("QUIZ_RESULT", s, NoSecret)
<1>1. m \in Message /\ m.state = "PENDING" /\ m.event = "QUIZ_RESULT"
  BY NewType DEF Events
<1>2. Enqueue(<<m>>) /\ UNCHANGED <<batch, sent, crashes>>
  BY DEF QuizFinished, Announce
<1> HIDE DEF m
<1>3. <<m>> \in Seq(Message) /\ \A p \in DOMAIN <<m>> : <<m>>[p] = m
  BY <1>1
<1> QED BY <1>1, <1>2, <1>3 DEF Adds

\* One message for each of a list of students.
LEMMA EachType ==
    ASSUME NEW to \in Seq(Students), NEW event \in Events, NEW secret \in {NoSecret, "link"},
           NEW msgs, msgs = [p \in DOMAIN to |-> New(event, to[p], secret)]
    PROVE  /\ msgs \in Seq(Message) /\ DOMAIN msgs = DOMAIN to
           /\ \A p \in DOMAIN msgs : /\ msgs[p].state = "PENDING" /\ msgs[p].event = event
                                     /\ msgs[p].who = to[p]
<1>1. \A p \in DOMAIN to : to[p] \in Students
  OBVIOUS
<1>2. \A p \in DOMAIN to : /\ msgs[p] \in Message /\ msgs[p].state = "PENDING"
                           /\ msgs[p].event = event /\ msgs[p].who = to[p]
  BY <1>1, NewType
<1>3. msgs \in [1 .. Len(to) -> Message] /\ DOMAIN msgs = DOMAIN to
  BY <1>2
<1>4. msgs \in Seq(Message)
  BY <1>3
<1> QED BY <1>2, <1>3, <1>4

LEMMA RequestFeedbackAdds == RequestFeedback => Adds
<1> SUFFICES ASSUME RequestFeedback PROVE Adds
  OBVIOUS
<1>1. PICK msgs : msgs = [p \in DOMAIN Members |-> New("FEEDBACK_REQUEST_SENT", Members[p], "link")]
  OBVIOUS
<1>2. Enqueue(msgs) /\ UNCHANGED <<batch, sent, crashes>>
  BY <1>1 DEF RequestFeedback, Announce
<1>3. /\ msgs \in Seq(Message)
      /\ \A p \in DOMAIN msgs : /\ msgs[p].state = "PENDING"
                                /\ msgs[p].event = "FEEDBACK_REQUEST_SENT"
  <2>1. "FEEDBACK_REQUEST_SENT" \in Events /\ "link" \in {NoSecret, "link"}
    BY DEF Events
  <2>2. Members \in Seq(Students)
    BY MembersType
  <2> QED BY <1>1, <2>1, <2>2, EachType
<1> QED BY <1>2, <1>3 DEF Adds

\* The reporter first, then the others whose result the ruling flipped.
LEMMA ResolveEndAdds ==
    ASSUME TypeOK, NEW r \in Rulings, NEW F \in SUBSET Students, ResolveEnd(r, F)
    PROVE  Adds
<1> DEFINE d == ruling[r].dispute
           of == disputes[d].of
           S == F \ {of}
<1>1. ruling[r] \in [dispute : DOMAIN disputes, accept : BOOLEAN]
  BY DEF ResolveEnd, TypeOK
<1>2. of \in Students
  <2>1. d \in DOMAIN disputes
    BY <1>1
  <2>2. disputes[d] \in Dispute
    BY <2>1 DEF TypeOK
  <2> QED BY <2>2 DEF Dispute
<1>3. PICK order \in Orders(S) :
        Enqueue([p \in DOMAIN (<<of>> \o order) |->
                    New("QUIZ_DISPUTE_RESOLVED", (<<of>> \o order)[p], NoSecret)])
  BY DEF ResolveEnd
<1>4. IsFiniteSet(S)
  BY MembersType, FS_Subset
<1>5. order \in Seq(S)
  BY <1>4, OrderType
<1>6. order \in Seq(Students)
  BY <1>5
<1> HIDE DEF of
<1>7. <<of>> \o order \in Seq(Students)
  BY <1>2, <1>6
<1> DEFINE to == <<of>> \o order
<1>8. PICK msgs : msgs = [p \in DOMAIN to |-> New("QUIZ_DISPUTE_RESOLVED", to[p], NoSecret)]
  OBVIOUS
<1>9. Enqueue(msgs) /\ UNCHANGED <<batch, sent, crashes>>
  BY <1>3, <1>8 DEF ResolveEnd
<1> HIDE DEF to
<1>10. /\ msgs \in Seq(Message)
       /\ \A p \in DOMAIN msgs : /\ msgs[p].state = "PENDING"
                                 /\ msgs[p].event = "QUIZ_DISPUTE_RESOLVED"
  <2>1. to \in Seq(Students)
    BY <1>7 DEF to
  <2> QED BY <1>8, <2>1, EachType DEF Events
<1> QED BY <1>9, <1>10 DEF Adds

LEMMA RunDeadlineRemindersKeeps ==
    ASSUME MailInv, ReminderInv, RunDeadlineReminders
    PROVE  MailInv' /\ ReminderInv'
<1> DEFINE late == {s \in Students : /\ s \notin submitted /\ ~AlreadyQueued(s)
                                     /\ <<s, "DEADLINE_REMINDER">> \notin muted}
<1>1. PICK order \in Orders(late) :
        /\ Enqueue([p \in DOMAIN order |-> New("DEADLINE_REMINDER", order[p], NoSecret)])
        /\ UNCHANGED <<batch, sent, crashes, rowless, reminded>>
  BY DEF RunDeadlineReminders, Announce, deadlines
<1>2. IsFiniteSet(late)
  BY MembersType, FS_Subset
<1>3. /\ order \in Seq(late)
      /\ \A m, n \in DOMAIN order : order[m] = order[n] => m = n
  BY <1>2, OrderType
<1>4. order \in Seq(Students) /\ \A m \in DOMAIN order : ~AlreadyQueued(order[m])
  <2>1. late \subseteq Students /\ \A s \in late : ~AlreadyQueued(s)
    OBVIOUS
  <2>2. \A m \in DOMAIN order : order[m] \in late
    BY <1>3
  <2> HIDE DEF late
  <2>3. order \in Seq(Students)
    BY <1>3, <2>1
  <2> QED BY <2>1, <2>2, <2>3
<1>5. PICK msgs : msgs = [p \in DOMAIN order |-> New("DEADLINE_REMINDER", order[p], NoSecret)]
  OBVIOUS
<1>6. Enqueue(msgs)
  BY <1>1, <1>5
<1>7. /\ msgs \in Seq(Message) /\ DOMAIN msgs = DOMAIN order
      /\ \A p \in DOMAIN msgs : /\ msgs[p].state = "PENDING"
                                /\ msgs[p].event = "DEADLINE_REMINDER" /\ msgs[p].who = order[p]
  BY <1>4, <1>5, EachType DEF Events
<1> HIDE DEF late
<1>8. MailInv'
  BY <1>1, <1>6, <1>7, EnqueueMail
<1>9. /\ \A i \in Ids : i \in DOMAIN box' /\ box'[i] = box[i]
      /\ \A i \in DOMAIN box' \ Ids :
            i - Len(box) \in DOMAIN msgs /\ box'[i] = msgs[i - Len(box)]
  BY <1>6, <1>7, EnqueueBox DEF MailInv
<1>10. \A i \in DOMAIN box' : i \in Int
  BY <1>8 DEF MailInv, MailTypes
<1>11. Len(box) \in Int
  BY DEF MailInv, MailTypes
<1>12. OneReminder'
  <2> SUFFICES ASSUME NEW i \in DOMAIN box', NEW k \in DOMAIN box',
                      box'[i].event = "DEADLINE_REMINDER", box'[k].event = "DEADLINE_REMINDER",
                      box'[i].who = box'[k].who
               PROVE  i = k
    BY DEF OneReminder, Ids
  <2>1. ASSUME NEW m \in DOMAIN box', NEW n \in DOMAIN box', m \in Ids, n \notin Ids,
               box'[m].event = "DEADLINE_REMINDER", box'[m].who = box'[n].who
        PROVE  FALSE
    <3>1. box'[n].who = order[n - Len(box)] /\ n - Len(box) \in DOMAIN order
      BY <1>7, <1>9, <2>1
    <3>2. AlreadyQueued(order[n - Len(box)])
      BY <1>9, <2>1, <3>1 DEF AlreadyQueued
    <3> QED BY <1>4, <3>1, <3>2
  <2>2. CASE i \in Ids /\ k \in Ids
    BY <1>9, <2>2 DEF ReminderInv, OneReminder
  <2>3. CASE i \notin Ids /\ k \notin Ids
    <3>1. i - Len(box) = k - Len(box)
      BY <1>3, <1>7, <1>9, <2>3
    <3> QED BY <1>10, <1>11, <3>1
  <2> QED BY <2>1, <2>2, <2>3
<1>13. ReminderInv'
  <2>1. \A i \in DOMAIN box' \ Ids : ~AlreadyQueued(box'[i].who)
    BY <1>4, <1>7, <1>9
  <2> QED BY <1>1, <1>8, <1>9, <1>12, <2>1, AddedReminders DEF MailInv
<1> QED BY <1>8, <1>13

-----------------------------------------------------------------------------
(* The teachers' digest.                                                   *)

DigestTypes ==
    /\ queue \in [Entry -> {"none", "unsent", "sent"}]
    /\ digest \in [Replicas -> Digest]
    /\ lock \in Replicas \cup {NoReplica}
    /\ told \subseteq Entry

DigestInv == DigestTypes /\ MailedWasTold /\ SentWasInDigest

\* One job moves on; what it has mailed was told.
LEMMA JobMoves ==
    ASSUME DigestInv, NEW r \in Replicas, NEW job \in Digest,
           digest' = [digest EXCEPT ![r] = job], job.mailed \subseteq told',
           told \subseteq told', told' \subseteq Entry,
           lock' \in Replicas \cup {NoReplica}, UNCHANGED queue
    PROVE  DigestInv'
<1>1. /\ digest' \in [Replicas -> Digest] /\ digest'[r] = job
      /\ \A o \in Replicas \ {r} : digest'[o] = digest[o]
  BY DEF DigestInv, DigestTypes
<1>2. DigestTypes'
  BY <1>1 DEF DigestInv, DigestTypes
<1>3. MailedWasTold'
  <2> SUFFICES ASSUME NEW o \in Replicas PROVE digest'[o].mailed \subseteq told'
    BY DEF MailedWasTold
  <2>1. CASE o = r
    BY <1>1, <2>1
  <2>2. CASE o # r
    BY <1>1, <2>2 DEF DigestInv, MailedWasTold
  <2> QED BY <2>1, <2>2
<1>4. SentWasInDigest'
  BY DEF DigestInv, SentWasInDigest
<1> QED BY <1>2, <1>3, <1>4 DEF DigestInv

LEMMA RestingType == Resting \in Digest /\ Resting.mailed = {}
BY DEF Resting, Digest

LEMMA EnqueueReviewDigest ==
    ASSUME DigestInv, NEW u \in Subs, EnqueueReview(u)
    PROVE  DigestInv'
<1>1. /\ queue' = [e \in DOMAIN queue |->
                     IF e[2] = u /\ queue[e] = "none" THEN "unsent" ELSE queue[e]]
      /\ UNCHANGED <<digest, lock, told>>
  BY DEF EnqueueReview
<1>2. DigestTypes'
  BY <1>1 DEF DigestInv, DigestTypes
<1>3. SentWasInDigest'
  BY <1>1 DEF DigestInv, SentWasInDigest
<1>4. MailedWasTold'
  BY <1>1 DEF DigestInv, MailedWasTold
<1> QED BY <1>2, <1>3, <1>4 DEF DigestInv

LEMMA DigestBeginDigest ==
    ASSUME DigestInv, NEW r \in Replicas, DigestBegin(r)
    PROVE  DigestInv'
<1> DEFINE rows == UNION {Unsent(t) : t \in Teachers}
           left == {e[1] : e \in rows}
           job == [Resting EXCEPT !.on = TRUE, !.rows = rows, !.left = left]
<1>1. rows \in SUBSET Entry
  BY DEF Unsent, DigestInv, DigestTypes
<1>2. left \in SUBSET Teachers
  BY <1>1 DEF Entry
<1>3. digest' = [digest EXCEPT ![r] = job] /\ lock' = r /\ UNCHANGED <<queue, told>>
  BY DEF DigestBegin
<1> HIDE DEF rows, left
<1>4. job \in Digest /\ job.mailed = {}
  BY <1>1, <1>2 DEF Resting, Digest
<1> HIDE DEF job
<1>5. told' = told /\ told \subseteq Entry
  BY <1>3 DEF DigestInv, DigestTypes
<1> QED BY <1>3, <1>4, <1>5, JobMoves

LEMMA DigestSendDigest ==
    ASSUME DigestInv, NEW r \in Replicas, NEW t \in Teachers, DigestSend(r, t)
    PROVE  DigestInv'
<1> DEFINE out == Entries(r, t)
           left == digest[r].left \ {t}
           job == [digest[r] EXCEPT !.mailed = out, !.left = left]
<1>1. digest[r] \in Digest /\ told \subseteq Entry
  BY DEF DigestInv, DigestTypes
<1>2. out \in SUBSET Entry /\ left \in SUBSET Teachers
  BY <1>1 DEF Entries, Digest
<1>3. /\ digest' = [digest EXCEPT ![r] = job] /\ told' = told \cup out
      /\ UNCHANGED <<queue, lock>>
  <2>1. digest' = [digest EXCEPT ![r].mailed = Entries(r, t), ![r].left = @ \ {t}]
    BY DEF DigestSend
  <2>2. digest' = [digest EXCEPT ![r] = job]
    BY <1>1, <2>1 DEF DigestInv, DigestTypes, Digest
  <2> QED BY <2>2 DEF DigestSend
<1> HIDE DEF out, left
<1>4. job \in Digest /\ job.mailed = out
  BY <1>1, <1>2 DEF Digest
<1> HIDE DEF job
<1>5. lock' \in Replicas \cup {NoReplica}
  BY <1>3 DEF DigestInv, DigestTypes
<1> QED BY <1>1, <1>2, <1>3, <1>4, <1>5, JobMoves

LEMMA DigestSkipDigest ==
    ASSUME DigestInv, NEW r \in Replicas, NEW t \in Teachers, DigestSkip(r, t)
    PROVE  DigestInv'
<1> DEFINE left == digest[r].left \ {t}
           job == [digest[r] EXCEPT !.left = left]
<1>1. digest[r] \in Digest /\ told \subseteq Entry /\ digest[r].mailed \subseteq told
  BY DEF DigestInv, DigestTypes, MailedWasTold
<1>2. left \in SUBSET Teachers
  BY <1>1 DEF Digest
<1>3. digest' = [digest EXCEPT ![r] = job] /\ UNCHANGED <<queue, lock, told>>
  <2>1. digest' = [digest EXCEPT ![r].left = @ \ {t}]
    BY DEF DigestSkip
  <2>2. digest' = [digest EXCEPT ![r] = job]
    BY <1>1, <2>1 DEF DigestInv, DigestTypes, Digest
  <2> QED BY <2>2 DEF DigestSkip
<1> HIDE DEF left
<1>4. job \in Digest /\ job.mailed = digest[r].mailed
  BY <1>1, <1>2 DEF Digest
<1> HIDE DEF job
<1>5. lock' \in Replicas \cup {NoReplica}
  BY <1>3 DEF DigestInv, DigestTypes
<1> QED BY <1>1, <1>3, <1>4, <1>5, JobMoves

\* The rows that are marked are those whose digest went out.
LEMMA DigestCommitDigest ==
    ASSUME DigestInv, NEW r \in Replicas, DigestCommit(r)
    PROVE  DigestInv'
<1> DEFINE job == [digest[r] EXCEPT !.mailed = {}, !.commits = 1]
<1>1. digest[r] \in Digest /\ told \subseteq Entry /\ digest[r].mailed \subseteq told
  BY DEF DigestInv, DigestTypes, MailedWasTold
<1>2. /\ digest' = [digest EXCEPT ![r] = job] /\ UNCHANGED <<lock, told>>
      /\ queue' = DigestMarked(queue, digest[r].mailed)
  <2>1. digest' = [digest EXCEPT ![r].mailed = {}, ![r].commits = 1]
    BY DEF DigestCommit
  <2>2. digest' = [digest EXCEPT ![r] = job]
    BY <1>1, <2>1 DEF DigestInv, DigestTypes, Digest
  <2> QED BY <2>2 DEF DigestCommit
<1>3. job \in Digest /\ job.mailed = {}
  BY <1>1 DEF Digest
<1> HIDE DEF job
<1>4. /\ digest' \in [Replicas -> Digest] /\ digest'[r] = job
      /\ \A o \in Replicas \ {r} : digest'[o] = digest[o]
  BY <1>2, <1>3 DEF DigestInv, DigestTypes
<1>5. DigestTypes'
  BY <1>2, <1>4 DEF DigestInv, DigestTypes, DigestMarked
<1>6. MailedWasTold'
  BY <1>2, <1>3, <1>4 DEF DigestInv, MailedWasTold
<1>7. SentWasInDigest'
  BY <1>1, <1>2 DEF DigestInv, SentWasInDigest, DigestMarked
<1> QED BY <1>5, <1>6, <1>7 DEF DigestInv

LEMMA DigestEndDigest ==
    ASSUME DigestInv, NEW r \in Replicas, DigestEnd(r) \/ DigestCrash(r)
    PROVE  DigestInv'
<1>1. digest' = [digest EXCEPT ![r] = Resting] /\ UNCHANGED <<queue, told>>
  BY DEF DigestEnd, DigestCrash
<1>2. lock' \in Replicas \cup {NoReplica} /\ told \subseteq Entry
  BY DEF DigestInv, DigestTypes, DigestEnd, DigestCrash
<1> QED BY <1>1, <1>2, RestingType, JobMoves

LEMMA DigestLockLostDigest ==
    ASSUME DigestInv, NEW r \in Replicas, DigestLockLost(r)
    PROVE  DigestInv'
BY DEF DigestLockLost, DigestInv, DigestTypes, MailedWasTold, SentWasInDigest

LEMMA DigestSame ==
    ASSUME DigestInv, UNCHANGED digests
    PROVE  DigestInv'
BY DEF digests, DigestInv, DigestTypes, MailedWasTold, SentWasInDigest

LEMMA MailSame ==
    ASSUME MailInv, ReminderInv, UNCHANGED <<box, batch, sent, rowless, reminded>>,
           crashes' \in {crashes, crashes + 1}
    PROVE  MailInv' /\ ReminderInv'
<1>0. crashes' \in Nat /\ crashes \in Nat
  BY DEF MailInv, MailTypes
<1>1. MailTypes' /\ CopiesAgree' /\ CopiesTold'
  BY <1>0 DEF MailInv, MailTypes, CopiesAgree, CopiesTold, Ids
<1>2. FinishedWasTold'
  BY DEF MailInv, FinishedWasTold, Ids, Mailed
<1>3. /\ \A i \in Ids : box[i].retries \in Nat /\ reminded[box[i].who] \in Nat
      /\ \A i \in DOMAIN batch.rows : batch.rows[i].retries \in Nat
  BY ReminderFacts DEF MailInv, ReminderInv
<1>4. Counted'
  <2> SUFFICES ASSUME NEW i \in Ids, box[i].event = "DEADLINE_REMINDER"
               PROVE  IF Ran(i)
                      THEN /\ reminded[box[i].who] <= Tries(batch.rows[i]) + crashes'
                           /\ reminded[box[i].who] <= box[i].retries + 1 + crashes'
                      ELSE reminded[box[i].who] <= Tries(box[i]) + crashes'
    BY DEF Counted, Ids, Ran
  <2>1. Tries(box[i]) \in Nat /\ (Ran(i) => Tries(batch.rows[i]) \in Nat)
    BY <1>3 DEF Tries, Ran
  <2>2. /\ Ran(i) => /\ reminded[box[i].who] <= Tries(batch.rows[i]) + crashes
                     /\ reminded[box[i].who] <= box[i].retries + 1 + crashes
        /\ ~Ran(i) => reminded[box[i].who] <= Tries(box[i]) + crashes
    BY DEF ReminderInv, Counted
  <2> QED BY <1>0, <1>3, <2>1, <2>2
<1>5. OneReminder' /\ Waiting' /\ Unreminded' /\ ReminderTypes'
  BY DEF ReminderInv, OneReminder, Waiting, Unreminded, ReminderTypes, AlreadyQueued, Ids
<1> QED BY <1>1, <1>2, <1>4, <1>5 DEF MailInv, ReminderInv

-----------------------------------------------------------------------------
(* What students and teachers do.                                          *)

RequestTypes ==
    /\ ops \in Nat
    /\ muted \subseteq Students \X Cases
    /\ submitted \subseteq Students /\ due \in BOOLEAN /\ assigned \subseteq Students
    /\ disputes \in Seq(Dispute) /\ override \in BOOLEAN
    /\ ruling \in [Rulings -> {Free} \cup [dispute : DOMAIN disputes, accept : BOOLEAN]]
    /\ asked \subseteq Students /\ answered \subseteq Students

LEMMA TypeParts == TypeOK <=> MailTypes /\ DigestTypes /\ RequestTypes /\ ReminderTypes
BY DEF TypeOK, MailTypes, DigestTypes, RequestTypes, ReminderTypes

LEMMA RequestSame ==
    ASSUME RequestTypes, ops' \in Nat,
           UNCHANGED <<muted, submitted, due, assigned, quiz, feedback>>
    PROVE  RequestTypes'
BY DEF RequestTypes, quiz, feedback

LEMMA ReportTypes ==
    ASSUME RequestTypes, NEW s \in Students, ReportQuestion(s)
    PROVE  RequestTypes'
<1> DEFINE new == [of |-> s, status |-> "OPEN"]
<1>1. disputes' = Append(disputes, new) /\ new \in Dispute
  BY DEF ReportQuestion, Dispute
<1> HIDE DEF new
<1>2. disputes' \in Seq(Dispute) /\ DOMAIN disputes \subseteq DOMAIN disputes'
  BY <1>1 DEF RequestTypes
<1>3. ruling' \in [Rulings -> {Free} \cup [dispute : DOMAIN disputes', accept : BOOLEAN]]
  <2>1. [dispute : DOMAIN disputes, accept : BOOLEAN]
          \subseteq [dispute : DOMAIN disputes', accept : BOOLEAN]
    BY <1>2
  <2>2. ruling' = ruling
    BY DEF ReportQuestion
  <2> QED BY <2>1, <2>2 DEF RequestTypes
<1> QED BY <1>2, <1>3 DEF RequestTypes, ReportQuestion, Op, feedback, deadlines

LEMMA ResolveBeginTypes ==
    ASSUME RequestTypes, NEW r \in Rulings, NEW d \in DOMAIN disputes, NEW accept \in BOOLEAN,
           ResolveBegin(r, d, accept)
    PROVE  RequestTypes'
<1> DEFINE T == {Free} \cup [dispute : DOMAIN disputes, accept : BOOLEAN]
<1>1. ruling \in [Rulings -> T] /\ [dispute |-> d, accept |-> accept] \in T
  BY DEF RequestTypes
<1>2. ruling' = [ruling EXCEPT ![r] = [dispute |-> d, accept |-> accept]]
  BY DEF ResolveBegin
<1> HIDE DEF T
<1>3. ruling' \in [Rulings -> T]
  BY <1>1, <1>2
<1> QED BY <1>3 DEF T, RequestTypes, ResolveBegin, Op, feedback, deadlines

LEMMA ResolveEndTypes ==
    ASSUME RequestTypes, NEW r \in Rulings, NEW F \in SUBSET Students, ResolveEnd(r, F)
    PROVE  RequestTypes'
<1> DEFINE d == ruling[r].dispute
           accept == ruling[r].accept
           T == {Free} \cup [dispute : DOMAIN disputes, accept : BOOLEAN]
<1>1. disputes' = Ruled(disputes, d, accept) /\ override' = (override \/ accept)
  BY DEF ResolveEnd
<1>2. accept \in BOOLEAN
  BY DEF RequestTypes, ResolveEnd
<1> HIDE DEF d, accept
<1>3. \A k \in DOMAIN disputes : disputes[k] \in Dispute
  BY DEF RequestTypes
<1>4. \A k \in DOMAIN disputes, st \in {"OPEN", "ACCEPTED", "REJECTED"} :
        [disputes[k] EXCEPT !.status = st] \in Dispute
  BY <1>3 DEF Dispute
<1>5. disputes' \in [DOMAIN disputes -> Dispute]
  BY <1>1, <1>2, <1>3, <1>4 DEF Ruled
<1>6. disputes' \in Seq(Dispute) /\ DOMAIN disputes' = DOMAIN disputes
  BY <1>5 DEF RequestTypes
<1>7. ruling' = [ruling EXCEPT ![r] = Free]
  BY DEF ResolveEnd
<1>8. ruling' \in [Rulings -> T]
  <2>1. ruling \in [Rulings -> T] /\ Free \in T
    BY DEF RequestTypes
  <2> HIDE DEF T
  <2> QED BY <1>7, <2>1
<1>9. override' \in BOOLEAN
  BY <1>1, <1>2 DEF RequestTypes
<1> QED BY <1>6, <1>8, <1>9 DEF RequestTypes, ResolveEnd, feedback, deadlines

-----------------------------------------------------------------------------
(* Theorems.                                                               *)

Inv == MailInv /\ ReminderInv /\ DigestInv /\ RequestTypes

LEMMA InvParts == IInv <=> Inv
BY TypeParts DEF IInv, Inv, MailInv, DigestInv, ReminderInv

LEMMA InitInv == Init => Inv
<1> SUFFICES ASSUME Init PROVE Inv
  OBVIOUS
<1>1. box = <<>> /\ batch = NoBatch /\ sent = {} /\ crashes = 0
  BY DEF Init, MailInit
<1>2. DOMAIN box = {}
  BY <1>1
<1>3. batch.rows = <<>> /\ batch.left = {} /\ batch.on = FALSE /\ DOMAIN batch.rows = {}
  BY <1>1 DEF NoBatch
<1>4. batch \in [on : BOOLEAN, left : SUBSET Nat, rows : [DOMAIN batch.rows -> Message]]
  <2> DEFINE R == [DOMAIN batch.rows -> Message]
  <2>1. batch.rows \in R
    BY <1>3
  <2> HIDE DEF R
  <2>2. batch \in [on : BOOLEAN, left : SUBSET Nat, rows : R]
    BY <1>1, <1>3, <2>1 DEF NoBatch
  <2> QED BY <2>2 DEF R
<1>5. MailInv
  BY <1>1, <1>2, <1>3, <1>4
     DEF MailInv, MailTypes, CopiesAgree, CopiesTold, FinishedWasTold, Ids
<1>6. ReminderInv
  <2>1. rowless = {} /\ reminded = [s \in Students |-> 0]
    BY DEF Init
  <2>2. ReminderTypes /\ Unreminded
    BY <2>1 DEF ReminderTypes, Unreminded
  <2>3. OneReminder /\ Counted /\ Waiting
    BY <1>2, <1>3 DEF OneReminder, Counted, Waiting, Ids
  <2> QED BY <2>2, <2>3 DEF ReminderInv
<1>7. DigestInv
  <2>1. queue = [e \in Entry |-> "none"] /\ digest = [r \in Replicas |-> Resting]
        /\ lock = NoReplica /\ told = {}
    BY DEF Init
  <2>2. DigestTypes
    BY <2>1, RestingType DEF DigestTypes
  <2>3. MailedWasTold /\ SentWasInDigest
    BY <2>1, RestingType DEF MailedWasTold, SentWasInDigest
  <2> QED BY <2>2, <2>3 DEF DigestInv
<1>8. RequestTypes
  <2>1. disputes = <<>> /\ ruling = [r \in Rulings |-> Free]
    BY DEF Init
  <2>2. disputes \in Seq(Dispute)
    BY <2>1
  <2>3. ruling \in [Rulings -> {Free} \cup [dispute : DOMAIN disputes, accept : BOOLEAN]]
    BY <2>1
  <2>4. /\ ops \in Nat /\ muted = {} /\ submitted = {} /\ due \in BOOLEAN
        /\ override \in BOOLEAN /\ asked = {} /\ answered = {} /\ assigned \subseteq Students
    BY DEF Init
  <2> QED BY <2>2, <2>3, <2>4 DEF RequestTypes
<1> QED BY <1>5, <1>6, <1>7, <1>8 DEF Inv

\* The batch begins, is committed, or is lost.
LEMMA PollReminders ==
    ASSUME Inv, Poll, UNCHANGED <<rowless, reminded>>
    PROVE  ReminderInv'
<1> DEFINE live == {i \in Ids : IsLive(box[i])}
<1>1. /\ batch' = [on |-> TRUE, left |-> live, rows |-> [i \in live |-> box[i]]]
      /\ UNCHANGED <<box, crashes>> /\ ~batch.on
  BY DEF Poll
<1>2. \A i \in Ids : ~Ran(i) /\ ~Ran(i)'
  BY <1>1 DEF Ran, Inv, ReminderInv, Waiting
<1>3. Counted'
  BY <1>1, <1>2 DEF Inv, ReminderInv, Counted, Ids
<1>4. Waiting'
  BY <1>1 DEF Waiting, IsLive
<1> QED BY <1>1, <1>3, <1>4
        DEF Inv, ReminderInv, ReminderTypes, OneReminder, Unreminded, AlreadyQueued, Ids

LEMMA CommitReminders ==
    ASSUME Inv, Commit, UNCHANGED <<rowless, reminded>>
    PROVE  ReminderInv'
<1>1. /\ box' = [i \in Ids |-> IF i \in DOMAIN batch.rows THEN batch.rows[i] ELSE box[i]]
      /\ batch' = NoBatch /\ batch.left = {} /\ crashes' = crashes
  BY DEF Commit
<1>2. /\ DOMAIN box' = Ids
      /\ \A i \in Ids : box'[i].event = box[i].event /\ box'[i].who = box[i].who
  BY <1>1 DEF Inv, MailInv, CopiesAgree
<1>3. DOMAIN batch'.rows = {} /\ batch'.left = {}
  BY <1>1, NoCopies
<1>4. Counted'
  <2> SUFFICES ASSUME NEW i \in Ids, box[i].event = "DEADLINE_REMINDER"
               PROVE  reminded[box[i].who] <= Tries(box'[i]) + crashes
    BY <1>1, <1>2, <1>3 DEF Counted, Ran, Ids
  <2>1. CASE Ran(i)
    <3>1. box'[i] = batch.rows[i]
      BY <1>1, <2>1 DEF Ran
    <3> QED BY <2>1, <3>1 DEF Inv, ReminderInv, Counted
  <2>2. CASE ~Ran(i)
    <3>1. box'[i] = box[i]
      BY <1>1, <2>2 DEF Ran
    <3> QED BY <2>2, <3>1 DEF Inv, ReminderInv, Counted
  <2> QED BY <2>1, <2>2
<1>5. Waiting'
  BY <1>3 DEF Waiting
<1>6. OneReminder' /\ Unreminded'
  BY <1>2 DEF Inv, ReminderInv, OneReminder, Unreminded, AlreadyQueued, Ids
<1> QED BY <1>4, <1>5, <1>6 DEF Inv, ReminderInv, ReminderTypes

LEMMA CrashReminders ==
    ASSUME Inv, Crash, UNCHANGED <<rowless, reminded>>
    PROVE  ReminderInv'
<1>1. batch' = NoBatch /\ box' = box /\ crashes' = crashes + 1
  BY DEF Crash
<1>2. DOMAIN batch'.rows = {} /\ batch'.left = {}
  BY <1>1, NoCopies
<1>3. /\ crashes \in Nat
      /\ \A i \in Ids : box[i].retries \in Nat /\ reminded[box[i].who] \in Nat
  BY ReminderFacts DEF Inv, MailInv, ReminderInv
<1>4. Counted'
  <2> SUFFICES ASSUME NEW i \in Ids, box[i].event = "DEADLINE_REMINDER"
               PROVE  reminded[box[i].who] <= Tries(box[i]) + (crashes + 1)
    BY <1>1, <1>2 DEF Counted, Ran, Ids
  <2>1. /\ Ran(i) => reminded[box[i].who] <= box[i].retries + 1 + crashes
        /\ ~Ran(i) => reminded[box[i].who] <= Tries(box[i]) + crashes
    BY DEF Inv, ReminderInv, Counted
  <2> QED BY <1>3, <2>1 DEF Tries
<1>5. Waiting'
  BY <1>2 DEF Waiting
<1> QED BY <1>1, <1>4, <1>5
        DEF Inv, ReminderInv, ReminderTypes, OneReminder, Unreminded, AlreadyQueued, Ids

LEMMA OutboxSteps ==
    ASSUME Inv, OutboxStep \/ \E i \in Ids : Deliver(i)
    PROVE  Inv'
<1>1. DigestInv' /\ RequestTypes'
  <2>1. UNCHANGED <<muted, submitted, due, assigned, quiz, feedback, digests, ops>>
    BY DEF OutboxStep, Deliver, deadlines
  <2>2. DigestInv'
    BY <2>1, DigestSame DEF Inv
  <2>3. ops' \in Nat
    BY <2>1 DEF Inv, RequestTypes
  <2> QED BY <2>1, <2>2, <2>3, RequestSame DEF Inv
<1>2. OutboxStep => UNCHANGED <<rowless, reminded>>
  BY DEF OutboxStep, deadlines
<1>3. CASE OutboxStep /\ Poll
  BY <1>1, <1>2, <1>3, PollMail, PollReminders DEF Inv
<1>4. CASE OutboxStep /\ Commit
  BY <1>1, <1>2, <1>4, CommitMail, CommitReminders DEF Inv
<1>5. CASE OutboxStep /\ Crash
  <2>1. batch' = NoBatch /\ UNCHANGED <<box, sent, rowless>> /\ crashes' \in Nat
    BY <1>2, <1>5 DEF Crash, Inv, MailInv, MailTypes
  <2> QED BY <1>1, <1>2, <1>5, <2>1, CrashMail, CrashReminders DEF Inv
<1>6. ASSUME NEW i \in Ids, Deliver(i) PROVE MailInv' /\ ReminderInv'
  BY <1>6, DeliverMail, DeliverReminders DEF Inv
<1> QED BY <1>1, <1>3, <1>4, <1>5, <1>6 DEF Inv, OutboxStep

\* A request that changes neither the digests nor what others are told.
LEMMA RequestSteps ==
    ASSUME Inv, UNCHANGED digests,
           MailInv' /\ ReminderInv', RequestTypes'
    PROVE  Inv'
BY DigestSame DEF Inv

LEMMA OpsType ==
    ASSUME Inv
    PROVE  (Op => ops' \in Nat) /\ (ops' = ops => ops' \in Nat)
BY DEF Inv, Op, RequestTypes

LEMMA MailUnchanged ==
    ASSUME Inv, UNCHANGED <<mail, rowless, reminded>>
    PROVE  MailInv' /\ ReminderInv'
<1>1. crashes' = crashes /\ UNCHANGED <<box, batch, sent>>
  BY DEF mail
<1> QED BY <1>1, MailSame DEF Inv

LEMMA StudentSteps ==
    ASSUME Inv, NEW s \in Students,
           \/ QuizFinished(s) \/ SubmitFeedback(s) \/ Submit(s) \/ GainRow(s)
           \/ ReportQuestion(s)
           \/ \E case \in Cases : TogglePreference(s, case)
    PROVE  Inv'
<1>1. CASE QuizFinished(s)
  <2>1. UNCHANGED <<muted, submitted, due, assigned, rowless, reminded, quiz, feedback, digests>> /\ ops' \in Nat
    BY <1>1, OpsType DEF QuizFinished, Announce, deadlines
  <2>2. MailInv' /\ ReminderInv'
    BY <1>1, <2>1, QuizFinishedAdds, AddsKeeps DEF Inv
  <2>3. RequestTypes'
    BY <2>1, RequestSame DEF Inv
  <2> QED BY <2>1, <2>2, <2>3, RequestSteps
<1>2. CASE SubmitFeedback(s)
  <2>1. UNCHANGED <<mail, rowless, reminded, digests>>
    BY <1>2 DEF SubmitFeedback, deadlines
  <2>2. RequestTypes'
    BY <1>2 DEF SubmitFeedback, Inv, RequestTypes, quiz, deadlines
  <2> QED BY <2>1, <2>2, MailUnchanged, RequestSteps
<1>3. CASE Submit(s)
  <2>1. UNCHANGED <<mail, rowless, reminded, digests>>
    BY <1>3 DEF Submit
  <2>2. RequestTypes'
    BY <1>3 DEF Submit, Op, Inv, RequestTypes, quiz, feedback
  <2> QED BY <2>1, <2>2, MailUnchanged, RequestSteps
<1>4. CASE ReportQuestion(s)
  <2>1. UNCHANGED <<mail, rowless, reminded, digests>>
    BY <1>4 DEF ReportQuestion, deadlines
  <2>2. RequestTypes'
    BY <1>4, ReportTypes DEF Inv
  <2> QED BY <2>1, <2>2, MailUnchanged, RequestSteps
<1>5. ASSUME NEW case \in Cases, TogglePreference(s, case) PROVE Inv'
  <2>1. UNCHANGED <<mail, rowless, reminded, digests>>
    BY <1>5 DEF TogglePreference, deadlines
  <2>2. muted' \subseteq Students \X Cases
    BY <1>5 DEF TogglePreference, Inv, RequestTypes
  <2>3. RequestTypes'
    BY <1>5, <2>2 DEF TogglePreference, Op, Inv, RequestTypes, quiz, feedback, deadlines
  <2> QED BY <2>1, <2>3, MailUnchanged, RequestSteps
<1>6. CASE GainRow(s)
  <2>1. UNCHANGED <<mail, rowless, reminded, digests>>
    BY <1>6 DEF GainRow
  <2>2. RequestTypes'
    BY <1>6 DEF GainRow, Op, Inv, RequestTypes, quiz, feedback
  <2> QED BY <2>1, <2>2, MailUnchanged, RequestSteps
<1> QED BY <1>1, <1>2, <1>3, <1>4, <1>5, <1>6

LEMMA TeacherSteps ==
    ASSUME Inv,
           \/ Reviewed \/ RequestFeedback \/ MoveDeadline \/ RunDeadlineReminders
           \/ \E r \in Rulings :
                \/ \E d \in DOMAIN disputes, accept \in BOOLEAN : ResolveBegin(r, d, accept)
                \/ \E F \in SUBSET Students : ResolveEnd(r, F)
    PROVE  Inv'
<1>1. CASE Reviewed
  <2>1. UNCHANGED <<muted, submitted, due, assigned, rowless, reminded, quiz, feedback, digests>> /\ ops' \in Nat
    BY <1>1, OpsType DEF Reviewed, Announce, deadlines
  <2>2. MailInv' /\ ReminderInv'
    BY <1>1, <2>1, ReviewedAdds, AddsKeeps DEF Inv
  <2>3. RequestTypes'
    BY <2>1, RequestSame DEF Inv
  <2> QED BY <2>1, <2>2, <2>3, RequestSteps
<1>2. CASE RequestFeedback
  <2>1. /\ UNCHANGED <<muted, submitted, due, assigned, rowless, reminded, quiz, answered, digests>> /\ ops' \in Nat
        /\ asked' = Students
    BY <1>2, OpsType DEF RequestFeedback, Announce, deadlines
  <2>2. MailInv' /\ ReminderInv'
    BY <1>2, <2>1, RequestFeedbackAdds, AddsKeeps DEF Inv
  <2>3. RequestTypes'
    BY <2>1 DEF Inv, RequestTypes, quiz
  <2> QED BY <2>1, <2>2, <2>3, RequestSteps
<1>3. CASE MoveDeadline
  <2>1. UNCHANGED <<mail, rowless, reminded, digests>>
    BY <1>3 DEF MoveDeadline
  <2>2. RequestTypes'
    BY <1>3 DEF MoveDeadline, Op, Inv, RequestTypes, quiz, feedback
  <2> QED BY <2>1, <2>2, MailUnchanged, RequestSteps
<1>4. CASE RunDeadlineReminders
  <2>1. UNCHANGED <<muted, submitted, due, assigned, rowless, reminded, quiz, feedback, digests>> /\ ops' \in Nat
    BY <1>4, OpsType DEF RunDeadlineReminders, Announce, deadlines
  <2>2. MailInv' /\ ReminderInv'
    BY <1>4, RunDeadlineRemindersKeeps DEF Inv
  <2>3. RequestTypes'
    BY <2>1, RequestSame DEF Inv
  <2> QED BY <2>1, <2>2, <2>3, RequestSteps
<1>5. ASSUME NEW r \in Rulings, NEW d \in DOMAIN disputes, NEW accept \in BOOLEAN,
             ResolveBegin(r, d, accept)
      PROVE  Inv'
  <2>1. UNCHANGED <<mail, rowless, reminded, digests>>
    BY <1>5 DEF ResolveBegin, deadlines
  <2>2. RequestTypes'
    BY <1>5, ResolveBeginTypes DEF Inv
  <2> QED BY <2>1, <2>2, MailUnchanged, RequestSteps
<1>6. ASSUME NEW r \in Rulings, NEW F \in SUBSET Students, ResolveEnd(r, F)
      PROVE  Inv'
  <2>1. UNCHANGED <<rowless, reminded, digests>>
    BY <1>6 DEF ResolveEnd, deadlines
  <2>2. TypeOK
    BY TypeParts DEF Inv, MailInv, DigestInv, ReminderInv
  <2>3. MailInv' /\ ReminderInv'
    BY <1>6, <2>1, <2>2, ResolveEndAdds, AddsKeeps DEF Inv
  <2>4. RequestTypes'
    BY <1>6, ResolveEndTypes DEF Inv
  <2> QED BY <2>1, <2>3, <2>4, RequestSteps
<1> QED BY <1>1, <1>2, <1>3, <1>4, <1>5, <1>6

LEMMA DigestSteps ==
    ASSUME Inv,
           \/ \E u \in Subs : EnqueueReview(u)
           \/ \E r \in Replicas :
                \/ DigestBegin(r) \/ DigestCommit(r) \/ DigestLockLost(r) \/ DigestEnd(r)
                \/ DigestCrash(r)
                \/ \E t \in Teachers : DigestSend(r, t) \/ DigestSkip(r, t)
    PROVE  Inv'
<1>1. DigestInv'
  BY EnqueueReviewDigest, DigestBeginDigest, DigestCommitDigest, DigestLockLostDigest,
     DigestEndDigest, DigestSendDigest, DigestSkipDigest DEF Inv
<1>2. /\ UNCHANGED <<box, batch, sent, muted, submitted, due, assigned, rowless, reminded>>
      /\ UNCHANGED <<quiz, feedback>>
      /\ Op \/ ops' = ops
      /\ crashes' = crashes \/ crashes' = crashes + 1
  BY DEF EnqueueReview, DigestBegin, DigestCommit, DigestLockLost, DigestEnd, DigestCrash,
         DigestSend, DigestSkip, mail, deadlines
<1>3. MailInv' /\ ReminderInv'
  BY <1>2, MailSame DEF Inv
<1>4. RequestTypes'
  BY <1>2, OpsType, RequestSame DEF Inv
<1> QED BY <1>1, <1>3, <1>4 DEF Inv

LEMMA InvStep == Inv /\ [Next]_vars => Inv'
<1> SUFFICES ASSUME Inv, [Next]_vars PROVE Inv'
  OBVIOUS
<1>1. CASE UNCHANGED vars
  <2>1. /\ UNCHANGED <<mail, rowless, reminded, digests>>
        /\ UNCHANGED <<muted, submitted, due, assigned, quiz, feedback, ops>>
    BY <1>1 DEF vars, deadlines
  <2>2. RequestTypes'
    BY <2>1, OpsType, RequestSame DEF Inv
  <2> QED BY <2>1, <2>2, MailUnchanged, RequestSteps
<1>2. CASE Next
  BY <1>2, OutboxSteps, StudentSteps, TeacherSteps, DigestSteps DEF Next
<1> QED BY <1>1, <1>2

LEMMA Invariance == Spec => []IInv
BY InitInv, InvStep, InvParts, PTL DEF Spec

\* Types: requests, handlers and jobs in any order leave tables, batch and jobs of
\* their types, and a poll works on rows that are in the table.
THEOREM TypeCorrect == Spec => []TypeOK
<1>1. IInv => TypeOK
  BY DEF IInv
<1> QED BY <1>1, Invariance, PTL

\* process_outbox_messages marks a message FINISHED only after every recipient
\* was mailed or had opted out, for any squad, channels, retries and crashes; the
\* one exception is a reminder whose handler found no row to reach the student by.
THEOREM FinishedReachedAll == Spec => []FinishedWasTold
<1>1. IInv => FinishedWasTold
  BY DEF IInv
<1> QED BY <1>1, Invariance, PTL

\* A student is reminded at most once more than the reminder's failed tries and the
\* worker's deaths account for, however often enqueue_due_deadline_reminders runs.
THEOREM RemindersAreNotRepeated == Spec => []RepeatsAreRetries
<1>1. IInv => RepeatsAreRetries
  <2> SUFFICES ASSUME IInv, NEW i \in Ids, box[i].event = "DEADLINE_REMINDER"
               PROVE  reminded[box[i].who] <= 1 + box[i].retries + crashes
    BY DEF RepeatsAreRetries
  <2>1. /\ crashes \in Nat /\ box[i].retries \in Nat
        /\ reminded[box[i].who] \in Nat
    BY ReminderFacts, TypeParts DEF IInv
  <2>2. /\ Ran(i) => reminded[box[i].who] <= box[i].retries + 1 + crashes
        /\ ~Ran(i) => reminded[box[i].who] <= Tries(box[i]) + crashes
    BY DEF IInv, Counted
  <2> QED BY <2>1, <2>2 DEF Tries
<1> QED BY <1>1, Invariance, PTL

\* flush_teacher_digests marks only rows a mail carried, for any number of
\* replicas that run at once because a lock was lost.
THEOREM SentWasMailed == Spec => []SentWasInDigest
<1>1. IInv => SentWasInDigest
  BY DEF IInv
<1> QED BY <1>1, Invariance, PTL

-----------------------------------------------------------------------------
(* Accounts.                                                               *)

\* What went out in an unfinished message is known to its owner.
SentIsKnown ==
    \A m \in sent : box[m[1]].state # "FINISHED" =>
        box[m[1]].secret \in known[box[m[1]].who]

\* The copies of a poll are of unfinished messages; one that will be committed as
\* finished has told its secret, the others still hold it.
CopiesKeep ==
    \A i \in DOMAIN batch.rows :
        /\ box[i].state # "FINISHED" /\ batch.rows[i].who = box[i].who
        /\ IF batch.rows[i].state = "FINISHED"
           THEN i \notin batch.left /\ box[i].secret \in known[box[i].who]
           ELSE batch.rows[i].secret = box[i].secret

\* An unfinished message still holds its password.
SecretsKept == \A i \in Ids : box[i].state # "FINISHED" => box[i].secret \in Nat

Deliverable == SentIsKnown /\ CopiesKeep /\ SecretsKept /\ PasswordIsDeliverable

\* Sessions and changes lie in the past, a session never has a newer password
\* than its account, and one with the current password is no older than it.
AccountIsPast(a) == user[a].changed = began[a] /\ user[a].changed <= now
SessionIsPast(s) ==
    /\ s.iat <= now /\ s.pw <= user[s.of].pw
    /\ s.pw = user[s.of].pw => s.iat >= user[s.of].changed
ChangesArePast ==
    \A r \in Slots : request[r] # NoRequest /\ request[r].op = "change" => request[r].at <= now

SessionsInv ==
    /\ \A a \in Accounts : AccountIsPast(a)
    /\ \A s \in sessions : SessionIsPast(s)
    /\ ChangesArePast

\* The login requests on a that have passed the throttle and not failed yet: each
\* may still add a failure.
IsGuess(q, a) == q # NoRequest /\ q.op = "login" /\ ~q.checked /\ q.of = a
Guesses(a) == {r \in Slots : IsGuess(request[r], a)}

Budget == Max + Cardinality(Slots) - 1
ThrottleInv ==
    \A a \in Accounts : Len(Pruned(failures[a])) + Cardinality(Guesses(a)) <= Budget

\* The inductive invariant.
AccountsIInv == AccountsTypeOK /\ Deliverable /\ SessionsInv /\ ThrottleInv

-----------------------------------------------------------------------------
(* The throttle's deque.                                                   *)

\* A prefix of 1 .. n is 1 .. its size.
LEMMA PrefixSize ==
    ASSUME NEW n \in Nat, NEW S \in SUBSET (1 .. n), \A x \in S : 1 .. x \subseteq S
    PROVE  /\ Cardinality(S) \in 0 .. n
           /\ S = 1 .. Cardinality(S)
<1> DEFINE c == Cardinality(S)
<1>1. IsFiniteSet(1 .. n) /\ Cardinality(1 .. n) = n
  BY FS_Interval
<1>2. IsFiniteSet(S) /\ c <= n
  BY <1>1, FS_Subset
<1>3. c \in Nat
  BY <1>2, FS_CardinalityType
<1> HIDE DEF c
<1>4. ASSUME NEW x \in S PROVE x <= c
  <2>1. 1 .. x \subseteq S
    OBVIOUS
  <2>2. Cardinality(1 .. x) = x /\ x \in Nat
    BY FS_Interval
  <2>3. Cardinality(1 .. x) <= c
    BY <1>2, <2>1, FS_Subset DEF c
  <2> QED BY <2>2, <2>3
<1>5. ASSUME NEW x \in 1 .. c PROVE x \in S
  <2> SUFFICES ASSUME x \notin S PROVE FALSE
    OBVIOUS
  <2>1. S \subseteq 1 .. x - 1
    <3> SUFFICES ASSUME NEW y \in S, ~(y <= x - 1) PROVE FALSE
      OBVIOUS
    <3>1. y \in Nat /\ x \in 1 .. y
      BY <1>3
    <3> QED BY <3>1
  <2>2. x \in Nat /\ x - 1 \in Int /\ 1 \in Int
    BY <1>3
  <2>4. IsFiniteSet(1 .. x - 1) /\ Cardinality(1 .. x - 1) = x - 1
    BY <1>5, <2>2, FS_Interval
  <2>3. c <= x - 1
    <3> DEFINE T == 1 .. x - 1
    <3>1. IsFiniteSet(T) /\ Cardinality(T) = x - 1 /\ S \in SUBSET T
      BY <2>1, <2>4
    <3> HIDE DEF T
    <3>2. Cardinality(S) <= Cardinality(T)
      BY <3>1, FS_Subset
    <3> QED BY <3>1, <3>2 DEF c
  <2> QED BY <1>3, <1>5, <2>3
<1>6. S = 1 .. c
  <2>1. \A x \in S : x \in 1 .. c
    BY <1>3, <1>4
  <2> QED BY <1>5, <2>1
<1> QED BY <1>2, <1>3, <1>6 DEF c

\* What is popped is a prefix.
StaleAt(q, t) == {n \in DOMAIN q : \A m \in 1 .. n : q[m] + Window <= t}

LEMMA StaleIsPrefix ==
    ASSUME NEW q \in Seq(Nat), NEW t
    PROVE  /\ Cardinality(StaleAt(q, t)) \in 0 .. Len(q)
           /\ StaleAt(q, t) = 1 .. Cardinality(StaleAt(q, t))
<1>1. Len(q) \in Nat /\ DOMAIN q = 1 .. Len(q)
  OBVIOUS
<1> DEFINE S == StaleAt(q, t)
<1>2. S \in SUBSET (1 .. Len(q)) /\ \A x \in S : 1 .. x \subseteq S
  BY <1>1 DEF StaleAt
<1> HIDE DEF S
<1>3. Cardinality(S) \in 0 .. Len(q) /\ S = 1 .. Cardinality(S)
  BY <1>1, <1>2, PrefixSize
<1> QED BY <1>3 DEF S

LEMMA StaleNow == \A q : Stale(q) = StaleAt(q, now)
BY DEF Stale, StaleAt

LEMMA PrunedLen ==
    ASSUME NEW q \in Seq(Nat)
    PROVE  /\ Pruned(q) \in Seq(Nat)
           /\ Len(Pruned(q)) = Len(q) - Cardinality(Stale(q))
           /\ Len(Pruned(q)) \in Nat
           /\ \A p \in 1 .. Len(Pruned(q)) : Pruned(q)[p] = q[Cardinality(Stale(q)) + p]
<1> DEFINE c == Cardinality(Stale(q))
<1>1. c \in 0 .. Len(q) /\ Len(q) \in Nat
  BY StaleIsPrefix, StaleNow
<1> HIDE DEF c
<1>2. Pruned(q) = SubSeq(q, c + 1, Len(q))
  BY DEF Pruned, c
<1> QED BY <1>1, <1>2 DEF c

\* Once popped, nothing is left to pop, and a failure recorded now stays.
LEMMA PrunedAppend ==
    ASSUME NEW q \in Seq(Nat), now \in Nat
    PROVE  LET p == Append(Pruned(q), now)
           IN  p \in Seq(Nat) /\ Len(Pruned(p)) = Len(Pruned(q)) + 1
<1> DEFINE p == Append(Pruned(q), now)
           c == Cardinality(Stale(q))
<1>1. /\ Pruned(q) \in Seq(Nat) /\ Len(Pruned(q)) = Len(q) - c /\ Len(Pruned(q)) \in Nat
      /\ \A n \in 1 .. Len(Pruned(q)) : Pruned(q)[n] = q[c + n]
  BY PrunedLen
<1>2. c \in 0 .. Len(q) /\ Len(q) \in Nat /\ DOMAIN q = 1 .. Len(q) /\ Stale(q) = 1 .. c
  BY StaleIsPrefix, StaleNow
<1>3. p \in Seq(Nat) /\ Len(p) = Len(Pruned(q)) + 1 /\ Len(p) \in Nat /\ DOMAIN p = 1 .. Len(p)
  BY <1>1
<1>4. ~(p[1] + Window <= now)
  <2>1. CASE Len(Pruned(q)) = 0
    <3>1. p[1] = now
      BY <1>1, <2>1
    <3> QED BY <3>1, AccountsAssumption
  <2>2. CASE Len(Pruned(q)) # 0
    <3>1. p[1] = q[c + 1] /\ c + 1 \in 1 .. Len(q) /\ c + 1 \in Nat
      BY <1>1, <1>2, <2>2
    <3> HIDE DEF p, c
    <3>2. c + 1 \notin Stale(q) /\ \A m \in 1 .. c : q[m] + Window <= now
      <4>1. \A m \in 1 .. c : m \in Stale(q) /\ m \in 1 .. m
        BY <1>2
      <4>2. \A m \in 1 .. c : q[m] + Window <= now
        BY <4>1 DEF Stale
      <4> QED BY <1>2, <4>2
    <3>3. ~(q[c + 1] + Window <= now)
      <4> SUFFICES ASSUME q[c + 1] + Window <= now PROVE FALSE
        OBVIOUS
      <4>1. \A m \in 1 .. c + 1 : m \in 1 .. c \/ m = c + 1
        BY <1>2
      <4>2. \A m \in 1 .. c + 1 : q[m] + Window <= now
        BY <3>2, <4>1
      <4> QED BY <1>2, <3>1, <3>2, <4>2 DEF Stale
    <3> QED BY <3>1, <3>3
  <2> QED BY <2>1, <2>2
<1> HIDE DEF p, c
<1>5. Stale(p) = {}
  <2> SUFFICES ASSUME NEW n \in Stale(p) PROVE FALSE
    OBVIOUS
  <2>1. 1 \in 1 .. n
    BY <1>3 DEF Stale
  <2> QED BY <1>4, <2>1 DEF Stale
<1>6. Len(Pruned(p)) = Len(p)
  <2>1. Len(Pruned(p)) = Len(p) - Cardinality(Stale(p))
    BY <1>3, PrunedLen
  <2> QED BY <1>3, <1>5, <2>1, FS_EmptySet
<1> QED BY <1>3, <1>6 DEF p

\* Time only takes failures away.
LEMMA PrunedLater ==
    ASSUME NEW k, failures[k] \in Seq(Nat), failures'[k] = failures[k],
           now \in Nat, now' \in Nat, now <= now'
    PROVE  /\ Len(Pruned(failures[k])') \in Nat
           /\ Len(Pruned(failures[k])') <= Len(Pruned(failures[k]))
<1> DEFINE q == failures[k]
           popped == Stale(q)
<1>1. Len(q) \in Nat /\ DOMAIN q = 1 .. Len(q) /\ (\A n \in DOMAIN q : q[n] \in Nat) /\ q' = q
  OBVIOUS
<1>2. popped \subseteq popped'
  BY <1>1, AccountsAssumption DEF Stale
<1>3. popped = StaleAt(q, now) /\ popped' = StaleAt(q, now')
  BY <1>1 DEF Stale, StaleAt
<1>4. /\ Cardinality(popped) \in 0 .. Len(q) /\ popped = 1 .. Cardinality(popped)
      /\ Cardinality(popped') \in 0 .. Len(q) /\ popped' = 1 .. Cardinality(popped')
  BY <1>1, <1>3, StaleIsPrefix
<1> HIDE DEF popped, q
<1>5. Cardinality(popped) <= Cardinality(popped')
  <2>1. Cardinality(popped') \in Int /\ 1 \in Int
    BY <1>1, <1>4
  <2>2. IsFiniteSet(popped')
    BY <1>4, <2>1, FS_Interval, Zenon
  <2> QED BY <1>2, <2>2, FS_Subset
<1>6. /\ Pruned(q) = SubSeq(q, Cardinality(popped) + 1, Len(q))
      /\ Pruned(q)' = SubSeq(q, Cardinality(popped') + 1, Len(q))
  BY <1>1 DEF Pruned, popped
<1>7. q \in Seq(Nat)
  BY DEF q
<1>8. Len(Pruned(q)) = Len(q) - Cardinality(popped)
  BY <1>1, <1>4, <1>6, <1>7
<1>9. Len(Pruned(q)') = Len(q) - Cardinality(popped')
  BY <1>1, <1>4, <1>6, <1>7
<1> QED BY <1>1, <1>4, <1>5, <1>8, <1>9 DEF q

-----------------------------------------------------------------------------
(* The credentials mail.                                                   *)

CredentialTypes ==
    /\ box \in Seq(Credential)
    /\ batch \in [on : BOOLEAN, left : SUBSET Nat, rows : [DOMAIN batch.rows -> Credential]]
    /\ batch.left \subseteq DOMAIN batch.rows /\ DOMAIN batch.rows \subseteq Ids
    /\ sent \subseteq Ids \X StudentAccounts \X Channels

UserRow == [pw : Nat, active : BOOLEAN, changed : 0 .. MaxTime]
UserTypes ==
    /\ user \in [Accounts -> UserRow]
    /\ known \in [Accounts -> SUBSET Nat]

CredentialInv == CredentialTypes /\ Deliverable

\* The mail stands still, and a password changes only to one its owner knows.
LEMMA MailFrame ==
    ASSUME CredentialInv, UNCHANGED mail,
           \A a \in StudentAccounts :
              /\ known[a] \subseteq known'[a]
              /\ user'[a].pw \in {user[a].pw} \cup known'[a]
    PROVE  CredentialInv'
<1>1. CredentialTypes'
  BY DEF CredentialInv, CredentialTypes, mail, Ids
<1>2. \A i \in Ids : box[i].who \in StudentAccounts
  <2>1. \A i \in Ids : box[i] \in Credential
    BY DEF CredentialInv, CredentialTypes, Ids
  <2> QED BY <2>1 DEF Credential
<1>3. SentIsKnown'
  <2> SUFFICES ASSUME NEW m \in sent, box[m[1]].state # "FINISHED"
               PROVE  box[m[1]].secret \in known'[box[m[1]].who]
    BY DEF SentIsKnown, mail
  <2>1. m[1] \in Ids /\ box[m[1]].secret \in known[box[m[1]].who]
    BY DEF CredentialInv, CredentialTypes, Deliverable, SentIsKnown
  <2> QED BY <1>2, <2>1
<1>4. CopiesKeep'
  <2> SUFFICES ASSUME NEW i \in DOMAIN batch.rows
               PROVE  (/\ box[i].state # "FINISHED" /\ batch.rows[i].who = box[i].who
                       /\ IF batch.rows[i].state = "FINISHED"
                          THEN i \notin batch.left /\ box[i].secret \in known[box[i].who]
                          ELSE batch.rows[i].secret = box[i].secret)'
    BY DEF CopiesKeep, mail
  <2>1. i \in Ids
    BY DEF CredentialInv, CredentialTypes
  <2>2. known[box[i].who] \subseteq known'[box[i].who]
    BY <1>2, <2>1
  <2> QED BY <2>2 DEF CredentialInv, Deliverable, CopiesKeep, mail
<1>5. PasswordIsDeliverable'
  <2> SUFFICES ASSUME NEW a \in StudentAccounts, user'[a].pw # 0, user'[a].pw \notin known'[a]
               PROVE  \E i \in Ids : /\ box[i].who = a /\ box[i].secret = user'[a].pw
                                     /\ box[i].state # "FINISHED"
    BY DEF PasswordIsDeliverable, mail, Ids, Exists
  <2>1. user'[a].pw = user[a].pw /\ user[a].pw \notin known[a]
    OBVIOUS
  <2> QED BY <2>1 DEF CredentialInv, Deliverable, PasswordIsDeliverable, Exists
<1>6. SecretsKept'
  BY DEF CredentialInv, Deliverable, SecretsKept, mail, Ids
<1> QED BY <1>1, <1>3, <1>4, <1>5, <1>6 DEF CredentialInv, Deliverable

\* A new row of the table.
LEMMA NewCredential ==
    ASSUME NEW a \in StudentAccounts, NEW v \in Nat
    PROVE  /\ Credentials(a, v) \in Credential
           /\ Credentials(a, v).who = a /\ Credentials(a, v).secret = v
           /\ Credentials(a, v).state = "PENDING"
BY DEF Credentials, New, Credential

\* Passwords made for the students in S come with a message for each.
LEMMA EnqueueCredentials ==
    ASSUME CredentialInv, NEW S \in SUBSET StudentAccounts, NEW order \in Orders(S),
           NEW v \in [S -> Nat],
           Enqueue([n \in DOMAIN order |-> Credentials(order[n], v[order[n]])]),
           UNCHANGED <<batch, sent, known>>,
           \A a \in S : user'[a].pw = v[a],
           \A a \in StudentAccounts \ S : user'[a].pw = user[a].pw
    PROVE  CredentialInv'
<1> DEFINE msgs == [n \in DOMAIN order |-> Credentials(order[n], v[order[n]])]
<1>1. Cardinality(S) \in Nat
  BY AccountsAssumption, FS_Subset, FS_CardinalityType
<1>2. /\ order \in [1 .. Cardinality(S) -> S] /\ DOMAIN order = 1 .. Cardinality(S)
      /\ \A a \in S : \E n \in DOMAIN order : order[n] = a
  BY DEF Orders
<1>3. \A n \in DOMAIN order : /\ msgs[n] \in Credential
                              /\ msgs[n].who = order[n] /\ msgs[n].secret = v[order[n]]
                              /\ msgs[n].state = "PENDING"
  BY <1>2, NewCredential
<1>4. msgs \in Seq(Credential) /\ Len(msgs) = Cardinality(S) /\ DOMAIN msgs = DOMAIN order
  BY <1>1, <1>2, <1>3
<1>5. box' = box \o msgs
  BY DEF Enqueue
<1> HIDE DEF msgs
<1>6. box \in Seq(Credential) /\ Ids = 1 .. Len(box) /\ Len(box) \in Nat
  BY DEF CredentialInv, CredentialTypes, Ids
<1>7. /\ box' \in Seq(Credential)
      /\ \A i \in Ids : i \in Ids' /\ box'[i] = box[i]
      /\ \A n \in DOMAIN msgs : Len(box) + n \in Ids' /\ box'[Len(box) + n] = msgs[n]
  <2> HIDE DEF Credential
  <2> QED BY <1>4, <1>5, <1>6, <1>1, <1>2 DEF Ids
<1>8. CredentialTypes'
  <2>1. Ids \subseteq Ids'
    BY <1>7
  <2> QED BY <1>7, <2>1 DEF CredentialInv, CredentialTypes
<1>9. SentIsKnown'
  <2>1. \A m \in sent : m[1] \in Ids
    BY DEF CredentialInv, CredentialTypes
  <2> QED BY <1>7, <2>1 DEF CredentialInv, Deliverable, SentIsKnown
<1>10. CopiesKeep'
  <2>1. \A i \in DOMAIN batch.rows : box'[i] = box[i]
    BY <1>7 DEF CredentialInv, CredentialTypes
  <2> QED BY <2>1 DEF CredentialInv, Deliverable, CopiesKeep
<1>11. PasswordIsDeliverable'
  <2> SUFFICES ASSUME NEW a \in StudentAccounts, user'[a].pw # 0, user'[a].pw \notin known[a]
               PROVE  \E i \in Ids' : /\ box'[i].who = a /\ box'[i].secret = user'[a].pw
                                      /\ box'[i].state # "FINISHED"
    BY DEF PasswordIsDeliverable, Exists
  <2>1. CASE a \in S
    <3>1. PICK n \in DOMAIN order : order[n] = a
      BY <1>2, <2>1
    <3>2. /\ Len(box) + n \in Ids' /\ box'[Len(box) + n] = msgs[n]
          /\ msgs[n].who = a /\ msgs[n].secret = v[a] /\ msgs[n].state # "FINISHED"
      BY <1>3, <1>4, <1>7, <3>1
    <3> QED BY <2>1, <3>2
  <2>2. CASE a \notin S
    <3>1. PICK i \in Ids : /\ box[i].who = a /\ box[i].secret = user[a].pw
                           /\ box[i].state # "FINISHED"
      BY <2>2 DEF CredentialInv, Deliverable, PasswordIsDeliverable, Exists
    <3> QED BY <1>7, <2>2, <3>1
  <2> QED BY <2>1, <2>2
<1>12. SecretsKept'
  <2> SUFFICES ASSUME NEW i \in Ids', box'[i].state # "FINISHED" PROVE box'[i].secret \in Nat
    BY DEF SecretsKept
  <2>1. CASE i \in Ids
    BY <1>7, <2>1 DEF CredentialInv, Deliverable, SecretsKept
  <2>2. CASE i \notin Ids
    <3> DEFINE n == i - Len(box)
    <3>1. n \in DOMAIN msgs /\ i = Len(box) + n
      BY <1>1, <1>2, <1>4, <1>5, <1>6, <2>2 DEF Ids
    <3> HIDE DEF n
    <3>2. box'[i] = msgs[n] /\ msgs[n].secret = v[order[n]] /\ v[order[n]] \in Nat
      BY <1>2, <1>3, <1>4, <1>7, <3>1
    <3> QED BY <3>2
  <2> QED BY <2>1, <2>2
<1> QED BY <1>8, <1>9, <1>10, <1>11, <1>12 DEF CredentialInv, Deliverable

\* A poll copies unfinished messages.
LEMMA PollCredentials ==
    ASSUME CredentialInv, Poll, UNCHANGED <<user, known>>
    PROVE  CredentialInv'
<1> DEFINE live == {i \in Ids : IsLive(box[i])}
           rows == [i \in live |-> box[i]]
<1>1. batch' = [on |-> TRUE, left |-> live, rows |-> rows] /\ UNCHANGED <<box, sent>>
  BY DEF Poll
<1>2. live \subseteq Nat /\ live \subseteq Ids /\ rows \in [live -> Credential]
  BY DEF CredentialInv, CredentialTypes, Ids
<1>3. batch'.rows = rows /\ batch'.left = live /\ DOMAIN rows = live
  BY <1>1
<1>4. \A i \in live : rows[i] = box[i] /\ box[i].state # "FINISHED"
  BY DEF IsLive
<1> HIDE DEF live, rows
<1>5. CredentialTypes'
  BY <1>1, <1>2, <1>3 DEF CredentialInv, CredentialTypes, Ids
<1>6. CopiesKeep'
  BY <1>1, <1>3, <1>4 DEF CopiesKeep
<1>7. SentIsKnown' /\ PasswordIsDeliverable' /\ SecretsKept'
  BY <1>1 DEF CredentialInv, Deliverable, SentIsKnown, PasswordIsDeliverable, SecretsKept, Exists, Ids
<1> QED BY <1>5, <1>6, <1>7 DEF CredentialInv, Deliverable

LEMMA NoCredentialCopies ==
    ASSUME batch' = NoBatch
    PROVE  /\ DOMAIN batch'.rows = {} /\ batch'.left = {} /\ CopiesKeep'
           /\ batch' \in [on : BOOLEAN, left : SUBSET Nat, rows : [DOMAIN batch'.rows -> Credential]]
<1>1. batch'.rows = <<>> /\ batch'.left = {} /\ batch'.on = FALSE
  BY DEF NoBatch
<1>2. DOMAIN batch'.rows = {}
  BY <1>1
<1>3. batch'.rows \in [DOMAIN batch'.rows -> Credential]
  BY <1>1, <1>2
<1>4. batch' \in [on : BOOLEAN, left : SUBSET Nat, rows : [DOMAIN batch'.rows -> Credential]]
  <2> DEFINE R == [DOMAIN batch'.rows -> Credential]
  <2>1. batch'.rows \in R
    BY <1>3
  <2> HIDE DEF R
  <2>2. batch' \in [on : BOOLEAN, left : SUBSET Nat, rows : R]
    BY <1>1, <2>1 DEF NoBatch
  <2> QED BY <2>2 DEF R
<1> QED BY <1>1, <1>2, <1>4 DEF CopiesKeep

\* The commit may finish a message, but only one whose password got out.
LEMMA CommitCredentials ==
    ASSUME CredentialInv, Commit, UNCHANGED <<user, known>>
    PROVE  CredentialInv'
<1>1. /\ batch' = NoBatch /\ UNCHANGED sent
      /\ box' = [i \in Ids |-> IF i \in DOMAIN batch.rows THEN batch.rows[i] ELSE box[i]]
  BY DEF Commit
<1>2. box' \in Seq(Credential) /\ DOMAIN box' = Ids
  BY <1>1 DEF CredentialInv, CredentialTypes, Ids
<1>3. CredentialTypes'
  BY <1>1, <1>2, NoCredentialCopies DEF CredentialInv, CredentialTypes, Ids
<1>4. \A i \in Ids : /\ box'[i].who = box[i].who
                     /\ box'[i].state # "FINISHED" =>
                           box[i].state # "FINISHED" /\ box'[i].secret = box[i].secret
                     /\ box[i].state # "FINISHED" /\ box'[i].state = "FINISHED" =>
                           box[i].secret \in known[box[i].who]
  BY <1>1 DEF CredentialInv, Deliverable, CopiesKeep
<1>5. SentIsKnown'
  <2>1. \A m \in sent : m[1] \in Ids
    BY DEF CredentialInv, CredentialTypes
  <2> QED BY <1>1, <1>4, <2>1 DEF CredentialInv, Deliverable, SentIsKnown
<1>6. PasswordIsDeliverable'
  <2> SUFFICES ASSUME NEW a \in StudentAccounts, user[a].pw # 0, user[a].pw \notin known[a]
               PROVE  \E i \in Ids' : /\ box'[i].who = a /\ box'[i].secret = user[a].pw
                                      /\ box'[i].state # "FINISHED"
    BY DEF PasswordIsDeliverable, Exists
  <2>1. PICK i \in Ids : /\ box[i].who = a /\ box[i].secret = user[a].pw
                         /\ box[i].state # "FINISHED"
    BY DEF CredentialInv, Deliverable, PasswordIsDeliverable, Exists
  <2>2. box'[i].state # "FINISHED"
    BY <1>4, <2>1
  <2>3. i \in Ids' /\ box'[i].who = a /\ box'[i].secret = user[a].pw
    BY <1>2, <1>4, <2>1, <2>2 DEF Ids
  <2> QED BY <2>2, <2>3
<1>7. SecretsKept'
  BY <1>2, <1>4 DEF CredentialInv, Deliverable, SecretsKept, Ids
<1> QED BY <1>1, <1>3, <1>5, <1>6, <1>7, NoCredentialCopies DEF CredentialInv, Deliverable

LEMMA CrashCredentials ==
    ASSUME CredentialInv, Crash, UNCHANGED <<user, known>>
    PROVE  CredentialInv'
<1>1. batch' = NoBatch /\ UNCHANGED <<box, sent>>
  BY DEF Crash
<1>2. CredentialTypes'
  BY <1>1, NoCredentialCopies DEF CredentialInv, CredentialTypes, Ids
<1>3. SentIsKnown' /\ PasswordIsDeliverable' /\ SecretsKept'
  BY <1>1 DEF CredentialInv, Deliverable, SentIsKnown, PasswordIsDeliverable, SecretsKept, Exists, Ids
<1> QED BY <1>1, <1>2, <1>3, NoCredentialCopies DEF CredentialInv, Deliverable

LEMMA MarkedCredential ==
    ASSUME NEW msg \in Credential, NEW ok \in BOOLEAN
    PROVE  /\ Marked(msg, ok, {}) \in Credential /\ Marked(msg, ok, {}).who = msg.who
           /\ Marked(msg, ok, {}).state = "FINISHED" => ok \/ msg.state = "FINISHED"
           /\ Marked(msg, ok, {}).state # "FINISHED" => Marked(msg, ok, {}).secret = msg.secret
<1>1. CASE ok
  <2>1. Marked(msg, ok, {}) = [msg EXCEPT !.state = "FINISHED", !.skipped = {}, !.secret = NoSecret]
    BY <1>1 DEF Marked
  <2> QED BY <1>1, <2>1 DEF Credential
<1>2. CASE ~ok
  <2> DEFINE n == msg.retries + 1
  <2>1. Marked(msg, ok, {}) = [msg EXCEPT !.state = "ERROR", !.retries = n]
    BY <1>2 DEF Marked
  <2>2. n \in Nat
    BY DEF Credential
  <2> HIDE DEF n
  <2> QED BY <1>2, <2>1, <2>2 DEF Credential
<1> QED BY <1>1, <1>2

\* What the handler of message i does: it sends on some channels, on all of them
\* if it ends well, and keeps the secret for a retry if it does not.
LEMMA SendEffect ==
    ASSUME CredentialInv, NEW i \in Ids, Handle(i, <<box[i].who>>, {}, FALSE)
    PROVE  \E D \in SUBSET Channels, row \in Credential :
              /\ i \in batch.left /\ UNCHANGED box
              /\ sent' = sent \cup {<<i, box[i].who, c>> : c \in D}
              /\ batch' = [batch EXCEPT !.left = @ \ {i}, !.rows[i] = row]
              /\ row.who = batch.rows[i].who
              /\ row.state = "FINISHED" => D = Channels
              /\ row.state # "FINISHED" => row.secret = batch.rows[i].secret
<1> DEFINE to == <<box[i].who>>
           all == Sends(to, {})
<1>1. PICK stop \in all \cup {AllSent(to)} :
        LET done == {t \in all : Before(t, stop)}
            skipped == {r \in {} : \E p \in DOMAIN to : to[p] = r}
            row == Marked(batch.rows[i], stop = AllSent(to), skipped)
        IN  /\ sent' = sent \cup {<<i, to[t[1]], t[2]>> : t \in done}
            /\ batch' = [batch EXCEPT
                  !.left = @ \ {i},
                  !.rows[i] = [row EXCEPT !.rung = IF FALSE THEN @ \cup Reached(to, stop)
                                                   ELSE @]]
  BY DEF Handle
<1> DEFINE done == {t \in all : Before(t, stop)}
           skipped == {r \in {} : \E p \in DOMAIN to : to[p] = r}
           marked == Marked(batch.rows[i], stop = AllSent(to), skipped)
           row == [marked EXCEPT !.rung = @]
           D == {t[2] : t \in done}
<1>2. i \in batch.left /\ UNCHANGED box /\ i \in DOMAIN batch.rows /\ batch.rows[i] \in Credential
  BY DEF Handle, CredentialInv, CredentialTypes
<1>3. DOMAIN to = {1} /\ to[1] = box[i].who /\ Len(to) = 1
  OBVIOUS
<1>4. all = {1} \X Channels
  BY <1>3 DEF Sends
<1>5. D \in SUBSET Channels
  BY <1>4
<1>6. {<<i, to[t[1]], t[2]>> : t \in done} = {<<i, box[i].who, c>> : c \in D}
  <2>1. \A t \in done : t[1] = 1 /\ to[t[1]] = box[i].who
    BY <1>3, <1>4
  <2> HIDE DEF done, to
  <2> QED BY <2>1
<1>7. stop = AllSent(to) => D = Channels
  <2> SUFFICES ASSUME stop = AllSent(to), NEW c \in Channels PROVE c \in D
    BY <1>5
  <2>1. stop = <<2, 1>>
    BY <1>3 DEF AllSent
  <2>2. <<1, c>> \in all /\ Before(<<1, c>>, stop)
    BY <1>4, <2>1 DEF Before
  <2>3. <<1, c>> \in done
    BY <2>2
  <2>4. <<1, c>>[2] = c
    OBVIOUS
  <2> QED BY <2>3, <2>4
<1>8. skipped = {}
  OBVIOUS
<1>9. /\ marked \in Credential /\ marked.who = batch.rows[i].who
      /\ marked.state = "FINISHED" => stop = AllSent(to)
      /\ marked.state # "FINISHED" => marked.secret = batch.rows[i].secret
  <2>1. marked = Marked(batch.rows[i], stop = AllSent(to), {})
    BY <1>8
  <2>2. batch.rows[i].state # "FINISHED"
    BY <1>2 DEF CredentialInv, Deliverable, CopiesKeep
  <2> HIDE DEF marked
  <2> QED BY <1>2, <2>1, <2>2, MarkedCredential
<1>10. row = marked
  <2> HIDE DEF marked
  <2> QED BY <1>9 DEF Credential
<1>11. /\ sent' = sent \cup {<<i, to[t[1]], t[2]>> : t \in done}
       /\ batch' = [batch EXCEPT !.left = @ \ {i}, !.rows[i] = row]
  BY <1>1
<1> HIDE DEF row, marked, D, done, to
<1> QED BY <1>2, <1>5, <1>6, <1>7, <1>9, <1>10, <1>11

\* A send makes the password known; a message that ends well has been sent, in
\* this try or in an earlier one.
LEMMA SendMail ==
    ASSUME CredentialInv, UserTypes, NEW i \in Ids, SendCredentials(i)
    PROVE  CredentialInv'
<1>1. PICK D \in SUBSET Channels, row \in Credential :
         /\ i \in batch.left /\ UNCHANGED box
         /\ sent' = sent \cup {<<i, box[i].who, c>> : c \in D}
         /\ batch' = [batch EXCEPT !.left = @ \ {i}, !.rows[i] = row]
         /\ row.who = batch.rows[i].who
         /\ row.state = "FINISHED" => D = Channels
         /\ row.state # "FINISHED" => row.secret = batch.rows[i].secret
  BY SendEffect DEF SendCredentials
<1> DEFINE w == box[i].who
           R == [DOMAIN batch.rows -> Credential]
<1>2. /\ i \in DOMAIN batch.rows /\ box[i].state # "FINISHED" /\ batch.rows[i].who = w
      /\ batch.rows[i].state # "FINISHED" /\ batch.rows[i].secret = box[i].secret
  BY <1>1 DEF CredentialInv, CredentialTypes, Deliverable, CopiesKeep
<1>3. w \in StudentAccounts /\ w \in Accounts
  <2>1. box[i] \in Credential
    BY DEF CredentialInv, CredentialTypes, Ids
  <2> QED BY <2>1 DEF Credential, Accounts
<1>4. /\ batch'.left = batch.left \ {i} /\ DOMAIN batch'.rows = DOMAIN batch.rows
      /\ batch'.rows \in R /\ batch'.on \in BOOLEAN /\ batch'.rows[i] = row
      /\ batch' \in [on : BOOLEAN, left : SUBSET Nat, rows : R]
      /\ \A k \in DOMAIN batch.rows : k # i => batch'.rows[k] = batch.rows[k]
  <2>1. batch.rows \in R /\ batch.left \in SUBSET Nat /\ batch.on \in BOOLEAN
    BY DEF CredentialInv, CredentialTypes
  <2>2. [batch.rows EXCEPT ![i] = row] \in R
    BY <2>1
  <2>3. batch \in [on : BOOLEAN, left : SUBSET Nat, rows : R]
    BY DEF CredentialInv, CredentialTypes
  <2> DEFINE next == [batch.rows EXCEPT ![i] = row]
  <2>4. next \in R /\ DOMAIN next = DOMAIN batch.rows /\ next[i] = row
        /\ \A k \in DOMAIN batch.rows : k # i => next[k] = batch.rows[k]
    BY <1>2, <2>1, <2>2
  <2>5. batch' = [batch EXCEPT !.left = @ \ {i}, !.rows = next]
    BY <1>1
  <2> HIDE DEF next, R
  <2>6. batch'.left = batch.left \ {i} /\ batch'.rows = next /\ batch'.on = batch.on
        /\ batch' \in [on : BOOLEAN, left : SUBSET Nat, rows : R]
    BY <2>1, <2>3, <2>4, <2>5
  <2> QED BY <2>1, <2>4, <2>6
<1>5. CredentialTypes'
  <2>1. \A c \in D : <<i, w, c>> \in Ids \X StudentAccounts \X Channels
    BY <1>3
  <2>2. sent' \subseteq Ids \X StudentAccounts \X Channels
    BY <1>1, <2>1 DEF CredentialInv, CredentialTypes
  <2> QED BY <1>1, <1>4, <2>2 DEF CredentialInv, CredentialTypes, Ids
<1>6. known' = IF sent' = sent THEN known
               ELSE [known EXCEPT ![w] = @ \cup {box[i].secret}]
  BY <1>2 DEF SendCredentials
<1>7. /\ \A a \in Accounts : known[a] \subseteq known'[a]
      /\ sent' # sent => box[i].secret \in known'[w]
  BY <1>3, <1>6 DEF UserTypes
<1>8. \A k \in Ids : box[k].who \in Accounts
  <2>1. \A k \in Ids : box[k] \in Credential
    BY DEF CredentialInv, CredentialTypes, Ids
  <2> QED BY <2>1 DEF Credential, Accounts
<1>9. SentIsKnown'
  <2> SUFFICES ASSUME NEW m \in sent', box[m[1]].state # "FINISHED"
               PROVE  box[m[1]].secret \in known'[box[m[1]].who]
    BY <1>1 DEF SentIsKnown
  <2>1. CASE m \in sent
    <3>1. m[1] \in Ids /\ box[m[1]].secret \in known[box[m[1]].who]
      BY <2>1 DEF CredentialInv, CredentialTypes, Deliverable, SentIsKnown
    <3> QED BY <1>7, <1>8, <3>1
  <2>2. CASE m \notin sent
    <3>1. m[1] = i /\ sent' # sent
      BY <1>1, <2>2
    <3> QED BY <1>7, <3>1
  <2> QED BY <2>1, <2>2
<1>10. row.state = "FINISHED" => box[i].secret \in known'[w]
  <2> SUFFICES ASSUME row.state = "FINISHED", sent' = sent
               PROVE  box[i].secret \in known[w]
    BY <1>3, <1>7
  <2>1. 1 \in Channels
    BY MailerAssumption DEF Channels
  <2>2. <<i, w, 1>> \in sent
    BY <1>1, <2>1
  <2>3. <<i, w, 1>>[1] = i
    OBVIOUS
  <2> QED BY <1>2, <2>2, <2>3 DEF CredentialInv, Deliverable, SentIsKnown
<1>11. CopiesKeep'
  <2> SUFFICES ASSUME NEW k \in DOMAIN batch.rows
               PROVE  (/\ box[k].state # "FINISHED" /\ batch.rows[k].who = box[k].who
                       /\ IF batch.rows[k].state = "FINISHED"
                          THEN k \notin batch.left /\ box[k].secret \in known[box[k].who]
                          ELSE batch.rows[k].secret = box[k].secret)'
    BY <1>4 DEF CopiesKeep
  <2>1. CASE k = i
    BY <1>1, <1>2, <1>4, <1>10, <2>1
  <2>2. CASE k # i
    <3>1. /\ box[k].state # "FINISHED" /\ batch.rows[k].who = box[k].who
          /\ IF batch.rows[k].state = "FINISHED"
             THEN k \notin batch.left /\ box[k].secret \in known[box[k].who]
             ELSE batch.rows[k].secret = box[k].secret
      BY DEF CredentialInv, Deliverable, CopiesKeep
    <3>2. k \in Ids
      BY DEF CredentialInv, CredentialTypes
    <3>3. known[box[k].who] \subseteq known'[box[k].who]
      BY <1>7, <1>8, <3>2
    <3> QED BY <1>1, <1>4, <2>2, <3>1, <3>3
  <2> QED BY <2>1, <2>2
<1>12. PasswordIsDeliverable'
  <2>1. user' = user /\ \A a \in StudentAccounts : known[a] \subseteq known'[a]
    BY <1>7 DEF SendCredentials, Accounts
  <2> QED BY <1>1, <2>1 DEF CredentialInv, Deliverable, PasswordIsDeliverable, Exists, Ids
<1>13. SecretsKept'
  BY <1>1 DEF CredentialInv, Deliverable, SecretsKept, Ids
<1> QED BY <1>5, <1>9, <1>11, <1>12, <1>13 DEF CredentialInv, Deliverable

-----------------------------------------------------------------------------
(* Sessions and throttles.                                                 *)

Token == [of : Accounts, expires : Nat, used : BOOLEAN, mailed : BOOLEAN]
AuthTypes ==
    /\ UserTypes
    /\ sessions \subseteq [of : Accounts, iat : 1 .. MaxTime, pw : Nat]
    /\ tokens \in Seq(Token)
    /\ request \in [Slots -> {NoRequest} \cup LoginState \cup ResetState \cup ChangeState]
    /\ began \in [Accounts -> 0 .. MaxTime] /\ now \in 1 .. MaxTime
FailureTypes == failures \in [Keys -> Seq(1 .. MaxTime)]

LEMMA TypesSplit == AccountsTypeOK <=> CredentialTypes /\ AuthTypes /\ FailureTypes
BY DEF AccountsTypeOK, CredentialTypes, AuthTypes, UserTypes, UserRow, Token, FailureTypes

\* An account stands still or gets a new password, now or in the past; a new
\* session has the current one.
LEMMA SessionsFrame ==
    ASSUME AuthTypes, AuthTypes', SessionsInv, now <= now',
           \A a \in Accounts :
              \/ user'[a].pw = user[a].pw /\ user'[a].changed = user[a].changed /\ began'[a] = began[a]
              \/ /\ user'[a].pw > user[a].pw /\ user'[a].changed = began'[a]
                 /\ began'[a] <= now',
           \A s \in sessions' \ sessions :
              /\ s.iat <= now' /\ s.pw = user'[s.of].pw
              /\ s.iat >= user'[s.of].changed,
           \A r \in Slots : request'[r] = request[r]
                            \/ request'[r] = NoRequest
                            \/ request'[r].op # "change" \/ request'[r].at <= now'
    PROVE  SessionsInv'
<1>1. now \in Nat /\ now' \in Nat
  BY DEF AuthTypes
<1>2. \A a \in Accounts : /\ user[a].pw \in Nat /\ user[a].changed \in Nat /\ began[a] \in Nat
                          /\ user'[a].pw \in Nat /\ user'[a].changed \in Nat /\ began'[a] \in Nat
  BY DEF AuthTypes, UserTypes, UserRow
<1>3. ASSUME NEW a \in Accounts PROVE AccountIsPast(a)'
  BY <1>1, <1>2 DEF SessionsInv, AccountIsPast
<1>4. ASSUME NEW s \in sessions' PROVE SessionIsPast(s)'
  <2>1. s.of \in Accounts /\ s.iat \in Nat /\ s.pw \in Nat
    BY DEF AuthTypes
  <2>2. CASE s \in sessions
    <3>1. SessionIsPast(s)
      BY <2>2 DEF SessionsInv
    <3> QED BY <1>1, <1>2, <2>1, <3>1 DEF SessionIsPast
  <2>3. CASE s \notin sessions
    BY <1>1, <1>2, <2>1, <2>3 DEF SessionIsPast
  <2> QED BY <2>2, <2>3
<1>5. ChangesArePast'
  <2> SUFFICES ASSUME NEW r \in Slots, request'[r] # NoRequest, request'[r].op = "change"
               PROVE  request'[r].at <= now'
    BY DEF ChangesArePast
  <2>1. CASE request'[r] = request[r]
    <3>1. request[r].at <= now
      BY <2>1 DEF SessionsInv, ChangesArePast
    <3>2. request'[r] \in {NoRequest} \cup LoginState \cup ResetState' \cup ChangeState
      BY DEF AuthTypes, LoginState, ChangeState
    <3>3. request'[r] \in ChangeState
      BY <3>2 DEF LoginState, ResetState
    <3>4. request'[r].at \in Nat
      BY <3>3 DEF ChangeState
    <3> QED BY <1>1, <2>1, <3>1, <3>4
  <2> QED BY <2>1
<1> QED BY <1>3, <1>4, <1>5 DEF SessionsInv

LEMMA GuessesSize ==
    \A a : IsFiniteSet(Guesses(a)) /\ Cardinality(Guesses(a)) \in Nat
           /\ Cardinality(Guesses(a)) <= Cardinality(Slots) /\ Cardinality(Slots) \in Nat
<1> TAKE a
<1>1. Guesses(a) \in SUBSET Slots
  BY DEF Guesses
<1>2. IsFiniteSet(Slots)
  BY AccountsAssumption
<1>3. IsFiniteSet(Guesses(a)) /\ Cardinality(Guesses(a)) <= Cardinality(Slots)
  BY <1>1, <1>2, FS_Subset
<1> QED BY <1>2, <1>3, FS_CardinalityType

LEMMA SeqWider ==
    ASSUME NEW S, NEW T, S \subseteq T, NEW q \in Seq(S)
    PROVE  q \in Seq(T)
OBVIOUS

LEMMA PrunedSize ==
    ASSUME FailureTypes, NEW k \in Keys
    PROVE  failures[k] \in Seq(Nat) /\ Len(Pruned(failures[k])) \in Nat
<1>1. failures[k] \in Seq(1 .. MaxTime)
  BY DEF FailureTypes
<1>2. failures[k] \in Seq(Nat)
  <2> DEFINE times == 1 .. MaxTime
  <2>1. times \subseteq Nat /\ failures[k] \in Seq(times)
    BY <1>1
  <2> HIDE DEF times
  <2> QED BY <2>1, SeqWider
<1> QED BY <1>2, PrunedLen

\* Time passes or stands still, and nobody new passes the throttle.
LEMMA ThrottleFrame ==
    ASSUME FailureTypes, FailureTypes', ThrottleInv,
           now \in Nat, now' \in Nat, now <= now',
           \A a \in Accounts : failures'[a] = failures[a],
           \A r \in Slots, a \in Accounts :
              IsGuess(request'[r], a) => IsGuess(request[r], a)
    PROVE  ThrottleInv'
<1> SUFFICES ASSUME NEW a \in Accounts
             PROVE  (Len(Pruned(failures[a])) + Cardinality(Guesses(a)) <= Budget)'
  BY DEF ThrottleInv
<1>1. Len(Pruned(failures[a])) + Cardinality(Guesses(a)) <= Budget
  BY DEF ThrottleInv
<1>2. a \in Keys
  BY DEF Keys
<1>3. failures[a] \in Seq(Nat) /\ Len(Pruned(failures[a])) \in Nat
  BY <1>2, PrunedSize
<1>4. /\ Len(Pruned(failures[a])') \in Nat
      /\ Len(Pruned(failures[a])') <= Len(Pruned(failures[a]))
  BY <1>3, PrunedLater
<1>5. Guesses(a)' \subseteq Guesses(a)
  BY DEF Guesses
<1>6. Cardinality(Guesses(a)') <= Cardinality(Guesses(a)) /\ Cardinality(Guesses(a)') \in Nat
  BY <1>5, GuessesSize, FS_Subset, FS_CardinalityType
<1>7. Budget' = Budget /\ Budget \in Int
  BY GuessesSize, AccountsAssumption DEF Budget
<1>8. Cardinality(Guesses(a)) \in Nat
  BY GuessesSize
<1> QED BY <1>1, <1>3, <1>4, <1>6, <1>7, <1>8

-----------------------------------------------------------------------------
(* The steps, one by one.                                                  *)

LEMMA IInvSplit ==
    AccountsIInv <=> CredentialInv /\ AuthTypes /\ FailureTypes /\ SessionsInv /\ ThrottleInv
BY TypesSplit DEF AccountsIInv, CredentialInv

LEMMA IInvJoin ==
    ASSUME CredentialInv', AuthTypes', FailureTypes', SessionsInv', ThrottleInv'
    PROVE  AccountsIInv'
BY DEF AccountsIInv, AccountsTypeOK, CredentialInv, CredentialTypes, AuthTypes, UserTypes, UserRow,
       Token, FailureTypes

\* Most steps leave the throttles and the requests alone.
LEMMA ThrottleRests ==
    ASSUME AuthTypes, FailureTypes, ThrottleInv, now' = now, UNCHANGED <<failures, request>>
    PROVE  FailureTypes' /\ ThrottleInv'
<1>1. FailureTypes'
  BY DEF FailureTypes
<1>2. now \in Nat /\ now' \in Nat /\ now <= now'
  BY DEF AuthTypes
<1>3. \A a \in Accounts : failures'[a] = failures[a]
  OBVIOUS
<1>4. \A r \in Slots, a \in Accounts : IsGuess(request'[r], a) => IsGuess(request[r], a)
  OBVIOUS
<1> QED BY <1>1, <1>2, <1>3, <1>4, ThrottleFrame

LEMMA AccountFacts ==
    ASSUME AuthTypes, NEW a \in Accounts
    PROVE  /\ user[a].pw \in Nat /\ user[a].changed \in 0 .. MaxTime /\ user[a].active \in BOOLEAN
           /\ began[a] \in 0 .. MaxTime /\ now \in Nat /\ Fresh(a) \in Nat
BY DEF AuthTypes, UserTypes, UserRow, Fresh

\* What becomes of a row.
LEMMA RowFacts ==
    ASSUME NEW u \in UserRow, NEW at \in 0 .. MaxTime
    PROVE  /\ Rotated(u, at) \in UserRow /\ Rotated(u, at).pw = u.pw + 1
           /\ Rotated(u, at).changed = at
           /\ [u EXCEPT !.pw = 1] \in UserRow /\ [u EXCEPT !.pw = 1].pw = 1
           /\ [u EXCEPT !.pw = 1].changed = u.changed
<1> DEFINE n == u.pw + 1
<1>1. n \in Nat
  BY DEF UserRow
<1>2. Rotated(u, at) = [u EXCEPT !.pw = n, !.changed = at]
  BY DEF Rotated
<1> HIDE DEF n
<1>3. Rotated(u, at) \in UserRow /\ Rotated(u, at).pw = n /\ Rotated(u, at).changed = at
  BY <1>1, <1>2 DEF UserRow
<1>4. /\ [u EXCEPT !.pw = 1] \in UserRow /\ [u EXCEPT !.pw = 1].pw = 1
      /\ [u EXCEPT !.pw = 1].changed = u.changed
  BY DEF UserRow
<1> QED BY <1>3, <1>4 DEF n

\* Passwords are given to the accounts in S, stamped or not, and mailed.
LEMMA MailedPasswords ==
    ASSUME AccountsIInv, NEW S \in SUBSET StudentAccounts, NEW v \in [S -> Nat],
           NEW order \in Orders(S),
           Enqueue([n \in DOMAIN order |-> Credentials(order[n], v[order[n]])]),
           UNCHANGED <<batch, sent, crashes, known, sessions, tokens, request, failures>>,
           now' = now,
           user' \in [Accounts -> UserRow],
           began' \in [Accounts -> 0 .. MaxTime],
           \A a \in S : /\ user'[a].pw = v[a] /\ v[a] > user[a].pw
                        /\ user'[a].changed = began'[a] /\ began'[a] <= now,
           \A a \in Accounts \ S : user'[a] = user[a] /\ began'[a] = began[a]
    PROVE  AccountsIInv'
<1>1. CredentialInv /\ AuthTypes /\ FailureTypes /\ SessionsInv /\ ThrottleInv
  BY IInvSplit
<1>2. CredentialInv'
  <2>1. \A a \in StudentAccounts \ S : user'[a].pw = user[a].pw
    BY DEF Accounts
  <2> QED BY <1>1, <2>1, EnqueueCredentials
<1>3. AuthTypes'
  BY <1>1 DEF AuthTypes, UserTypes, ResetState
<1>4. SessionsInv'
  <2>1. now \in Nat /\ now <= now'
    BY <1>1 DEF AuthTypes
  <2>2. \A a \in Accounts :
           \/ user'[a].pw = user[a].pw /\ user'[a].changed = user[a].changed /\ began'[a] = began[a]
           \/ /\ user'[a].pw > user[a].pw /\ user'[a].changed = began'[a]
              /\ began'[a] <= now'
    OBVIOUS
  <2>3. sessions' \ sessions = {} /\ \A r \in Slots : request'[r] = request[r]
    OBVIOUS
  <2> QED BY <1>1, <1>3, <2>1, <2>2, <2>3, SessionsFrame
<1>5. FailureTypes' /\ ThrottleInv'
  BY <1>1, ThrottleRests
<1> QED BY <1>2, <1>3, <1>4, <1>5, IInvJoin

LEMMA RegisteredStep ==
    ASSUME AccountsIInv, NEW S \in SUBSET StudentAccounts, \A a \in S : ~Exists(a),
           Registered(S), now' = now
    PROVE  AccountsIInv'
<1> DEFINE v == [a \in S |-> 1]
<1>1. PICK order \in Orders(S) : Enqueue([n \in DOMAIN order |-> Credentials(order[n], 1)])
  BY DEF Registered
<1>2. S \subseteq Accounts /\ AuthTypes /\ SessionsInv
  BY IInvSplit DEF Accounts
<1>3. \A n \in DOMAIN order : v[order[n]] = 1
  BY DEF Orders
<1>4. [n \in DOMAIN order |-> Credentials(order[n], 1)] =
      [n \in DOMAIN order |-> Credentials(order[n], v[order[n]])]
  BY <1>3
<1>5. Enqueue([n \in DOMAIN order |-> Credentials(order[n], v[order[n]])])
  BY <1>1, <1>4
<1>6. user' = [a \in Accounts |-> IF a \in S THEN [user[a] EXCEPT !.pw = 1] ELSE user[a]]
  BY DEF Registered
<1>7. /\ user' \in [Accounts -> UserRow]
      /\ \A a \in S : user'[a].pw = v[a] /\ v[a] > user[a].pw /\ user'[a].changed = user[a].changed
      /\ \A a \in Accounts \ S : user'[a] = user[a]
  <2>1. \A a \in Accounts : user[a] \in UserRow /\ Never \in 0 .. MaxTime
    BY <1>2, AccountsAssumption DEF AuthTypes, UserTypes, Never
  <2>2. \A a \in Accounts : /\ [user[a] EXCEPT !.pw = 1] \in UserRow
                             /\ [user[a] EXCEPT !.pw = 1].pw = 1
                             /\ [user[a] EXCEPT !.pw = 1].changed = user[a].changed
    BY <2>1, RowFacts
  <2>3. \A a \in S : user[a].pw = 0
    BY DEF Exists
  <2> QED BY <1>2, <1>6, <2>1, <2>2, <2>3
<1>8. began' \in [Accounts -> 0 .. MaxTime] /\ began' = began
  BY <1>2 DEF AuthTypes, Registered
<1>9. \A a \in S : user[a].changed = began[a] /\ began[a] <= now
  BY <1>2 DEF SessionsInv, AccountIsPast
<1>10. v \in [S -> Nat]
  OBVIOUS
<1> HIDE DEF v
<1>11. UNCHANGED <<batch, sent, crashes, known, sessions, tokens, request, failures>>
  BY DEF Registered
<1> QED BY <1>5, <1>7, <1>8, <1>9, <1>10, <1>11, MailedPasswords

LEMMA ResendStep ==
    ASSUME AccountsIInv, NEW S \in SUBSET StudentAccounts, ResendCredentials(S)
    PROVE  AccountsIInv'
<1> DEFINE v == [a \in S |-> Fresh(a)]
<1>1. PICK order \in Orders(S) :
         Enqueue([n \in DOMAIN order |-> Credentials(order[n], Fresh(order[n]))])
  BY DEF ResendCredentials
<1>2. S \subseteq Accounts /\ AuthTypes /\ SessionsInv
  BY IInvSplit DEF Accounts
<1>3. \A n \in DOMAIN order : v[order[n]] = Fresh(order[n])
  BY DEF Orders
<1>4. [n \in DOMAIN order |-> Credentials(order[n], Fresh(order[n]))] =
      [n \in DOMAIN order |-> Credentials(order[n], v[order[n]])]
  <2> HIDE DEF v
  <2> QED BY <1>3
<1>5. Enqueue([n \in DOMAIN order |-> Credentials(order[n], v[order[n]])])
  BY <1>1, <1>4
<1>6. /\ user' = [a \in Accounts |-> IF a \in S THEN Rotated(user[a], now) ELSE user[a]]
      /\ began' = [a \in Accounts |-> IF a \in S THEN now ELSE began[a]] /\ now' = now
  BY DEF ResendCredentials, Request
<1>7. now \in 0 .. MaxTime /\ now \in Nat
  BY <1>2 DEF AuthTypes
<1>8. /\ user' \in [Accounts -> UserRow]
      /\ began' \in [Accounts -> 0 .. MaxTime]
      /\ \A a \in S : /\ user'[a].pw = v[a] /\ v[a] > user[a].pw
                      /\ user'[a].changed = began'[a] /\ began'[a] <= now
      /\ \A a \in Accounts \ S : user'[a] = user[a] /\ began'[a] = began[a]
  <2>1. \A a \in Accounts : /\ user[a] \in UserRow /\ user[a].pw \in Nat
                             /\ began[a] \in 0 .. MaxTime
    BY <1>2, AccountFacts DEF AuthTypes, UserTypes
  <2>2. \A a \in Accounts : /\ Rotated(user[a], now) \in UserRow
                             /\ Rotated(user[a], now).pw = Fresh(a)
                             /\ Rotated(user[a], now).changed = now
    BY <1>7, <2>1, RowFacts DEF Fresh
  <2>3. \A a \in S : v[a] = Fresh(a) /\ Fresh(a) > user[a].pw
    BY <1>2, <2>1 DEF Fresh
  <2> HIDE DEF v
  <2> QED BY <1>2, <1>6, <1>7, <2>1, <2>2, <2>3
<1>9. v \in [S -> Nat]
  BY <1>2, AccountFacts
<1> HIDE DEF v
<1>10. UNCHANGED <<batch, sent, crashes, known, sessions, tokens, request, failures>>
  BY DEF ResendCredentials
<1> QED BY <1>5, <1>6, <1>8, <1>9, <1>10, MailedPasswords

\* A step off the mail: what it must show of users, sessions and throttles.
LEMMA AuthStep ==
    ASSUME AccountsIInv, UNCHANGED mail, AuthTypes', FailureTypes', ThrottleInv', now <= now',
           \A a \in Accounts :
              /\ a \in StudentAccounts => /\ known[a] \subseteq known'[a]
                                          /\ user'[a].pw \in {user[a].pw} \cup known'[a]
              /\ \/ /\ user'[a].pw = user[a].pw /\ user'[a].changed = user[a].changed
                    /\ began'[a] = began[a]
                 \/ /\ user'[a].pw > user[a].pw /\ user'[a].changed = began'[a]
                    /\ began'[a] <= now',
           \A s \in sessions' \ sessions :
              /\ s.iat <= now' /\ s.pw = user'[s.of].pw
              /\ s.iat >= user'[s.of].changed,
           \A r \in Slots : request'[r] = request[r]
                            \/ request'[r] = NoRequest
                            \/ request'[r].op # "change" \/ request'[r].at <= now'
    PROVE  AccountsIInv'
<1>1. CredentialInv /\ AuthTypes /\ SessionsInv
  BY IInvSplit
<1>2. CredentialInv'
  <2>1. \A a \in StudentAccounts : /\ known[a] \subseteq known'[a]
                                   /\ user'[a].pw \in {user[a].pw} \cup known'[a]
    BY DEF Accounts
  <2> QED BY <1>1, <2>1, MailFrame
<1>3. SessionsInv'
  BY <1>1, SessionsFrame
<1> QED BY <1>2, <1>3, IInvJoin

\* A step that changes neither users nor what is known of them.
LEMMA UsersRest ==
    ASSUME AccountsIInv, UNCHANGED <<mail, user, known, began>>, now <= now',
           AuthTypes', FailureTypes', ThrottleInv',
           \A s \in sessions' \ sessions :
              /\ s.iat <= now' /\ s.pw = user[s.of].pw
              /\ s.iat >= user[s.of].changed,
           \A r \in Slots : request'[r] = request[r]
                            \/ request'[r] = NoRequest
                            \/ request'[r].op # "change" \/ request'[r].at <= now'
    PROVE  AccountsIInv'
<1>1. \A a \in Accounts :
         /\ a \in StudentAccounts => /\ known[a] \subseteq known'[a]
                                     /\ user'[a].pw \in {user[a].pw} \cup known'[a]
         /\ \/ /\ user'[a].pw = user[a].pw /\ user'[a].changed = user[a].changed
               /\ began'[a] = began[a]
            \/ /\ user'[a].pw > user[a].pw /\ user'[a].changed = began'[a]
               /\ began'[a] <= now'
  OBVIOUS
<1>2. \A s \in sessions' \ sessions :
         /\ s.iat <= now' /\ s.pw = user'[s.of].pw
         /\ s.iat >= user'[s.of].changed
  OBVIOUS
<1> QED BY <1>1, <1>2, AuthStep

LEMMA CreateStep ==
    ASSUME AccountsIInv, NEW a \in Accounts \ StudentAccounts, ~Exists(a),
           user' = [user EXCEPT ![a].pw = 1],
           known' \in [Accounts -> SUBSET Nat],
           \A b \in StudentAccounts : known'[b] = known[b],
           UNCHANGED <<mail, sessions, tokens, request, failures, began>>, now' = now
    PROVE  AccountsIInv'
<1>1. AuthTypes /\ FailureTypes /\ ThrottleInv /\ SessionsInv
  BY IInvSplit
<1>2. user[a] \in UserRow /\ user[a].pw = 0 /\ Never \in 0 .. MaxTime
  BY <1>1, AccountsAssumption DEF AuthTypes, UserTypes, Exists, Never
<1>3. /\ [user[a] EXCEPT !.pw = 1] \in UserRow /\ [user[a] EXCEPT !.pw = 1].pw = 1
      /\ [user[a] EXCEPT !.pw = 1].changed = user[a].changed
  BY <1>2, RowFacts
<1> DEFINE u == [user[a] EXCEPT !.pw = 1]
<1>4. user' = [user EXCEPT ![a] = u]
  OBVIOUS
<1> HIDE DEF u
<1>5. /\ user' \in [Accounts -> UserRow] /\ user'[a] = u
      /\ \A b \in Accounts : b # a => user'[b] = user[b]
  BY <1>1, <1>3, <1>4 DEF AuthTypes, UserTypes, u
<1>6. AuthTypes'
  BY <1>1, <1>5 DEF AuthTypes, UserTypes, ResetState
<1>7. FailureTypes' /\ ThrottleInv'
  BY <1>1, ThrottleRests
<1>8. now \in Nat /\ user[a].changed = began[a] /\ began[a] <= now
  BY <1>1 DEF AuthTypes, SessionsInv, AccountIsPast
<1>9. \A b \in Accounts :
         /\ b \in StudentAccounts => /\ known[b] \subseteq known'[b]
                                     /\ user'[b].pw \in {user[b].pw} \cup known'[b]
         /\ \/ /\ user'[b].pw = user[b].pw /\ user'[b].changed = user[b].changed
               /\ began'[b] = began[b]
            \/ /\ user'[b].pw > user[b].pw /\ user'[b].changed = began'[b]
               /\ began'[b] <= now'
  <2> TAKE b \in Accounts
  <2>1. CASE b = a
    BY <1>2, <1>3, <1>5, <1>8, <2>1 DEF u
  <2>2. CASE b # a
    BY <1>5, <2>2
  <2> QED BY <2>1, <2>2
<1>10. sessions' \ sessions = {} /\ (\A r \in Slots : request'[r] = request[r]) /\ now <= now'
  BY <1>8
<1> QED BY <1>6, <1>7, <1>9, <1>10, AuthStep

LEMMA CreateTeacherStep ==
    ASSUME AccountsIInv, NEW a \in Accounts, CreateTeacher(a)
    PROVE  AccountsIInv'
<1>1. a \in Accounts \ StudentAccounts
  BY AccountsAssumption DEF CreateTeacher
<1>2. AuthTypes
  BY IInvSplit
<1>3. known' \in [Accounts -> SUBSET Nat] /\ \A b \in StudentAccounts : known'[b] = known[b]
  BY <1>1, <1>2 DEF CreateTeacher, AuthTypes, UserTypes, Accounts
<1> QED BY <1>1, <1>3, CreateStep DEF CreateTeacher, Request

LEMMA ProvisionStep ==
    ASSUME AccountsIInv, NEW a \in Accounts, ProvisionTestStudent(a)
    PROVE  AccountsIInv'
<1>1. a \in Accounts \ StudentAccounts
  BY AccountsAssumption DEF ProvisionTestStudent
<1>2. known' \in [Accounts -> SUBSET Nat] /\ \A b \in StudentAccounts : known'[b] = known[b]
  BY IInvSplit DEF ProvisionTestStudent, AuthTypes, UserTypes
<1> QED BY <1>1, <1>2, CreateStep DEF ProvisionTestStudent, Request

\* A session minted now under the current password.
LEMMA MintFacts ==
    ASSUME AccountsIInv, NEW a \in Accounts
    PROVE  LET s == Session(a, now)
           IN  /\ s \in [of : Accounts, iat : 1 .. MaxTime, pw : Nat]
               /\ s.iat <= now /\ s.pw = user[s.of].pw /\ s.iat >= user[s.of].changed
<1>1. AuthTypes /\ SessionsInv
  BY IInvSplit
<1>2. now \in 1 .. MaxTime /\ user[a].pw \in Nat /\ user[a].changed \in 0 .. MaxTime
  BY <1>1, AccountFacts DEF AuthTypes
<1>3. user[a].changed <= now
  BY <1>1 DEF SessionsInv, AccountIsPast
<1> QED BY <1>2, <1>3 DEF Session

LEMMA EnterStep ==
    ASSUME AccountsIInv, NEW a \in Accounts, EnterAsTestStudent(a)
    PROVE  AccountsIInv'
<1> DEFINE s == Session(a, now)
<1>1. AuthTypes /\ FailureTypes /\ ThrottleInv
  BY IInvSplit
<1>2. /\ s \in [of : Accounts, iat : 1 .. MaxTime, pw : Nat]
      /\ s.iat <= now /\ s.pw = user[s.of].pw /\ s.iat >= user[s.of].changed
  BY MintFacts
<1>3. /\ sessions' = sessions \cup {s} /\ now' = now
      /\ UNCHANGED <<mail, user, known, tokens, request, failures, began>>
  BY DEF EnterAsTestStudent, Request
<1> HIDE DEF s
<1>4. AuthTypes'
  BY <1>1, <1>2, <1>3 DEF AuthTypes, UserTypes, ResetState
<1>5. FailureTypes' /\ ThrottleInv'
  BY <1>1, <1>3, ThrottleRests
<1>6. \A t \in sessions' \ sessions :
         /\ t.iat <= now' /\ t.pw = user[t.of].pw /\ t.iat >= user[t.of].changed
  BY <1>2, <1>3
<1>7. now <= now' /\ \A r \in Slots : request'[r] = request[r]
  BY <1>1, <1>3 DEF AuthTypes
<1> QED BY <1>3, <1>4, <1>5, <1>6, <1>7, UsersRest

LEMMA LogoutStep ==
    ASSUME AccountsIInv, NEW s, Logout(s)
    PROVE  AccountsIInv'
<1>1. AuthTypes /\ FailureTypes /\ ThrottleInv
  BY IInvSplit
<1>2. /\ sessions' \subseteq sessions /\ now' = now
      /\ UNCHANGED <<mail, user, known, tokens, request, failures, began>>
  BY DEF Logout, Request
<1>3. AuthTypes'
  BY <1>1, <1>2 DEF AuthTypes, UserTypes, ResetState
<1>4. FailureTypes' /\ ThrottleInv'
  BY <1>1, <1>2, ThrottleRests
<1>5. sessions' \ sessions = {} /\ now <= now' /\ \A r \in Slots : request'[r] = request[r]
  BY <1>1, <1>2 DEF AuthTypes
<1> QED BY <1>2, <1>3, <1>4, <1>5, UsersRest

LEMMA ToggleStep ==
    ASSUME AccountsIInv, NEW a \in Accounts, ToggleUserActive(a)
    PROVE  AccountsIInv'
<1>1. AuthTypes /\ FailureTypes /\ ThrottleInv
  BY IInvSplit
<1>2. /\ user' = [user EXCEPT ![a].active = ~@] /\ now' = now
      /\ UNCHANGED <<mail, known, sessions, tokens, request, failures, began>>
  BY DEF ToggleUserActive, Request
<1> DEFINE u == [user[a] EXCEPT !.active = ~@]
<1>3. user[a] \in UserRow
  BY <1>1 DEF AuthTypes, UserTypes
<1>4. u \in UserRow /\ u.pw = user[a].pw /\ u.changed = user[a].changed
  BY <1>3 DEF UserRow
<1>5. user' = [user EXCEPT ![a] = u]
  BY <1>2
<1> HIDE DEF u
<1>6. /\ user' \in [Accounts -> UserRow]
      /\ \A b \in Accounts : user'[b].pw = user[b].pw /\ user'[b].changed = user[b].changed
  BY <1>1, <1>4, <1>5 DEF AuthTypes, UserTypes
<1>7. AuthTypes'
  BY <1>1, <1>2, <1>6 DEF AuthTypes, UserTypes, ResetState
<1>8. FailureTypes' /\ ThrottleInv'
  BY <1>1, <1>2, ThrottleRests
<1>9. sessions' \ sessions = {} /\ now <= now' /\ \A r \in Slots : request'[r] = request[r]
  BY <1>1, <1>2 DEF AuthTypes
<1>10. \A b \in Accounts :
         /\ b \in StudentAccounts => /\ known[b] \subseteq known'[b]
                                     /\ user'[b].pw \in {user[b].pw} \cup known'[b]
         /\ \/ /\ user'[b].pw = user[b].pw /\ user'[b].changed = user[b].changed
               /\ began'[b] = began[b]
            \/ /\ user'[b].pw > user[b].pw /\ user'[b].changed = began'[b]
               /\ began'[b] <= now'
  BY <1>2, <1>6
<1> QED BY <1>2, <1>7, <1>8, <1>9, <1>10, AuthStep

\* A failure recorded now.
LEMMA FailedFacts ==
    ASSUME NEW f \in [Keys -> Seq(1 .. MaxTime)], NEW k \in Keys, now \in 1 .. MaxTime
    PROVE  /\ Failed(f, k) \in [Keys -> Seq(1 .. MaxTime)]
           /\ Failed(f, k)[k] = Append(Pruned(f[k]), now)
           /\ \A j \in Keys : j # k => Failed(f, k)[j] = f[j]
           /\ Len(Pruned(Failed(f, k)[k])) = Len(Pruned(f[k])) + 1
<1> DEFINE times == 1 .. MaxTime
           q == f[k]
           c == Cardinality(Stale(q))
<1>1. q \in Seq(times) /\ times \subseteq Nat /\ now \in times
  OBVIOUS
<1> HIDE DEF times, q
<1>2. q \in Seq(Nat) /\ now \in Nat
  BY <1>1, SeqWider
<1>3. c \in 0 .. Len(q) /\ Len(q) \in Nat
  BY <1>2, StaleIsPrefix, StaleNow
<1> HIDE DEF c
<1>4. Pruned(q) = SubSeq(q, c + 1, Len(q))
  BY DEF Pruned, c
<1>5. Pruned(q) \in Seq(times)
  BY <1>1, <1>3, <1>4
<1>6. Append(Pruned(q), now) \in Seq(times)
  BY <1>1, <1>5
<1>7. Len(Pruned(Append(Pruned(q), now))) = Len(Pruned(q)) + 1
  BY <1>2, PrunedAppend
<1>8. Failed(f, k) = [f EXCEPT ![k] = Append(Pruned(q), now)]
  BY DEF Failed, q
<1>9. f \in [Keys -> Seq(times)]
  BY DEF times
<1> QED BY <1>6, <1>7, <1>8, <1>9 DEF q, times

\* Within a second, the budget is counted on the new failures and guesses.
LEMMA ThrottleNow ==
    ASSUME now' = now,
           \A a \in Accounts :
              Len(Pruned(failures'[a])) + Cardinality(Guesses(a)') <= Budget
    PROVE  ThrottleInv'
<1>1. \A a \in Accounts : Pruned(failures[a])' = Pruned(failures'[a])
  BY DEF Pruned, Stale
<1> QED BY <1>1 DEF ThrottleInv, Budget

LEMMA GuessesNext ==
    ASSUME NEW a
    PROVE  /\ IsFiniteSet(Guesses(a)') /\ Cardinality(Guesses(a)') \in Nat
           /\ Cardinality(Guesses(a)') <= Cardinality(Slots)
           /\ Guesses(a)' \subseteq Guesses(a) => Cardinality(Guesses(a)') <= Cardinality(Guesses(a))
           /\ \A r \in Guesses(a) : Guesses(a)' \subseteq Guesses(a) \ {r} =>
                 Cardinality(Guesses(a)') <= Cardinality(Guesses(a)) - 1
<1> DEFINE G == Guesses(a)
           H == Guesses(a)'
<1>1. G \in SUBSET Slots /\ H \in SUBSET Slots
  BY DEF Guesses
<1> HIDE DEF G, H
<1>2. IsFiniteSet(Slots)
  BY AccountsAssumption
<1>3. IsFiniteSet(G) /\ IsFiniteSet(H) /\ Cardinality(H) <= Cardinality(Slots)
  BY <1>1, <1>2, FS_Subset
<1>4. Cardinality(H) \in Nat /\ Cardinality(G) \in Nat
  BY <1>3, FS_CardinalityType
<1>5. H \subseteq G => Cardinality(H) <= Cardinality(G)
  BY <1>3, FS_Subset
<1>6. ASSUME NEW r \in G, H \subseteq G \ {r}
      PROVE  Cardinality(H) <= Cardinality(G) - 1
  <2>1. IsFiniteSet(G \ {r}) /\ Cardinality(G \ {r}) = Cardinality(G) - 1
    BY <1>3, FS_RemoveElement
  <2>2. Cardinality(H) <= Cardinality(G \ {r})
    BY <1>6, <2>1, FS_Subset
  <2> QED BY <2>1, <2>2
<1> QED BY <1>3, <1>4, <1>5, <1>6 DEF G, H

LEMMA BudgetFacts ==
    ASSUME FailureTypes, ThrottleInv, NEW a \in Accounts
    PROVE  /\ Len(Pruned(failures[a])) \in Nat /\ Cardinality(Guesses(a)) \in Nat
           /\ Len(Pruned(failures[a])) + Cardinality(Guesses(a)) <= Budget
           /\ Budget = Max + Cardinality(Slots) - 1 /\ Budget \in Int
           /\ Max \in Nat \ {0} /\ Cardinality(Slots) \in Nat
<1>1. a \in Keys
  BY DEF Keys
<1> QED BY <1>1, PrunedSize, GuessesSize, AccountsAssumption DEF ThrottleInv, Budget

\* A slot takes up a request.
LEMMA StartFacts ==
    ASSUME AuthTypes, NEW r \in Slots, NEW q, Start(r, q),
           q \in LoginState \/ q \in ResetState \/ q \in ChangeState,
           UNCHANGED <<user, known, sessions, tokens, began>>, now' = now
    PROVE  /\ AuthTypes' /\ request'[r] = q
           /\ \A k \in Slots : k # r => request'[k] = request[k]
<1>1. request' = [request EXCEPT ![r] = q]
  BY DEF Start
<1>2. request \in [Slots -> {NoRequest} \cup LoginState \cup ResetState \cup ChangeState]
  BY DEF AuthTypes
<1>3. request' \in [Slots -> {NoRequest} \cup LoginState \cup ResetState \cup ChangeState]
  BY <1>1, <1>2
<1>4. ResetState' = ResetState
  BY DEF ResetState
<1>5. AuthTypes'
  BY <1>3, <1>4 DEF AuthTypes, UserTypes, LoginState, ChangeState, Accounts
<1> QED BY <1>1, <1>2, <1>5

LEMMA LoginBeginStep ==
    ASSUME AccountsIInv, NEW r \in Slots, NEW a \in Accounts, NEW v \in known[a] \cup {0},
           LoginBegin(r, a, v)
    PROVE  AccountsIInv'
<1> DEFINE q == [op |-> "login", of |-> a, typed |-> v, checked |-> FALSE]
<1>1. AuthTypes /\ FailureTypes /\ ThrottleInv
  BY IInvSplit
<1>2. /\ Start(r, q) /\ ~IsBlocked(a, Max) /\ now' = now
      /\ UNCHANGED <<mail, user, known, sessions, tokens, failures, began>>
  BY DEF LoginBegin, Request
<1>3. v \in Nat
  BY <1>1 DEF AuthTypes, UserTypes
<1>4. q \in LoginState /\ q.op = "login" /\ q.of = a
  BY <1>3 DEF LoginState
<1> HIDE DEF q
<1>5. /\ AuthTypes' /\ request'[r] = q
      /\ \A k \in Slots : k # r => request'[k] = request[k]
  BY <1>1, <1>2, <1>4, StartFacts
<1>6. FailureTypes'
  BY <1>1, <1>2 DEF FailureTypes
<1>7. ASSUME NEW b \in Accounts
      PROVE  Len(Pruned(failures'[b])) + Cardinality(Guesses(b)') <= Budget
  <2>1. /\ Len(Pruned(failures[b])) \in Nat /\ Cardinality(Guesses(b)) \in Nat
        /\ Len(Pruned(failures[b])) + Cardinality(Guesses(b)) <= Budget
        /\ Budget = Max + Cardinality(Slots) - 1 /\ Budget \in Int
        /\ Max \in Nat \ {0} /\ Cardinality(Slots) \in Nat
    BY <1>1, BudgetFacts
  <2>2. Pruned(failures'[b]) = Pruned(failures[b])
    BY <1>2
  <2>3. CASE b = a
    <3>1. ~(Len(Pruned(failures[b])) >= Max)
      BY <1>2, <2>3 DEF IsBlocked
    <3>2. Cardinality(Guesses(b)') <= Cardinality(Slots) /\ Cardinality(Guesses(b)') \in Nat
      BY GuessesNext
    <3> QED BY <2>1, <2>2, <3>1, <3>2
  <2>4. CASE b # a
    <3>1. Guesses(b)' \subseteq Guesses(b)
      BY <1>4, <1>5, <2>4 DEF Guesses, IsGuess
    <3>2. Cardinality(Guesses(b)') <= Cardinality(Guesses(b)) /\ Cardinality(Guesses(b)') \in Nat
      BY <3>1, GuessesNext
    <3> QED BY <2>1, <2>2, <3>2
  <2> QED BY <2>3, <2>4
<1>8. ThrottleInv'
  BY <1>2, <1>7, ThrottleNow
<1>9. /\ sessions' \ sessions = {} /\ now <= now'
      /\ \A k \in Slots : request'[k] = request[k] \/ request'[k] = NoRequest
                          \/ request'[k].op # "change" \/ request'[k].at <= now'
  BY <1>1, <1>2, <1>4, <1>5 DEF AuthTypes
<1> QED BY <1>2, <1>5, <1>6, <1>8, <1>9, UsersRest

\* A slot is given back.
LEMMA EndFacts ==
    ASSUME AuthTypes, NEW r \in Slots, End(r)
    PROVE  /\ request' \in [Slots -> {NoRequest} \cup LoginState \cup ResetState \cup ChangeState]
           /\ request'[r] = NoRequest
           /\ \A k \in Slots : k # r => request'[k] = request[k]
<1>1. request' = [request EXCEPT ![r] = NoRequest]
  BY DEF End
<1>2. request \in [Slots -> {NoRequest} \cup LoginState \cup ResetState \cup ChangeState]
  BY DEF AuthTypes
<1> QED BY <1>1, <1>2

\* The record in a slot is of the kind its op names.
LEMMA RequestFacts ==
    ASSUME AuthTypes, NEW r \in Slots, request[r] # NoRequest
    PROVE  /\ request[r].op = "login" => request[r] \in LoginState
           /\ request[r].op = "reset" => request[r] \in ResetState
           /\ request[r].op = "change" => request[r] \in ChangeState
           /\ request[r].of \in Accounts
<1>1. request[r] \in LoginState \/ request[r] \in ResetState \/ request[r] \in ChangeState
  BY DEF AuthTypes
<1> QED BY <1>1 DEF LoginState, ResetState, ChangeState

\* A good password clears the account's failures, a wrong one adds one: the guess
\* that passed the throttle becomes the failure it was counted for.
LEMMA LoginCheckStep ==
    ASSUME AccountsIInv, NEW r \in Slots, LoginCheck(r)
    PROVE  AccountsIInv'
<1> DEFINE a == request[r].of
<1>1. AuthTypes /\ FailureTypes /\ ThrottleInv
  BY IInvSplit
<1>2. /\ request[r] # NoRequest /\ request[r].op = "login" /\ ~request[r].checked
      /\ UNCHANGED <<mail, user, known, sessions, tokens, began, clock>> /\ now' = now
  BY DEF LoginCheck, clock
<1>3. request[r] \in LoginState /\ a \in Accounts
  BY <1>1, <1>2, RequestFacts
<1>4. r \in Guesses(a)
  BY <1>2 DEF Guesses, IsGuess
<1>5. now \in 1 .. MaxTime /\ now <= now'
  BY <1>1, <1>2 DEF AuthTypes
<1>6. a \in Keys /\ "ip" \in Keys /\ \A b \in Accounts : b # "ip" /\ b \in Keys
  BY <1>3, AccountsAssumption DEF Keys, Accounts
<1>7. ResetState' = ResetState
  BY <1>2 DEF ResetState
<1>8. /\ request' \in [Slots -> {NoRequest} \cup LoginState \cup ResetState \cup ChangeState]
      /\ \A b \in Accounts : ~IsGuess(request'[r], b)
      /\ request'[r] = NoRequest \/ request'[r].op # "change"
      /\ \A k \in Slots : k # r => request'[k] = request[k]
  <2>1. CASE End(r)
    BY <1>1, <2>1, EndFacts DEF IsGuess
  <2>2. CASE request' = [request EXCEPT ![r].checked = TRUE]
    <3> DEFINE q == [request[r] EXCEPT !.checked = TRUE]
    <3>1. q \in LoginState /\ q.checked = TRUE /\ q.op = "login"
      BY <1>3 DEF LoginState
    <3>2. request' = [request EXCEPT ![r] = q]
      BY <2>2
    <3> HIDE DEF q
    <3> QED BY <1>1, <3>1, <3>2 DEF AuthTypes, IsGuess
  <2> QED BY <2>1, <2>2 DEF LoginCheck
<1>9. AuthTypes'
  BY <1>1, <1>2, <1>7, <1>8 DEF AuthTypes, UserTypes, LoginState, ChangeState, Accounts
<1>10. /\ FailureTypes'
       /\ Len(Pruned(failures'[a])) \in 0 .. Len(Pruned(failures[a])) + 1
       /\ \A b \in Accounts : b # a => failures'[b] = failures[b]
  <2>0. failures \in [Keys -> Seq(1 .. MaxTime)] /\ Len(Pruned(failures[a])) \in Nat
    BY <1>1, <1>6, PrunedSize DEF FailureTypes
  <2>1. CASE failures' = [failures EXCEPT ![a] = <<>>]
    <3>1. <<>> \in Seq(1 .. MaxTime) /\ <<>> \in Seq(Nat) /\ Len(<<>>) = 0
      OBVIOUS
    <3>2. failures'[a] = <<>> /\ FailureTypes' /\ \A b \in Accounts : b # a => failures'[b] = failures[b]
      <4> HIDE DEF a
      <4> QED BY <1>6, <2>0, <2>1, <3>1 DEF FailureTypes
    <3>3. Len(Pruned(<<>>)) = 0
      <4>1. Len(Pruned(<<>>)) = Len(<<>>) - Cardinality(Stale(<<>>)) /\ Len(Pruned(<<>>)) \in Nat
        BY <3>1, PrunedLen
      <4>2. Cardinality(Stale(<<>>)) \in 0 .. Len(<<>>)
        BY <3>1, StaleIsPrefix, StaleNow
      <4> QED BY <3>1, <4>1, <4>2
    <3> QED BY <2>0, <3>2, <3>3
  <2>2. CASE failures' = Failed(Failed(failures, a), "ip")
    <3> DEFINE f == Failed(failures, a)
    <3> HIDE DEF a
    <3>1. /\ f \in [Keys -> Seq(1 .. MaxTime)]
          /\ \A j \in Keys : j # a => f[j] = failures[j]
          /\ Len(Pruned(f[a])) = Len(Pruned(failures[a])) + 1
      BY <1>5, <1>6, <2>0, FailedFacts
    <3> HIDE DEF f
    <3>2. /\ Failed(f, "ip") \in [Keys -> Seq(1 .. MaxTime)]
          /\ \A j \in Keys : j # "ip" => Failed(f, "ip")[j] = f[j]
      BY <1>5, <1>6, <3>1, FailedFacts
    <3>3. failures' = Failed(f, "ip")
      BY <2>2 DEF f
    <3>4. failures'[a] = f[a] /\ \A b \in Accounts : b # a => failures'[b] = failures[b]
      BY <1>3, <1>6, <3>1, <3>2, <3>3 DEF a
    <3> QED BY <2>0, <3>1, <3>2, <3>3, <3>4 DEF FailureTypes
  <2> QED BY <2>1, <2>2 DEF LoginCheck
<1>11. ASSUME NEW b \in Accounts
       PROVE  Len(Pruned(failures'[b])) + Cardinality(Guesses(b)') <= Budget
  <2> HIDE DEF a
  <2>1. /\ Len(Pruned(failures[b])) \in Nat /\ Cardinality(Guesses(b)) \in Nat
        /\ Len(Pruned(failures[b])) + Cardinality(Guesses(b)) <= Budget /\ Budget \in Int
    BY <1>1, BudgetFacts
  <2>2. Guesses(b)' \subseteq Guesses(b) \ {r}
    BY <1>8 DEF Guesses
  <2>3. CASE b = a
    <3>1. Cardinality(Guesses(b)') <= Cardinality(Guesses(b)) - 1 /\ Cardinality(Guesses(b)') \in Nat
      BY <1>4, <2>2, <2>3, GuessesNext
    <3> QED BY <1>10, <2>1, <2>3, <3>1
  <2>4. CASE b # a
    <3>1. Cardinality(Guesses(b)') <= Cardinality(Guesses(b)) /\ Cardinality(Guesses(b)') \in Nat
      BY <2>2, GuessesNext
    <3> QED BY <1>10, <2>1, <2>4, <3>1
  <2> QED BY <2>3, <2>4
<1>12. ThrottleInv'
  BY <1>2, <1>11, ThrottleNow
<1>13. /\ sessions' \ sessions = {}
       /\ \A k \in Slots : request'[k] = request[k] \/ request'[k] = NoRequest
                           \/ request'[k].op # "change" \/ request'[k].at <= now'
  BY <1>2, <1>8
<1> QED BY <1>2, <1>5, <1>9, <1>10, <1>12, <1>13, UsersRest

\* Ending a request adds no guess.
LEMMA EndThrottle ==
    ASSUME AuthTypes, FailureTypes, ThrottleInv, NEW r \in Slots, End(r),
           failures' = failures, now' = now
    PROVE  FailureTypes' /\ ThrottleInv'
<1>1. request'[r] = NoRequest /\ \A k \in Slots : k # r => request'[k] = request[k]
  BY EndFacts
<1>2. \A k \in Slots, a \in Accounts : IsGuess(request'[k], a) => IsGuess(request[k], a)
  BY <1>1 DEF IsGuess
<1>3. now \in Nat /\ now' \in Nat /\ now <= now' /\ FailureTypes'
  BY DEF AuthTypes, FailureTypes
<1>4. \A a \in Accounts : failures'[a] = failures[a]
  OBVIOUS
<1> QED BY <1>2, <1>3, <1>4, ThrottleFrame

LEMMA LoginEndStep ==
    ASSUME AccountsIInv, NEW r \in Slots, LoginEnd(r)
    PROVE  AccountsIInv'
<1> DEFINE s == Session(request[r].of, now)
<1>1. AuthTypes /\ FailureTypes /\ ThrottleInv
  BY IInvSplit
<1>2. /\ sessions' = sessions \cup {s} /\ now' = now /\ End(r) /\ request[r] # NoRequest
      /\ UNCHANGED <<mail, user, known, tokens, failures, began>>
  BY DEF LoginEnd, clock
<1>3. /\ s \in [of : Accounts, iat : 1 .. MaxTime, pw : Nat]
      /\ s.iat <= now /\ s.pw = user[s.of].pw /\ s.iat >= user[s.of].changed
  BY <1>1, <1>2, RequestFacts, MintFacts
<1> HIDE DEF s
<1>4. /\ request' \in [Slots -> {NoRequest} \cup LoginState \cup ResetState \cup ChangeState]
      /\ request'[r] = NoRequest
      /\ \A k \in Slots : k # r => request'[k] = request[k]
  BY <1>1, <1>2, EndFacts
<1>5. ResetState' = ResetState
  BY <1>2 DEF ResetState
<1>6. AuthTypes'
  BY <1>1, <1>2, <1>3, <1>4, <1>5 DEF AuthTypes, UserTypes, LoginState, ChangeState, Accounts
<1>7. FailureTypes' /\ ThrottleInv'
  BY <1>1, <1>2, EndThrottle
<1>8. /\ now <= now'
      /\ \A t \in sessions' \ sessions :
            /\ t.iat <= now' /\ t.pw = user[t.of].pw /\ t.iat >= user[t.of].changed
      /\ \A k \in Slots : request'[k] = request[k] \/ request'[k] = NoRequest
                          \/ request'[k].op # "change" \/ request'[k].at <= now'
  BY <1>1, <1>2, <1>3, <1>4 DEF AuthTypes
<1> QED BY <1>2, <1>6, <1>7, <1>8, UsersRest

\* Starting a request that is no login adds no guess.
LEMMA StartStep ==
    ASSUME AccountsIInv, NEW r \in Slots, NEW q, Start(r, q),
           q \in ResetState \/ (q \in ChangeState /\ q.at <= now),
           UNCHANGED <<mail, user, known, sessions, tokens, failures, began>>, now' = now
    PROVE  AccountsIInv'
<1>1. AuthTypes /\ FailureTypes /\ ThrottleInv
  BY IInvSplit
<1>2. /\ AuthTypes' /\ request'[r] = q
      /\ \A k \in Slots : k # r => request'[k] = request[k]
  BY <1>1, StartFacts
<1>3. q.op # "login" /\ (q.op # "change" \/ q.at <= now)
  BY DEF ResetState, ChangeState
<1>4. \A k \in Slots, a \in Accounts : IsGuess(request'[k], a) => IsGuess(request[k], a)
  BY <1>2, <1>3 DEF IsGuess
<1>5. now \in Nat /\ now' \in Nat /\ now <= now' /\ FailureTypes'
  BY <1>1 DEF AuthTypes, FailureTypes
<1>6. \A a \in Accounts : failures'[a] = failures[a]
  OBVIOUS
<1>7. ThrottleInv'
  BY <1>1, <1>4, <1>5, <1>6, ThrottleFrame
<1>8. /\ sessions' \ sessions = {}
      /\ \A k \in Slots : request'[k] = request[k] \/ request'[k] = NoRequest
                          \/ request'[k].op # "change" \/ request'[k].at <= now'
  BY <1>2, <1>3
<1> QED BY <1>2, <1>5, <1>7, <1>8, UsersRest

LEMMA ResetBeginStep ==
    ASSUME AccountsIInv, NEW r \in Slots, NEW t \in DOMAIN tokens, ResetBegin(r, t)
    PROVE  AccountsIInv'
<1> DEFINE q == [op |-> "reset", of |-> tokens[t].of, token |-> t]
<1>1. /\ Start(r, q) /\ now' = now
      /\ UNCHANGED <<mail, user, known, sessions, tokens, failures, began>>
  BY DEF ResetBegin, Request
<1>2. tokens[t].of \in Accounts
  <2>1. tokens[t] \in Token
    BY IInvSplit DEF AuthTypes
  <2> QED BY <2>1 DEF Token
<1>3. q \in ResetState
  BY <1>2 DEF ResetState
<1> HIDE DEF q
<1> QED BY <1>1, <1>3, StartStep

LEMMA ChangeBeginStep ==
    ASSUME AccountsIInv, NEW r \in Slots, NEW s \in sessions, ChangeBegin(r, s)
    PROVE  AccountsIInv'
<1> DEFINE q == [op |-> "change", of |-> s.of, at |-> now]
<1>1. /\ Start(r, q) /\ now' = now
      /\ UNCHANGED <<mail, user, known, sessions, tokens, failures, began>>
  BY DEF ChangeBegin, Request
<1>2. s.of \in Accounts /\ now \in 1 .. MaxTime
  BY IInvSplit DEF AuthTypes
<1>3. q \in ChangeState /\ q.at <= now
  BY <1>2 DEF ChangeState
<1> HIDE DEF q
<1> QED BY <1>1, <1>3, StartStep

LEMMA ForgotStep ==
    ASSUME AccountsIInv, NEW a \in Accounts, ForgotPassword(a)
    PROVE  AccountsIInv'
<1>1. AuthTypes /\ FailureTypes /\ ThrottleInv
  BY IInvSplit
<1>2. /\ failures' = Failed(failures, "forgot") /\ now' = now
      /\ UNCHANGED <<mail, user, known, sessions, request, began>>
  BY DEF ForgotPassword, Request
<1>3. now \in 1 .. MaxTime /\ now \in Nat /\ "forgot" \in Keys
      /\ \A b \in Accounts : b # "forgot" /\ b \in Keys
  BY <1>1, AccountsAssumption DEF AuthTypes, Keys, Accounts
<1>4. failures' \in [Keys -> Seq(1 .. MaxTime)] /\ \A b \in Accounts : failures'[b] = failures[b]
  <2>1. failures \in [Keys -> Seq(1 .. MaxTime)]
    BY <1>1 DEF FailureTypes
  <2>2. /\ Failed(failures, "forgot") \in [Keys -> Seq(1 .. MaxTime)]
        /\ \A j \in Keys : j # "forgot" => Failed(failures, "forgot")[j] = failures[j]
    BY <1>3, <2>1, FailedFacts
  <2> QED BY <1>2, <1>3, <2>2
<1>5. tokens' \in Seq(Token) /\ DOMAIN tokens \subseteq DOMAIN tokens'
  <2>1. tokens \in Seq(Token)
    BY <1>1 DEF AuthTypes
  <2>2. CASE tokens' = tokens
    BY <2>1, <2>2
  <2>3. CASE \E out \in BOOLEAN :
                tokens' = Append(tokens, [of |-> a, expires |-> now + ResetTTL,
                                          used |-> FALSE, mailed |-> out])
    <3>1. PICK out \in BOOLEAN :
             tokens' = Append(tokens, [of |-> a, expires |-> now + ResetTTL,
                                       used |-> FALSE, mailed |-> out])
      BY <2>3
    <3> DEFINE t == [of |-> a, expires |-> now + ResetTTL, used |-> FALSE, mailed |-> out]
    <3>2. now + ResetTTL \in Nat
      BY <1>3, AccountsAssumption
    <3>3. t \in Token
      BY <3>2 DEF Token
    <3>4. tokens' = Append(tokens, t)
      BY <3>1
    <3> HIDE DEF t
    <3> QED BY <2>1, <3>3, <3>4
  <2> QED BY <2>2, <2>3 DEF ForgotPassword
<1>6. ResetState \subseteq ResetState'
  BY <1>5 DEF ResetState
<1>7. request' \in [Slots -> {NoRequest} \cup LoginState \cup ResetState' \cup ChangeState]
  <2>1. request \in [Slots -> {NoRequest} \cup LoginState \cup ResetState \cup ChangeState]
    BY <1>1 DEF AuthTypes
  <2> QED BY <1>2, <1>6, <2>1
<1>8. AuthTypes'
  BY <1>1, <1>2, <1>5, <1>7 DEF AuthTypes, UserTypes, LoginState, ChangeState, Accounts
<1>9. FailureTypes'
  BY <1>4 DEF FailureTypes
<1>10. ThrottleInv'
  <2>1. now' \in Nat /\ now <= now'
    BY <1>2, <1>3
  <2>2. \A r \in Slots, b \in Accounts : IsGuess(request'[r], b) => IsGuess(request[r], b)
    BY <1>2
  <2> QED BY <1>1, <1>3, <1>4, <1>9, <2>1, <2>2, ThrottleFrame
<1>11. sessions' \ sessions = {} /\ now <= now' /\ \A r \in Slots : request'[r] = request[r]
  BY <1>2, <1>3
<1> QED BY <1>2, <1>8, <1>9, <1>10, <1>11, UsersRest

\* The commit of a password the owner chose, by reset or change.
LEMMA ChosenStep ==
    ASSUME AccountsIInv, NEW a \in Accounts, NEW at \in 1 .. MaxTime, at <= now,
           Chosen(a, at), NEW r \in Slots, End(r),
           tokens' \in Seq(Token), DOMAIN tokens' = DOMAIN tokens,
           sessions' \subseteq sessions \cup {[of |-> a, iat |-> at, pw |-> Fresh(a)]},
           UNCHANGED <<mail, failures>>, now' = now
    PROVE  AccountsIInv'
<1>1. AuthTypes /\ FailureTypes /\ ThrottleInv
  BY IInvSplit
<1>2. /\ user' = [user EXCEPT ![a] = Rotated(@, at)]
      /\ known' = [known EXCEPT ![a] = @ \cup {Fresh(a)}]
      /\ began' = [began EXCEPT ![a] = at]
  BY DEF Chosen
<1>3. user[a] \in UserRow /\ user[a].pw \in Nat /\ Fresh(a) \in Nat /\ Fresh(a) = user[a].pw + 1
  BY <1>1, AccountFacts DEF AuthTypes, UserTypes, Fresh
<1>4. at \in 0 .. MaxTime
  OBVIOUS
<1> DEFINE u == Rotated(user[a], at)
           s == [of |-> a, iat |-> at, pw |-> Fresh(a)]
<1>5. u \in UserRow /\ u.pw = Fresh(a) /\ u.changed = at
  BY <1>3, <1>4, RowFacts
<1>6. user' = [user EXCEPT ![a] = u]
  BY <1>2
<1>7. s \in [of : Accounts, iat : 1 .. MaxTime, pw : Nat] /\ s.of = a /\ s.iat = at /\ s.pw = Fresh(a)
  BY <1>3
<1> HIDE DEF u
<1>8. /\ user' \in [Accounts -> UserRow] /\ user'[a] = u
      /\ \A b \in Accounts : b # a => user'[b] = user[b]
      /\ known' \in [Accounts -> SUBSET Nat] /\ known'[a] = known[a] \cup {Fresh(a)}
      /\ \A b \in Accounts : b # a => known'[b] = known[b]
      /\ began' \in [Accounts -> 0 .. MaxTime] /\ began'[a] = at
      /\ \A b \in Accounts : b # a => began'[b] = began[b]
  BY <1>1, <1>2, <1>3, <1>4, <1>5, <1>6 DEF AuthTypes, UserTypes
<1>9. /\ request' \in [Slots -> {NoRequest} \cup LoginState \cup ResetState \cup ChangeState]
      /\ request'[r] = NoRequest
      /\ \A k \in Slots : k # r => request'[k] = request[k]
  BY <1>1, EndFacts
<1>10. ResetState' = ResetState
  BY DEF ResetState
<1>11. sessions' \subseteq sessions \cup {s}
  OBVIOUS
<1> HIDE DEF s
<1>12. AuthTypes'
  BY <1>1, <1>7, <1>8, <1>9, <1>10, <1>11 DEF AuthTypes, UserTypes, LoginState, ChangeState, Accounts
<1>13. FailureTypes' /\ ThrottleInv'
  BY <1>1, EndThrottle
<1>14. now \in Nat /\ now <= now'
  BY <1>1 DEF AuthTypes
<1>15. \A b \in Accounts :
         /\ b \in StudentAccounts => /\ known[b] \subseteq known'[b]
                                     /\ user'[b].pw \in {user[b].pw} \cup known'[b]
         /\ \/ /\ user'[b].pw = user[b].pw /\ user'[b].changed = user[b].changed
               /\ began'[b] = began[b]
            \/ /\ user'[b].pw > user[b].pw /\ user'[b].changed = began'[b]
               /\ began'[b] <= now'
  <2> TAKE b \in Accounts
  <2>1. CASE b = a
    BY <1>3, <1>5, <1>8, <2>1
  <2>2. CASE b # a
    BY <1>8, <2>2
  <2> QED BY <2>1, <2>2
<1>16. \A t \in sessions' \ sessions :
         /\ t.iat <= now' /\ t.pw = user'[t.of].pw /\ t.iat >= user'[t.of].changed
  BY <1>5, <1>7, <1>8, <1>11
<1>17. \A k \in Slots : request'[k] = request[k] \/ request'[k] = NoRequest
                        \/ request'[k].op # "change" \/ request'[k].at <= now'
  BY <1>9
<1> QED BY <1>12, <1>13, <1>14, <1>15, <1>16, <1>17, AuthStep

LEMMA ResetEndStep ==
    ASSUME AccountsIInv, NEW r \in Slots, ResetEnd(r)
    PROVE  AccountsIInv'
<1> DEFINE a == request[r].of
           t == request[r].token
<1>1. AuthTypes
  BY IInvSplit
<1>2. /\ request[r] # NoRequest /\ request[r].op = "reset" /\ Chosen(a, now) /\ End(r)
      /\ tokens' = [tokens EXCEPT ![t].used = TRUE]
      /\ UNCHANGED <<mail, sessions, failures>> /\ now' = now
  BY DEF ResetEnd, clock
<1>3. request[r] \in ResetState /\ a \in Accounts
  BY <1>1, <1>2, RequestFacts
<1>4. now \in 1 .. MaxTime /\ now <= now
  BY <1>1 DEF AuthTypes
<1>5. tokens' \in Seq(Token) /\ DOMAIN tokens' = DOMAIN tokens
  <2>1. t \in DOMAIN tokens /\ tokens \in Seq(Token)
    BY <1>1, <1>3 DEF ResetState, AuthTypes
  <2> DEFINE new == [tokens[t] EXCEPT !.used = TRUE]
  <2>2. tokens[t] \in Token
    BY <2>1
  <2>3. new \in Token
    BY <2>2 DEF Token
  <2>4. tokens' = [tokens EXCEPT ![t] = new]
    BY <1>2
  <2> HIDE DEF new, t
  <2> QED BY <2>1, <2>3, <2>4
<1>6. sessions' \subseteq sessions \cup {[of |-> a, iat |-> now, pw |-> Fresh(a)]}
  BY <1>2
<1> HIDE DEF a, t
<1> QED BY <1>2, <1>3, <1>4, <1>5, <1>6, ChosenStep

LEMMA ChangeEndStep ==
    ASSUME AccountsIInv, NEW r \in Slots, ChangeEnd(r)
    PROVE  AccountsIInv'
<1> DEFINE a == request[r].of
           at == request[r].at
<1>1. AuthTypes /\ SessionsInv
  BY IInvSplit
<1>2. /\ request[r] # NoRequest /\ request[r].op = "change" /\ Chosen(a, at) /\ End(r)
      /\ sessions' = sessions \cup {[of |-> a, iat |-> at, pw |-> Fresh(a)]}
      /\ UNCHANGED <<mail, tokens, failures>> /\ now' = now
  BY DEF ChangeEnd, clock
<1>3. request[r] \in ChangeState /\ a \in Accounts
  BY <1>1, <1>2, RequestFacts
<1>4. at \in 1 .. MaxTime /\ at <= now
  BY <1>1, <1>2, <1>3 DEF ChangeState, SessionsInv, ChangesArePast
<1>5. tokens' \in Seq(Token) /\ DOMAIN tokens' = DOMAIN tokens
  BY <1>1, <1>2 DEF AuthTypes
<1> HIDE DEF a, at
<1> QED BY <1>2, <1>3, <1>4, <1>5, ChosenStep

LEMMA TickStep ==
    ASSUME AccountsIInv, Tick
    PROVE  AccountsIInv'
<1>1. AuthTypes /\ FailureTypes /\ ThrottleInv
  BY IInvSplit
<1>2. /\ now < MaxTime /\ now' = now + 1
      /\ UNCHANGED <<mail, user, known, sessions, tokens, request, failures, began>>
  BY DEF Tick, auth
<1>3. now \in Nat /\ now' \in 1 .. MaxTime /\ now' \in Nat /\ now <= now'
  BY <1>1, <1>2, AccountsAssumption DEF AuthTypes
<1>4. AuthTypes' /\ FailureTypes'
  BY <1>1, <1>2, <1>3 DEF AuthTypes, UserTypes, ResetState, FailureTypes
<1>5. ThrottleInv'
  <2>1. \A r \in Slots, b \in Accounts : IsGuess(request'[r], b) => IsGuess(request[r], b)
    BY <1>2
  <2>2. \A a \in Accounts : failures'[a] = failures[a]
    BY <1>2
  <2> QED BY <1>1, <1>3, <1>4, <2>1, <2>2, ThrottleFrame
<1>6. sessions' \ sessions = {} /\ \A r \in Slots : request'[r] = request[r]
  BY <1>2
<1> QED BY <1>2, <1>3, <1>4, <1>5, <1>6, UsersRest

\* The outbox's steps move no user, session or throttle; a send only adds to known.
LEMMA OutboxStepInv ==
    ASSUME AccountsIInv, CredentialInv', known' \in [Accounts -> SUBSET Nat],
           UNCHANGED <<user, sessions, tokens, request, failures, began, now>>
    PROVE  AccountsIInv'
<1>1. AuthTypes /\ FailureTypes /\ ThrottleInv /\ SessionsInv
  BY IInvSplit
<1>2. AuthTypes'
  BY <1>1 DEF AuthTypes, UserTypes, ResetState
<1>3. FailureTypes' /\ ThrottleInv'
  BY <1>1, ThrottleRests
<1>4. SessionsInv'
  BY <1>1 DEF SessionsInv, AccountIsPast, SessionIsPast, ChangesArePast
<1> QED BY <1>2, <1>3, <1>4, IInvJoin

LEMMA SendStep ==
    ASSUME AccountsIInv, NEW i \in Ids, SendCredentials(i)
    PROVE  AccountsIInv'
<1>1. CredentialInv /\ AuthTypes
  BY IInvSplit
<1>2. CredentialInv'
  BY <1>1, SendMail DEF AuthTypes
<1>3. known' \in [Accounts -> SUBSET Nat]
  <2>1. PICK D \in SUBSET Channels, row \in Credential : i \in batch.left
    BY <1>1, SendEffect DEF SendCredentials
  <2>2. batch.rows[i].secret \in Nat
    BY <1>1, <2>1 DEF CredentialInv, CredentialTypes, Deliverable, CopiesKeep, SecretsKept
  <2> QED BY <1>1, <2>2 DEF AuthTypes, UserTypes, SendCredentials
<1> QED BY <1>2, <1>3, OutboxStepInv DEF SendCredentials, clock

LEMMA CredentialsOutboxStep ==
    ASSUME AccountsIInv, CredentialsOutbox
    PROVE  AccountsIInv'
<1>1. CredentialInv /\ AuthTypes
  BY IInvSplit
<1>2. UNCHANGED <<user, known, sessions, tokens, request, failures, began, now>>
  BY DEF CredentialsOutbox, auth, clock
<1>3. CredentialInv'
  <2>1. CASE Poll
    BY <1>1, <1>2, <2>1, PollCredentials
  <2>2. CASE Commit
    BY <1>1, <1>2, <2>2, CommitCredentials
  <2>3. CASE Crash
    BY <1>1, <1>2, <2>3, CrashCredentials
  <2> QED BY <2>1, <2>2, <2>3 DEF CredentialsOutbox
<1>4. known' \in [Accounts -> SUBSET Nat]
  BY <1>1, <1>2 DEF AuthTypes, UserTypes
<1> QED BY <1>2, <1>3, <1>4, OutboxStepInv

-----------------------------------------------------------------------------
(* The results.                                                            *)

LEMMA AccountsInitial == AccountsInit => AccountsIInv
<1> SUFFICES ASSUME AccountsInit PROVE AccountsIInv
  OBVIOUS
<1>1. /\ box = <<>> /\ batch = NoBatch /\ sent = {}
      /\ user = [a \in Accounts |-> [pw |-> 0, active |-> TRUE, changed |-> 0]]
      /\ known = [a \in Accounts |-> {}] /\ sessions = {} /\ tokens = <<>>
      /\ request = [r \in Slots |-> NoRequest] /\ failures = [k \in Keys |-> <<>>]
      /\ began = [a \in Accounts |-> 0] /\ now = 1
  BY DEF AccountsInit, MailInit, Never
<1>2. 0 \in 0 .. MaxTime /\ 1 \in 1 .. MaxTime
  BY AccountsAssumption
<1>3. Ids = {} /\ batch.rows = <<>> /\ batch.left = {} /\ batch.on = FALSE /\ DOMAIN batch.rows = {}
  BY <1>1 DEF Ids, NoBatch
<1>4. CredentialTypes
  <2> DEFINE R == [DOMAIN batch.rows -> Credential]
  <2>1. batch.rows \in R
    BY <1>3
  <2> HIDE DEF R
  <2>2. batch \in [on : BOOLEAN, left : SUBSET Nat, rows : R]
    BY <1>1, <1>3, <2>1 DEF NoBatch
  <2>3. box \in Seq(Credential)
    BY <1>1
  <2> QED BY <1>1, <1>3, <2>2, <2>3 DEF CredentialTypes, R
<1>5. \A a \in Accounts : user[a].pw = 0 /\ user[a].changed = 0 /\ began[a] = 0 /\ user[a] \in UserRow
  BY <1>1, <1>2 DEF UserRow
<1>6. Deliverable
  <2>1. SentIsKnown /\ CopiesKeep /\ SecretsKept
    BY <1>1, <1>3 DEF SentIsKnown, CopiesKeep, SecretsKept
  <2>2. PasswordIsDeliverable
    BY <1>5 DEF PasswordIsDeliverable, Exists, Accounts
  <2> QED BY <2>1, <2>2 DEF Deliverable
<1>7. AuthTypes
  BY <1>1, <1>2, <1>5 DEF AuthTypes, UserTypes
<1>8. FailureTypes
  BY <1>1 DEF FailureTypes
<1>9. SessionsInv
  BY <1>1, <1>5 DEF SessionsInv, AccountIsPast, ChangesArePast
<1>10. ThrottleInv
  <2> SUFFICES ASSUME NEW a \in Accounts
               PROVE  Len(Pruned(failures[a])) + Cardinality(Guesses(a)) <= Budget
    BY DEF ThrottleInv
  <2>1. failures[a] = <<>>
    BY <1>1 DEF Keys
  <2>2. Guesses(a) = {} /\ Cardinality(Guesses(a)) = 0
    BY <1>1, FS_EmptySet DEF Guesses, IsGuess
  <2>3. Len(Pruned(<<>>)) = 0
    <3>1. <<>> \in Seq(Nat) /\ Len(<<>>) = 0
      OBVIOUS
    <3>2. Len(Pruned(<<>>)) = Len(<<>>) - Cardinality(Stale(<<>>)) /\ Len(Pruned(<<>>)) \in Nat
      BY <3>1, PrunedLen
    <3>3. Cardinality(Stale(<<>>)) \in 0 .. Len(<<>>)
      BY <3>1, StaleIsPrefix, StaleNow
    <3> QED BY <3>1, <3>2, <3>3
  <2> QED BY <2>1, <2>2, <2>3, GuessesSize, AccountsAssumption DEF Budget
<1> QED BY <1>4, <1>6, <1>7, <1>8, <1>9, <1>10, IInvSplit DEF CredentialInv

LEMMA AccountsStep == AccountsIInv /\ [AccountsNext]_accountsVars => AccountsIInv'
<1> SUFFICES ASSUME AccountsIInv, [AccountsNext]_accountsVars PROVE AccountsIInv'
  OBVIOUS
<1>1. ASSUME NEW a \in Accounts, AddStudent(a) PROVE AccountsIInv'
  <2>1. {a} \in SUBSET StudentAccounts /\ (\A b \in {a} : ~Exists(b)) /\ now' = now
    BY <1>1 DEF AddStudent, Request
  <2> QED BY <1>1, <2>1, RegisteredStep DEF AddStudent
<1>2. ASSUME NEW S \in SUBSET StudentAccounts, ImportStudents(S) PROVE AccountsIInv'
  <2> DEFINE T == {a \in S : ~Exists(a)}
  <2>1. T \in SUBSET StudentAccounts /\ (\A b \in T : ~Exists(b)) /\ now' = now /\ Registered(T)
    BY <1>2 DEF ImportStudents, Request
  <2> HIDE DEF T
  <2> QED BY <2>1, RegisteredStep
<1>3. ASSUME NEW r \in Slots, NEW a \in Accounts, NEW v \in known[a] \cup {0}, LoginBegin(r, a, v)
      PROVE  AccountsIInv'
  BY <1>3, LoginBeginStep
<1>4. CASE UNCHANGED accountsVars
  <2>1. UNCHANGED <<mail, user, known, sessions, tokens, request, failures, began, now>>
    BY <1>4 DEF accountsVars, auth, clock
  <2>2. AuthTypes /\ FailureTypes /\ ThrottleInv
    BY IInvSplit
  <2>3. AuthTypes'
    BY <2>1, <2>2 DEF AuthTypes, UserTypes, ResetState
  <2>4. FailureTypes' /\ ThrottleInv'
    BY <2>1, <2>2, ThrottleRests
  <2>5. sessions' \ sessions = {} /\ now <= now' /\ \A r \in Slots : request'[r] = request[r]
    BY <2>1, <2>2 DEF AuthTypes
  <2> QED BY <2>1, <2>3, <2>4, <2>5, UsersRest
<1>5. CASE \E a \in Accounts : \/ AddStudent(a) \/ CreateTeacher(a) \/ ProvisionTestStudent(a)
                               \/ EnterAsTestStudent(a) \/ ToggleUserActive(a) \/ ForgotPassword(a)
  BY <1>1, <1>5, CreateTeacherStep, ProvisionStep, EnterStep, ToggleStep, ForgotStep
<1>6. CASE \E S \in SUBSET StudentAccounts : ImportStudents(S) \/ ResendCredentials(S)
  BY <1>2, <1>6, ResendStep
<1>7. CASE \E i \in Ids : SendCredentials(i)
  BY <1>7, SendStep
<1>8. CASE \E r \in Slots :
        \/ \E a \in Accounts : \E v \in known[a] \cup {0} : LoginBegin(r, a, v)
        \/ LoginCheck(r) \/ LoginEnd(r) \/ ResetEnd(r) \/ ChangeEnd(r)
        \/ \E t \in DOMAIN tokens : ResetBegin(r, t)
        \/ \E s \in sessions : ChangeBegin(r, s)
  BY <1>3, <1>8, LoginCheckStep, LoginEndStep, ResetEndStep, ChangeEndStep, ResetBeginStep,
     ChangeBeginStep
<1>9. CASE (\E s \in sessions : Logout(s)) \/ Tick \/ CredentialsOutbox
  BY <1>9, LogoutStep, TickStep, CredentialsOutboxStep
<1> QED BY <1>4, <1>5, <1>6, <1>7, <1>8, <1>9 DEF AccountsNext

LEMMA AccountsInductive == AccountsSpec => []AccountsIInv
BY AccountsInitial, AccountsStep, PTL DEF AccountsSpec

\* Accounts, sessions, tokens, requests and messages keep their types.
THEOREM AccountsTyped == AccountsSpec => []AccountsTypeOK
<1>1. AccountsIInv => AccountsTypeOK
  BY DEF AccountsIInv
<1> QED BY <1>1, AccountsInductive, PTL

\* However resends, retries, crashes and resets overlap, the password in a student's row
\* is one its owner was mailed or chose, or waits in an unfinished message
\* (teacher_resend_credentials, redact_credentials after the send).
THEOREM PasswordsAreDeliverable == AccountsSpec => []PasswordIsDeliverable
<1>1. AccountsIInv => PasswordIsDeliverable
  BY DEF AccountsIInv, Deliverable
<1> QED BY <1>1, AccountsInductive, PTL

\* A session of the current password is accepted until it expires, also in the second
\* of the change, and one of an older password only if it is no older than the change
\* (issued_before_password_change).
THEOREM SessionsFollowPasswords == AccountsSpec => []SessionFollowsPassword
<1>1. AccountsIInv => SessionFollowsPassword
  <2> SUFFICES ASSUME AccountsIInv, NEW s \in sessions
               PROVE  /\ s.pw = user[s.of].pw /\ user[s.of].active /\ s.iat + SessionTTL > now
                            => IsAccepted(s)
                      /\ IsAccepted(s) /\ s.pw # user[s.of].pw => s.iat >= began[s.of]
    BY DEF SessionFollowsPassword
  <2>1. AuthTypes /\ SessionsInv
    BY IInvSplit
  <2>2. s.of \in Accounts /\ s.iat \in Nat
    BY <2>1 DEF AuthTypes
  <2>3. user[s.of].changed \in Nat /\ began[s.of] = user[s.of].changed /\ SessionIsPast(s)
    BY <2>1, <2>2, AccountFacts DEF SessionsInv, AccountIsPast
  <2> QED BY <2>2, <2>3 DEF IsAccepted, IssuedBefore, SessionIsPast, Never
<1> QED BY <1>1, AccountsInductive, PTL

\* Within a window the failures of an account exceed the budget by at most the other
\* requests in flight: a guess that passed the throttle is counted before it fails
\* (SlidingWindowLimiter.is_blocked and record_failure around the await).
THEOREM FailuresBounded == AccountsSpec => []FailuresAreBounded
<1>1. AccountsIInv => FailuresAreBounded
  <2> SUFFICES ASSUME AccountsIInv, NEW a \in Accounts
               PROVE  Len(Pruned(failures[a])) <= Max + Cardinality(Slots) - 1
    BY DEF FailuresAreBounded
  <2>1. FailureTypes /\ ThrottleInv
    BY IInvSplit
  <2> QED BY <2>1, BudgetFacts
<1> QED BY <1>1, AccountsInductive, PTL

=============================================================================
