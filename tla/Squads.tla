------------------------------- MODULE Squads -------------------------------
(***************************************************************************)
(* Squads of one subject: students invite, answer, are assigned and hand   *)
(* in work for everyone in their squad.                                    *)
(*                                                                         *)
(* A request reads (Begin) and then writes and commits (End); between the  *)
(* two other requests commit.  It decides on what it read, except where    *)
(* the code locks a row or queries again.                                  *)
(***************************************************************************)
EXTENDS Naturals, FiniteSets

CONSTANTS Classmates,  \* the REAL students who may enrol in the subject
          Teacher,     \* the creator of a squad assigned by a teacher
          Sizes,       \* values of squad_max_size, 0 for NULL (no squads)
          MaxSquads,   \* bound on the squads ever created
          MaxUploads,  \* bound on the submissions when an upload begins
          Slots,       \* as many requests overlap as there are slots
          MaxChanges   \* bound on changes of the size and of enrolments

ASSUME SquadAssumption ==
    /\ IsFiniteSet(Classmates) /\ Teacher \notin Classmates
    /\ Sizes \subseteq {0} \cup 2 .. 6
    /\ MaxSquads \in Nat /\ MaxUploads \in Nat /\ MaxChanges \in Nat

Ids == 1 .. MaxSquads

VARIABLES size,      \* subjects.squad_max_size
          enrolled,  \* subjects_students
          squad,     \* squads with squad_members; a squad without members has no row
          pending,   \* squad_invites: the students with a PENDING one, by squad
          subs,      \* submissions: by whom, and squad_id (0 for NULL)
          used,      \* squads created so far
          req,       \* the requests in flight
          rushed,    \* squads that a student created or joined while an upload of
                     \* theirs was between looking at its squad and looking again
          changes

squadsVars == <<size, enrolled, squad, pending, subs, used, req, rushed, changes>>

Squad == [members : SUBSET Classmates, creator : Classmates \cup {Teacher}, locked : BOOLEAN]

NoSquad == [members |-> {}, creator |-> Teacher, locked |-> FALSE]

\* An upload that has found no invite of the student, that has found their squad,
\* and that has found no invite of that squad either.
Checking == {"asked", "looked", "cleared"}

\* A request: who makes it, the squad it loaded (0 for none), the students it
\* names, and what it loaded of the squad: alone (one member at most), locked.
Request == [op : {"accept", "decline", "cancel", "create", "assign", "upload"} \cup Checking,
            by : Classmates \cup {Teacher}, on : Ids \cup {0},
            who : SUBSET Classmates, alone : BOOLEAN, locked : BOOLEAN]

Free == [op |-> "idle"]

SquadsTypeOK ==
    /\ size \in Sizes
    /\ enrolled \in SUBSET Classmates
    /\ squad \in [Ids -> Squad]
    /\ pending \in [Ids -> SUBSET Classmates]
    /\ subs \in SUBSET [by : Classmates, squad : Ids \cup {0}]
    /\ used \in 0 .. MaxSquads
    /\ req \in [Slots -> Request \cup {Free}]
    /\ rushed \in SUBSET Ids
    /\ changes \in 0 .. MaxChanges

SquadsInit ==
    /\ size \in Sizes
    /\ enrolled = Classmates
    /\ squad = [q \in Ids |-> NoSquad]
    /\ pending = [q \in Ids |-> {}]
    /\ subs = {}
    /\ used = 0
    /\ req = [r \in Slots |-> Free]
    /\ rushed = {}
    /\ changes = 0

-----------------------------------------------------------------------------
(* Lookups.                                                                *)

InSquad(s) == \E q \in Ids : s \in squad[q].members

HasSubmissions(s) == \E u \in subs : u.by = s

\* eligibility() finds no reason against s.
EligibleForSquad(s) == size # 0 /\ s \in enrolled /\ ~InSquad(s) /\ ~HasSubmissions(s)

\* has_pending_invites: as invitee, or from them.
HasInvites(s) ==
    \E q \in Ids : pending[q] # {} /\ s \in pending[q] \cup {squad[q].creator}

\* squad_of returns q, 0 for None.
SquadOf(s, q) == IF InSquad(s) THEN q # 0 /\ s \in squad[q].members ELSE q = 0

IsAlone(q) == Cardinality(squad[q].members) <= 1

-----------------------------------------------------------------------------
(* Cancelling and deleting.                                                *)

\* _cancel_pending_of for the students S: who is still invited to q.
Uninvited(S, q) == IF squad[q].creator \in S THEN {} ELSE pending[q] \ S

\* _delete_if_empty: whether a squad loaded so, with these still invited, is
\* deleted.
Lonely(alone, locked, invited) == alone /\ ~locked /\ invited = {}

\* The squads other than q that go when the invites of S are cancelled, judged on
\* the rows as they are: _cancel_pending_of loads them in the same transaction.
Emptied(S, q) ==
    {p \in Ids \ {q} : /\ Uninvited(S, p) # pending[p]
                       /\ Lonely(IsAlone(p), squad[p].locked, Uninvited(S, p))}

\* Deleting the squads D: the members go with them (ON DELETE CASCADE) and
\* submissions lose their squad_id (ON DELETE SET NULL).
WithoutSquads(D) == [q \in Ids |-> IF q \in D THEN NoSquad ELSE squad[q]]
WithoutRefs(D) ==
    {IF u.squad \in D THEN [u EXCEPT !.squad = 0] ELSE u : u \in subs}

-----------------------------------------------------------------------------
(* Requests begin: the checks on what they read.                           *)

Begin(r, request) ==
    /\ req[r] = Free
    /\ req' = [req EXCEPT ![r] = request]
    /\ UNCHANGED <<size, enrolled, squad, pending, subs, used, rushed, changes>>

\* create_with_invites up to its last eligibility check.
CreateBegin(r, s, ids) ==
    /\ size # 0
    /\ s \notin ids /\ ids # {} /\ Cardinality(ids) <= size - 1
    /\ \A t \in ids \cup {s} : EligibleForSquad(t)
    /\ Begin(r, [op |-> "create", by |-> s, on |-> 0, who |-> ids,
                 alone |-> FALSE, locked |-> FALSE])

\* teacher_assign up to its last eligibility check.
AssignBegin(r, ids) ==
    /\ size # 0
    /\ Cardinality(ids) >= 2 /\ Cardinality(ids) <= size
    /\ \A t \in ids : EligibleForSquad(t)
    /\ Begin(r, [op |-> "assign", by |-> Teacher, on |-> 0, who |-> ids,
                 alone |-> FALSE, locked |-> FALSE])

\* The route and _load_invite, for the invite of t to squad q: the invitee
\* answers it, the squad's creator takes it back.  An accept reads the squad again.
AnswerBegin(r, op, s, q, t) ==
    /\ s \in enrolled
    /\ t \in pending[q]
    /\ s = IF op = "cancel" THEN squad[q].creator ELSE t
    /\ Begin(r, [op |-> op, by |-> s, on |-> q, who |-> {t},
                 alone |-> op # "accept" /\ IsAlone(q),
                 locked |-> op # "accept" /\ squad[q].locked])

\* submit_assignment asks for invites of the student.  Without squads in the config
\* it asks nothing and looks nothing up.
UploadBegin(r, s) ==
    /\ Cardinality(subs) < MaxUploads
    /\ size # 0 => ~HasInvites(s)
    /\ Begin(r, [op |-> IF size = 0 THEN "upload" ELSE "asked", by |-> s, on |-> 0,
                 who |-> {}, alone |-> FALSE, locked |-> FALSE])

Proceed(r, op, q) ==
    /\ req' = [req EXCEPT ![r].op = op, ![r].on = q]
    /\ UNCHANGED <<size, enrolled, squad, pending, subs, used, rushed, changes>>

\* squad_has_pending_invites: the student's squad, then its invites.
UploadLook(r, q) ==
    /\ req[r].op = "asked"
    /\ SquadOf(req[r].by, q)
    /\ Proceed(r, IF q = 0 THEN "cleared" ELSE "looked", q)

UploadCount(r) ==
    /\ req[r].op = "looked"
    /\ pending[req[r].on] = {}
    /\ Proceed(r, "cleared", 0)

\* squad_of again: the squad the submission will be for.
UploadFind(r, q) ==
    /\ req[r].op = "cleared"
    /\ SquadOf(req[r].by, q)
    /\ Proceed(r, "upload", q)

-----------------------------------------------------------------------------
(* Requests end: they write and commit, or fail and leave no trace.        *)

Done(r) == req' = [req EXCEPT ![r] = Free]

\* What s entering squad q does to rushed.
Rushing(s, q) ==
    IF \E r \in Slots : req[r].op \in {"looked", "cleared"} /\ req[r].by = s
    THEN rushed \cup {q} ELSE rushed

\* The insert of the squad, its creator and the invites.  The unique index on
\* (subject, student) refuses a creator who has a squad by now; the invitees are
\* not looked at again.
CreateEnd(r) ==
    LET s == req[r].by
        q == used + 1
    IN  /\ req[r].op = "create"
        /\ q \in Ids
        /\ ~InSquad(s)
        /\ squad' = [squad EXCEPT ![q] =
                        [members |-> {s}, creator |-> s, locked |-> FALSE]]
        /\ pending' = [pending EXCEPT ![q] = req[r].who]
        /\ used' = q
        /\ rushed' = Rushing(s, q)
        /\ Done(r)
        /\ UNCHANGED <<size, enrolled, subs, changes>>

\* The insert of a locked squad; the members' pending invites are cancelled.
AssignEnd(r) ==
    LET q == used + 1
        ids == req[r].who
        D == Emptied(ids, q)
    IN  /\ req[r].op = "assign"
        /\ q \in Ids
        /\ \A t \in ids : ~InSquad(t)
        /\ squad' = [WithoutSquads(D) EXCEPT ![q] =
                        [members |-> ids, creator |-> Teacher, locked |-> TRUE]]
        /\ pending' = [p \in Ids |-> Uninvited(ids, p)]
        /\ subs' = WithoutRefs(D)
        /\ used' = q
        /\ Done(r)
        /\ UNCHANGED <<size, enrolled, rushed, changes>>

\* An upload finds an invite to its squad, or the database refuses: a second squad
\* for a student (the unique index), or a squad that is gone (the refresh, the
\* update of the invite, the foreign key).
Fail(r) ==
    /\ \/ req[r].op = "looked" /\ pending[req[r].on] # {}
       \/ req[r].op = "create" /\ InSquad(req[r].by)
       \/ req[r].op = "assign" /\ \E t \in req[r].who : InSquad(t)
       \/ /\ req[r].op \in {"accept", "decline", "cancel", "upload"}
          /\ req[r].on # 0
          /\ squad[req[r].on].members = {}
    /\ Done(r)
    /\ UNCHANGED <<size, enrolled, squad, pending, subs, used, rushed, changes>>

\* Mutant of Joinable: the squad is not looked at again with its row locked.
JoinableAlways(q, s) == EligibleForSquad(s)

\* accept_invite's decision, with the squad's row locked and read again.
Joinable(q, s) ==
    EligibleForSquad(s) /\ ~squad[q].locked /\ Cardinality(squad[q].members) < size

\* An accept that is refused cancels the invite, and that is all it does.
RefuseEnd(r) ==
    LET q == req[r].on
        s == req[r].by
    IN  /\ req[r].op = "accept"
        /\ squad[q].members # {}
        /\ ~Joinable(q, s)
        /\ pending' = [pending EXCEPT ![q] = @ \ {s}]
        /\ Done(r)
        /\ UNCHANGED <<size, enrolled, squad, subs, used, rushed, changes>>

\* Mutant of Answered: the accept that fills the squad leaves the other invites.
AnsweredOnly(invited, s, full) == invited \ {s}

\* Who is still invited to a squad that s joined: nobody once it is full.
Answered(invited, s, full) == IF full THEN {} ELSE invited \ {s}

\* The rest of accept_invite: join, cancel the student's other invites, lock the
\* squad when it is full.
AcceptEnd(r) ==
    LET q == req[r].on
        s == req[r].by
        joined == squad[q].members \cup {s}
        full == Cardinality(joined) >= size
        D == Emptied({s}, q)
    IN  /\ req[r].op = "accept"
        /\ squad[q].members # {}
        /\ Joinable(q, s)
        /\ squad' = [WithoutSquads(D) EXCEPT ![q] =
                        [members |-> joined, creator |-> squad[q].creator, locked |-> full]]
        /\ pending' = [p \in Ids |-> IF p = q THEN Answered(pending[q], s, full)
                                              ELSE Uninvited({s}, p)]
        /\ subs' = WithoutRefs(D)
        /\ rushed' = Rushing(s, q)
        /\ Done(r)
        /\ UNCHANGED <<size, enrolled, used, changes>>

\* decline_invite and cancel_invite: the invite is closed whatever became of it,
\* and the squad deleted when the copy loaded at the beginning was empty.
DropEnd(r) ==
    LET q == req[r].on
        invited == pending[q] \ req[r].who
        D == IF Lonely(req[r].alone, req[r].locked, invited) THEN {q} ELSE {}
    IN  /\ req[r].op \in {"decline", "cancel"}
        /\ squad[q].members # {}
        /\ squad' = WithoutSquads(D)
        /\ pending' = [pending EXCEPT ![q] = invited]
        /\ subs' = WithoutRefs(D)
        /\ Done(r)
        /\ UNCHANGED <<size, enrolled, used, rushed, changes>>

\* Mutant of LockOnSubmit: the squad stays open.
LockOnSubmitNever(q) == squad

\* lock_on_submit.
LockOnSubmit(q) == IF q = 0 THEN squad ELSE [squad EXCEPT ![q].locked = TRUE]

\* The rest of submit_assignment: the submission is inserted for the squad that
\* was looked up, and the squad locked.
UploadEnd(r) ==
    LET q == req[r].on
    IN  /\ req[r].op = "upload"
        /\ q # 0 => squad[q].members # {}
        /\ subs' = subs \cup {[by |-> req[r].by, squad |-> q]}
        /\ squad' = LockOnSubmit(q)
        /\ Done(r)
        /\ UNCHANGED <<size, enrolled, pending, used, rushed, changes>>

-----------------------------------------------------------------------------
(* The teacher's side.                                                     *)

\* A config upload changes squad_max_size; the squads are left alone.
ApplySize(n) ==
    /\ changes < MaxChanges
    /\ n # size
    /\ size' = n
    /\ changes' = changes + 1
    /\ UNCHANGED <<enrolled, squad, pending, subs, used, req, rushed>>

\* enroll_student or unenroll_student; the squads are left alone.
ChangeEnrolment(s) ==
    /\ changes < MaxChanges
    /\ enrolled' = IF s \in enrolled THEN enrolled \ {s} ELSE enrolled \cup {s}
    /\ changes' = changes + 1
    /\ UNCHANGED <<size, squad, pending, subs, used, req, rushed>>

Start(r) ==
    \/ \E s \in Classmates, ids \in SUBSET Classmates : CreateBegin(r, s, ids)
    \/ \E ids \in SUBSET Classmates : AssignBegin(r, ids)
    \/ \E op \in {"accept", "decline", "cancel"}, s, t \in Classmates, q \in Ids :
          AnswerBegin(r, op, s, q, t)
    \/ \E s \in Classmates : UploadBegin(r, s)

Continue(r) ==
    \/ \E q \in Ids \cup {0} : UploadLook(r, q) \/ UploadFind(r, q)
    \/ UploadCount(r)

Finish(r) ==
    \/ CreateEnd(r) \/ AssignEnd(r) \/ Fail(r)
    \/ RefuseEnd(r) \/ AcceptEnd(r) \/ DropEnd(r) \/ UploadEnd(r)

SquadsNext ==
    \/ \E r \in Slots : Start(r) \/ Continue(r) \/ Finish(r)
    \/ \E n \in Sizes : ApplySize(n)
    \/ \E s \in Classmates : ChangeEnrolment(s)

SquadsSpec == SquadsInit /\ [][SquadsNext]_squadsVars

-----------------------------------------------------------------------------
(* Properties.                                                             *)

\* A locked squad has no pending invite, so no answer can change whom its
\* submission covers (accept_invite cancels the rest when the squad is full,
\* submit_assignment refuses while an invite is open), however requests overlap:
\* unless someone entered the squad in the middle of an upload of their own.
LockedIsSettled == \A q \in Ids \ rushed : squad[q].locked => pending[q] = {}

\* The same without the exception: an upload looks its squad up again after it has
\* looked for invites (submit_assignment).
LockedIsAlwaysSettled == \A q \in Ids : squad[q].locked => pending[q] = {}

\* A submission handed in for a squad points at a squad that still has its row
\* and is locked, whatever overlapped the upload.
SharedIsLocked ==
    \A u \in subs : u.squad # 0 => squad[u.squad].locked /\ squad[u.squad].members # {}

\* "two concurrent accepts on the same squad must not both observe 'not yet full'"
\* (accept_invite): nobody joins a locked squad, or one beyond squad_max_size.
JoinsWithinSize ==
    [][\A q \in Ids :
          squad[q].members # {} /\ squad'[q].members \ squad[q].members # {} =>
              ~squad[q].locked /\ Cardinality(squad'[q].members) <= size]_squadsVars

\* "The spec forbids lingering solo squads" (_delete_if_empty): a squad of one
\* waits for an answer or has handed in.
NoLingeringSolo ==
    \A q \in Ids : squad[q].members # {} /\ IsAlone(q) =>
        pending[q] # {} \/ squad[q].locked

\* "Members are immutable once locked_at is set" (db/models/squad.py).
LockedIsImmutable ==
    [][\A q \in Ids : squad[q].locked => squad'[q].members = squad[q].members]_squadsVars
=============================================================================
