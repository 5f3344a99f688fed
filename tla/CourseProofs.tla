---------------------------- MODULE CourseProofs ----------------------------
(***************************************************************************)
(* The squads of a subject and its link to Google Classroom.  For any      *)
(* students, sizes, number of squads and of overlapping requests: a locked *)
(* squad is settled unless someone entered it in the middle of an upload,  *)
(* a shared submission has its locked squad, and nobody joins beyond the   *)
(* size.  For any roster, contents, caps and number of overlapping syncs:  *)
(* the version turned in last is never superseded, drafts are final, what  *)
(* is approved was seen, and a night exceeds its budget only by the        *)
(* gradings that stopped counting.                                         *)
(***************************************************************************)
EXTENDS Squads, ClassroomSync, FiniteSetTheorems, TLAPS

-----------------------------------------------------------------------------
(* Squads.                                                                 *)

Answers == {"accept", "decline", "cancel"}

\* An upload of s between looking at its squad and looking it up again.
Mid(request, s) == request.op \in {"looked", "cleared"} /\ request.by = s

\* A request in flight names a squad that was created: one it loaded with an
\* invite, or the squad of an upload, which has no pending invite unless it is
\* rushed.  So has any squad the student of an upload that looked is in, other than
\* the one whose invites it is about to count.
Sane(request) ==
    /\ request.op \in Answers => request.on \in 1 .. used
    /\ request.op \in Answers \cup {"create", "upload"} \cup Checking =>
           request.by \in Classmates
    /\ request.op = "cleared" => request.on = 0
    /\ request.op = "upload" /\ request.on # 0 =>
           /\ request.on \in 1 .. used
           /\ request.on \in rushed \/ pending[request.on] = {}
    /\ request.op \in {"looked", "cleared"} =>
           \A q \in Ids \ rushed : request.by \in squad[q].members =>
               q = request.on \/ pending[q] = {}

\* Squads that were not created yet have neither row nor invites.
Fresh == \A q \in Ids : q > used => squad[q] = NoSquad /\ pending[q] = {}

\* The unique index on (subject, student).
OneSquad ==
    \A p, q \in Ids : \A s \in Classmates :
        s \in squad[p].members /\ s \in squad[q].members => p = q

\* The inductive invariant.
SquadsInv ==
    /\ SquadsTypeOK
    /\ Fresh
    /\ OneSquad
    /\ \A r \in Slots : Sane(req[r])
    /\ LockedIsSettled
    /\ SharedIsLocked

\* What JoinsWithinSize asks of a step.
JoinOK ==
    \A q \in Ids :
        squad[q].members # {} /\ squad'[q].members \ squad[q].members # {} =>
            ~squad[q].locked /\ Cardinality(squad'[q].members) <= size

-----------------------------------------------------------------------------
(* Helpers.                                                                *)

LEMMA IdsAreNat == Ids \subseteq Nat \ {0} /\ (\A q \in Ids : q <= MaxSquads) /\ 0 \notin Ids
BY SquadAssumption DEF Ids

LEMMA NoSquadType == NoSquad \in Squad /\ NoSquad.members = {} /\ NoSquad.locked = FALSE
BY DEF NoSquad, Squad

\* Cancelling takes invites away and adds none.
LEMMA UninvitedLess ==
    ASSUME NEW S, NEW q
    PROVE  Uninvited(S, q) \subseteq pending[q]
BY DEF Uninvited

\* What a deletion leaves of a squad, its invites being gone already.
LEMMA Deleted ==
    ASSUME SquadsTypeOK, NEW D \in SUBSET Ids
    PROVE  /\ WithoutSquads(D) \in [Ids -> Squad]
           /\ \A q \in Ids : WithoutSquads(D)[q] = IF q \in D THEN NoSquad ELSE squad[q]
           /\ WithoutRefs(D) \in SUBSET [by : Classmates, squad : Ids \cup {0}]
           /\ \A u \in WithoutRefs(D) :
                 u.squad # 0 => u \in subs /\ u.squad \in Ids \ D
<1>1. /\ WithoutSquads(D) \in [Ids -> Squad]
      /\ \A q \in Ids : WithoutSquads(D)[q] = IF q \in D THEN NoSquad ELSE squad[q]
  BY NoSquadType DEF WithoutSquads, SquadsTypeOK
<1>2. ASSUME NEW v \in WithoutRefs(D)
      PROVE  /\ v \in [by : Classmates, squad : Ids \cup {0}]
             /\ v.squad # 0 => v \in subs /\ v.squad \in Ids \ D
  <2>1. PICK u \in subs : v = IF u.squad \in D THEN [u EXCEPT !.squad = 0] ELSE u
    BY DEF WithoutRefs
  <2>2. u \in [by : Classmates, squad : Ids \cup {0}]
    BY DEF SquadsTypeOK
  <2> QED BY <2>1, <2>2
<1> QED BY <1>1, <1>2

\* A request that ends leaves the other requests.
LEMMA DoneTypes ==
    ASSUME SquadsTypeOK, NEW r \in Slots, Done(r)
    PROVE  /\ req' \in [Slots -> Request \cup {Free}]
           /\ \A x \in Slots : req'[x] = req[x] \/ req'[x] = Free
BY DEF SquadsTypeOK, Done

\* A squad that has a row or an invite was created.
LEMMA WasCreated ==
    ASSUME SquadsInv, NEW q \in Ids, squad[q].members # {} \/ pending[q] # {}
    PROVE  q \in 1 .. used
BY IdsAreNat, NoSquadType, SquadAssumption DEF SquadsInv, SquadsTypeOK, Fresh

\* Requests stay sane while squads are only added, no invite is added to a squad
\* that was there, and whoever enters a squad in the middle of an upload rushes it.
LEMMA SaneStays ==
    ASSUME SquadsInv, used \in Nat, used' \in Nat, used <= used',
           \A q \in 1 .. used : pending'[q] \subseteq pending[q],
           rushed \subseteq rushed',
           \A q \in Ids : \A s \in squad'[q].members \ squad[q].members :
                pending'[q] = {} \/ \A y \in Slots : Mid(req[y], s) => q \in rushed',
           \A x \in Slots : req'[x] = req[x] \/ req'[x] = Free
    PROVE  \A x \in Slots : Sane(req[x])' 
<1> SUFFICES ASSUME NEW x \in Slots PROVE Sane(req[x])'
  OBVIOUS
<1>1. CASE req'[x] = Free
  <2>1. req'[x].op = "idle"
    BY <1>1 DEF Free
  <2> QED BY <2>1 DEF Sane, Answers, Checking
<1>2. CASE req'[x] = req[x]
  <2>1. Sane(req[x])
    BY DEF SquadsInv
  <2>2. 1 .. used \subseteq 1 .. used'
    OBVIOUS
  <2>3. req[x].op \in {"looked", "cleared"} =>
           \A q \in Ids \ rushed' : req[x].by \in squad'[q].members =>
               q = req[x].on \/ pending'[q] = {}
    <3> SUFFICES ASSUME NEW q \in Ids, q \notin rushed', req[x].op \in {"looked", "cleared"},
                        req[x].by \in squad'[q].members, q # req[x].on
                 PROVE  pending'[q] = {}
      OBVIOUS
    <3>1. CASE req[x].by \in squad[q].members
      <4>1. pending[q] = {}
        BY <2>1, <3>1 DEF Sane
      <4>2. q \in 1 .. used
        BY <3>1, WasCreated
      <4> QED BY <4>1, <4>2
    <3>2. CASE req[x].by \notin squad[q].members
      <4>1. Mid(req[x], req[x].by)
        BY DEF Mid
      <4> QED BY <3>2, <4>1
    <3> QED BY <3>1, <3>2
  <2>4. req[x].op = "upload" /\ req[x].on # 0 =>
           req[x].on \in 1 .. used' /\ (req[x].on \in rushed' \/ pending'[req[x].on] = {})
    <3> SUFFICES ASSUME req[x].op = "upload", req[x].on # 0
                 PROVE  /\ req[x].on \in 1 .. used'
                        /\ req[x].on \in rushed' \/ pending'[req[x].on] = {}
      OBVIOUS
    <3>1. req[x].on \in 1 .. used /\ (req[x].on \in rushed \/ pending[req[x].on] = {})
      BY <2>1 DEF Sane
    <3> QED BY <2>2, <3>1
  <2> QED BY <1>2, <2>1, <2>2, <2>3, <2>4 DEF Sane
<1> QED BY <1>1, <1>2

\* Which request type a request in flight has.
LEMMA InFlight ==
    ASSUME SquadsTypeOK, NEW r \in Slots, req[r].op # "idle"
    PROVE  req[r] \in Request
BY DEF SquadsTypeOK, Free

-----------------------------------------------------------------------------
(* A step that deletes the squads D, gives squad q the row z and takes      *)
(* invites away.                                                           *)

LEMMA RowStep ==
    ASSUME SquadsInv, NEW r \in Slots, Done(r),
           NEW D \in SUBSET Ids, NEW q \in Ids, NEW z \in Squad,
           used' \in 0 .. MaxSquads, used <= used', q <= used',
           squad' = [WithoutSquads(D) EXCEPT ![q] = z],
           pending' \in [Ids -> SUBSET Classmates],
           \A p \in Ids : pending'[p] \subseteq pending[p],
           rushed' \subseteq Ids, rushed \subseteq rushed',
           z.locked /\ q \notin rushed' => pending'[q] = {},
           \A s \in z.members \ squad[q].members :
                /\ ~InSquad(s)
                /\ pending'[q] = {} \/ \A y \in Slots : Mid(req[y], s) => q \in rushed',
           q \in D \/ (squad[q].locked => z.locked /\ z.members # {}),
           squad[q].members # {} /\ z.members \ squad[q].members # {} =>
               ~squad[q].locked /\ Cardinality(z.members) <= size,
           subs' = WithoutRefs(D),
           UNCHANGED <<size, enrolled, changes>>
    PROVE  SquadsInv' /\ JoinOK
<1>1. used \in Nat /\ used' \in Nat /\ used <= MaxSquads
  BY SquadAssumption DEF SquadsInv, SquadsTypeOK
<1>2. /\ squad' \in [Ids -> Squad] /\ squad'[q] = z
      /\ \A p \in Ids \ {q} : squad'[p] = IF p \in D THEN NoSquad ELSE squad[p]
  BY Deleted DEF SquadsInv
<1>3. SquadsTypeOK'
  BY <1>1, <1>2, Deleted, DoneTypes DEF SquadsInv, SquadsTypeOK
<1>4. Fresh'
  BY <1>1, <1>2, IdsAreNat DEF SquadsInv, Fresh
<1>5. \A x \in Slots : Sane(req[x])'
  <2>1. 1 .. used \subseteq Ids
    BY <1>1, SquadAssumption DEF Ids
  <2>2. \A p \in Ids : \A s \in squad'[p].members \ squad[p].members :
            pending'[p] = {} \/ \A y \in Slots : Mid(req[y], s) => p \in rushed'
    <3> SUFFICES ASSUME NEW p \in Ids, NEW s \in squad'[p].members \ squad[p].members
                 PROVE  pending'[p] = {} \/ \A y \in Slots : Mid(req[y], s) => p \in rushed'
      OBVIOUS
    <3>1. p = q
      BY <1>2, NoSquadType
    <3> QED BY <1>2, <3>1
  <2> QED BY <1>1, <2>1, <2>2, SaneStays, DoneTypes DEF SquadsInv
<1>9. OneSquad'
  <2> SUFFICES ASSUME NEW a \in Ids, NEW b \in Ids, NEW s \in Classmates,
                      s \in squad'[a].members, s \in squad'[b].members
               PROVE  a = b
    BY DEF OneSquad
  <2>1. \A p \in Ids \ {q} : s \in squad'[p].members => s \in squad[p].members
    BY <1>2, NoSquadType
  <2>2. CASE s \in squad[q].members \/ s \notin z.members
    BY <1>2, <2>1, <2>2 DEF SquadsInv, OneSquad
  <2>3. CASE s \in z.members \ squad[q].members
    BY <2>1, <2>3 DEF InSquad
  <2> QED BY <2>2, <2>3
<1>6. LockedIsSettled'
  <2> SUFFICES ASSUME NEW p \in Ids, p \notin rushed', squad'[p].locked PROVE pending'[p] = {}
    BY DEF LockedIsSettled
  <2>1. CASE p = q
    BY <1>2, <2>1
  <2>2. CASE p # q
    BY <1>2, <2>2, NoSquadType DEF SquadsInv, LockedIsSettled
  <2> QED BY <2>1, <2>2
<1>7. SharedIsLocked'
  <2> SUFFICES ASSUME NEW u \in subs', u.squad # 0
               PROVE  squad'[u.squad].locked /\ squad'[u.squad].members # {}
    BY DEF SharedIsLocked
  <2>1. u \in subs /\ u.squad \in Ids \ D
    BY Deleted DEF SquadsInv
  <2>2. squad[u.squad].locked /\ squad[u.squad].members # {}
    BY <2>1 DEF SquadsInv, SharedIsLocked
  <2>3. CASE u.squad = q
    BY <1>2, <2>1, <2>2, <2>3
  <2>4. CASE u.squad # q
    BY <1>2, <2>1, <2>2, <2>4
  <2> QED BY <2>3, <2>4
<1>8. JoinOK
  BY <1>2, NoSquadType DEF JoinOK
<1> QED BY <1>3, <1>4, <1>5, <1>6, <1>7, <1>8, <1>9 DEF SquadsInv

\* Deleting nothing changes nothing.
LEMMA NothingDeleted ==
    ASSUME SquadsTypeOK, NEW q \in Ids
    PROVE  /\ squad = [WithoutSquads({}) EXCEPT ![q] = squad[q]]
           /\ subs = WithoutRefs({})
<1>1. squad = [WithoutSquads({}) EXCEPT ![q] = squad[q]]
  BY DEF SquadsTypeOK, WithoutSquads
<1>2. subs = WithoutRefs({})
  BY DEF WithoutRefs
<1> QED BY <1>1, <1>2

-----------------------------------------------------------------------------
(* Requests begin.                                                         *)

LEMMA RequestStep ==
    ASSUME SquadsInv, NEW r \in Slots, NEW request \in Request, Sane(request),
           req' = [req EXCEPT ![r] = request],
           UNCHANGED <<size, enrolled, squad, pending, subs, used, rushed, changes>>
    PROVE  SquadsInv' /\ JoinOK
<1>1. /\ req' \in [Slots -> Request \cup {Free}]
      /\ \A x \in Slots : req'[x] = req[x] \/ req'[x] = request
  BY DEF SquadsInv, SquadsTypeOK
<1>2. \A x \in Slots : Sane(req[x])'
  <2> SUFFICES ASSUME NEW x \in Slots PROVE Sane(req[x])'
    OBVIOUS
  <2>1. CASE req'[x] = req[x]
    BY <1>1, <2>1 DEF SquadsInv, Sane
  <2>2. CASE req'[x] = request
    BY <1>1, <2>2 DEF Sane
  <2> QED BY <1>1, <2>1, <2>2
<1>3. SquadsTypeOK' /\ Fresh' /\ OneSquad' /\ LockedIsSettled' /\ SharedIsLocked'
  BY <1>1 DEF SquadsInv, SquadsTypeOK, Fresh, OneSquad, LockedIsSettled, SharedIsLocked
<1>4. JoinOK
  BY DEF JoinOK
<1> QED BY <1>2, <1>3, <1>4 DEF SquadsInv

LEMMA BeginStep ==
    ASSUME SquadsInv, NEW r \in Slots, NEW request \in Request, Sane(request),
           Begin(r, request)
    PROVE  SquadsInv' /\ JoinOK
BY RequestStep DEF Begin

LEMMA StartStep ==
    ASSUME SquadsInv, NEW r \in Slots, Start(r)
    PROVE  SquadsInv' /\ JoinOK
<1>1. CASE \E s \in Classmates, ids \in SUBSET Classmates : CreateBegin(r, s, ids)
  <2>1. PICK s \in Classmates, ids \in SUBSET Classmates : CreateBegin(r, s, ids)
    BY <1>1
  <2> DEFINE q == [op |-> "create", by |-> s, on |-> 0, who |-> ids,
                   alone |-> FALSE, locked |-> FALSE]
  <2>2. q \in Request /\ Sane(q)
    BY DEF Request, Sane, Answers, Checking
  <2>3. Begin(r, q)
    BY <2>1 DEF CreateBegin
  <2> HIDE DEF q
  <2> QED BY <2>2, <2>3, BeginStep
<1>2. CASE \E ids \in SUBSET Classmates : AssignBegin(r, ids)
  <2>1. PICK ids \in SUBSET Classmates : AssignBegin(r, ids)
    BY <1>2
  <2> DEFINE q == [op |-> "assign", by |-> Teacher, on |-> 0, who |-> ids,
                   alone |-> FALSE, locked |-> FALSE]
  <2>2. q \in Request /\ Sane(q)
    BY DEF Request, Sane, Answers, Checking
  <2>3. Begin(r, q)
    BY <2>1 DEF AssignBegin
  <2> HIDE DEF q
  <2> QED BY <2>2, <2>3, BeginStep
<1>3. CASE \E op \in {"accept", "decline", "cancel"}, s, t \in Classmates, q \in Ids :
               AnswerBegin(r, op, s, q, t)
  <2>1. PICK op \in {"accept", "decline", "cancel"}, s \in Classmates, t \in Classmates,
             q \in Ids : AnswerBegin(r, op, s, q, t)
    BY <1>3
  <2> DEFINE a == [op |-> op, by |-> s, on |-> q, who |-> {t},
                   alone |-> op # "accept" /\ IsAlone(q),
                   locked |-> op # "accept" /\ squad[q].locked]
  <2>2. q \in 1 .. used
    BY <2>1, WasCreated DEF AnswerBegin
  <2>3. squad[q].locked \in BOOLEAN /\ IsAlone(q) \in BOOLEAN
    BY DEF SquadsInv, SquadsTypeOK, Squad, IsAlone
  <2>4. a \in Request
    BY <2>3 DEF Request
  <2>5. Sane(a)
    BY <2>2 DEF Sane, Answers, Checking
  <2>6. Begin(r, a)
    BY <2>1 DEF AnswerBegin
  <2> HIDE DEF a
  <2> QED BY <2>4, <2>5, <2>6, BeginStep
<1>4. CASE \E s \in Classmates : UploadBegin(r, s)
  <2>1. PICK s \in Classmates : UploadBegin(r, s)
    BY <1>4
  <2> DEFINE a == [op |-> IF size = 0 THEN "upload" ELSE "asked", by |-> s, on |-> 0,
                   who |-> {}, alone |-> FALSE, locked |-> FALSE]
  <2>2. a \in Request
    BY DEF Request, Checking
  <2>3. Sane(a)
    BY DEF Sane, Answers, Checking
  <2>4. Begin(r, a)
    BY <2>1 DEF UploadBegin
  <2> HIDE DEF a
  <2> QED BY <2>2, <2>3, <2>4, BeginStep
<1> QED BY <1>1, <1>2, <1>3, <1>4 DEF Start

\* The next query of an upload, for the squad q it found.
LEMMA ProceedStep ==
    ASSUME SquadsInv, NEW r \in Slots, req[r].op \in Checking,
           NEW op \in {"looked", "cleared", "upload"}, NEW q \in Ids \cup {0},
           Proceed(r, op, q),
           op = "cleared" => q = 0,
           op = "upload" /\ q # 0 => q \in 1 .. used /\ (q \in rushed \/ pending[q] = {}),
           op # "upload" => \A p \in Ids \ rushed : req[r].by \in squad[p].members =>
                                p = q \/ pending[p] = {}
    PROVE  SquadsInv' /\ JoinOK
<1> DEFINE a == [req[r] EXCEPT !.op = op, !.on = q]
<1>1. req[r] \in Request /\ req[r].by \in Classmates
  BY InFlight DEF SquadsInv, Sane, Checking
<1>2. a \in Request
  BY <1>1 DEF Request, Checking
<1>3. a.op = op /\ a.on = q /\ a.by = req[r].by
  BY <1>1 DEF Request
<1>4. /\ req' = [req EXCEPT ![r] = a]
      /\ UNCHANGED <<size, enrolled, squad, pending, subs, used, rushed, changes>>
  BY DEF Proceed
<1> HIDE DEF a
<1>5. Sane(a)
  BY <1>1, <1>3 DEF Sane, Answers, Checking
<1> QED BY <1>2, <1>4, <1>5, RequestStep

LEMMA ContinueStep ==
    ASSUME SquadsInv, NEW r \in Slots, Continue(r)
    PROVE  SquadsInv' /\ JoinOK
<1>1. ASSUME NEW q \in Ids \cup {0}, UploadLook(r, q)
      PROVE  SquadsInv' /\ JoinOK
  <2> DEFINE s == req[r].by
             op == IF q = 0 THEN "cleared" ELSE "looked"
  <2>1. req[r].op \in Checking /\ SquadOf(s, q) /\ Proceed(r, op, q)
    BY <1>1 DEF UploadLook, Checking
  <2>2. s \in Classmates
    BY <2>1, InFlight DEF SquadsInv, Sane, Checking
  <2>3. \A p \in Ids : s \in squad[p].members => p = q
    <3>1. CASE InSquad(s)
      BY <2>1, <2>2, <3>1 DEF SquadOf, SquadsInv, OneSquad
    <3>2. CASE ~InSquad(s)
      BY <3>2 DEF InSquad
    <3> QED BY <3>1, <3>2
  <2>4. op \in {"looked", "cleared", "upload"} /\ op # "upload" /\ (op = "cleared" => q = 0)
    OBVIOUS
  <2> HIDE DEF op
  <2> QED BY <2>1, <2>3, <2>4, ProceedStep
<1>2. ASSUME UploadCount(r)
      PROVE  SquadsInv' /\ JoinOK
  <2>1. /\ req[r].op = "looked" /\ req[r].op \in Checking /\ pending[req[r].on] = {}
        /\ Proceed(r, "cleared", 0)
    BY <1>2 DEF UploadCount, Checking
  <2>2. \A p \in Ids \ rushed : req[r].by \in squad[p].members => pending[p] = {}
    BY <2>1 DEF SquadsInv, Sane
  <2> QED BY <2>1, <2>2, ProceedStep
<1>3. ASSUME NEW q \in Ids \cup {0}, UploadFind(r, q)
      PROVE  SquadsInv' /\ JoinOK
  <2>1. /\ req[r].op = "cleared" /\ req[r].op \in Checking /\ SquadOf(req[r].by, q)
        /\ Proceed(r, "upload", q)
    BY <1>3 DEF UploadFind, Checking
  <2>2. ASSUME q # 0 PROVE q \in 1 .. used /\ (q \in rushed \/ pending[q] = {})
    <3>1. q \in Ids /\ req[r].by \in squad[q].members
      BY <2>1, <2>2 DEF SquadOf
    <3>2. q \in 1 .. used
      BY <3>1, WasCreated
    <3>3. q \notin rushed => pending[q] = {}
      BY <2>1, <2>2, <3>1 DEF SquadsInv, Sane
    <3> QED BY <3>2, <3>3
  <2> QED BY <2>1, <2>2, ProceedStep
<1> QED BY <1>1, <1>2, <1>3 DEF Continue

-----------------------------------------------------------------------------
(* Requests end.                                                           *)

LEMMA CreateStep ==
    ASSUME SquadsInv, NEW r \in Slots, CreateEnd(r)
    PROVE  SquadsInv' /\ JoinOK
<1> DEFINE q == used + 1
           s == req[r].by
           z == [members |-> {s}, creator |-> s, locked |-> FALSE]
<1>1. q \in Ids /\ used \in Nat /\ q \in 1 .. MaxSquads
  BY SquadAssumption DEF CreateEnd, SquadsInv, SquadsTypeOK, Ids
<1>2. s \in Classmates /\ req[r].who \in SUBSET Classmates
  <2>1. req[r].op = "create" /\ Sane(req[r])
    BY DEF CreateEnd, SquadsInv
  <2>2. req[r] \in Request
    BY <2>1, InFlight DEF SquadsInv
  <2> QED BY <2>1, <2>2 DEF Sane, Request
<1>3. z \in Squad /\ z.locked = FALSE
  BY <1>2 DEF Squad
<1>4. squad[q] = NoSquad /\ pending[q] = {}
  BY <1>1 DEF SquadsInv, Fresh
<1> HIDE DEF z
<1>5. /\ squad' = [squad EXCEPT ![q] = z]
      /\ pending' = [pending EXCEPT ![q] = req[r].who]
      /\ used' = q /\ Done(r) /\ UNCHANGED <<size, enrolled, subs, changes>>
      /\ rushed' = Rushing(s, q) /\ ~InSquad(s) /\ z.members = {s}
  BY DEF CreateEnd, z
<1>6. /\ squad' \in [Ids -> Squad] /\ squad'[q] = z
      /\ \A p \in Ids \ {q} : squad'[p] = squad[p] /\ pending'[p] = pending[p]
      /\ pending' \in [Ids -> SUBSET Classmates]
  BY <1>1, <1>2, <1>3, <1>5 DEF SquadsInv, SquadsTypeOK
<1>13. /\ rushed' \in SUBSET Ids /\ rushed \subseteq rushed'
       /\ \A y \in Slots : Mid(req[y], s) => q \in rushed'
  BY <1>1, <1>5 DEF Rushing, Mid, SquadsInv, SquadsTypeOK
<1>7. SquadsTypeOK'
  BY <1>1, <1>5, <1>6, <1>13, DoneTypes DEF SquadsInv, SquadsTypeOK
<1>8. Fresh'
  BY <1>1, <1>5, <1>6, IdsAreNat DEF SquadsInv, Fresh
<1>9. \A x \in Slots : Sane(req[x])'
  <2>1. \A p \in 1 .. used : p \in Ids \ {q}
    BY <1>1, SquadAssumption DEF Ids
  <2>2. \A p \in 1 .. used : pending'[p] \subseteq pending[p]
    BY <1>6, <2>1
  <2>3. \A p \in Ids : \A t \in squad'[p].members \ squad[p].members :
            pending'[p] = {} \/ \A y \in Slots : Mid(req[y], t) => p \in rushed'
    BY <1>5, <1>6, <1>13
  <2> QED BY <1>1, <1>5, <1>13, <2>2, <2>3, SaneStays, DoneTypes DEF SquadsInv
<1>10. LockedIsSettled'
  BY <1>3, <1>6, <1>13 DEF SquadsInv, LockedIsSettled
<1>14. OneSquad'
  <2> SUFFICES ASSUME NEW a \in Ids, NEW b \in Ids, NEW t \in Classmates,
                      t \in squad'[a].members, t \in squad'[b].members
               PROVE  a = b
    BY DEF OneSquad
  <2>1. CASE t = s
    BY <1>5, <1>6, <2>1 DEF InSquad
  <2>2. CASE t # s
    BY <1>5, <1>6, <2>2 DEF SquadsInv, OneSquad
  <2> QED BY <2>1, <2>2
<1>11. SharedIsLocked'
  <2> SUFFICES ASSUME NEW u \in subs, u.squad # 0
               PROVE  squad'[u.squad].locked /\ squad'[u.squad].members # {}
    BY <1>5 DEF SharedIsLocked
  <2>1. /\ squad[u.squad].locked /\ squad[u.squad].members # {}
        /\ u.squad \in Ids
    BY DEF SquadsInv, SharedIsLocked, SquadsTypeOK
  <2>2. u.squad # q
    BY <1>4, <2>1, NoSquadType
  <2> QED BY <1>6, <2>1, <2>2
<1>12. JoinOK
  BY <1>4, <1>6, NoSquadType DEF JoinOK
<1> QED BY <1>7, <1>8, <1>9, <1>10, <1>11, <1>12, <1>14 DEF SquadsInv

LEMMA AssignStep ==
    ASSUME SquadsInv, NEW r \in Slots, AssignEnd(r)
    PROVE  SquadsInv' /\ JoinOK
<1> DEFINE q == used + 1
           ids == req[r].who
           z == [members |-> ids, creator |-> Teacher, locked |-> TRUE]
           D == Emptied(ids, q)
<1>1. q \in Ids /\ used \in Nat /\ q \in 0 .. MaxSquads
  BY SquadAssumption DEF AssignEnd, SquadsInv, SquadsTypeOK, Ids
<1>2. ids \in SUBSET Classmates
  <2>1. req[r] \in Request
    BY InFlight DEF AssignEnd, SquadsInv
  <2> QED BY <2>1 DEF Request
<1>3. z \in Squad
  BY <1>2 DEF Squad
<1>4. squad[q] = NoSquad /\ pending[q] = {}
  BY <1>1 DEF SquadsInv, Fresh
<1>5. D \in SUBSET Ids
  BY DEF Emptied
<1> HIDE DEF z, D
<1>6. /\ squad' = [WithoutSquads(D) EXCEPT ![q] = z]
      /\ pending' = [p \in Ids |-> Uninvited(ids, p)]
      /\ subs' = WithoutRefs(D) /\ used' = q /\ Done(r)
      /\ UNCHANGED <<size, enrolled, rushed, changes>>
      /\ z.members = ids /\ \A t \in ids : ~InSquad(t)
  BY DEF AssignEnd, z, D
<1>7. \A p \in Ids : pending'[p] \subseteq pending[p]
  BY <1>6, UninvitedLess
<1>8. pending' \in [Ids -> SUBSET Classmates]
  BY <1>6, <1>7 DEF SquadsInv, SquadsTypeOK
<1>9. used' \in 0 .. MaxSquads /\ used <= used' /\ q <= used'
  BY <1>1, <1>6
<1>10. pending'[q] = {}
  BY <1>1, <1>4, <1>7
<1>12. rushed' \subseteq Ids /\ rushed \subseteq rushed'
  BY <1>6 DEF SquadsInv, SquadsTypeOK
<1>11. ~squad[q].locked /\ squad[q].members = {}
  BY <1>4, NoSquadType
<1> HIDE DEF q, ids
<1> QED BY <1>1, <1>3, <1>5, <1>6, <1>7, <1>8, <1>9, <1>10, <1>11, <1>12, RowStep

\* What the steps of an answer know of their request and of its squad.
LEMMA AnswerFacts ==
    ASSUME SquadsInv, NEW r \in Slots, req[r].op \in Answers
    PROVE  /\ req[r] \in Request /\ req[r].on \in Ids /\ req[r].by \in Classmates
           /\ squad[req[r].on] \in Squad
           /\ used' = used => /\ used' \in 0 .. MaxSquads /\ used <= used'
                              /\ req[r].on <= used'
<1>1. req[r] \in Request /\ Sane(req[r])
  BY InFlight DEF SquadsInv, Answers
<1>2. used \in 0 .. MaxSquads /\ used \in Nat /\ req[r].on \in 1 .. used /\ req[r].by \in Classmates
  BY <1>1, SquadAssumption DEF SquadsInv, SquadsTypeOK, Sane
<1>3. req[r].on \in Ids
  BY <1>2, SquadAssumption DEF Ids
<1> QED BY <1>1, <1>2, <1>3 DEF SquadsInv, SquadsTypeOK

LEMMA RefuseStep ==
    ASSUME SquadsInv, NEW r \in Slots, RefuseEnd(r)
    PROVE  SquadsInv' /\ JoinOK
<1> DEFINE q == req[r].on
<1>1. /\ q \in Ids /\ squad[q] \in Squad
      /\ used' \in 0 .. MaxSquads /\ used <= used' /\ q <= used'
  BY AnswerFacts DEF RefuseEnd, Answers
<1>2. /\ squad' = [WithoutSquads({}) EXCEPT ![q] = squad[q]]
      /\ subs' = WithoutRefs({})
      /\ Done(r) /\ UNCHANGED <<size, enrolled, rushed, changes>>
      /\ rushed' \subseteq Ids /\ rushed \subseteq rushed'
  BY <1>1, NothingDeleted DEF RefuseEnd, SquadsInv, SquadsTypeOK
<1>3. /\ pending' \in [Ids -> SUBSET Classmates]
      /\ \A p \in Ids : pending'[p] \subseteq pending[p]
  BY <1>1 DEF RefuseEnd, SquadsInv, SquadsTypeOK
<1>4. /\ squad[q].locked /\ q \notin rushed' => pending'[q] = {}
      /\ squad[q].members # {}
  BY <1>1, <1>2, <1>3 DEF SquadsInv, LockedIsSettled, RefuseEnd
<1> HIDE DEF q
<1> QED BY <1>1, <1>2, <1>3, <1>4, RowStep

LEMMA AcceptStep ==
    ASSUME SquadsInv, NEW r \in Slots, AcceptEnd(r)
    PROVE  SquadsInv' /\ JoinOK
<1> DEFINE q == req[r].on
           s == req[r].by
           joined == squad[q].members \cup {s}
           full == Cardinality(joined) >= size
           z == [members |-> joined, creator |-> squad[q].creator, locked |-> full]
           D == Emptied({s}, q)
<1>1. /\ q \in Ids /\ squad[q] \in Squad /\ s \in Classmates
      /\ used' \in 0 .. MaxSquads /\ used <= used' /\ q <= used'
  BY AnswerFacts DEF AcceptEnd, Answers
<1>2. ~squad[q].locked /\ Cardinality(squad[q].members) < size
  BY DEF AcceptEnd, Joinable
<1>3. Cardinality(joined) <= size
  <2>1. IsFiniteSet(squad[q].members)
    BY <1>1, FS_Subset, SquadAssumption DEF Squad
  <2>2. /\ Cardinality(squad[q].members) \in Nat
        /\ Cardinality(joined) = IF s \in squad[q].members
                                 THEN Cardinality(squad[q].members)
                                 ELSE Cardinality(squad[q].members) + 1
    BY <2>1, FS_AddElement, FS_CardinalityType
  <2>3. size \in Nat
    BY SquadAssumption DEF SquadsInv, SquadsTypeOK
  <2> QED BY <1>2, <2>2, <2>3
<1>4. z \in Squad /\ z.members = joined /\ z.locked = full
  BY <1>1 DEF Squad
<1>5. D \in SUBSET Ids
  BY DEF Emptied
<1>6. /\ squad' = [WithoutSquads(D) EXCEPT ![q] = z]
      /\ pending' = [p \in Ids |-> IF p = q THEN Answered(pending[q], s, full)
                                            ELSE Uninvited({s}, p)]
      /\ subs' = WithoutRefs(D) /\ Done(r) /\ UNCHANGED <<size, enrolled, changes>>
      /\ rushed' = Rushing(s, q) /\ ~InSquad(s)
  BY DEF AcceptEnd, Joinable, EligibleForSquad
<1> HIDE DEF z, D, full
<1>7. \A p \in Ids : pending'[p] \subseteq pending[p]
  BY <1>6, UninvitedLess DEF Answered
<1>8. pending' \in [Ids -> SUBSET Classmates]
  BY <1>6, <1>7 DEF SquadsInv, SquadsTypeOK
<1>9. z.locked => pending'[q] = {}
  BY <1>1, <1>4, <1>6 DEF Answered
<1>10. /\ rushed' \subseteq Ids /\ rushed \subseteq rushed'
       /\ \A y \in Slots : Mid(req[y], s) => q \in rushed'
  BY <1>1, <1>6 DEF Rushing, Mid, SquadsInv, SquadsTypeOK
<1>11. \A t \in z.members \ squad[q].members :
          /\ ~InSquad(t)
          /\ pending'[q] = {} \/ \A y \in Slots : Mid(req[y], t) => q \in rushed'
  <2>1. \A t \in z.members \ squad[q].members : t = s
    BY <1>4
  <2> QED BY <1>6, <1>10, <2>1
<1> HIDE DEF q, joined
<1> QED BY <1>1, <1>2, <1>3, <1>4, <1>5, <1>6, <1>7, <1>8, <1>9, <1>10, <1>11, RowStep

LEMMA DropStep ==
    ASSUME SquadsInv, NEW r \in Slots, DropEnd(r)
    PROVE  SquadsInv' /\ JoinOK
<1> DEFINE q == req[r].on
           invited == pending[q] \ req[r].who
           D == IF Lonely(req[r].alone, req[r].locked, invited) THEN {q} ELSE {}
<1>1. /\ q \in Ids /\ squad[q] \in Squad
      /\ used' \in 0 .. MaxSquads /\ used <= used' /\ q <= used'
  BY AnswerFacts DEF DropEnd, Answers
<1>2. /\ squad' = WithoutSquads(D)
      /\ pending' = [pending EXCEPT ![q] = invited]
      /\ subs' = WithoutRefs(D) /\ Done(r) /\ UNCHANGED <<size, enrolled, rushed, changes>>
      /\ squad[q].members # {}
  BY DEF DropEnd
<1>3. D = {} \/ D = {q}
  OBVIOUS
<1> HIDE DEF D
<1>4. /\ pending' \in [Ids -> SUBSET Classmates]
      /\ \A p \in Ids : pending'[p] \subseteq pending[p]
  BY <1>1, <1>2 DEF SquadsInv, SquadsTypeOK
<1>5. squad[q].locked /\ q \notin rushed' => pending'[q] = {}
  BY <1>1, <1>2, <1>4 DEF SquadsInv, LockedIsSettled
<1>8. rushed' \subseteq Ids /\ rushed \subseteq rushed'
  BY <1>2 DEF SquadsInv, SquadsTypeOK
<1>6. CASE D = {}
  <2>1. squad' = [WithoutSquads(D) EXCEPT ![q] = squad[q]]
    BY <1>1, <1>2, <1>6, NothingDeleted DEF SquadsInv, WithoutSquads
  <2> HIDE DEF q
  <2> QED BY <1>1, <1>2, <1>4, <1>5, <1>6, <1>8, <2>1, RowStep
<1>7. CASE D = {q}
  <2>1. squad' = [WithoutSquads(D) EXCEPT ![q] = NoSquad]
    BY <1>1, <1>2, <1>7 DEF WithoutSquads
  <2> HIDE DEF q
  <2> QED BY <1>1, <1>2, <1>4, <1>7, <1>8, <2>1, NoSquadType, RowStep
<1> QED BY <1>3, <1>6, <1>7

LEMMA UploadStep ==
    ASSUME SquadsInv, NEW r \in Slots, UploadEnd(r)
    PROVE  SquadsInv' /\ JoinOK
<1> DEFINE q == req[r].on
           new == [by |-> req[r].by, squad |-> q]
<1>1. /\ req[r].by \in Classmates /\ q \in Ids \cup {0}
      /\ q # 0 => /\ q \in Ids /\ q \in 1 .. used /\ squad[q].members # {}
                  /\ q \in rushed \/ pending[q] = {}
  <2>1. req[r] \in Request /\ Sane(req[r]) /\ req[r].op = "upload"
    BY InFlight DEF UploadEnd, SquadsInv
  <2> QED BY <2>1 DEF Request, Sane, UploadEnd
<1>2. /\ subs' = subs \cup {new} /\ Done(r)
      /\ UNCHANGED <<size, enrolled, pending, used, rushed, changes>>
  BY DEF UploadEnd
<1>3. /\ squad' \in [Ids -> Squad]
      /\ q # 0 => squad'[q].locked /\ squad'[q].members = squad[q].members
      /\ \A p \in Ids : p # q => squad'[p] = squad[p]
  BY <1>1, IdsAreNat DEF UploadEnd, LockOnSubmit, SquadsInv, SquadsTypeOK, Squad
<1>4. new \in [by : Classmates, squad : Ids \cup {0}] /\ new.squad = q
  BY <1>1
<1> HIDE DEF new
<1>5. SquadsTypeOK'
  BY <1>2, <1>3, <1>4, DoneTypes DEF SquadsInv, SquadsTypeOK
<1>6. Fresh'
  BY <1>1, <1>2, <1>3, IdsAreNat DEF SquadsInv, Fresh, SquadsTypeOK
<1>11. \A p \in Ids : squad'[p].members = squad[p].members
  <2> SUFFICES ASSUME NEW p \in Ids PROVE squad'[p].members = squad[p].members
    OBVIOUS
  <2>1. CASE p = q
    BY <1>3, <2>1, IdsAreNat
  <2>2. CASE p # q
    BY <1>3, <2>2
  <2> QED BY <2>1, <2>2
<1>7. \A x \in Slots : Sane(req[x])'
  BY <1>2, <1>11, SquadAssumption, SaneStays, DoneTypes DEF SquadsInv, SquadsTypeOK
<1>12. OneSquad'
  BY <1>11 DEF SquadsInv, OneSquad
<1>8. LockedIsSettled'
  BY <1>1, <1>2, <1>3, IdsAreNat DEF SquadsInv, LockedIsSettled
<1>9. SharedIsLocked'
  <2> SUFFICES ASSUME NEW u \in subs', u.squad # 0
               PROVE  squad'[u.squad].locked /\ squad'[u.squad].members # {}
    BY DEF SharedIsLocked
  <2>1. CASE u.squad = q
    BY <1>1, <1>3, <2>1
  <2>2. CASE u.squad # q
    <3>1. u \in subs /\ u.squad \in Ids
      BY <1>2, <1>4, <2>2 DEF SquadsInv, SquadsTypeOK
    <3> QED BY <1>3, <2>2, <3>1 DEF SquadsInv, SharedIsLocked
  <2> QED BY <2>1, <2>2
<1>10. JoinOK
  BY <1>3, IdsAreNat DEF JoinOK
<1> QED BY <1>5, <1>6, <1>7, <1>8, <1>9, <1>10, <1>12 DEF SquadsInv

\* A request that fails, a config upload and a change of enrolment leave squads,
\* invites and submissions alone.
LEMMA OtherSteps ==
    ASSUME SquadsInv, UNCHANGED <<squad, pending, subs, used, rushed>>, SquadsTypeOK',
           \A x \in Slots : req'[x] = req[x] \/ req'[x] = Free
    PROVE  SquadsInv' /\ JoinOK
<1>1. \A x \in Slots : Sane(req[x])'
  BY SquadAssumption, SaneStays DEF SquadsInv, SquadsTypeOK
<1>2. Fresh' /\ OneSquad' /\ LockedIsSettled' /\ SharedIsLocked'
  BY DEF SquadsInv, Fresh, OneSquad, LockedIsSettled, SharedIsLocked
<1>3. JoinOK
  BY DEF JoinOK
<1> QED BY <1>1, <1>2, <1>3 DEF SquadsInv

LEMMA FailStep ==
    ASSUME SquadsInv, NEW r \in Slots, Fail(r)
    PROVE  SquadsInv' /\ JoinOK
<1>1. SquadsTypeOK'
  BY DoneTypes DEF SquadsInv, Fail, SquadsTypeOK
<1> QED BY <1>1, OtherSteps, DoneTypes DEF SquadsInv, Fail

LEMMA TeacherStep ==
    ASSUME SquadsInv, \/ \E n \in Sizes : ApplySize(n)
                 \/ \E s \in Classmates : ChangeEnrolment(s)
    PROVE  SquadsInv' /\ JoinOK
<1>1. SquadsTypeOK' /\ UNCHANGED <<squad, pending, subs, used, req, rushed>>
  BY SquadAssumption DEF SquadsInv, SquadsTypeOK, ApplySize, ChangeEnrolment
<1> QED BY <1>1, OtherSteps

LEMMA EveryStep ==
    ASSUME SquadsInv, SquadsNext
    PROVE  SquadsInv' /\ JoinOK
<1>1. CASE \E r \in Slots : Start(r)
  BY <1>1, StartStep
<1>2. CASE \E r \in Slots : Finish(r)
  BY <1>2, CreateStep, AssignStep, FailStep, RefuseStep, AcceptStep, DropStep,
     UploadStep DEF Finish
<1>3. CASE \/ \E n \in Sizes : ApplySize(n)
           \/ \E s \in Classmates : ChangeEnrolment(s)
  BY <1>3, TeacherStep
<1>4. CASE \E r \in Slots : Continue(r)
  BY <1>4, ContinueStep
<1> QED BY <1>1, <1>2, <1>3, <1>4 DEF SquadsNext

-----------------------------------------------------------------------------
(* The theorems.                                                           *)

\* In every reachable state the types hold, a student is in one squad, an upload that
\* looked its squad up is for a squad nobody is invited to or one that was entered in
\* the middle of an upload, and the two invariants below hold.
THEOREM SquadInvariance == SquadsSpec => []SquadsInv
<1>1. SquadsInit => SquadsInv
  <2> SUFFICES ASSUME SquadsInit PROVE SquadsInv
    OBVIOUS
  <2>1. SquadsTypeOK
    BY NoSquadType, SquadAssumption DEF SquadsInit, SquadsTypeOK
  <2>2. \A r \in Slots : Sane(req[r])
    BY DEF SquadsInit, Sane, Free, Answers, Checking
  <2>3. Fresh /\ OneSquad /\ LockedIsSettled /\ SharedIsLocked
    BY NoSquadType DEF SquadsInit, Fresh, OneSquad, LockedIsSettled, SharedIsLocked
  <2> QED BY <2>1, <2>2, <2>3 DEF SquadsInv
<1>2. SquadsInv /\ [SquadsNext]_squadsVars => SquadsInv'
  <2>1. ASSUME SquadsInv, UNCHANGED squadsVars PROVE SquadsInv'
    BY <2>1 DEF squadsVars, SquadsInv, SquadsTypeOK, Fresh, OneSquad, Sane, LockedIsSettled,
                SharedIsLocked
  <2> QED BY <2>1, EveryStep
<1> QED BY <1>1, <1>2, PTL DEF SquadsSpec

\* Whatever requests overlap, nobody is invited to a locked squad that no member
\* entered in the middle of an upload of their own.
THEOREM SettledWhenLocked == SquadsSpec => []LockedIsSettled
<1>1. SquadsInv => LockedIsSettled
  BY DEF SquadsInv
<1> QED BY <1>1, SquadInvariance, PTL

\* A submission with a squad_id has its squad, and the squad is locked.
THEOREM SharedWhenLocked == SquadsSpec => []SharedIsLocked
<1>1. SquadsInv => SharedIsLocked
  BY DEF SquadsInv
<1> QED BY <1>1, SquadInvariance, PTL

\* Nobody joins a locked squad or one that is full, for any size.
THEOREM JoinsAreBounded == SquadsSpec => JoinsWithinSize
<1>1. SquadsInv /\ [SquadsNext]_squadsVars => [JoinOK]_squadsVars
  BY EveryStep
<1>2. [JoinOK]_squadsVars <=> [\A q \in Ids :
          squad[q].members # {} /\ squad'[q].members \ squad[q].members # {} =>
              ~squad[q].locked /\ Cardinality(squad'[q].members) <= size]_squadsVars
  BY DEF JoinOK
<1> QED BY <1>1, <1>2, SquadInvariance, PTL DEF SquadsSpec, JoinsWithinSize

-----------------------------------------------------------------------------
(* Google Classroom.                                                       *)

\* What the lock's holder works from is still there: the links it loaded, a
\* submission for each user on its list, and a work that only it may judge.
JobOK ==
    /\ job.phase = "merge" =>
          \A u \in Users : job.copy[u] # NoLink => link[u] # NoLink
    /\ job.phase \in {"works", "fetch"} =>
          \A u \in job.todo : remote[u].content \in Contents
    /\ job.phase = "fetch" => remote[job.user].content \in Contents
    /\ job.phase = "judge" =>
          /\ works[job.user][job.content] # NoWork
          /\ works[job.user][job.content].status = "RUNNING"
          /\ <<job.user, job.content>> \notin job.list

\* A page shows a draft that counts as seen.
PageWasSeen == page.user # Nobody => <<page.user, page.content>> \in seen

\* A judge call is paid for by a work that counts, by the one being judged or by
\* one that was lost; what is left on the list fits into the cap and has not been
\* paid for.
Budget ==
    /\ jobs <= Cap + lost
    /\ jobs <= Cardinality(Counted) + lost + (IF job.phase = "judge" THEN 1 ELSE 0)
    /\ job.phase \in {"grade", "judge"} =>
          jobs + Cardinality(job.list) <= Cap + lost /\ job.list \cap Counted = {}

\* The inductive invariant.
IInv ==
    /\ TypeOK
    /\ JobOK
    /\ PageWasSeen
    /\ LatestIsLive
    /\ ApprovedWasSeen
    /\ Budget

\* What DraftIsKept asks of a step.
DraftKept ==
    \A u \in Users, c \in Contents :
        Has(u, c) /\ works[u][c].status = "DONE" =>
            /\ works'[u][c].status = "DONE"
            /\ works[u][c].approved => works'[u][c].approved

-----------------------------------------------------------------------------
(* Types.                                                                  *)

\* Which record a job in each phase is.
LEMMA JobShape ==
    ASSUME TypeOK
    PROVE  /\ job.phase \in {"roster", "list"} => job.by \in Runs \cup {Nobody}
           /\ job.phase = "merge" =>
                 job.by \in Runs \cup {Nobody} /\ job.copy \in [Users -> Link \cup {NoLink}]
           /\ job.phase = "works" =>
                 job \in [phase : {"works"}, by : Runs \cup {Nobody}, todo : SUBSET Users]
           /\ job.phase = "fetch" =>
                 job \in [phase : {"fetch"}, by : Runs \cup {Nobody}, todo : SUBSET Users,
                          user : Users, stamp : Nat, link : Link]
           /\ job.phase = "grade" =>
                 job \in [phase : {"grade"}, by : {Nobody}, streak : Nat,
                          list : SUBSET (Users \X Contents)]
           /\ job.phase = "judge" =>
                 job \in [phase : {"judge"}, by : {Nobody}, streak : Nat, user : Users,
                          list : SUBSET (Users \X Contents), content : Contents]
BY DEF TypeOK, Job, Idle

LEMMA WorkShape ==
    ASSUME TypeOK, NEW u \in Users, NEW c \in Contents
    PROVE  works[u][c] \in Work \/ works[u][c] = NoWork
BY DEF TypeOK

LEMMA NoWorkIsNone == NoWork \notin Work /\ NoWork.status = "ABSENT" /\ Nobody \notin Contents
<1>1. \A w \in Work : w.status \in Statuses
  BY DEF Work
<1>2. NoWork.status = "ABSENT" /\ "ABSENT" \notin Statuses
  BY DEF NoWork, Statuses
<1> QED BY <1>1, <1>2, SyncAssumption

LEMMA LinkShape == NoLink \notin Link
<1>1. \A l \in Link : l.method \in Methods
  BY DEF Link
<1>2. NoLink.method = "ABSENT" /\ "ABSENT" \notin Methods
  BY DEF NoLink, Methods
<1> QED BY <1>1, <1>2

-----------------------------------------------------------------------------
(* The works.                                                              *)

\* What a step may do to one work, short of an approval.
Moves(w, v) ==
    /\ v \in Work \cup {NoWork}
    /\ w # NoWork => v # NoWork /\ v.approved = w.approved
    /\ w = NoWork /\ v # NoWork => ~v.approved
    /\ w # NoWork /\ w.status = "DONE" => v.status = "DONE"

\* The same, for a step that does not ingest: nothing is superseded or added, and
\* the work that is being judged is left alone.
Keeps(w, v) ==
    /\ Moves(w, v)
    /\ w = NoWork => v = NoWork
    /\ w # NoWork /\ v.status = "SUPERSEDED" => w.status = "SUPERSEDED"

\* Drafts and approvals survive such a step.
LEMMA MovesKeep ==
    ASSUME IInv, \A u \in Users, c \in Contents : Moves(works[u][c], works'[u][c]),
           seen \subseteq seen'
    PROVE  ApprovedWasSeen' /\ DraftKept
<1>1. \A u \in Users, c \in Contents : Has(u, c) /\ works[u][c].approved => <<u, c>> \in seen
  BY DEF IInv, ApprovedWasSeen
<1>2. \A u \in Users, c \in Contents : Has(u, c)' = (works'[u][c] # NoWork)
  BY NoWorkIsNone DEF Has
<1>3. \A u \in Users, c \in Contents : Has(u, c) = (works[u][c] # NoWork)
  BY NoWorkIsNone DEF Has
<1>4. ApprovedWasSeen'
  BY <1>1, <1>2, <1>3 DEF ApprovedWasSeen, Moves
<1> QED BY <1>3, <1>4 DEF DraftKept, Moves

LEMMA KeepsKeep ==
    ASSUME IInv, \A u \in Users, c \in Contents : Keeps(works[u][c], works'[u][c]),
           seen \subseteq seen', latest' = latest
    PROVE  ApprovedWasSeen' /\ DraftKept /\ LatestIsLive'
<1>1. ApprovedWasSeen' /\ DraftKept
  BY MovesKeep DEF Keeps
<1>2. \A u \in Users : latest[u] \in Contents \cup {Nobody}
  BY DEF IInv, TypeOK
<1>3. LatestIsLive'
  BY <1>2, NoWorkIsNone DEF IInv, LatestIsLive, Has, Keeps
<1> QED BY <1>1, <1>3

\* A step that leaves the works and the drafts shown alone.
LEMMA RowsKept ==
    ASSUME IInv, UNCHANGED <<works, latest, page, seen>>
    PROVE  ApprovedWasSeen' /\ DraftKept /\ LatestIsLive' /\ PageWasSeen'
BY DEF IInv, ApprovedWasSeen, DraftKept, LatestIsLive, PageWasSeen, Has

\* release_waiting touches only what waits for a link.
LEMMA ReleasedKeeps ==
    ASSUME NEW ws \in [Contents -> Work \cup {NoWork}]
    PROVE  /\ Released(ws) \in [Contents -> Work \cup {NoWork}]
           /\ \A c \in Contents :
                 /\ Keeps(ws[c], Released(ws)[c])
                 /\ \/ Released(ws)[c] = ws[c]
                    \/ /\ ws[c].status = "WAITING_LINK" /\ ws[c] # NoWork
                       /\ Released(ws)[c] # NoWork /\ Released(ws)[c].status = "PENDING"
<1> DEFINE v == Released(ws)
<1> SUFFICES ASSUME NEW c \in Contents
             PROVE  /\ v[c] \in Work \cup {NoWork}
                    /\ Keeps(ws[c], v[c])
                    /\ \/ v[c] = ws[c]
                       \/ /\ ws[c].status = "WAITING_LINK" /\ ws[c] # NoWork
                          /\ v[c] # NoWork /\ v[c].status = "PENDING"
  BY DEF Released
<1>1. v[c] = IF ws[c] # NoWork /\ ws[c].status = "WAITING_LINK"
             THEN [ws[c] EXCEPT !.status = "PENDING"] ELSE ws[c]
  BY DEF Released
<1>2. CASE ws[c] # NoWork /\ ws[c].status = "WAITING_LINK"
  <2>1. ws[c] \in Work
    BY <1>2
  <2>2. /\ v[c] \in Work /\ v[c].status = "PENDING" /\ v[c].approved = ws[c].approved
    BY <1>1, <1>2, <2>1 DEF Work, Statuses
  <2> QED BY <1>2, <2>2, NoWorkIsNone DEF Keeps, Moves
<1>3. CASE ~(ws[c] # NoWork /\ ws[c].status = "WAITING_LINK")
  <2>1. v[c] = ws[c]
    BY <1>1, <1>3
  <2> QED BY <2>1 DEF Keeps, Moves
<1> QED BY <1>2, <1>3

\* What an ingest leaves of the works: the version turned in is not superseded,
\* and only works that are waiting, failed or superseded are touched.
LEMMA IngestedMoves ==
    ASSUME TypeOK, NEW ws \in [Contents -> Work \cup {NoWork}], NEW k \in Contents,
           NEW stamp \in Nat, NEW l
    PROVE  LET v == Ingested(ws, k, stamp, l) IN
           /\ v \in [Contents -> Work \cup {NoWork}]
           /\ v[k] # NoWork /\ v[k].status # "SUPERSEDED"
           /\ ws[k] # NoWork /\ ws[k].status # "SUPERSEDED" =>
                 v[k].status = ws[k].status /\ v[k].touched = ws[k].touched
           /\ \A c \in Contents :
                 /\ Moves(ws[c], v[c])
                 /\ c # k /\ ws[c] = NoWork => v[c] = NoWork
                 /\ c # k => v[c] = ws[c] \/ (ws[c].status \in Supersedable /\ v[c].status = "SUPERSEDED")
<1> DEFINE mid == [ws EXCEPT ![k] =
                     IF @ # NoWork THEN Reverted(@, stamp, l)
                     ELSE [stamp |-> stamp, status |-> FreshStatus(l), attempts |-> 0,
                           touched |-> night, approved |-> FALSE]]
           v == Ingested(ws, k, stamp, l)
<1>1. FreshStatus(l) \in {"PENDING", "WAITING_LINK"}
  BY DEF FreshStatus
<1>2. /\ mid[k] \in Work /\ mid[k].status # "SUPERSEDED"
      /\ ws[k] = NoWork => ~mid[k].approved
      /\ ws[k] # NoWork => mid[k].approved = ws[k].approved /\ mid[k].touched = ws[k].touched
      /\ ws[k] # NoWork /\ ws[k].status # "SUPERSEDED" => mid[k].status = ws[k].status
  <2>1. CASE ws[k] = NoWork
    <3>1. mid[k] = [stamp |-> stamp, status |-> FreshStatus(l), attempts |-> 0,
                    touched |-> night, approved |-> FALSE]
      BY <2>1
    <3>2. night \in Nat
      BY DEF TypeOK
    <3> QED BY <1>1, <2>1, <3>1, <3>2 DEF Work, Statuses
  <2>2. CASE ws[k] # NoWork
    <3>1. mid[k] = Reverted(ws[k], stamp, l) /\ ws[k] \in Work
      BY <2>2
    <3> QED BY <1>1, <2>2, <3>1 DEF Reverted, Work, Statuses
  <2> QED BY <2>1, <2>2
<1>3. \A c \in Contents : c # k => mid[c] = ws[c]
  OBVIOUS
<1>4. mid \in [Contents -> Work \cup {NoWork}]
  BY <1>2, <1>3
<1>5. v = [c \in Contents |->
              IF c # k /\ mid[c] # NoWork /\ mid[c].status \in Supersedable
              THEN [mid[c] EXCEPT !.status = "SUPERSEDED"] ELSE mid[c]]
  BY DEF Ingested, Superseded
<1> HIDE DEF mid, v
<1>6. v[k] = mid[k]
  BY <1>5
<1>7. ASSUME NEW c \in Contents, c # k
      PROVE  /\ v[c] \in Work \cup {NoWork}
             /\ Moves(ws[c], v[c])
             /\ ws[c] = NoWork => v[c] = NoWork
             /\ v[c] = ws[c] \/ (ws[c].status \in Supersedable /\ v[c].status = "SUPERSEDED")
  <2>1. CASE mid[c] # NoWork /\ mid[c].status \in Supersedable
    <3>1. ws[c] \in Work /\ v[c] = [ws[c] EXCEPT !.status = "SUPERSEDED"] /\ ws[c].status \in Supersedable
      BY <1>3, <1>5, <1>7, <2>1
    <3>2. v[c] \in Work /\ v[c].status = "SUPERSEDED" /\ v[c].approved = ws[c].approved
      BY <3>1 DEF Work, Statuses
    <3> QED BY <3>1, <3>2, NoWorkIsNone DEF Moves, Supersedable
  <2>2. CASE ~(mid[c] # NoWork /\ mid[c].status \in Supersedable)
    <3>1. v[c] = ws[c]
      BY <1>3, <1>5, <1>7, <2>2
    <3> QED BY <3>1 DEF Moves
  <2> QED BY <2>1, <2>2
<1>8. Moves(ws[k], v[k])
  BY <1>2, <1>6, NoWorkIsNone DEF Moves
<1>9. v \in [Contents -> Work \cup {NoWork}]
  <2>1. \A c \in Contents : v[c] \in Work \cup {NoWork}
    BY <1>2, <1>6, <1>7
  <2> QED BY <1>5, <2>1
<1> QED BY <1>2, <1>6, <1>7, <1>8, <1>9, NoWorkIsNone DEF v

-----------------------------------------------------------------------------
(* The night's budget.                                                     *)

LEMMA CountedIsFinite ==
    IsFiniteSet(Counted) /\ Cardinality(Counted) \in Nat
    /\ IsFiniteSet(Counted') /\ Cardinality(Counted') \in Nat
<1>1. IsFiniteSet(Users \X Contents)
  BY SyncAssumption, FS_Product
<1>2. Counted \subseteq Users \X Contents /\ Counted' \subseteq Users \X Contents
  BY DEF Counted
<1>3. IsFiniteSet(Counted) /\ IsFiniteSet(Counted')
  BY <1>1, <1>2, FS_Subset
<1> QED BY <1>3, FS_CardinalityType

LEMMA CountedIs ==
    ASSUME NEW u \in Users, NEW c \in Contents
    PROVE  /\ <<u, c>> \in Counted <=>
                 works[u][c] # NoWork /\ works[u][c].touched = night
                 /\ works[u][c].status \in {"DONE", "FAILED"}
           /\ <<u, c>> \in Counted' <=>
                 works'[u][c] # NoWork /\ works'[u][c].touched = night'
                 /\ works'[u][c].status \in {"DONE", "FAILED"}
BY NoWorkIsNone DEF Counted, Has

\* A step within the night that neither finishes nor reopens a work.
LEMMA CountedStays ==
    ASSUME night' = night,
           \A u \in Users, c \in Contents :
               \/ works'[u][c] = works[u][c]
               \/ /\ works[u][c].status \notin {"DONE", "FAILED"}
                  /\ works'[u][c].status \notin {"DONE", "FAILED"}
    PROVE  Counted' = Counted
<1>1. \A u \in Users, c \in Contents : <<u, c>> \in Counted' <=> <<u, c>> \in Counted
  BY CountedIs
<1>2. Counted \subseteq Users \X Contents /\ Counted' \subseteq Users \X Contents
  BY DEF Counted
<1>3. ASSUME NEW x \in Users \X Contents PROVE x \in Counted' <=> x \in Counted
  <2>1. PICK u \in Users, c \in Contents : x = <<u, c>>
    OBVIOUS
  <2> QED BY <2>1, <1>1
<1>4. \A x \in Users \X Contents : x \in Counted' <=> x \in Counted
  BY <1>3
<1> QED BY <1>2, <1>4

\* Away from the grading loop it is enough that what stops counting is lost.
LEMMA BudgetOutside ==
    ASSUME IInv, job.phase # "judge", job'.phase \notin {"grade", "judge"}, jobs' = jobs,
           NEW gone \in SUBSET Counted, lost' = lost + Cardinality(gone),
           Counted \ gone \subseteq Counted'
    PROVE  Budget' /\ lost' \in Nat
<1>1. /\ jobs <= Cap + lost /\ jobs <= Cardinality(Counted) + lost
      /\ jobs \in Nat /\ lost \in Nat
  BY CountedIsFinite DEF IInv, Budget, TypeOK
<1>2. /\ IsFiniteSet(gone) /\ Cardinality(gone) \in Nat
      /\ IsFiniteSet(Counted' \cup gone) /\ Cardinality(Counted' \cup gone) \in Nat
  BY CountedIsFinite, FS_Subset, FS_Union, FS_CardinalityType
<1>3. Cardinality(Counted) <= Cardinality(Counted' \cup gone)
  <2>1. Counted \subseteq Counted' \cup gone
    OBVIOUS
  <2> QED BY <1>2, <2>1, FS_Subset
<1>4. Cardinality(Counted' \cup gone) <= Cardinality(Counted') + Cardinality(gone)
  <2>1. Cardinality(Counted' \cup gone)
           = Cardinality(Counted') + Cardinality(gone) - Cardinality(Counted' \cap gone)
    BY <1>2, CountedIsFinite, FS_Union
  <2>2. Cardinality(Counted' \cap gone) \in Nat
    BY <1>2, FS_Intersection, FS_CardinalityType
  <2> QED BY <1>2, <2>1, <2>2, CountedIsFinite
<1>5. lost' \in Nat /\ jobs' <= Cap + lost' /\ jobs' <= Cardinality(Counted') + lost'
  BY <1>1, <1>2, <1>3, <1>4, CountedIsFinite, SyncAssumption
<1> QED BY <1>5, CountedIsFinite DEF Budget

\* So it is when nothing stops counting.
LEMMA BudgetOutsideQuiet ==
    ASSUME IInv, job.phase # "judge", job'.phase \notin {"grade", "judge"}, jobs' = jobs,
           lost' = lost, Counted \subseteq Counted'
    PROVE  Budget'
<1>1. {} \in SUBSET Counted /\ Cardinality({}) = 0 /\ Counted \ {} \subseteq Counted'
  BY FS_EmptySet
<1>2. lost' = lost + Cardinality({})
  BY <1>1 DEF IInv, TypeOK
<1> QED BY <1>1, <1>2, BudgetOutside

\* While a step of somebody else leaves the loop and what counts alone.
LEMMA BudgetStays ==
    ASSUME IInv, job' = job, jobs' = jobs, lost' = lost, Counted' = Counted
    PROVE  Budget'
BY DEF IInv, Budget

-----------------------------------------------------------------------------
(* Manual syncs.                                                           *)

Row == [row : {"none", "RUNNING", "DONE", "FAILED"}, fresh : BOOLEAN,
        task : {"none", "starting", "spawned", "working", "gone"}]

LEMMA RunTypes ==
    ASSUME TypeOK, NEW r \in Runs, NEW b \in {"DONE", "FAILED"}
    PROVE  Closed(r, b) \in [Runs -> Row] /\ Beat(r) \in [Runs -> Row]
BY DEF TypeOK, Row, Closed, Beat

LEMMA BeatType ==
    ASSUME TypeOK, NEW r
    PROVE  Beat(r) \in [Runs -> Row]
BY DEF TypeOK, Row, Beat

LEMMA StartCheckStep ==
    ASSUME IInv, NEW r \in Runs, StartCheck(r)
    PROVE  IInv' /\ DraftKept
<1>1. TypeOK' /\ JobOK'
  BY DEF IInv, StartCheck, rows, nightly, TypeOK, JobOK
<1>2. Budget'
  BY BudgetStays, CountedStays DEF StartCheck, rows, nightly
<1> QED BY <1>1, <1>2, RowsKept DEF IInv, StartCheck, rows

LEMMA StartCommitStep ==
    ASSUME IInv, NEW r \in Runs, StartCommit(r)
    PROVE  IInv' /\ DraftKept
<1>1. TypeOK'
  BY DEF IInv, StartCommit, rows, nightly, TypeOK
<1>2. JobOK'
  BY DEF IInv, StartCommit, rows, JobOK
<1>3. Budget'
  BY BudgetStays, CountedStays DEF StartCommit, rows, nightly
<1> QED BY <1>1, <1>2, <1>3, RowsKept DEF IInv, StartCommit, rows

LEMMA RunBeginStep ==
    ASSUME IInv, NEW r \in Runs, RunBegin(r)
    PROVE  IInv' /\ DraftKept
<1>0. UNCHANGED <<rows, linked, active, nightly, page, seen>>
  BY DEF RunBegin
<1>1. CASE job' = job /\ run' = Closed(r, "FAILED")
  <2>1. TypeOK'
    BY <1>0, <1>1, RunTypes DEF IInv, rows, nightly, TypeOK, Row
  <2>2. JobOK'
    BY <1>0, <1>1 DEF IInv, rows, JobOK
  <2>3. Budget'
    BY <1>0, <1>1, BudgetStays, CountedStays DEF rows, nightly
  <2> QED BY <1>0, <2>1, <2>2, <2>3, RowsKept DEF IInv, rows
<1>2. CASE /\ job = Idle /\ job' = [phase |-> "roster", by |-> r]
           /\ run' = [run EXCEPT ![r].task = "working"]
  <2>1. TypeOK'
    <3>1. job' \in Job
      BY <1>2 DEF Job
    <3> QED BY <1>0, <1>2, <3>1 DEF IInv, rows, nightly, TypeOK
  <2>2. JobOK' /\ job'.phase = "roster" /\ job.phase = "idle"
    BY <1>2 DEF JobOK, Idle
  <2>3. Budget'
    BY <1>0, <2>2, BudgetOutsideQuiet, CountedStays DEF rows, nightly
  <2> QED BY <1>0, <2>1, <2>2, <2>3, RowsKept DEF IInv, rows
<1> QED BY <1>1, <1>2 DEF RunBegin

LEMMA StallStep ==
    ASSUME IInv, NEW r \in Runs, Stall(r)
    PROVE  IInv' /\ DraftKept
<1>1. TypeOK' /\ JobOK'
  BY DEF IInv, Stall, rows, nightly, TypeOK, JobOK
<1>2. Budget'
  BY BudgetStays, CountedStays DEF Stall, rows, nightly
<1> QED BY <1>1, <1>2, RowsKept DEF IInv, Stall, rows

-----------------------------------------------------------------------------
(* Ingest.                                                                 *)

LEMMA LoadRosterStep ==
    ASSUME IInv, LoadRoster
    PROVE  IInv' /\ DraftKept
<1>1. job' = [phase |-> "merge", by |-> job.by, copy |-> link] /\ job.phase = "roster"
  BY DEF LoadRoster
<1>2. TypeOK'
  <2>1. job' \in Job
    BY <1>1, JobShape DEF IInv, TypeOK, Job
  <2> QED BY <2>1 DEF IInv, LoadRoster, rows, nightly, TypeOK
<1>3. JobOK' /\ job'.phase = "merge"
  BY <1>1 DEF LoadRoster, rows, JobOK
<1>4. Budget'
  BY <1>1, <1>3, BudgetOutsideQuiet, CountedStays DEF LoadRoster, rows, nightly
<1> QED BY <1>2, <1>3, <1>4, RowsKept DEF IInv, LoadRoster, rows

\* upsert_links keeps a link a link, whatever a teacher wrote meanwhile.
LEMMA FlushedType ==
    ASSUME NEW row \in Link \cup {NoLink}, NEW copy \in Link \cup {NoLink},
           copy # NoLink => row # NoLink, NEW m \in Link
    PROVE  Flushed(row, copy, Matched(copy, m)) \in Link
<1>1. Matched(copy, m) \in Link
  BY LinkShape DEF Matched, Link
<1>2. CASE copy = NoLink
  BY <1>1, <1>2 DEF Flushed
<1>3. CASE copy # NoLink
  <2> DEFINE new == Matched(copy, m)
             f == Flushed(row, copy, new)
  <2>1. copy \in Link /\ row \in Link /\ new \in Link
    BY <1>1, <1>3
  <2>2. f = [x \in DOMAIN new |-> IF new[x] # copy[x] THEN new[x] ELSE row[x]]
    BY <1>3 DEF Flushed
  <2>3. DOMAIN new = {"method", "student", "confirmed", "close"}
    BY <2>1 DEF Link
  <2> HIDE DEF new, f
  <2>4. f = [method |-> f.method, student |-> f.student, confirmed |-> f.confirmed,
             close |-> f.close]
    BY <2>2, <2>3
  <2>5. /\ f.method \in Methods /\ f.student \in Students \cup {NoStudent}
        /\ f.confirmed \in BOOLEAN /\ f.close \in BOOLEAN
    BY <2>1, <2>2, <2>3 DEF Link
  <2>6. f \in Link
    BY <2>4, <2>5 DEF Link
  <2> QED BY <2>6 DEF new, f
<1> QED BY <1>2, <1>3

LEMMA MergeRosterStep ==
    ASSUME IInv, MergeRoster
    PROVE  IInv' /\ DraftKept
<1>1. /\ job.phase = "merge" /\ run' = Beat(job.by)
      /\ UNCHANGED <<remote, latest, linked, active, nightly, page, seen>>
  BY DEF MergeRoster
<1>11. PICK listed \in BOOLEAN :
         job' = [phase |-> "works", by |-> job.by,
                 todo |-> {u \in Users : listed /\ linked /\ remote[u].content # Nobody}]
  BY DEF MergeRoster
<1>2. PICK m \in [Users -> UNION {Matches[u] : u \in Users}] :
         /\ \A u \in Users : m[u] \in Matches[u]
         /\ link' = [u \in Users |-> Flushed(link[u], job.copy[u], Matched(job.copy[u], m[u]))]
         /\ works' = [u \in Users |->
                IF job.copy[u] # NoLink /\ job.copy[u].student = NoStudent
                   /\ Matched(job.copy[u], m[u]).student # NoStudent
                THEN Released(works[u]) ELSE works[u]]
  BY DEF MergeRoster
<1>3. link' \in [Users -> Link \cup {NoLink}]
  <2>1. ASSUME NEW u \in Users
        PROVE  Flushed(link[u], job.copy[u], Matched(job.copy[u], m[u])) \in Link
    <3>1. link[u] \in Link \cup {NoLink} /\ job.copy[u] \in Link \cup {NoLink}
      BY <1>1, JobShape DEF IInv, TypeOK
    <3>2. job.copy[u] # NoLink => link[u] # NoLink
      BY <1>1 DEF IInv, JobOK
    <3>3. m[u] \in Link
      BY <1>2, SyncAssumption
    <3> QED BY <3>1, <3>2, <3>3, FlushedType
  <2> QED BY <1>2, <2>1
<1>4. \A u \in Users : works[u] \in [Contents -> Work \cup {NoWork}]
  BY DEF IInv, TypeOK
<1>5. works' \in [Users -> [Contents -> Work \cup {NoWork}]]
  BY <1>2, <1>4, ReleasedKeeps
<1>6. \A u \in Users, c \in Contents : Keeps(works[u][c], works'[u][c])
  <2>1. \A u \in Users, c \in Contents : Keeps(works[u][c], works[u][c])
    BY <1>4 DEF Keeps, Moves
  <2> QED BY <1>2, <1>4, <2>1, ReleasedKeeps
<1>7. Counted' = Counted
  <2>1. \A u \in Users, c \in Contents :
          \/ works'[u][c] = works[u][c]
          \/ /\ works[u][c].status \notin {"DONE", "FAILED"}
             /\ works'[u][c].status \notin {"DONE", "FAILED"}
    BY <1>2, <1>4, ReleasedKeeps
  <2> QED BY <1>1, <2>1, CountedStays DEF nightly
<1>8. TypeOK'
  <2>1. job' \in Job
    BY <1>1, <1>11, JobShape DEF IInv, Job
  <2> QED BY <1>1, <1>3, <1>5, <2>1, BeatType DEF IInv, nightly, TypeOK, Row
<1>9. JobOK' /\ job'.phase = "works"
  BY <1>1, <1>11 DEF IInv, JobOK, TypeOK
<1>10. Budget'
  BY <1>1, <1>7, <1>9, BudgetOutsideQuiet DEF nightly
<1> QED BY <1>1, <1>6, <1>8, <1>9, <1>10, KeepsKeep DEF IInv, PageWasSeen

LEMMA FetchStep ==
    ASSUME IInv, NEW u \in Users, Fetch(u)
    PROVE  IInv' /\ DraftKept
<1>1. /\ job.phase = "works" /\ u \in job.todo
      /\ UNCHANGED <<rows, linked, active, nightly, page, seen, bounds>>
  BY DEF Fetch
<1>2. /\ job \in [phase : {"works"}, by : Runs \cup {Nobody}, todo : SUBSET Users]
      /\ \A v \in job.todo : remote[v].content \in Contents
  BY <1>1, JobShape DEF IInv, JobOK
<1>3. /\ job' \in Job /\ JobOK' /\ job'.phase \in {"works", "fetch"}
  <2>1. CASE job' = [job EXCEPT !.todo = @ \ {u}]
    <3>1. job' \in [phase : {"works"}, by : Runs \cup {Nobody}, todo : SUBSET Users]
          /\ job'.todo = job.todo \ {u}
      BY <1>2, <2>1
    <3> QED BY <1>1, <1>2, <3>1 DEF Job, JobOK, rows
  <2>2. CASE /\ link[u] # NoLink
             /\ job' = [phase |-> "fetch", by |-> job.by, todo |-> job.todo \ {u},
                        user |-> u, stamp |-> remote[u].stamp, link |-> link[u]]
    <3>1. link[u] \in Link /\ remote[u].stamp \in Nat
      BY <2>2 DEF IInv, TypeOK
    <3>2. job' \in Job
      BY <1>2, <2>2, <3>1 DEF Job
    <3> QED BY <1>1, <1>2, <2>2, <3>2 DEF JobOK, rows
  <2> QED BY <2>1, <2>2 DEF Fetch
<1>4. run' \in [Runs -> Row]
  BY BeatType DEF Fetch, IInv, TypeOK, Row
<1>5. TypeOK'
  BY <1>1, <1>3, <1>4 DEF IInv, rows, nightly, TypeOK, Row
<1>6. Budget'
  BY <1>1, <1>3, BudgetOutsideQuiet, CountedStays DEF rows, nightly
<1> QED BY <1>1, <1>3, <1>5, <1>6, RowsKept DEF IInv, rows

\* The version turned in is queued; what it pushes out is no draft, and a failure
\* that counted is lost.
LEMMA StoreStep ==
    ASSUME IInv, Store
    PROVE  IInv' /\ DraftKept
<1> DEFINE u == job.user
           k == remote[u].content
           v == Ingested(works[u], k, job.stamp, job.link)
           gone == {x \in Counted : /\ x[1] = u /\ x[2] # k
                                    /\ works[u][x[2]].status = "FAILED"}
<1>1. /\ job.phase = "fetch" /\ works' = [works EXCEPT ![u] = v]
      /\ latest' = [latest EXCEPT ![u] = k]
      /\ lost' = lost + Cardinality(gone)
      /\ job' = [phase |-> "works", by |-> job.by, todo |-> job.todo]
      /\ run' = Beat(job.by)
      /\ UNCHANGED <<remote, link, linked, active, night, fired, jobs, page, seen, bounds>>
  BY DEF Store
<1>2. /\ job \in [phase : {"fetch"}, by : Runs \cup {Nobody}, todo : SUBSET Users,
                  user : Users, stamp : Nat, link : Link]
      /\ k \in Contents /\ u \in Users
      /\ \A x \in job.todo : remote[x].content \in Contents
  BY <1>1, JobShape DEF IInv, JobOK
<1>3. \A x \in Users : works[x] \in [Contents -> Work \cup {NoWork}]
  BY DEF IInv, TypeOK
<1>4. /\ v \in [Contents -> Work \cup {NoWork}]
      /\ v[k] # NoWork /\ v[k].status # "SUPERSEDED"
      /\ works[u][k] # NoWork /\ works[u][k].status # "SUPERSEDED" =>
            v[k].status = works[u][k].status /\ v[k].touched = works[u][k].touched
      /\ \A c \in Contents :
            /\ Moves(works[u][c], v[c])
            /\ c # k /\ works[u][c] = NoWork => v[c] = NoWork
            /\ c # k => v[c] = works[u][c]
                        \/ (works[u][c].status \in Supersedable /\ v[c].status = "SUPERSEDED")
  BY <1>2, <1>3, IngestedMoves DEF IInv
<1>5. /\ works' \in [Users -> [Contents -> Work \cup {NoWork}]]
      /\ works'[u] = v /\ \A x \in Users \ {u} : works'[x] = works[x]
  BY <1>1, <1>2, <1>4 DEF IInv, TypeOK
<1>6. /\ latest' \in [Users -> Contents \cup {Nobody}] /\ latest'[u] = k
      /\ \A x \in Users \ {u} : latest'[x] = latest[x]
  BY <1>1, <1>2 DEF IInv, TypeOK
<1>13. \A x \in Users, c \in Contents :
           <<x, c>> \in gone <=> <<x, c>> \in Counted /\ x = u /\ c # k
                                /\ works[u][c].status = "FAILED"
  OBVIOUS
<1>14. gone \in SUBSET Counted
  OBVIOUS
<1> HIDE DEF u, k, v, gone
<1>7. job' \in Job /\ JobOK' /\ job'.phase = "works"
  <2>1. job' \in Job
    BY <1>1, <1>2 DEF Job
  <2> QED BY <1>1, <1>2, <2>1 DEF JobOK
<1>11. Counted \ gone \subseteq Counted'
  <2>1. ASSUME NEW x \in Users, NEW c \in Contents, <<x, c>> \in Counted \ gone
        PROVE  <<x, c>> \in Counted'
    <3>1. /\ works[x][c] # NoWork /\ works[x][c].touched = night
          /\ works[x][c].status \in {"DONE", "FAILED"}
      BY <2>1, CountedIs
    <3>2. CASE x # u
      BY <1>1, <1>5, <3>1, <3>2, CountedIs
    <3>3. CASE x = u /\ c = k
      BY <1>1, <1>4, <1>5, <3>1, <3>3, CountedIs
    <3>4. CASE x = u /\ c # k
      <4>1. works[u][c].status = "DONE"
        BY <1>13, <2>1, <3>1, <3>4
      <4>2. v[c] = works[u][c]
        BY <1>4, <3>4, <4>1 DEF Supersedable
      <4> QED BY <1>1, <1>5, <3>1, <3>4, <4>2, CountedIs
    <3> QED BY <3>2, <3>3, <3>4
  <2>2. Counted \subseteq Users \X Contents
    BY DEF Counted
  <2> QED BY <2>1, <2>2
<1>12. Budget' /\ lost' \in Nat
  BY <1>1, <1>7, <1>11, <1>14, BudgetOutside
<1>8. TypeOK'
  BY <1>1, <1>5, <1>6, <1>7, <1>12, BeatType DEF IInv, TypeOK, Row
<1>9. \A x \in Users, c \in Contents : Moves(works[x][c], works'[x][c])
  <2>1. \A x \in Users, c \in Contents : Moves(works[x][c], works[x][c])
    BY <1>3 DEF Moves
  <2> QED BY <1>4, <1>5, <2>1
<1>10. LatestIsLive'
  <2> SUFFICES ASSUME NEW x \in Users, Has(x, latest[x])'
               PROVE  works'[x][latest'[x]].status # "SUPERSEDED"
    BY DEF LatestIsLive
  <2>1. CASE x = u
    BY <1>4, <1>5, <1>6, <2>1
  <2>2. CASE x # u
    BY <1>5, <1>6, <2>2 DEF IInv, LatestIsLive, Has
  <2> QED BY <2>1, <2>2
<1> QED BY <1>1, <1>7, <1>8, <1>9, <1>10, <1>12, MovesKeep DEF IInv, PageWasSeen

LEMMA SkipWorkStep ==
    ASSUME IInv, SkipWork
    PROVE  IInv' /\ DraftKept
<1>1. /\ job.phase = "fetch" /\ run' = Beat(job.by)
      /\ job' = [phase |-> "works", by |-> job.by, todo |-> job.todo]
      /\ UNCHANGED <<rows, linked, active, nightly, page, seen>>
  BY DEF SkipWork
<1>2. job' \in Job /\ JobOK' /\ job'.phase = "works"
  <2>1. job' \in Job
    BY <1>1, JobShape DEF IInv, Job
  <2> QED BY <1>1, <2>1 DEF IInv, JobOK, rows
<1>3. TypeOK'
  BY <1>1, <1>2, BeatType DEF IInv, rows, nightly, TypeOK, Row
<1>4. Budget'
  BY <1>1, <1>2, BudgetOutsideQuiet, CountedStays DEF rows, nightly
<1> QED BY <1>1, <1>2, <1>3, <1>4, RowsKept DEF IInv, rows

\* The three ways an ingest ends.
LEMMA IngestEnds ==
    ASSUME IInv, job.phase \in {"roster", "works", "fetch"},
           NEW b \in {"DONE", "FAILED"}, AfterIngest(b), active' \in BOOLEAN,
           UNCHANGED <<rows, linked, nightly, page, seen>>
    PROVE  IInv' /\ DraftKept
<1>1. job.by \in Runs \cup {Nobody}
  BY JobShape DEF IInv
<1>2. /\ job' \in {Idle, [phase |-> "list", by |-> job.by]}
      /\ run' \in [Runs -> Row]
  BY RunTypes DEF AfterIngest, IInv, TypeOK, Row
<1>3. job' \in Job /\ JobOK' /\ job'.phase \in {"idle", "list"}
  BY <1>1, <1>2 DEF Job, JobOK, Idle
<1>4. TypeOK'
  BY <1>2, <1>3 DEF IInv, rows, nightly, TypeOK, Row
<1>5. Budget'
  BY <1>3, BudgetOutsideQuiet, CountedStays DEF rows, nightly
<1> QED BY <1>3, <1>4, <1>5, RowsKept DEF IInv, rows

LEMMA IngestEndsStep ==
    ASSUME IInv, FinishIngest \/ NothingToIngest \/ \E b \in BOOLEAN : GoogleFails(b)
    PROVE  IInv' /\ DraftKept
<1>1. CASE FinishIngest
  BY <1>1, IngestEnds DEF FinishIngest, IInv, TypeOK
<1>2. CASE NothingToIngest
  BY <1>2, IngestEnds DEF NothingToIngest, IInv, TypeOK
<1>3. CASE \E b \in BOOLEAN : GoogleFails(b)
  BY <1>3, IngestEnds DEF GoogleFails, IInv, TypeOK
<1> QED BY <1>1, <1>2, <1>3

-----------------------------------------------------------------------------
(* The nightly job.                                                        *)

\* A reaped work fails tonight: it counts, and it was no draft.
LEMMA ReapedWorks ==
    ASSUME TypeOK, NEW hour \in BOOLEAN, NEW u \in Users, NEW c \in Contents
    PROVE  LET w == works[u][c]
               v == Reaped(hour)[u][c]
           IN  /\ v \in Work \cup {NoWork} /\ Keeps(w, v)
               /\ \/ v = w
                  \/ /\ w # NoWork /\ w.status = "RUNNING" /\ v # NoWork
                     /\ v.status = "FAILED" /\ v.touched = night
<1> DEFINE w == works[u][c]
           v == Reaped(hour)[u][c]
<1>1. v = IF /\ Has(u, c) /\ w.status = "RUNNING"
             /\ w.touched < night \/ hour
          THEN Failed(w) ELSE w
  BY DEF Reaped
<1>2. w \in Work \/ w = NoWork
  BY WorkShape
<1> HIDE DEF v, w
<1>3. CASE v = w
  BY <1>2, <1>3 DEF Keeps, Moves, v, w
<1>4. CASE v # w
  <2>1. w \in Work /\ w # NoWork /\ w.status = "RUNNING" /\ v = Failed(w)
    BY <1>1, <1>2, <1>4, NoWorkIsNone
  <2>2. v \in Work /\ v.status = "FAILED" /\ v.touched = night /\ v.approved = w.approved
    <3>1. night \in Nat
      BY DEF TypeOK
    <3>2. v = [w EXCEPT !.status = "FAILED", !.attempts = w.attempts + 1, !.touched = night]
      BY <2>1 DEF Failed
    <3>3. w.attempts + 1 \in Nat
      BY <2>1 DEF Work
    <3> QED BY <2>1, <3>1, <3>2, <3>3 DEF Work, Statuses
  <2> QED BY <2>1, <2>2, NoWorkIsNone DEF Keeps, Moves, v, w
<1> QED BY <1>3, <1>4

LEMMA NightlyBeginStep ==
    ASSUME IInv, NEW hour \in BOOLEAN, NightlyBegin(hour)
    PROVE  IInv' /\ DraftKept
<1>1. /\ job = Idle /\ works' = Reaped(hour) /\ job' = [phase |-> "roster", by |-> Nobody]
      /\ UNCHANGED <<remote, link, latest, linked, active, run, night, jobs, lost,
                     page, seen, bounds>>
  BY DEF NightlyBegin
<1>2. works' \in [Users -> [Contents -> Work \cup {NoWork}]]
  BY <1>1, ReapedWorks DEF IInv, Reaped
<1>3. job' \in Job /\ JobOK' /\ job'.phase = "roster" /\ job.phase = "idle"
  BY <1>1 DEF Job, JobOK, Idle
<1>4. TypeOK'
  BY <1>1, <1>2, <1>3 DEF IInv, TypeOK
<1>5. \A u \in Users, c \in Contents : Keeps(works[u][c], works'[u][c])
  BY <1>1, ReapedWorks DEF IInv
<1>6. Counted \subseteq Counted'
  <2>1. ASSUME NEW u \in Users, NEW c \in Contents, <<u, c>> \in Counted
        PROVE  <<u, c>> \in Counted'
    <3>1. works[u][c].status \in {"DONE", "FAILED"}
      BY <2>1, CountedIs
    <3>2. works'[u][c] = works[u][c]
      BY <1>1, <3>1, ReapedWorks DEF IInv
    <3> QED BY <1>1, <2>1, <3>2, CountedIs
  <2> QED BY <2>1 DEF Counted
<1>7. Budget'
  BY <1>1, <1>3, <1>6, BudgetOutsideQuiet
<1> QED BY <1>1, <1>3, <1>4, <1>5, <1>7, KeepsKeep DEF IInv, PageWasSeen

\* The list is taken within what the cap leaves.
LEMMA TakeListStep ==
    ASSUME IInv, TakeList
    PROVE  IInv' /\ DraftKept
<1> DEFINE all == {x \in Users \X Contents : IsCandidate(x[1], x[2])}
           left == IF Cap > UsedTonight THEN Cap - UsedTonight ELSE 0
<1>1. /\ job.phase = "list"
      /\ UNCHANGED <<rows, linked, active, run, nightly, page, seen, bounds>>
  BY DEF TakeList
<1>2. PICK list \in SUBSET all :
         /\ Cardinality(list) = IF left < Cardinality(all) THEN left ELSE Cardinality(all)
         /\ job' = [phase |-> "grade", by |-> Nobody, list |-> list, streak |-> 0]
  BY DEF TakeList
<1>3. list \subseteq Users \X Contents /\ IsFiniteSet(all) /\ Cardinality(all) \in Nat
  <2>1. IsFiniteSet(Users \X Contents)
    BY SyncAssumption, FS_Product
  <2>2. IsFiniteSet(all)
    BY <2>1, FS_Subset
  <2> QED BY <2>2, FS_CardinalityType
<1>4. job' \in Job /\ JobOK' /\ job'.phase = "grade" /\ job'.list = list
  BY <1>2, <1>3 DEF Job, JobOK
<1>5. TypeOK'
  BY <1>1, <1>4 DEF IInv, rows, nightly, TypeOK
<1>6. Counted' = Counted
  BY <1>1, CountedStays DEF rows, nightly
<1>7. list \cap Counted = {}
  <2> SUFFICES ASSUME NEW x \in list, x \in Counted PROVE FALSE
    OBVIOUS
  <2>1. PICK u \in Users, c \in Contents : x = <<u, c>>
    BY <1>3
  <2>2. IsCandidate(u, c)
    BY <2>1
  <2>3. works[u][c].touched = night /\ works[u][c].status \in {"DONE", "FAILED"} /\ works[u][c] # NoWork
    BY <2>1, CountedIs
  <2>4. works[u][c].status = "FAILED"
    BY <2>2, <2>3 DEF IsCandidate, Eligible
  <2>5. night < night
    BY <2>2, <2>3, <2>4 DEF IsCandidate
  <2>6. night \in Nat
    BY DEF IInv, TypeOK
  <2> QED BY <2>5, <2>6
<1>8. UsedTonight = Cardinality(Counted)
  BY DEF UsedTonight
<1>9. Budget'
  <2> SUFFICES /\ jobs <= Cap + lost /\ jobs <= Cardinality(Counted) + lost
               /\ jobs + Cardinality(list) <= Cap + lost
    BY <1>1, <1>4, <1>6, <1>7, CountedIsFinite DEF Budget, nightly, IInv, TypeOK
  <2>1. /\ jobs <= Cap + lost /\ jobs <= Cardinality(Counted) + lost
        /\ jobs \in Nat /\ lost \in Nat
    BY <1>1, CountedIsFinite DEF IInv, Budget, TypeOK
  <2>2. Cardinality(list) <= left
    BY <1>2, <1>3, <1>8, CountedIsFinite, SyncAssumption
  <2>3. Cardinality(list) \in Nat
    BY <1>2, <1>3, <1>8, CountedIsFinite, SyncAssumption
  <2> QED BY <1>8, <2>1, <2>2, <2>3, CountedIsFinite, SyncAssumption
<1> QED BY <1>1, <1>4, <1>5, <1>9, RowsKept DEF IInv, rows

LEMMA TakeJobStep ==
    ASSUME IInv, NEW u \in Users, NEW k \in Contents, TakeJob(u, k)
    PROVE  IInv' /\ DraftKept
<1>1. /\ job.phase = "grade" /\ <<u, k>> \in job.list
      /\ UNCHANGED <<remote, link, latest, linked, active, run, night, fired, lost,
                     page, seen, bounds>>
  BY DEF TakeJob
<1>2. /\ job \in [phase : {"grade"}, by : {Nobody}, streak : Nat,
                  list : SUBSET (Users \X Contents)]
      /\ IsFiniteSet(job.list)
  <2>1. job \in [phase : {"grade"}, by : {Nobody}, streak : Nat,
                 list : SUBSET (Users \X Contents)]
    BY <1>1, JobShape DEF IInv
  <2> QED BY <2>1, SyncAssumption, FS_Product, FS_Subset
<1>3. /\ Cardinality(job.list) \in Nat
      /\ Cardinality(job.list \ {<<u, k>>}) = Cardinality(job.list) - 1
  BY <1>1, <1>2, FS_CardinalityType, FS_RemoveElement
<1>4. CASE /\ InScope(u, k) /\ Eligible(u, k)
           /\ works' = [works EXCEPT ![u][k].status = "RUNNING", ![u][k].touched = night]
           /\ job' = [phase |-> "judge", by |-> Nobody, list |-> job.list \ {<<u, k>>},
                      streak |-> job.streak, user |-> u, content |-> k]
           /\ jobs' = jobs + 1
  <2>1. works[u][k] \in Work /\ works[u][k].status \in {"PENDING", "FAILED"}
    BY <1>4, WorkShape, NoWorkIsNone DEF IInv, InScope, Has, Eligible
  <2>2. /\ works'[u][k] = [works[u][k] EXCEPT !.status = "RUNNING", !.touched = night]
        /\ \A x \in Users, c \in Contents : <<x, c>> # <<u, k>> => works'[x][c] = works[x][c]
    BY <1>4 DEF IInv, TypeOK
  <2>3. /\ works'[u][k] \in Work /\ works'[u][k].status = "RUNNING"
        /\ works'[u][k].approved = works[u][k].approved
    BY <2>1, <2>2 DEF Work, Statuses, IInv, TypeOK
  <2>4. works' \in [Users -> [Contents -> Work \cup {NoWork}]]
    <3>1. DOMAIN works' = Users /\ \A x \in Users : works'[x] = [c \in Contents |-> works'[x][c]]
      BY <1>4 DEF IInv, TypeOK
    <3>2. \A x \in Users, c \in Contents : works'[x][c] \in Work \cup {NoWork}
      BY <2>2, <2>3, WorkShape DEF IInv
    <3>3. works' = [x \in Users |-> works'[x]]
      BY <1>4 DEF IInv, TypeOK
    <3> QED BY <3>1, <3>2, <3>3
  <2>5. job' \in Job /\ JobOK' /\ job'.phase = "judge" /\ job'.list = job.list \ {<<u, k>>}
    <3>1. job' \in Job
      BY <1>2, <1>4 DEF Job
    <3>2. works'[u][k] # NoWork
      BY <2>3, NoWorkIsNone
    <3> QED BY <1>4, <2>3, <3>1, <3>2 DEF JobOK
  <2>6. TypeOK'
    BY <1>1, <1>4, <2>4, <2>5 DEF IInv, TypeOK
  <2>7. \A x \in Users, c \in Contents : Keeps(works[x][c], works'[x][c])
    <3>1. Keeps(works[u][k], works'[u][k])
      BY <2>1, <2>3, NoWorkIsNone DEF Keeps, Moves
    <3>2. \A x \in Users, c \in Contents : Keeps(works[x][c], works[x][c])
      BY WorkShape DEF Keeps, Moves, IInv
    <3> QED BY <2>2, <3>1, <3>2
  <2>8. Counted' = Counted
    <3>1. <<u, k>> \notin Counted
      BY <1>1 DEF IInv, Budget
    <3>2. <<u, k>> \notin Counted'
      BY <2>3, CountedIs
    <3>3. \A x \in Users, c \in Contents : <<x, c>> \in Counted' <=> <<x, c>> \in Counted
      BY <1>1, <2>2, <3>1, <3>2, CountedIs
    <3>4. Counted \subseteq Users \X Contents /\ Counted' \subseteq Users \X Contents
      BY DEF Counted
    <3> QED BY <3>3, <3>4
  <2>9. Budget'
    <3> SUFFICES /\ jobs + 1 <= Cap + lost /\ jobs + 1 <= Cardinality(Counted) + lost + 1
                 /\ (jobs + 1) + Cardinality(job.list \ {<<u, k>>}) <= Cap + lost
                 /\ (job.list \ {<<u, k>>}) \cap Counted = {}
      BY <1>1, <1>4, <2>5, <2>8 DEF Budget
    <3>1. /\ jobs <= Cardinality(Counted) + lost /\ jobs \in Nat /\ lost \in Nat
          /\ jobs + Cardinality(job.list) <= Cap + lost /\ job.list \cap Counted = {}
      BY <1>1, CountedIsFinite DEF IInv, Budget, TypeOK
    <3>2. Cardinality(job.list \ {<<u, k>>}) \in Nat
      BY <1>2, FS_RemoveElement, FS_CardinalityType
    <3> QED BY <1>3, <3>1, <3>2, CountedIsFinite, SyncAssumption
  <2> QED BY <1>1, <2>5, <2>6, <2>7, <2>9, KeepsKeep DEF IInv, PageWasSeen
<1>5. CASE job' = [job EXCEPT !.list = @ \ {<<u, k>>}] /\ UNCHANGED <<works, jobs>>
  <2>1. /\ job' \in [phase : {"grade"}, by : {Nobody}, streak : Nat,
                     list : SUBSET (Users \X Contents)]
        /\ job'.list = job.list \ {<<u, k>>} /\ job'.phase = "grade"
    BY <1>2, <1>5
  <2>2. job' \in Job
    BY <2>1 DEF Job
  <2>3. TypeOK' /\ JobOK'
    BY <1>1, <1>5, <2>1, <2>2 DEF IInv, TypeOK, JobOK
  <2>4. Counted' = Counted
    BY <1>1, <1>5, CountedStays
  <2>5. Budget'
    BY <1>1, <1>3, <1>5, <2>1, <2>4, SyncAssumption, CountedIsFinite DEF IInv, Budget, TypeOK
  <2> QED BY <1>1, <1>5, <2>3, <2>5, RowsKept DEF IInv
<1> QED BY <1>4, <1>5 DEF TakeJob

\* The judge's answer turns the work being judged into one that counts.
LEMMA JudgeStep ==
    ASSUME IInv, NEW outcome, Judge(outcome)
    PROVE  IInv' /\ DraftKept
<1> DEFINE u == job.user
           k == job.content
           w == works[u][k]
           v == CASE outcome = "done" -> [w EXCEPT !.status = "DONE", !.touched = night]
                  [] outcome = "no_files" -> [w EXCEPT !.status = "FAILED",
                                                 !.attempts = MaxAttempts, !.touched = night]
                  [] OTHER -> Failed(w)
<1>1. /\ job.phase = "judge" /\ works' = [works EXCEPT ![u][k] = v]
      /\ job' = [phase |-> "grade", by |-> Nobody, list |-> job.list,
                 streak |-> IF outcome = "judge_error" THEN job.streak + 1 ELSE 0]
      /\ UNCHANGED <<remote, link, latest, linked, active, run, nightly, page, seen, bounds>>
  BY DEF Judge
<1>2. /\ job \in [phase : {"judge"}, by : {Nobody}, streak : Nat, user : Users,
                  list : SUBSET (Users \X Contents), content : Contents]
      /\ u \in Users /\ k \in Contents
  BY <1>1, JobShape DEF IInv
<1>3. w \in Work /\ w.status = "RUNNING" /\ <<u, k>> \notin job.list
  BY <1>1, <1>2, WorkShape DEF IInv, JobOK
<1> HIDE DEF u, k, w
<1>4. /\ v \in Work /\ v.status \in {"DONE", "FAILED"} /\ v.touched = night
      /\ v.approved = w.approved
  <2>1. night \in Nat /\ MaxAttempts \in Nat /\ w.attempts + 1 \in Nat
    BY <1>3, SyncAssumption DEF IInv, TypeOK, Work
  <2>2. CASE outcome = "done"
    <3>1. v = [w EXCEPT !.status = "DONE", !.touched = night]
      BY <2>2
    <3> QED BY <1>3, <2>1, <3>1 DEF Work, Statuses
  <2>3. CASE outcome = "no_files"
    <3>1. v = [w EXCEPT !.status = "FAILED", !.attempts = MaxAttempts, !.touched = night]
      BY <2>3
    <3> QED BY <1>3, <2>1, <3>1 DEF Work, Statuses
  <2>4. CASE outcome \notin {"done", "no_files"}
    <3>1. v = [w EXCEPT !.status = "FAILED", !.attempts = w.attempts + 1, !.touched = night]
      BY <2>4 DEF Failed
    <3> QED BY <1>3, <2>1, <3>1 DEF Work, Statuses
  <2> QED BY <2>2, <2>3, <2>4
<1> HIDE DEF v
<1>5. /\ works'[u][k] = v
      /\ \A x \in Users, c \in Contents : <<x, c>> # <<u, k>> => works'[x][c] = works[x][c]
  BY <1>1, <1>2 DEF IInv, TypeOK
<1>6. works' \in [Users -> [Contents -> Work \cup {NoWork}]]
  BY <1>1, <1>2, <1>4 DEF IInv, TypeOK
<1>7. job' \in Job /\ JobOK' /\ job'.phase = "grade" /\ job'.list = job.list
  <2>1. job.streak + 1 \in Nat
    BY <1>2
  <2>2. job' \in Job
    BY <1>1, <1>2, <2>1 DEF Job
  <2> QED BY <1>1, <2>2 DEF JobOK
<1>8. TypeOK'
  BY <1>1, <1>6, <1>7 DEF IInv, TypeOK, nightly
<1>9. \A x \in Users, c \in Contents : Keeps(works[x][c], works'[x][c])
  <2>1. Keeps(works[u][k], works'[u][k])
    BY <1>3, <1>4, <1>5, NoWorkIsNone DEF Keeps, Moves, w
  <2>2. \A x \in Users, c \in Contents : Keeps(works[x][c], works[x][c])
    BY WorkShape DEF Keeps, Moves, IInv
  <2> QED BY <1>5, <2>1, <2>2
<1>10. Counted' = Counted \cup {<<u, k>>} /\ <<u, k>> \notin Counted
  <2>1. <<u, k>> \notin Counted
    BY <1>2, <1>3, CountedIs DEF w
  <2>2. <<u, k>> \in Counted'
    BY <1>1, <1>2, <1>4, <1>5, CountedIs, NoWorkIsNone DEF nightly
  <2>3. \A x \in Users, c \in Contents :
           <<x, c>> # <<u, k>> => (<<x, c>> \in Counted' <=> <<x, c>> \in Counted)
    BY <1>1, <1>5, CountedIs DEF nightly
  <2>4. Counted \subseteq Users \X Contents /\ Counted' \subseteq Users \X Contents
    BY DEF Counted
  <2> QED BY <2>1, <2>2, <2>3, <2>4
<1>11. Cardinality(Counted') = Cardinality(Counted) + 1
  BY <1>10, CountedIsFinite, FS_AddElement
<1>12. Budget'
  <2> SUFFICES /\ jobs <= Cap + lost /\ jobs <= Cardinality(Counted) + lost + 1
               /\ jobs + Cardinality(job.list) <= Cap + lost
               /\ job.list \cap Counted' = {}
    BY <1>1, <1>7, <1>11, CountedIsFinite DEF Budget, nightly, IInv, TypeOK
  <2>1. /\ jobs <= Cap + lost /\ jobs <= Cardinality(Counted) + lost + 1
        /\ jobs + Cardinality(job.list) <= Cap + lost /\ job.list \cap Counted = {}
    BY <1>1 DEF IInv, Budget
  <2> QED BY <1>3, <1>10, <2>1
<1> QED BY <1>1, <1>7, <1>8, <1>9, <1>12, KeepsKeep DEF IInv, PageWasSeen, nightly

\* The result of the judge is lost, or a work leaves the list untried.
LEMMA JobErrorStep ==
    ASSUME IInv, JobError
    PROVE  IInv' /\ DraftKept
<1>1. UNCHANGED <<rows, linked, active, run, night, fired, jobs, page, seen>>
  BY DEF JobError
<1>2. Counted' = Counted
  BY <1>1, CountedStays DEF rows
<1>3. jobs \in Nat /\ lost \in Nat /\ Cap \in Nat
  BY SyncAssumption DEF IInv, TypeOK
<1>4. CASE /\ job.phase = "grade" /\ lost' = lost
           /\ \E x \in job.list : job' = [job EXCEPT !.list = @ \ {x}]
  <2>1. PICK x \in job.list : job' = [job EXCEPT !.list = @ \ {x}]
    BY <1>4
  <2>2. /\ job \in [phase : {"grade"}, by : {Nobody}, streak : Nat,
                    list : SUBSET (Users \X Contents)]
        /\ IsFiniteSet(job.list)
    <3>1. job \in [phase : {"grade"}, by : {Nobody}, streak : Nat,
                   list : SUBSET (Users \X Contents)]
      BY <1>4, JobShape DEF IInv
    <3> QED BY <3>1, SyncAssumption, FS_Product, FS_Subset
  <2>3. /\ job' \in [phase : {"grade"}, by : {Nobody}, streak : Nat,
                     list : SUBSET (Users \X Contents)]
        /\ job'.list = job.list \ {x} /\ job'.phase = "grade"
    BY <2>1, <2>2
  <2>4. job' \in Job
    BY <2>3 DEF Job
  <2>5. TypeOK' /\ JobOK'
    BY <1>1, <1>4, <2>3, <2>4 DEF IInv, TypeOK, JobOK, rows
  <2>6. /\ Cardinality(job.list) \in Nat
        /\ Cardinality(job.list \ {x}) = Cardinality(job.list) - 1
    BY <2>2, FS_CardinalityType, FS_RemoveElement
  <2>7. Budget'
    <3> SUFFICES /\ jobs <= Cap + lost /\ jobs <= Cardinality(Counted) + lost + 0
                 /\ jobs + (Cardinality(job.list) - 1) <= Cap + lost
                 /\ (job.list \ {x}) \cap Counted = {}
      BY <1>1, <1>2, <1>4, <2>3, <2>6 DEF Budget
    <3>1. /\ jobs <= Cap + lost /\ jobs <= Cardinality(Counted) + lost + 0
          /\ jobs + Cardinality(job.list) <= Cap + lost /\ job.list \cap Counted = {}
      BY <1>4 DEF IInv, Budget
    <3> QED BY <1>3, <2>6, <3>1
  <2> QED BY <1>1, <2>5, <2>7, RowsKept DEF IInv, rows
<1>5. CASE /\ job.phase = "judge" /\ lost' = lost + 1
           /\ job' = [phase |-> "grade", by |-> Nobody, list |-> job.list,
                      streak |-> job.streak]
  <2>1. job \in [phase : {"judge"}, by : {Nobody}, streak : Nat, user : Users,
                 list : SUBSET (Users \X Contents), content : Contents]
    BY <1>5, JobShape DEF IInv
  <2>2. job' \in Job /\ JobOK' /\ job'.phase = "grade" /\ job'.list = job.list
    BY <1>5, <2>1 DEF Job, JobOK
  <2>3. TypeOK'
    BY <1>1, <1>3, <1>5, <2>2 DEF IInv, TypeOK, rows
  <2>4. Cardinality(job.list) \in Nat
    BY <2>1, SyncAssumption, FS_Product, FS_Subset, FS_CardinalityType
  <2>5. Budget'
    <3> SUFFICES /\ jobs <= Cap + (lost + 1) /\ jobs <= Cardinality(Counted) + (lost + 1) + 0
                 /\ jobs + Cardinality(job.list) <= Cap + (lost + 1)
                 /\ job.list \cap Counted = {}
      BY <1>1, <1>2, <1>5, <2>2 DEF Budget
    <3>1. /\ jobs <= Cap + lost /\ jobs <= Cardinality(Counted) + lost + 1
          /\ jobs + Cardinality(job.list) <= Cap + lost /\ job.list \cap Counted = {}
      BY <1>5 DEF IInv, Budget
    <3> QED BY <1>3, <2>4, <3>1, CountedIsFinite
  <2> QED BY <1>1, <2>2, <2>3, <2>5, RowsKept DEF IInv, rows
<1> QED BY <1>4, <1>5 DEF JobError

LEMMA NightlyEndStep ==
    ASSUME IInv, NightlyEnd
    PROVE  IInv' /\ DraftKept
<1>1. job.phase = "grade" /\ job' = Idle
  BY DEF NightlyEnd
<1>2. job' \in Job /\ JobOK' /\ job'.phase = "idle"
  BY <1>1 DEF Job, JobOK, Idle
<1>3. TypeOK'
  BY <1>2 DEF IInv, NightlyEnd, rows, nightly, TypeOK
<1>4. Budget'
  BY <1>1, <1>2, BudgetOutsideQuiet, CountedStays DEF NightlyEnd, rows, nightly
<1> QED BY <1>2, <1>3, <1>4, RowsKept DEF IInv, NightlyEnd, rows

LEMMA NextNightStep ==
    ASSUME IInv, NextNight
    PROVE  IInv' /\ DraftKept
<1>1. job'.phase = "idle" /\ jobs' = 0 /\ lost' = 0
  BY DEF NextNight, Idle
<1>2. TypeOK' /\ JobOK'
  BY DEF IInv, NextNight, rows, TypeOK, JobOK
<1>3. Budget'
  BY <1>1, CountedIsFinite, SyncAssumption DEF Budget
<1> QED BY <1>2, <1>3, RowsKept DEF IInv, NextNight, rows

LEMMA CrashStep ==
    ASSUME IInv, Crash
    PROVE  IInv' /\ DraftKept
<1>1. job' \in Job /\ JobOK' /\ job'.phase = "idle"
  BY DEF Crash, Job, JobOK, Idle
<1>4. /\ jobs \in Nat /\ lost \in Nat /\ lost' \in Nat /\ jobs' = jobs
      /\ lost' = IF job.phase = "judge" THEN lost + 1 ELSE lost
  BY DEF IInv, TypeOK, Crash
<1>2. TypeOK'
  BY <1>1, <1>4 DEF IInv, Crash, rows, TypeOK
<1>3. Budget'
  <2>1. Counted' = Counted
    BY CountedStays DEF Crash, rows
  <2>2. /\ jobs <= Cap + lost
        /\ jobs <= Cardinality(Counted) + lost + (IF job.phase = "judge" THEN 1 ELSE 0)
    BY DEF IInv, Budget
  <2>3. jobs <= Cap + lost' /\ jobs <= Cardinality(Counted) + lost' + 0
    BY <1>4, <2>2, CountedIsFinite, SyncAssumption
  <2> QED BY <1>1, <1>4, <2>1, <2>3 DEF Budget
<1> QED BY <1>1, <1>2, <1>3, RowsKept DEF IInv, Crash, rows

-----------------------------------------------------------------------------
(* Students and teachers.                                                  *)

LEMMA TurnInStep ==
    ASSUME IInv, NEW u \in Users, NEW c \in Contents, TurnIn(u, c)
    PROVE  IInv' /\ DraftKept
<1>1. /\ remote' \in [Users -> [content : Contents \cup {Nobody}, stamp : Nat]]
      /\ remote'[u].content = c /\ \A x \in Users \ {u} : remote'[x] = remote[x]
  BY DEF IInv, TurnIn, TypeOK
<1>2. TypeOK'
  BY <1>1 DEF IInv, TurnIn, nightly, TypeOK
<1>3. JobOK'
  <2>1. /\ job.phase \in {"works", "fetch"} => job.todo \subseteq Users
        /\ job.phase = "fetch" => job.user \in Users
    BY JobShape DEF IInv
  <2> QED BY <1>1, <2>1 DEF IInv, TurnIn, JobOK
<1>4. Budget'
  BY BudgetStays, CountedStays DEF TurnIn, nightly
<1> QED BY <1>2, <1>3, <1>4, RowsKept DEF IInv, TurnIn

\* A teacher gives a link a student: what waited for it is queued.
LEMMA LinkStep ==
    ASSUME IInv, NEW u \in Users, link' \in [Users -> Link \cup {NoLink}],
           \A x \in Users : link[x] # NoLink => link'[x] # NoLink,
           works' = [works EXCEPT ![u] = Released(@)],
           UNCHANGED <<remote, latest, linked, active, job, run, nightly, page, seen>>
    PROVE  IInv' /\ DraftKept
<1>1. works[u] \in [Contents -> Work \cup {NoWork}]
  BY DEF IInv, TypeOK
<1>2. /\ works' \in [Users -> [Contents -> Work \cup {NoWork}]]
      /\ works'[u] = Released(works[u]) /\ \A x \in Users \ {u} : works'[x] = works[x]
  BY <1>1, ReleasedKeeps DEF IInv, TypeOK
<1>3. \A x \in Users, c \in Contents :
         /\ Keeps(works[x][c], works'[x][c])
         /\ \/ works'[x][c] = works[x][c]
            \/ /\ works[x][c].status = "WAITING_LINK"
               /\ works'[x][c].status = "PENDING"
  <2>1. \A x \in Users, c \in Contents : Keeps(works[x][c], works[x][c])
    BY WorkShape DEF Keeps, Moves, IInv
  <2> QED BY <1>1, <1>2, <2>1, ReleasedKeeps
<1>4. TypeOK'
  BY <1>2 DEF IInv, TypeOK, nightly
<1>5. JobOK'
  <2>1. job.phase = "judge" => job.user \in Users /\ job.content \in Contents
    BY JobShape DEF IInv
  <2> QED BY <1>3, <2>1 DEF IInv, JobOK
<1>6. Counted' = Counted
  BY <1>3, CountedStays DEF nightly
<1>7. Budget'
  BY <1>6, BudgetStays DEF nightly
<1> QED BY <1>3, <1>4, <1>5, <1>7, KeepsKeep DEF IInv, PageWasSeen

LEMMA ResolveLinkStep ==
    ASSUME IInv, NEW u \in Users,
           ConfirmLink(u) \/ \E s \in Students : ResolveLink(u, s)
    PROVE  IInv' /\ DraftKept
<1>1. link[u] # NoLink /\ link[u] \in Link /\ link \in [Users -> Link \cup {NoLink}]
  BY DEF IInv, TypeOK, ConfirmLink, ResolveLink
<1>2. /\ link' \in [Users -> Link \cup {NoLink}]
      /\ link'[u] \in Link /\ \A x \in Users \ {u} : link'[x] = link[x]
  <2>1. CASE ConfirmLink(u)
    BY <1>1, <2>1 DEF ConfirmLink, Link, Methods
  <2>2. CASE \E s \in Students : ResolveLink(u, s)
    <3>1. PICK s \in Students :
             link' = [link EXCEPT ![u].method = "MANUAL", ![u].confirmed = TRUE,
                                  ![u].student = s]
      BY <2>2 DEF ResolveLink
    <3> QED BY <1>1, <3>1 DEF Link, Methods
  <2> QED BY <2>1, <2>2
<1> QED BY <1>1, <1>2, LinkStep, LinkShape DEF ConfirmLink, ResolveLink

LEMMA IgnoreLinkStep ==
    ASSUME IInv, NEW u \in Users, IgnoreLink(u)
    PROVE  IInv' /\ DraftKept
<1>1. link[u] # NoLink /\ link[u] \in Link /\ link \in [Users -> Link \cup {NoLink}]
  BY DEF IInv, TypeOK, IgnoreLink
<1>2. /\ link' \in [Users -> Link \cup {NoLink}]
      /\ link'[u] \in Link /\ \A x \in Users \ {u} : link'[x] = link[x]
  BY <1>1 DEF IgnoreLink, Link, Methods
<1>3. TypeOK' /\ JobOK'
  BY <1>2, LinkShape DEF IInv, IgnoreLink, TypeOK, JobOK, nightly
<1>4. Budget'
  BY BudgetStays, CountedStays DEF IgnoreLink, nightly
<1> QED BY <1>3, <1>4, RowsKept DEF IInv, IgnoreLink

LEMMA ConfirmAllLinksStep ==
    ASSUME IInv, ConfirmAllLinks
    PROVE  IInv' /\ DraftKept
<1>1. PICK chosen \in SUBSET Confirmable :
         link' = [u \in Users |-> IF u \in chosen
                    THEN [link[u] EXCEPT !.method = "MANUAL", !.confirmed = TRUE]
                    ELSE link[u]]
  BY DEF ConfirmAllLinks
<1>2. /\ link' \in [Users -> Link \cup {NoLink}]
      /\ \A x \in Users : link[x] # NoLink => link'[x] # NoLink
  <2>1. ASSUME NEW x \in Users
        PROVE  link'[x] \in Link \cup {NoLink} /\ (link[x] # NoLink => link'[x] # NoLink)
    <3>1. CASE x \in chosen
      <4>1. link[x] \in Link /\ link'[x] = [link[x] EXCEPT !.method = "MANUAL", !.confirmed = TRUE]
        BY <1>1, <3>1 DEF Confirmable, IInv, TypeOK
      <4>2. link'[x] \in Link
        BY <4>1 DEF Link, Methods
      <4> QED BY <4>2, LinkShape
    <3>2. CASE x \notin chosen
      BY <1>1, <3>2 DEF IInv, TypeOK
    <3> QED BY <3>1, <3>2
  <2> QED BY <1>1, <2>1
<1>3. TypeOK' /\ JobOK'
  BY <1>2 DEF IInv, ConfirmAllLinks, TypeOK, JobOK, nightly
<1>4. Budget'
  BY BudgetStays, CountedStays DEF ConfirmAllLinks, nightly
<1> QED BY <1>3, <1>4, RowsKept DEF IInv, ConfirmAllLinks

\* A failed grading goes back into the queue: if it counted, it is lost.
LEMMA RetryGradingStep ==
    ASSUME IInv, NEW u \in Users, NEW k \in Contents, RetryGrading(u, k)
    PROVE  IInv' /\ DraftKept
<1>1. works[u][k] \in Work /\ works[u][k].status = "FAILED"
  BY WorkShape, NoWorkIsNone DEF IInv, RetryGrading, Has
<1> DEFINE w == works[u][k]
           v == [w EXCEPT !.status = "PENDING", !.attempts = 0]
<1>2. works' = [works EXCEPT ![u] = [works[u] EXCEPT ![k] = v]]
  BY DEF IInv, TypeOK, RetryGrading
<1> HIDE DEF w
<1>3. v \in Work /\ v.status = "PENDING" /\ v.approved = w.approved
  BY <1>1 DEF w, Work, Statuses
<1> HIDE DEF v
<1>4. /\ works' \in [Users -> [Contents -> Work \cup {NoWork}]] /\ works'[u][k] = v
      /\ \A x \in Users, c \in Contents : <<x, c>> # <<u, k>> => works'[x][c] = works[x][c]
  <2>1. works \in [Users -> [Contents -> Work \cup {NoWork}]]
    BY DEF IInv, TypeOK
  <2> QED BY <1>2, <1>3, <2>1
<1>9. /\ UNCHANGED <<night, job, jobs>> /\ lost \in Nat /\ jobs \in Nat /\ lost' \in Nat
      /\ lost' = IF <<u, k>> \in Counted THEN lost + 1 ELSE lost
  BY DEF RetryGrading, IInv, TypeOK
<1>5. TypeOK'
  BY <1>4, <1>9 DEF IInv, RetryGrading, TypeOK
<1>6. JobOK'
  <2>1. job.phase = "judge" => /\ job.user \in Users /\ job.content \in Contents
                               /\ <<job.user, job.content>> # <<u, k>>
    BY <1>1, JobShape DEF IInv, JobOK
  <2> QED BY <1>4, <2>1 DEF IInv, JobOK, RetryGrading
<1>7. \A x \in Users, c \in Contents : Keeps(works[x][c], works'[x][c])
  <2>1. Keeps(works[u][k], works'[u][k])
    BY <1>1, <1>3, <1>4, NoWorkIsNone DEF Keeps, Moves, w
  <2>2. \A x \in Users, c \in Contents : Keeps(works[x][c], works[x][c])
    BY WorkShape DEF Keeps, Moves, IInv
  <2> QED BY <1>4, <2>1, <2>2
<1>10. Counted' = Counted \ {<<u, k>>}
  <2>1. <<u, k>> \notin Counted'
    BY <1>3, <1>4, CountedIs
  <2>2. \A x \in Users, c \in Contents :
           <<x, c>> # <<u, k>> => (<<x, c>> \in Counted' <=> <<x, c>> \in Counted)
    BY <1>4, <1>9, CountedIs
  <2>3. Counted \subseteq Users \X Contents /\ Counted' \subseteq Users \X Contents
    BY DEF Counted
  <2> QED BY <2>1, <2>2, <2>3
<1>11. Cardinality(Counted) + lost <= Cardinality(Counted') + lost'
  <2>1. CASE <<u, k>> \in Counted
    BY <1>9, <1>10, <2>1, CountedIsFinite, FS_RemoveElement
  <2>2. CASE <<u, k>> \notin Counted
    <3>1. Counted' = Counted
      BY <1>10, <2>2
    <3> QED BY <1>9, <2>2, <3>1, CountedIsFinite
  <2> QED BY <2>1, <2>2
<1>8. Budget'
  <2> DEFINE one == IF job.phase = "judge" THEN 1 ELSE 0
  <2>1. /\ jobs <= Cap + lost /\ jobs <= Cardinality(Counted) + lost + one
        /\ job.phase \in {"grade", "judge"} =>
              jobs + Cardinality(job.list) <= Cap + lost /\ job.list \cap Counted = {}
    BY DEF IInv, Budget
  <2>2. one \in Nat /\ lost <= lost' /\ Cap \in Nat
    BY <1>9, SyncAssumption
  <2>3. job.phase \in {"grade", "judge"} => Cardinality(job.list) \in Nat
    <3>1. job.phase \in {"grade", "judge"} => job.list \subseteq Users \X Contents
      BY JobShape DEF IInv
    <3> QED BY <3>1, SyncAssumption, FS_Product, FS_Subset, FS_CardinalityType
  <2> HIDE DEF one
  <2>4. /\ jobs <= Cap + lost' /\ jobs <= Cardinality(Counted') + lost' + one
        /\ job.phase \in {"grade", "judge"} =>
              jobs + Cardinality(job.list) <= Cap + lost' /\ job.list \cap Counted' = {}
    BY <1>9, <1>10, <1>11, <2>1, <2>2, <2>3, CountedIsFinite
  <2> QED BY <1>9, <2>4 DEF Budget, one
<1> QED BY <1>5, <1>6, <1>7, <1>8, KeepsKeep DEF IInv, PageWasSeen, RetryGrading

LEMMA ConnectStep ==
    ASSUME IInv, LinkCoursework \/ Reconnect
    PROVE  IInv' /\ DraftKept
<1>1. /\ linked' \in BOOLEAN /\ active' \in BOOLEAN
      /\ UNCHANGED <<rows, job, run, nightly, page, seen>>
  BY DEF IInv, TypeOK, LinkCoursework, Reconnect
<1>2. TypeOK' /\ JobOK'
  BY <1>1 DEF IInv, TypeOK, JobOK, rows, nightly
<1>3. Budget'
  BY <1>1, BudgetStays, CountedStays DEF rows, nightly
<1> QED BY <1>1, <1>2, <1>3, RowsKept DEF IInv, rows

LEMMA ShowBoardStep ==
    ASSUME IInv, NEW u \in Users, ShowBoard(u)
    PROVE  IInv' /\ DraftKept
<1>1. PICK c \in Draft(u) : page' = [user |-> u, content |-> c] /\ seen' = seen \cup {<<u, c>>}
  BY DEF ShowBoard
<1>2. UNCHANGED <<rows, linked, active, job, run, nightly>>
  BY DEF ShowBoard
<1>3. TypeOK' /\ JobOK'
  BY <1>2 DEF IInv, TypeOK, JobOK, rows, nightly
<1>4. Budget'
  BY <1>2, BudgetStays, CountedStays DEF rows, nightly
<1>5. PageWasSeen'
  BY <1>1 DEF PageWasSeen
<1>6. \A x \in Users, y \in Contents : Keeps(works[x][y], works'[x][y])
  BY <1>2, WorkShape DEF Keeps, Moves, IInv, rows
<1> QED BY <1>1, <1>2, <1>3, <1>4, <1>5, <1>6, KeepsKeep DEF IInv, rows

\* An approval is for the draft on the teacher's page.
LEMMA SaveScoresStep ==
    ASSUME IInv, NEW u \in Users, NEW k \in Contents, SaveScores(u, k)
    PROVE  IInv' /\ DraftKept
<1>1. works[u][k] \in Work /\ works[u][k].status = "DONE"
  <2>1. k \in Draft(u)
    BY DEF SaveScores, IsShown
  <2>2. works[u][k].status = "DONE" /\ Has(u, k)
    BY <2>1 DEF Draft
  <2> QED BY <2>2, WorkShape DEF IInv, Has
<1> DEFINE w == works[u][k]
           v == [w EXCEPT !.approved = TRUE]
<1>2. works' = [works EXCEPT ![u] = [works[u] EXCEPT ![k] = v]]
  BY DEF IInv, TypeOK, SaveScores
<1> HIDE DEF w
<1>3. v \in Work /\ v.status = "DONE" /\ v.touched = w.touched /\ v.approved
  BY <1>1 DEF w, Work, Statuses
<1> HIDE DEF v
<1>4. /\ works' \in [Users -> [Contents -> Work \cup {NoWork}]] /\ works'[u][k] = v
      /\ \A x \in Users, c \in Contents : <<x, c>> # <<u, k>> => works'[x][c] = works[x][c]
  <2>1. works \in [Users -> [Contents -> Work \cup {NoWork}]]
    BY DEF IInv, TypeOK
  <2> QED BY <1>2, <1>3, <2>1
<1>5. UNCHANGED <<remote, link, latest, linked, active, job, run, nightly, page, seen>>
  BY DEF SaveScores
<1>6. TypeOK'
  BY <1>4, <1>5 DEF IInv, TypeOK, nightly
<1>7. JobOK'
  <2>1. job.phase = "judge" => /\ job.user \in Users /\ job.content \in Contents
                               /\ <<job.user, job.content>> # <<u, k>>
    BY <1>1, JobShape DEF IInv, JobOK
  <2> QED BY <1>4, <1>5, <2>1 DEF IInv, JobOK
<1>8. <<u, k>> \in seen
  <2>1. page.user = u /\ page.content = k /\ u # Nobody
    BY SyncAssumption DEF SaveScores, IsShown
  <2> QED BY <2>1 DEF IInv, PageWasSeen
<1>9. ApprovedWasSeen'
  BY <1>4, <1>5, <1>8, NoWorkIsNone DEF IInv, ApprovedWasSeen, Has
<1>10. DraftKept
  BY <1>3, <1>4 DEF DraftKept, Has
<1>11. LatestIsLive'
  <2>1. \A x \in Users : latest[x] \in Contents \cup {Nobody}
    BY DEF IInv, TypeOK
  <2> QED BY <1>3, <1>4, <1>5, <2>1, NoWorkIsNone DEF IInv, LatestIsLive, Has
<1>12. Counted' = Counted
  <2>1. \A x \in Users, c \in Contents : <<x, c>> \in Counted' <=> <<x, c>> \in Counted
    <3>1. <<u, k>> \in Counted' <=> <<u, k>> \in Counted
      BY <1>1, <1>3, <1>4, <1>5, CountedIs, NoWorkIsNone DEF nightly, w
    <3>2. \A x \in Users, c \in Contents :
             <<x, c>> # <<u, k>> => (<<x, c>> \in Counted' <=> <<x, c>> \in Counted)
      BY <1>4, <1>5, CountedIs DEF nightly
    <3> QED BY <3>1, <3>2
  <2>2. Counted \subseteq Users \X Contents /\ Counted' \subseteq Users \X Contents
    BY DEF Counted
  <2> QED BY <2>1, <2>2
<1>13. Budget'
  BY <1>5, <1>12, BudgetStays DEF nightly
<1> QED BY <1>5, <1>6, <1>7, <1>9, <1>10, <1>11, <1>13 DEF IInv, PageWasSeen

-----------------------------------------------------------------------------
(* The theorems.                                                           *)

LEMMA InitIInv == Init => IInv
<1> SUFFICES ASSUME Init PROVE IInv
  OBVIOUS
<1>1. /\ \A u \in Users, c \in Contents : works[u][c] = NoWork
      /\ works \in [Users -> [Contents -> Work \cup {NoWork}]]
      /\ latest \in [Users -> Contents \cup {Nobody}]
      /\ \A u \in Users : latest[u] = Nobody
  BY DEF Init
<1>2. job \in Job /\ job.phase = "idle"
  BY DEF Init, Job, Idle
<1>3. TypeOK
  BY <1>1, <1>2 DEF Init, TypeOK
<1>4. JobOK /\ PageWasSeen
  BY <1>2 DEF Init, JobOK, PageWasSeen
<1>5. LatestIsLive /\ ApprovedWasSeen
  BY <1>1 DEF LatestIsLive, ApprovedWasSeen, Has
<1>6. Budget
  BY <1>2, CountedIsFinite, SyncAssumption DEF Init, Budget
<1> QED BY <1>3, <1>4, <1>5, <1>6 DEF IInv

LEMMA NextIInv == IInv /\ [Next]_vars => IInv' /\ DraftKept
<1> SUFFICES ASSUME IInv, [Next]_vars PROVE IInv' /\ DraftKept
  OBVIOUS
<1>1. CASE \E r \in Runs : StartCheck(r) \/ StartCommit(r) \/ RunBegin(r) \/ Stall(r)
  BY <1>1, StartCheckStep, StartCommitStep, RunBeginStep, StallStep
<1>2. CASE LoadRoster \/ MergeRoster \/ Store \/ SkipWork
  BY <1>2, LoadRosterStep, MergeRosterStep, StoreStep, SkipWorkStep
<1>3. CASE FinishIngest \/ NothingToIngest \/ \E b \in BOOLEAN : GoogleFails(b)
  BY <1>3, IngestEndsStep
<1>4. CASE \E b \in BOOLEAN : NightlyBegin(b)
  BY <1>4, NightlyBeginStep
<1>5. CASE TakeList \/ JobError \/ NightlyEnd \/ NextNight \/ Crash
  BY <1>5, TakeListStep, JobErrorStep, NightlyEndStep, NextNightStep, CrashStep
<1>6. CASE LinkCoursework \/ Reconnect \/ ConfirmAllLinks
  BY <1>6, ConnectStep, ConfirmAllLinksStep
<1>7. CASE \E outcome \in {"done", "failed", "judge_error", "no_files"} : Judge(outcome)
  BY <1>7, JudgeStep
<1>8. CASE \E u \in Users : \/ Fetch(u) \/ IgnoreLink(u) \/ ConfirmLink(u) \/ ShowBoard(u)
                            \/ \E s \in Students : ResolveLink(u, s)
  BY <1>8, FetchStep, IgnoreLinkStep, ResolveLinkStep, ShowBoardStep
<1>9. CASE \E u \in Users, c \in Contents :
              TurnIn(u, c) \/ TakeJob(u, c) \/ RetryGrading(u, c) \/ SaveScores(u, c)
  BY <1>9, TurnInStep, TakeJobStep, RetryGradingStep, SaveScoresStep
<1>10. CASE UNCHANGED vars
  <2>1. TypeOK' /\ JobOK'
    BY <1>10 DEF IInv, TypeOK, JobOK, vars, rows, nightly
  <2>2. Budget'
    BY <1>10, BudgetStays, CountedStays DEF vars, rows, nightly
  <2> QED BY <1>10, <2>1, <2>2, RowsKept DEF IInv, vars, rows
<1> QED BY <1>1, <1>2, <1>3, <1>4, <1>5, <1>6, <1>7, <1>8, <1>9, <1>10 DEF Next

LEMMA Invariance == Spec => []IInv
<1>1. IInv /\ [Next]_vars => IInv'
  BY NextIInv
<1> QED BY InitIInv, <1>1, PTL DEF Spec

\* Rows, links, runs and the lock's holder keep their types: each phase of
\* ingest_subject and grading_loop has what the next one reads.
THEOREM TypeCorrect == Spec => []TypeOK
<1>1. IInv => TypeOK
  BY DEF IInv
<1> QED BY <1>1, Invariance, PTL

\* _ingest_submission and _supersede_others: the version turned in last is never
\* pushed out, whatever the order of versions, reverts, crashes and reaping.
THEOREM LatestStaysLive == Spec => []LatestIsLive
<1>1. IInv => LatestIsLive
  BY DEF IInv
<1> QED BY <1>1, Invariance, PTL

\* teacher_save_scores: no draft is approved that no board has shown.
THEOREM ApprovedOnlySeen == Spec => []ApprovedWasSeen
<1>1. IInv => ApprovedWasSeen
  BY DEF IInv
<1> QED BY <1>1, Invariance, PTL

\* grading_loop and _used_tonight: the runs of a night together call the judge at
\* most Cap times, and once more for each start that the count has lost.
THEOREM NightStaysInBudget == Spec => []NightBudget
<1>1. IInv => NightBudget
  BY DEF IInv, Budget, NightBudget
<1> QED BY <1>1, Invariance, PTL

\* No step of a sync, the night, a retry or a teacher takes a finished draft or
\* its approval away.
THEOREM DraftsAreFinal == Spec => DraftIsKept
<1>1. IInv /\ [Next]_vars => [DraftKept]_vars
  BY NextIInv
<1>2. Spec => [][DraftKept]_vars
  BY <1>1, Invariance, PTL DEF Spec
<1> QED BY <1>2 DEF DraftIsKept, DraftKept
=============================================================================
