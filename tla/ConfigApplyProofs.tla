-------------------------- MODULE ConfigApplyProofs --------------------------
(***************************************************************************)
(* For any archives, students and number of overlapping requests: the      *)
(* tables follow the live version although an upload writes only what      *)
(* differs, the files they link to are in the store, and every enrolled    *)
(* student has a row for every assignment.                                 *)
(***************************************************************************)
EXTENDS ConfigApply, TLAPS

\* An upload has read a version that is there.
ReadExists ==
    \A r \in Requests : Applying(r) /\ req[r].prev # None =>
        \E k \in DOMAIN versions : versions[k] = req[r].prev

\* Uploads that never met run one at a time.
Alone ==
    ~overlap => \A r, o \in Requests : Applying(r) /\ Applying(o) => r = o

\* Then the version and the columns an upload compares with are those that are
\* live, and when it cleans up its own version is.
Current ==
    ~overlap => \A r \in Requests :
        /\ req[r].op \in {"upload", "write", "commit"} =>
              /\ req[r].prev = IF versions = << >> THEN None ELSE Last(versions)
              /\ req[r].meta = subject.meta
        /\ req[r].op = "clean" => versions # << >> /\ Last(versions) = req[r].archive

\* No version, no assignments.
Empty == versions = << >> => DOMAIN work = {}

\* The files are in the store before the transaction begins.
SentFirst ==
    ~overlap => \A r \in Requests :
        req[r].op \in {"write", "commit"} => Uploads(req[r]) \subseteq objects

\* A transaction of an upload and an enrolment that never met.
Apart ==
    ~raced => \A r, o \in Requests : ~(req[r].op = "commit" /\ req[o].op = "enrol")

\* The students and the assignments that both have read are still all there are.
ReadAll ==
    ~raced => \A r \in Requests :
        /\ req[r].op = "commit" /\ Creates(req[r]) # {} => enrolled \subseteq req[r].enrolled
        /\ req[r].op = "enrol" => DOMAIN work \subseteq {i[1] : i \in req[r].on}

\* The inductive invariant.
IInv ==
    /\ TypeOK /\ ReadExists /\ Alone /\ Current /\ Empty /\ SentFirst /\ Apart /\ ReadAll
    /\ MirrorsLatest /\ FilesAreThere /\ EveryoneHasRow

-----------------------------------------------------------------------------
(* Requests.                                                               *)

\* What the operation of a request says about its record.
LEMMA RequestType ==
    ASSUME TypeOK, NEW r \in Requests
    PROVE  /\ Applying(r) => req[r] \in Upload
           /\ req[r].op = "enrol" => req[r] \in Enrolment /\ ~Applying(r)
           /\ req[r] = Idle => ~Applying(r) /\ req[r].op # "enrol"
BY DEF TypeOK, Upload, Enrolment, Idle, Applying

\* A request that moves on keeps what it has read.
LEMMA StepFacts ==
    ASSUME TypeOK, NEW r \in Requests, Applying(r),
           NEW op \in {"upload", "write", "commit", "clean"}, Step(r, op)
    PROVE  /\ req' \in [Requests -> {Idle} \cup Upload \cup Enrolment]
           /\ req'[r].op = op
           /\ req'[r].archive = req[r].archive /\ req'[r].prev = req[r].prev
           /\ req'[r].meta = req[r].meta /\ req'[r].url = req[r].url
           /\ req'[r].version = req[r].version /\ req'[r].enrolled = req[r].enrolled
           /\ \A o \in Requests \ {r} : req'[o] = req[o]
<1> DEFINE T == {Idle} \cup Upload \cup Enrolment
           u == [req[r] EXCEPT !.op = op]
<1>1. req[r] \in Upload /\ req \in [Requests -> T]
  BY RequestType DEF TypeOK
<1>2. u \in Upload /\ u.op = op
  BY <1>1 DEF Upload
<1>3. /\ u.archive = req[r].archive /\ u.prev = req[r].prev /\ u.meta = req[r].meta
      /\ u.url = req[r].url /\ u.version = req[r].version /\ u.enrolled = req[r].enrolled
  BY <1>1 DEF Upload
<1>4. req' = [req EXCEPT ![r] = u]
  BY <1>1 DEF Step
<1>5. u \in T
  BY <1>2
<1> HIDE DEF u, T
<1>6. req' \in [Requests -> T] /\ req'[r] = u /\ \A o \in Requests \ {r} : req'[o] = req[o]
  BY <1>1, <1>4, <1>5
<1> QED BY <1>2, <1>3, <1>6 DEF T

\* A request that ends leaves the others alone.
LEMMA FinishFacts ==
    ASSUME TypeOK, NEW r \in Requests, Finish(r)
    PROVE  /\ req' \in [Requests -> {Idle} \cup Upload \cup Enrolment]
           /\ req'[r] = Idle
           /\ \A o \in Requests \ {r} : req'[o] = req[o]
<1> DEFINE T == {Idle} \cup Upload \cup Enrolment
<1>1. req \in [Requests -> T] /\ Idle \in T
  BY DEF TypeOK
<1> HIDE DEF T
<1>2. req' \in [Requests -> T] /\ req'[r] = Idle /\ \A o \in Requests \ {r} : req'[o] = req[o]
  BY <1>1 DEF Finish
<1> QED BY <1>2 DEF T

\* An upload begins: it reads the subject and the live version.
LEMMA BeginFacts ==
    ASSUME TypeOK, NEW r \in Requests, NEW a \in Archives, ApplyBegin(r, a)
    PROVE  /\ req' \in [Requests -> {Idle} \cup Upload \cup Enrolment]
           /\ req'[r].op = "upload" /\ req'[r].archive = a
           /\ req'[r].prev = IF versions = << >> THEN None ELSE Last(versions)
           /\ req'[r].meta = subject.meta
           /\ \A o \in Requests \ {r} : req'[o] = req[o]
<1> DEFINE T == {Idle} \cup Upload \cup Enrolment
           pr == IF versions = << >> THEN None ELSE Last(versions)
           u == [op |-> "upload", archive |-> a, prev |-> pr,
                 meta |-> subject.meta, url |-> subject.url,
                 version |-> 0, enrolled |-> {}]
<1>1. req \in [Requests -> T]
  BY DEF TypeOK
<1>2. pr \in {None} \cup Archives
  BY DEF TypeOK, Last
<1>3. subject.meta \in Metas /\ subject.url \in [Pictures -> Names]
  BY DEF TypeOK
<1>4. u.op = "upload" /\ u.archive = a /\ u.prev = pr /\ u.meta = subject.meta
  OBVIOUS
<1>5. u \in T
  <2> HIDE DEF pr
  <2> QED BY <1>2, <1>3 DEF Upload
<1>6. req' = [req EXCEPT ![r] = u]
  BY DEF ApplyBegin
<1> HIDE DEF T, u, pr
<1>7. req' \in [Requests -> T] /\ req'[r] = u /\ \A o \in Requests \ {r} : req'[o] = req[o]
  BY <1>1, <1>5, <1>6
<1> QED BY <1>4, <1>7 DEF T, pr

\* The transaction begins: it reads the enrolled students.
LEMMA WriteFacts ==
    ASSUME TypeOK, NEW r \in Requests, ApplyWrite(r)
    PROVE  /\ req' \in [Requests -> {Idle} \cup Upload \cup Enrolment]
           /\ req'[r].op = "commit"
           /\ req'[r].archive = req[r].archive /\ req'[r].prev = req[r].prev
           /\ req'[r].meta = req[r].meta /\ req'[r].url = req[r].url
           /\ Creates(req[r]) # {} => req'[r].enrolled = enrolled
           /\ \A o \in Requests \ {r} : req'[o] = req[o]
<1> DEFINE T == {Idle} \cup Upload \cup Enrolment
           e == IF Creates(req[r]) = {} THEN {} ELSE enrolled
           u == [req[r] EXCEPT !.op = "commit", !.version = Len(versions) + 1, !.enrolled = e]
<1>1. req[r] \in Upload /\ req \in [Requests -> T]
  BY RequestType DEF TypeOK, ApplyWrite, Applying
<1>2. e \in SUBSET Students /\ Len(versions) + 1 \in Nat
  BY DEF TypeOK
<1>3. req' = [req EXCEPT ![r] = u]
  BY <1>1 DEF ApplyWrite
<1>4. Creates(req[r]) # {} => e = enrolled
  OBVIOUS
<1> HIDE DEF e
<1>5. /\ u \in Upload /\ u.op = "commit" /\ u.archive = req[r].archive /\ u.prev = req[r].prev
      /\ u.meta = req[r].meta /\ u.url = req[r].url /\ u.enrolled = e
  BY <1>1, <1>2 DEF Upload
<1>6. u \in T
  BY <1>5
<1> HIDE DEF T, u
<1>7. req' \in [Requests -> T] /\ req'[r] = u /\ \A o \in Requests \ {r} : req'[o] = req[o]
  BY <1>1, <1>3, <1>6
<1> QED BY <1>4, <1>5, <1>7 DEF T

\* An enrolment begins: it reads the assignments.
LEMMA EnrolFacts ==
    ASSUME TypeOK, NEW r \in Requests, NEW s \in Students, EnrolBegin(r, s)
    PROVE  /\ req' \in [Requests -> {Idle} \cup Upload \cup Enrolment]
           /\ req'[r].op = "enrol"
           /\ req'[r].on = {<<c, work[c].born>> : c \in DOMAIN work}
           /\ \A o \in Requests \ {r} : req'[o] = req[o]
<1> DEFINE T == {Idle} \cup Upload \cup Enrolment
           on == {<<c, work[c].born>> : c \in DOMAIN work}
           fresh == s \notin enrolled
           u == [op |-> "enrol", who |-> s, fresh |-> fresh, on |-> on]
<1>1. req \in [Requests -> T]
  BY DEF TypeOK
<1>2. on \in SUBSET (Codes \X Nat)
  BY DEF TypeOK
<1>3. req' = [req EXCEPT ![r] = u]
  BY DEF EnrolBegin
<1>4. fresh \in BOOLEAN
  OBVIOUS
<1> HIDE DEF on, fresh
<1>5. u \in T /\ u.op = "enrol" /\ u.on = on
  BY <1>2, <1>4 DEF Enrolment
<1> HIDE DEF T, u
<1>6. req' \in [Requests -> T] /\ req'[r] = u /\ \A o \in Requests \ {r} : req'[o] = req[o]
  BY <1>1, <1>3, <1>5
<1> QED BY <1>5, <1>6 DEF T, on

-----------------------------------------------------------------------------
(* Plans.                                                                  *)

\* What a plan is made of comes from its archive.
LEMMA PlanTypes ==
    ASSUME NEW q \in Upload
    PROVE  /\ q.archive \in Archives
           /\ DOMAIN New(q).work \subseteq Codes
           /\ \A c \in DOMAIN New(q).work : New(q).work[c].files \subseteq Files
           /\ Uploads(q) \subseteq UNION {Config[a].inside : a \in Archives}
           /\ New(q).meta \in Metas
           /\ \A p \in Pictures : New(q).pics[p] \in Names
<1>1. q.archive \in Archives
  BY DEF Upload
<1>2. Uploads(q) \subseteq New(q).inside
  BY DEF Uploads, NewPictures, ContentFiles
<1>3. \A c \in DOMAIN New(q).work : New(q).work[c].files \subseteq Files
  BY <1>1 DEF New, Files
<1>4. New(q).meta \in Metas /\ \A p \in Pictures : New(q).pics[p] \in Names
  BY <1>1 DEF New, Metas, Names
<1> QED BY <1>1, <1>2, <1>3, <1>4 DEF New, Codes

\* The plan follows from the two archives alone.
LEMMA SamePlan ==
    ASSUME NEW q, NEW w, q.archive = w.archive, q.prev = w.prev
    PROVE  Uploads(q) = Uploads(w) /\ Creates(q) = Creates(w)
<1>1. New(q) = New(w) /\ Prev(q) = Prev(w)
  BY DEF New, Prev
<1> QED BY <1>1 DEF Uploads, NewPictures, ContentFiles, Creates

\* The assignment rows after the transaction.
LEMMA CommitWork ==
    ASSUME NEW r \in Requests, ApplyCommit(r)
    PROVE  LET q == req[r] IN
           /\ DOMAIN work' = (DOMAIN work \cup Creates(q)) \ Deletes(q)
           /\ \A c \in Creates(q) : work'[c] = CreateAssignment(q, c)
           /\ \A c \in DOMAIN work \cap Kept(q) :
                 work'[c] = ApplyAssignmentFields(q, c, work[c])
           /\ \A c \in (DOMAIN work \ Deletes(q)) \ (Creates(q) \cup Kept(q)) :
                 work'[c] = work[c]
BY DEF ApplyCommit, Creates, Deletes, Kept

\* Its two ends.
LEMMA CommitEnds ==
    ASSUME TypeOK, NEW r \in Requests, ApplyCommit(r)
    PROVE  /\ req' \in [Requests -> {Idle} \cup Upload \cup Enrolment]
           /\ \/ req'[r] = Idle
              \/ /\ req'[r].op = "clean"
                 /\ req'[r].archive = req[r].archive /\ req'[r].prev = req[r].prev
                 /\ req'[r].meta = req[r].meta /\ req'[r].url = req[r].url
           /\ \A o \in Requests \ {r} : req'[o] = req[o]
<1>1. Finish(r) \/ Step(r, "clean")
  BY DEF ApplyCommit
<1>2. Applying(r)
  BY DEF ApplyCommit, Applying
<1>3. CASE Finish(r)
  BY <1>3, FinishFacts
<1>4. CASE Step(r, "clean")
  BY <1>2, <1>4, StepFacts
<1> QED BY <1>1, <1>3, <1>4

\* So are the two ends of sending the files.
LEMMA UploadEnds ==
    ASSUME TypeOK, NEW r \in Requests, ApplyUpload(r)
    PROVE  /\ req' \in [Requests -> {Idle} \cup Upload \cup Enrolment]
           /\ objects \subseteq objects' /\ objects' \subseteq objects \cup Uploads(req[r])
           /\ \/ req'[r] = Idle
              \/ /\ req'[r].op = "write"
                 /\ req'[r].archive = req[r].archive /\ req'[r].prev = req[r].prev
                 /\ req'[r].meta = req[r].meta
                 /\ Uploads(req[r]) \subseteq objects'
           /\ \A o \in Requests \ {r} : req'[o] = req[o]
<1>1. PICK sent \in SUBSET Uploads(req[r]) :
        /\ objects' = objects \cup sent
        /\ IF sent = Uploads(req[r]) THEN Step(r, "write") ELSE Finish(r)
  BY DEF ApplyUpload
<1>2. Applying(r)
  BY DEF ApplyUpload, Applying
<1>3. CASE sent = Uploads(req[r])
  BY <1>1, <1>2, <1>3, StepFacts
<1>4. CASE sent # Uploads(req[r])
  BY <1>1, <1>4, FinishFacts
<1> QED BY <1>3, <1>4

-----------------------------------------------------------------------------
(* Types.                                                                  *)

LEMMA CommitTypes ==
    ASSUME TypeOK, NEW r \in Requests, ApplyCommit(r)
    PROVE  TypeOK'
<1> DEFINE q == req[r]
<1>1. q \in Upload /\ q.op = "commit"
  BY RequestType DEF ApplyCommit, Applying
<1> HIDE DEF q
<1>2. versions' \in Seq(Archives)
  BY <1>1, PlanTypes DEF ApplyCommit, TypeOK, q
<1>3. subject' \in [meta : Metas, url : [Pictures -> Names]]
  <2>1. subject' = ApplySubjectFields(q, subject)
    BY DEF ApplyCommit, q
  <2>2. subject.meta \in Metas /\ subject.url \in [Pictures -> Names]
    BY DEF TypeOK
  <2> QED BY <1>1, <2>1, <2>2, PlanTypes DEF ApplySubjectFields
<1>4. DOMAIN work' \subseteq Codes
  BY <1>1, CommitWork, PlanTypes DEF TypeOK, Creates, q
<1>5. ASSUME NEW c \in DOMAIN work'
      PROVE  /\ work'[c].linked \subseteq work'[c].files /\ work'[c].files \subseteq Files
             /\ work'[c].born \in Nat
  <2>1. CASE c \in Creates(q)
    <3>1. work'[c] = CreateAssignment(q, c)
      BY <2>1, CommitWork DEF q
    <3>2. c \in DOMAIN New(q).work /\ q.version \in Nat
      BY <1>1, <2>1 DEF Creates, Upload
    <3> QED BY <1>1, <3>1, <3>2, PlanTypes DEF CreateAssignment, Linked
  <2>2. CASE c \in DOMAIN work \cap Kept(q)
    <3>1. work'[c] = ApplyAssignmentFields(q, c, work[c])
      BY <2>2, CommitWork DEF q
    <3>2. c \in DOMAIN New(q).work /\ Linked(q, c) \subseteq New(q).work[c].files
      BY <2>2 DEF Kept, Linked
    <3>3. /\ work[c].linked \subseteq work[c].files /\ work[c].files \subseteq Files
          /\ work[c].born \in Nat
      BY <2>2 DEF TypeOK
    <3> QED BY <1>1, <3>1, <3>2, <3>3, PlanTypes DEF ApplyAssignmentFields
  <2>3. CASE c \notin Creates(q) /\ c \notin Kept(q)
    <3>1. c \in DOMAIN work /\ work'[c] = work[c]
      BY <2>3, CommitWork DEF q
    <3> QED BY <3>1 DEF TypeOK
  <2> QED BY <2>1, <2>2, <2>3, CommitWork DEF q
<1>6. rows' \in SUBSET (Students \X Codes)
  <2>1. FanOut(q) \subseteq Students \X Codes
    BY <1>1, PlanTypes DEF FanOut, Creates, Upload
  <2> QED BY <2>1 DEF ApplyCommit, TypeOK, q
<1>7. req' \in [Requests -> {Idle} \cup Upload \cup Enrolment]
  BY CommitEnds
<1> QED BY <1>2, <1>3, <1>4, <1>5, <1>6, <1>7 DEF TypeOK, ApplyCommit

LEMMA TypeStep == TypeOK /\ [Next]_vars => TypeOK'
<1> SUFFICES ASSUME TypeOK, [Next]_vars PROVE TypeOK'
  OBVIOUS
<1>1. ASSUME NEW r \in Requests, NEW a \in Archives, ApplyBegin(r, a) PROVE TypeOK'
  BY <1>1, BeginFacts DEF TypeOK, ApplyBegin
<1>2. ASSUME NEW r \in Requests, ApplyUpload(r) PROVE TypeOK'
  <2>1. req[r] \in Upload
    BY <1>2, RequestType DEF ApplyUpload, Applying
  <2>2. objects' \subseteq UNION {Config[a].inside : a \in Archives}
    BY <1>2, <2>1, UploadEnds, PlanTypes DEF TypeOK
  <2> QED BY <1>2, <2>2, UploadEnds DEF TypeOK, ApplyUpload
<1>3. ASSUME NEW r \in Requests, ApplyWrite(r) PROVE TypeOK'
  BY <1>3, WriteFacts DEF TypeOK, ApplyWrite
<1>4. ASSUME NEW r \in Requests, ApplyCommit(r) PROVE TypeOK'
  BY <1>4, CommitTypes
<1>5. ASSUME NEW r \in Requests, ApplyClean(r) PROVE TypeOK'
  BY <1>5, FinishFacts DEF TypeOK, ApplyClean
<1>6. ASSUME NEW r \in Requests, NEW s \in Students, EnrolBegin(r, s) PROVE TypeOK'
  BY <1>6, EnrolFacts DEF TypeOK, EnrolBegin
<1>7. ASSUME NEW r \in Requests, EnrolEnd(r) PROVE TypeOK'
  <2>1. req[r] \in Enrolment
    BY <1>7, RequestType DEF EnrolEnd
  <2>2. req[r].who \in Students /\ req[r].on \in SUBSET (Codes \X Nat)
    BY <2>1 DEF Enrolment
  <2>3. enrolled' \in SUBSET Students
    BY <1>7, <2>2 DEF TypeOK, EnrolEnd
  <2>4. {<<req[r].who, i[1]>> : i \in req[r].on} \subseteq Students \X Codes
    BY <2>2
  <2>5. rows' \in SUBSET (Students \X Codes)
    BY <1>7, <2>4 DEF TypeOK, EnrolEnd
  <2>6. req' \in [Requests -> {Idle} \cup Upload \cup Enrolment]
    BY <1>7, FinishFacts DEF EnrolEnd
  <2> QED BY <1>7, <2>3, <2>5, <2>6 DEF TypeOK, EnrolEnd
<1>8. ASSUME NEW r \in Requests, Abort(r) PROVE TypeOK'
  BY <1>8, FinishFacts DEF TypeOK, Abort
<1>9. ASSUME NEW s \in Students, Unenrol(s) PROVE TypeOK'
  BY <1>9 DEF TypeOK, Unenrol
<1>10. CASE UNCHANGED vars
  BY <1>10 DEF TypeOK, vars
<1> QED
  BY <1>1, <1>2, <1>3, <1>4, <1>5, <1>6, <1>7, <1>8, <1>9, <1>10 DEF Next

-----------------------------------------------------------------------------
(* Uploads that do not overlap see the live version.                       *)

\* What the facts on requests in flight look at.
Flight == ReadExists /\ Alone /\ Current /\ SentFirst

LEMMA BeginFlight ==
    ASSUME TypeOK, Flight, NEW r \in Requests, NEW a \in Archives, ApplyBegin(r, a)
    PROVE  Flight'
<1>1. ~Applying(r)
  BY RequestType DEF ApplyBegin
<1>2. \A o \in Requests : Applying(o)' <=> (o = r \/ Applying(o))
  BY BeginFacts DEF Applying
<1>3. ReadExists'
  <2>1. versions # << >> => Len(versions) \in DOMAIN versions
    BY DEF TypeOK
  <2> QED BY <1>2, <2>1, BeginFacts DEF Flight, ReadExists, ApplyBegin, Last
<1>4. Alone'
  BY <1>2, BeginFacts DEF Flight, Alone, ApplyBegin
<1>5. Current'
  BY BeginFacts DEF Flight, Current, ApplyBegin
<1>6. SentFirst'
  BY BeginFacts DEF Flight, SentFirst, ApplyBegin
<1> QED BY <1>3, <1>4, <1>5, <1>6 DEF Flight

LEMMA UploadFlight ==
    ASSUME TypeOK, Flight, NEW r \in Requests, ApplyUpload(r)
    PROVE  Flight'
<1>1. Applying(r) /\ req[r].op = "upload"
  BY DEF ApplyUpload, Applying
<1>2. \A o \in Requests : Applying(o)' => Applying(o)
  BY <1>1, UploadEnds DEF Applying
<1>3. ReadExists'
  BY <1>1, <1>2, UploadEnds DEF Flight, ReadExists, ApplyUpload, Applying, Idle
<1>4. Alone'
  BY <1>2 DEF Flight, Alone, ApplyUpload
<1>5. Current'
  BY <1>1, UploadEnds DEF Flight, Current, ApplyUpload, Idle
<1>6. SentFirst'
  <2> SUFFICES ASSUME ~overlap', NEW o \in Requests, req'[o].op \in {"write", "commit"}
               PROVE  Uploads(req'[o]) \subseteq objects'
    BY DEF SentFirst
  <2>1. CASE o = r
    BY <2>1, UploadEnds, SamePlan DEF Idle
  <2>2. CASE o # r
    BY <2>2, UploadEnds DEF Flight, SentFirst, ApplyUpload
  <2> QED BY <2>1, <2>2
<1> QED BY <1>3, <1>4, <1>5, <1>6 DEF Flight

LEMMA WriteFlight ==
    ASSUME TypeOK, Flight, NEW r \in Requests, ApplyWrite(r)
    PROVE  Flight'
<1>1. Applying(r) /\ req[r].op = "write"
  BY DEF ApplyWrite, Applying
<1>2. \A o \in Requests : Applying(o)' => Applying(o)
  BY <1>1, WriteFacts DEF Applying
<1> UNCHANGED <<versions, subject, objects, overlap>>
  BY DEF ApplyWrite
<1>w. /\ req'[r].op = "commit"
      /\ req'[r].archive = req[r].archive /\ req'[r].prev = req[r].prev
      /\ req'[r].meta = req[r].meta
      /\ \A o \in Requests \ {r} : req'[o] = req[o]
  BY WriteFacts
<1>3. ReadExists'
  BY <1>1, <1>2, <1>w DEF Flight, ReadExists
<1>4. Alone'
  BY <1>2 DEF Flight, Alone
<1>5. Current'
  BY <1>1, <1>w DEF Flight, Current
<1>6. SentFirst'
  <2> SUFFICES ASSUME ~overlap', NEW o \in Requests, req'[o].op \in {"write", "commit"}
               PROVE  Uploads(req'[o]) \subseteq objects'
    BY DEF SentFirst
  <2>1. CASE o = r
    BY <1>1, <1>w, <2>1, SamePlan DEF Flight, SentFirst
  <2>2. CASE o # r
    BY <1>w, <2>2 DEF Flight, SentFirst
  <2> QED BY <2>1, <2>2
<1> QED BY <1>3, <1>4, <1>5, <1>6 DEF Flight

LEMMA CommitFlight ==
    ASSUME TypeOK, Flight, NEW r \in Requests, ApplyCommit(r)
    PROVE  Flight'
<1>1. Applying(r) /\ req[r].op = "commit" /\ req[r] \in Upload
  BY RequestType DEF ApplyCommit, Applying
<1>2. \A o \in Requests : Applying(o)' => Applying(o)
  BY <1>1, CommitEnds DEF Applying
<1>3. /\ versions' = Append(versions, req[r].archive)
      /\ req[r].archive \in Archives
  BY <1>1, PlanTypes DEF ApplyCommit
<1>4. /\ versions' # << >> /\ Last(versions') = req[r].archive
      /\ \A k \in DOMAIN versions : k \in DOMAIN versions' /\ versions'[k] = versions[k]
  BY <1>3 DEF TypeOK, Last
<1>5. ReadExists'
  BY <1>1, <1>2, <1>4, CommitEnds DEF Flight, ReadExists, Applying, Idle
<1>6. Alone'
  BY <1>2 DEF Flight, Alone, ApplyCommit
<1>7. \A o \in Requests \ {r} : ~overlap => ~Applying(o)
  BY <1>1 DEF Flight, Alone
<1>8. Current'
  <2> SUFFICES ASSUME ~overlap', NEW o \in Requests
               PROVE  /\ req'[o].op \notin {"upload", "write", "commit"}
                      /\ req'[o].op = "clean" =>
                            versions' # << >> /\ Last(versions') = req'[o].archive
    BY DEF Current
  <2>1. ~overlap
    BY DEF ApplyCommit
  <2>2. CASE o = r
    BY <1>4, <2>2, CommitEnds DEF Idle
  <2>3. CASE o # r
    BY <1>7, <2>1, <2>3, CommitEnds DEF Applying
  <2> QED BY <2>2, <2>3
<1>9. SentFirst'
  <2> SUFFICES ASSUME ~overlap', NEW o \in Requests
               PROVE  req'[o].op \notin {"write", "commit"}
    BY DEF SentFirst
  <2>1. ~overlap
    BY DEF ApplyCommit
  <2>2. CASE o = r
    BY <2>2, CommitEnds DEF Idle
  <2>3. CASE o # r
    BY <1>7, <2>1, <2>3, CommitEnds DEF Applying
  <2> QED BY <2>2, <2>3
<1> QED BY <1>5, <1>6, <1>8, <1>9 DEF Flight

LEMMA CleanFlight ==
    ASSUME TypeOK, Flight, NEW r \in Requests, ApplyClean(r)
    PROVE  Flight'
<1>1. Applying(r)
  BY DEF ApplyClean, Applying
<1>2. /\ req'[r] = Idle
      /\ \A o \in Requests \ {r} : req'[o] = req[o]
  BY FinishFacts DEF ApplyClean
<1>3. \A o \in Requests : Applying(o)' => o # r /\ Applying(o)
  BY <1>2 DEF Applying, Idle
<1>4. ReadExists'
  BY <1>2, <1>3 DEF Flight, ReadExists, ApplyClean
<1>5. Alone'
  BY <1>3 DEF Flight, Alone, ApplyClean
<1>6. Current'
  BY <1>2 DEF Flight, Current, ApplyClean, Idle
<1>7. SentFirst'
  <2> SUFFICES ASSUME ~overlap', NEW o \in Requests
               PROVE  req'[o].op \notin {"write", "commit"}
    BY DEF SentFirst
  <2>1. ~overlap
    BY DEF ApplyClean
  <2>2. o # r => ~Applying(o)
    BY <1>1, <2>1 DEF Flight, Alone
  <2> QED BY <1>2, <2>2 DEF Applying, Idle
<1> QED BY <1>4, <1>5, <1>6, <1>7 DEF Flight

\* A request that ends without touching the tables of a version or the store.
LEMMA EndFlight ==
    ASSUME TypeOK, Flight, NEW r \in Requests, Finish(r),
           UNCHANGED <<versions, subject, objects, overlap>>
    PROVE  Flight'
<1>1. /\ req'[r] = Idle
      /\ \A o \in Requests \ {r} : req'[o] = req[o]
  BY FinishFacts
<1>2. \A o \in Requests : Applying(o)' => o # r /\ Applying(o)
  BY <1>1 DEF Applying, Idle
<1>3. ReadExists' /\ Alone'
  BY <1>1, <1>2 DEF Flight, ReadExists, Alone
<1>4. Current' /\ SentFirst'
  BY <1>1 DEF Flight, Current, SentFirst, Idle
<1> QED BY <1>3, <1>4 DEF Flight

LEMMA FlightStep == TypeOK /\ Flight /\ [Next]_vars => Flight'
<1> SUFFICES ASSUME TypeOK, Flight, [Next]_vars PROVE Flight'
  OBVIOUS
<1>1. ASSUME NEW r \in Requests, NEW s \in Students, EnrolBegin(r, s) PROVE Flight'
  <2>1. \A o \in Requests \ {r} : req'[o] = req[o]
    BY <1>1, EnrolFacts
  <2>2. req'[r].op = "enrol"
    BY <1>1, EnrolFacts
  <2>3. \A o \in Requests : Applying(o)' => o # r /\ Applying(o)
    BY <2>1, <2>2 DEF Applying
  <2>4. ReadExists' /\ Alone'
    BY <1>1, <2>1, <2>3 DEF Flight, ReadExists, Alone, EnrolBegin
  <2>5. Current' /\ SentFirst'
    BY <1>1, <2>1, <2>2 DEF Flight, Current, SentFirst, EnrolBegin
  <2> QED BY <2>4, <2>5 DEF Flight
<1>2. ASSUME NEW r \in Requests, EnrolEnd(r) PROVE Flight'
  BY <1>2, EndFlight DEF EnrolEnd
<1>3. ASSUME NEW r \in Requests, Abort(r) PROVE Flight'
  BY <1>3, EndFlight DEF Abort
<1>4. ASSUME NEW s \in Students, Unenrol(s) PROVE Flight'
  BY <1>4 DEF Flight, ReadExists, Alone, Current, SentFirst, Applying, Unenrol
<1>5. CASE UNCHANGED vars
  BY <1>5 DEF Flight, ReadExists, Alone, Current, SentFirst, Applying, vars
<1> QED
  BY <1>1, <1>2, <1>3, <1>4, <1>5, BeginFlight, UploadFlight, WriteFlight,
     CommitFlight, CleanFlight DEF Next

-----------------------------------------------------------------------------
(* Every enrolled student has a row for every assignment.                  *)

Covered == Apart /\ ReadAll /\ EveryoneHasRow

\* A request that is neither in a transaction nor enrolling, before and after.
LEMMA QuietCovered ==
    ASSUME TypeOK, Covered, NEW r \in Requests,
           req'[r].op \notin {"commit", "enrol"},
           \A o \in Requests \ {r} : req'[o] = req[o],
           UNCHANGED <<work, enrolled, rows, raced>>
    PROVE  Covered'
<1>1. Apart'
  BY DEF Covered, Apart
<1>2. ReadAll'
  BY DEF Covered, ReadAll
<1>3. EveryoneHasRow'
  BY DEF Covered, EveryoneHasRow
<1> QED BY <1>1, <1>2, <1>3 DEF Covered

LEMMA WriteCovered ==
    ASSUME TypeOK, Covered, NEW r \in Requests, ApplyWrite(r)
    PROVE  Covered'
<1>1. /\ req'[r].op = "commit"
      /\ req'[r].archive = req[r].archive /\ req'[r].prev = req[r].prev
      /\ Creates(req[r]) # {} => req'[r].enrolled = enrolled
      /\ \A o \in Requests \ {r} : req'[o] = req[o]
  BY WriteFacts
<1>2. /\ UNCHANGED <<work, enrolled, rows>> /\ req[r].op = "write"
      /\ raced' = (raced \/ \E o \in Requests : req[o].op = "enrol")
  BY DEF ApplyWrite
<1>3. Creates(req'[r]) = Creates(req[r])
  BY <1>1, SamePlan
<1>4. Apart'
  BY <1>1, <1>2 DEF Covered, Apart
<1>5. ReadAll'
  <2> SUFFICES ASSUME ~raced', NEW o \in Requests
               PROVE  /\ req'[o].op = "commit" /\ Creates(req'[o]) # {} =>
                            enrolled' \subseteq req'[o].enrolled
                      /\ req'[o].op = "enrol" => DOMAIN work' \subseteq {i[1] : i \in req'[o].on}
    BY DEF ReadAll
  <2>1. CASE o = r
    BY <1>1, <1>2, <1>3, <2>1
  <2>2. CASE o # r
    BY <1>1, <1>2, <2>2 DEF Covered, ReadAll
  <2> QED BY <2>1, <2>2
<1>6. EveryoneHasRow'
  BY <1>2 DEF Covered, EveryoneHasRow
<1> QED BY <1>4, <1>5, <1>6 DEF Covered

LEMMA CommitCovered ==
    ASSUME TypeOK, Covered, NEW r \in Requests, ApplyCommit(r)
    PROVE  Covered'
<1>1. /\ req'[r].op \in {"idle", "clean"}
      /\ \A o \in Requests \ {r} : req'[o] = req[o]
  BY CommitEnds DEF Idle
<1>2. /\ req[r].op = "commit" /\ UNCHANGED <<enrolled, raced>>
      /\ rows' = rows \cup FanOut(req[r])
  BY DEF ApplyCommit
<1>3. DOMAIN work' \subseteq DOMAIN work \cup Creates(req[r])
  BY CommitWork
<1>4. Apart'
  BY <1>1, <1>2 DEF Covered, Apart
<1>5. ReadAll'
  <2> SUFFICES ASSUME ~raced', NEW o \in Requests
               PROVE  /\ req'[o].op = "commit" /\ Creates(req'[o]) # {} =>
                            enrolled' \subseteq req'[o].enrolled
                      /\ req'[o].op # "enrol"
    BY DEF ReadAll
  <2>1. CASE o = r
    BY <1>1, <2>1
  <2>2. CASE o # r
    BY <1>1, <1>2, <2>2 DEF Covered, ReadAll, Apart
  <2> QED BY <2>1, <2>2
<1>6. EveryoneHasRow'
  <2> SUFFICES ASSUME ~raced', NEW s \in enrolled', NEW c \in DOMAIN work'
               PROVE  <<s, c>> \in rows'
    BY DEF EveryoneHasRow
  <2>1. CASE c \in DOMAIN work
    BY <1>2, <2>1 DEF Covered, EveryoneHasRow
  <2>2. CASE c \in Creates(req[r])
    <3>1. s \in req[r].enrolled
      BY <1>2, <2>2 DEF Covered, ReadAll
    <3> QED BY <1>2, <2>2, <3>1 DEF FanOut
  <2> QED BY <1>3, <2>1, <2>2
<1> QED BY <1>4, <1>5, <1>6 DEF Covered

LEMMA EnrolCovered ==
    ASSUME TypeOK, Covered, NEW r \in Requests, NEW s \in Students, EnrolBegin(r, s)
    PROVE  Covered'
<1>1. /\ req'[r].op = "enrol"
      /\ req'[r].on = {<<c, work[c].born>> : c \in DOMAIN work}
      /\ \A o \in Requests \ {r} : req'[o] = req[o]
  BY EnrolFacts
<1>2. /\ UNCHANGED <<work, enrolled, rows>>
      /\ raced' = (raced \/ \E o \in Requests : req[o].op = "commit")
  BY DEF EnrolBegin
<1>3. Apart'
  BY <1>1, <1>2 DEF Covered, Apart
<1>4. DOMAIN work \subseteq {i[1] : i \in req'[r].on}
  <2> SUFFICES ASSUME NEW c \in DOMAIN work
               PROVE  \E i \in req'[r].on : c = i[1]
    OBVIOUS
  <2>1. <<c, work[c].born>> \in req'[r].on
    BY <1>1
  <2> QED BY <2>1
<1>5. ReadAll'
  <2> SUFFICES ASSUME ~raced', NEW o \in Requests
               PROVE  /\ req'[o].op = "commit" /\ Creates(req'[o]) # {} =>
                            enrolled' \subseteq req'[o].enrolled
                      /\ req'[o].op = "enrol" => DOMAIN work' \subseteq {i[1] : i \in req'[o].on}
    BY DEF ReadAll
  <2>1. CASE o = r
    BY <1>1, <1>2, <1>4, <2>1
  <2>2. CASE o # r
    BY <1>1, <1>2, <2>2 DEF Covered, ReadAll
  <2> QED BY <2>1, <2>2
<1>6. EveryoneHasRow'
  BY <1>2 DEF Covered, EveryoneHasRow
<1> QED BY <1>3, <1>5, <1>6 DEF Covered

LEMMA EnrolledCovered ==
    ASSUME TypeOK, Covered, NEW r \in Requests, EnrolEnd(r)
    PROVE  Covered'
<1>1. /\ req'[r] = Idle
      /\ \A o \in Requests \ {r} : req'[o] = req[o]
  BY FinishFacts DEF EnrolEnd
<1>2. /\ req[r].op = "enrol" /\ UNCHANGED <<work, raced>>
      /\ enrolled' \subseteq enrolled \cup {req[r].who}
      /\ rows' = rows \cup {<<req[r].who, i[1]>> : i \in req[r].on}
  BY DEF EnrolEnd
<1>3. Apart'
  BY <1>1, <1>2 DEF Covered, Apart, Idle
<1>4. ReadAll'
  <2> SUFFICES ASSUME ~raced', NEW o \in Requests
               PROVE  /\ req'[o].op # "commit"
                      /\ req'[o].op = "enrol" => DOMAIN work' \subseteq {i[1] : i \in req'[o].on}
    BY DEF ReadAll
  <2>1. CASE o = r
    BY <1>1, <2>1 DEF Idle
  <2>2. CASE o # r
    BY <1>1, <1>2, <2>2 DEF Covered, ReadAll, Apart
  <2> QED BY <2>1, <2>2
<1>5. EveryoneHasRow'
  <2> SUFFICES ASSUME ~raced', NEW s \in enrolled', NEW c \in DOMAIN work'
               PROVE  <<s, c>> \in rows'
    BY DEF EveryoneHasRow
  <2>1. CASE s \in enrolled
    BY <1>2, <2>1 DEF Covered, EveryoneHasRow
  <2>2. CASE s = req[r].who
    <3>1. PICK i \in req[r].on : c = i[1]
      BY <1>2 DEF Covered, ReadAll
    <3> QED BY <1>2, <2>2, <3>1
  <2> QED BY <1>2, <2>1, <2>2
<1> QED BY <1>3, <1>4, <1>5 DEF Covered

LEMMA CoveredStep == TypeOK /\ Covered /\ [Next]_vars => Covered'
<1> SUFFICES ASSUME TypeOK, Covered, [Next]_vars PROVE Covered'
  OBVIOUS
<1>1. ASSUME NEW r \in Requests, NEW a \in Archives, ApplyBegin(r, a) PROVE Covered'
  <2>1. req'[r].op = "upload" /\ \A o \in Requests \ {r} : req'[o] = req[o]
    BY <1>1, BeginFacts
  <2>2. UNCHANGED <<work, enrolled, rows, raced>>
    BY <1>1 DEF ApplyBegin
  <2> QED BY <2>1, <2>2, QuietCovered
<1>2. ASSUME NEW r \in Requests, ApplyUpload(r) PROVE Covered'
  <2>1. req'[r].op \in {"idle", "write"} /\ \A o \in Requests \ {r} : req'[o] = req[o]
    BY <1>2, UploadEnds DEF Idle
  <2>2. UNCHANGED <<work, enrolled, rows, raced>>
    BY <1>2 DEF ApplyUpload
  <2> QED BY <2>1, <2>2, QuietCovered
<1>3. ASSUME NEW r \in Requests, ApplyClean(r) \/ Abort(r) PROVE Covered'
  <2>1. Finish(r) /\ UNCHANGED <<work, enrolled, rows, raced>>
    BY <1>3 DEF ApplyClean, Abort
  <2>2. req'[r].op = "idle" /\ \A o \in Requests \ {r} : req'[o] = req[o]
    BY <2>1, FinishFacts DEF Idle
  <2> QED BY <2>1, <2>2, QuietCovered
<1>4. ASSUME NEW s \in Students, Unenrol(s) PROVE Covered'
  <2>1. UNCHANGED <<work, rows, req, raced>> /\ enrolled' \subseteq enrolled
    BY <1>4 DEF Unenrol
  <2> QED BY <2>1 DEF Covered, Apart, ReadAll, EveryoneHasRow
<1>5. CASE UNCHANGED vars
  BY <1>5 DEF Covered, Apart, ReadAll, EveryoneHasRow, vars
<1> QED
  BY <1>1, <1>2, <1>3, <1>4, <1>5, WriteCovered, CommitCovered, EnrolCovered,
     EnrolledCovered DEF Next

-----------------------------------------------------------------------------
(* The tables and the store follow the live version.                       *)

Mirrored == Empty /\ MirrorsLatest /\ FilesAreThere

LEMMA QuietMirrored ==
    ASSUME TypeOK, Mirrored, UNCHANGED <<versions, subject, work>>,
           overlap => overlap', objects \subseteq objects'
    PROVE  Mirrored'
<1>1. Empty' /\ MirrorsLatest'
  BY DEF Mirrored, Empty, MirrorsLatest, Live
<1>2. \A p \in Pictures : Settled(p)' <=> Settled(p)
  BY DEF Settled, Live
<1>3. FilesAreThere'
  BY <1>2 DEF Mirrored, FilesAreThere, Live
<1> QED BY <1>1, <1>3 DEF Mirrored

\* What the cleanup takes away was not kept and is no picture that counts.
LEMMA RemovedIsStale ==
    ASSUME NEW q, NEW key \in Removed(q)
    PROVE  \/ \E p \in Pictures : /\ key = Image(Prev(q).pics[p])
                                  /\ Prev(q).pics[p] \notin {None, New(q).pics[p]}
           \/ \E c \in Kept(q) : \E f \in Prev(q).work[c].files \ New(q).work[c].files :
                 key = Handout(c, f)
BY DEF Removed

LEMMA CleanMirrored ==
    ASSUME TypeOK, Flight, Mirrored, NEW r \in Requests, ApplyClean(r)
    PROVE  Mirrored'
<1> DEFINE q == req[r]
<1>1. /\ UNCHANGED <<versions, subject, work, overlap>>
      /\ \A key : key \in objects /\ key \notin Removed(q) => key \in objects'
  BY DEF ApplyClean
<1>2. Empty' /\ MirrorsLatest'
  BY <1>1 DEF Mirrored, Empty, MirrorsLatest, Live
<1>3. FilesAreThere'
  <2> SUFFICES ASSUME versions # << >>, ~overlap
               PROVE  /\ \A c \in DOMAIN work : \A f \in work[c].linked : Handout(c, f) \in objects'
                      /\ \A p \in Pictures : Settled(p) =>
                            subject.url[p] = Live.pics[p] /\ Image(Live.pics[p]) \in objects'
    BY <1>1 DEF FilesAreThere, Settled, Live
  <2>1. q.op = "clean" /\ Applying(r)
    BY DEF ApplyClean, Applying
  <2>2. New(q) = Live
    BY <2>1 DEF Flight, Current, New, Live
  <2>3. ASSUME NEW c \in DOMAIN work, NEW f \in work[c].linked
        PROVE  Handout(c, f) \in objects'
    <3>1. Handout(c, f) \in objects
      BY DEF Mirrored, FilesAreThere
    <3>2. f \in New(q).work[c].files
      BY <2>2 DEF Mirrored, MirrorsLatest, TypeOK
    <3>3. Handout(c, f) \notin Removed(q)
      BY <3>2, RemovedIsStale DEF Handout, Image
    <3> QED BY <1>1, <3>1, <3>3
  <2>4. ASSUME NEW p \in Pictures, Settled(p)
        PROVE  subject.url[p] = Live.pics[p] /\ Image(Live.pics[p]) \in objects'
    <3>1. subject.url[p] = Live.pics[p] /\ Image(Live.pics[p]) \in objects
      BY <2>4 DEF Mirrored, FilesAreThere
    <3>2. ASSUME NEW o \in Pictures, Prev(q).pics[o] \notin {None, New(q).pics[o]}
          PROVE  Prev(q).pics[o] # Live.pics[p]
      <4>1. CASE o = p
        BY <2>2, <3>2, <4>1
      <4>2. CASE o # p
        <5>1. q.prev # None /\ Prev(q) = Config[q.prev]
          BY <3>2 DEF Prev, NoConfig
        <5>2. PICK k \in DOMAIN versions : versions[k] = q.prev
          BY <2>1, <5>1 DEF Flight, ReadExists
        <5> QED BY <2>4, <4>2, <5>1, <5>2 DEF Settled
      <4> QED BY <4>1, <4>2
    <3>3. Image(Live.pics[p]) \notin Removed(q)
      BY <3>2, RemovedIsStale DEF Image, Handout
    <3> QED BY <1>1, <3>1, <3>3
  <2> QED BY <2>3, <2>4
<1> QED BY <1>2, <1>3 DEF Mirrored

\* The transaction of an upload nobody overlaps.
LEMMA CommitMirrored ==
    ASSUME TypeOK, Flight, Mirrored, NEW r \in Requests, ApplyCommit(r)
    PROVE  Mirrored'
<1> DEFINE q == req[r]
<1>1. q.op = "commit" /\ q \in Upload /\ q.archive \in Archives
  BY RequestType, PlanTypes DEF ApplyCommit, Applying
<1>2. /\ versions' = Append(versions, q.archive)
      /\ subject' = ApplySubjectFields(q, subject)
      /\ UNCHANGED <<objects, overlap>>
  BY DEF ApplyCommit
<1>3. /\ versions' # << >> /\ Live' = New(q)
      /\ \A k \in DOMAIN versions : k \in DOMAIN versions' /\ versions'[k] = versions[k]
      /\ \E k \in DOMAIN versions' : versions'[k] = q.archive
  BY <1>1, <1>2 DEF TypeOK, Last, Live, New
<1>4. Empty'
  BY <1>3 DEF Empty
<1>5. ASSUME ~overlap
      PROVE  /\ q.prev = IF versions = << >> THEN None ELSE Last(versions)
             /\ q.meta = subject.meta
             /\ Uploads(q) \subseteq objects
  BY <1>1, <1>5 DEF Flight, Current, SentFirst
<1>6. ASSUME ~overlap, versions # << >>
      PROVE  Prev(q) = Live
  <2>1. Last(versions) \in Archives
    BY <1>6 DEF TypeOK, Last
  <2> QED BY <1>5, <1>6, <2>1, ConfigAssumption DEF Prev, Live
<1>7. ASSUME ~overlap, versions = << >>
      PROVE  Prev(q) = NoConfig
  BY <1>5, <1>7 DEF Prev
<1>8. ASSUME ~overlap
      PROVE  DOMAIN work = DOMAIN Prev(q).work
  <2>1. CASE versions = << >>
    BY <1>7, <1>8, <2>1 DEF Mirrored, Empty, NoConfig
  <2>2. CASE versions # << >>
    BY <1>6, <1>8, <2>2 DEF Mirrored, MirrorsLatest
  <2> QED BY <2>1, <2>2
<1>9. ASSUME ~overlap
      PROVE  DOMAIN work' = DOMAIN New(q).work
  BY <1>8, <1>9, CommitWork DEF Creates, Deletes
<1>10. ASSUME ~overlap, NEW c \in DOMAIN work'
       PROVE  \/ c \in Creates(q)
              \/ /\ c \in DOMAIN work \cap Kept(q) /\ versions # << >>
                 /\ \A g \in {"columns", "config", "files"} : work[c][g] = Prev(q).work[c][g]
  <2>1. c \in DOMAIN New(q).work
    BY <1>9, <1>10
  <2>2. CASE c \notin DOMAIN work
    BY <1>8, <1>10, <2>1, <2>2 DEF Creates
  <2>3. CASE c \in DOMAIN work
    <3>1. c \in Kept(q) /\ versions # << >>
      BY <1>8, <1>10, <2>1, <2>3 DEF Kept, Mirrored, Empty
    <3> QED BY <1>6, <1>10, <2>3, <3>1 DEF Mirrored, MirrorsLatest
  <2> QED BY <2>2, <2>3
<1>11. MirrorsLatest'
  <2> SUFFICES ASSUME ~overlap
               PROVE  /\ subject'.meta = New(q).meta
                      /\ DOMAIN work' = DOMAIN New(q).work
                      /\ \A c \in DOMAIN work' : \A g \in {"columns", "config", "files"} :
                            work'[c][g] = New(q).work[c][g]
    BY <1>2, <1>3 DEF MirrorsLatest
  <2>1. subject'.meta = New(q).meta
    BY <1>2, <1>5 DEF ApplySubjectFields
  <2>2. ASSUME NEW c \in DOMAIN work'
        PROVE  /\ work'[c].columns = New(q).work[c].columns
               /\ work'[c].config = New(q).work[c].config
               /\ work'[c].files = New(q).work[c].files
    <3>1. CASE c \in Creates(q)
      <4>1. work'[c] = CreateAssignment(q, c)
        BY <3>1, CommitWork
      <4> QED BY <4>1 DEF CreateAssignment
    <3>2. CASE c \notin Creates(q)
      <4>1. /\ work'[c] = ApplyAssignmentFields(q, c, work[c])
            /\ work[c].columns = Prev(q).work[c].columns
            /\ work[c].config = Prev(q).work[c].config
            /\ work[c].files = Prev(q).work[c].files
        BY <1>10, <3>2, CommitWork
      <4> QED BY <4>1 DEF ApplyAssignmentFields, Changed
    <3> QED BY <3>1, <3>2
  <2> QED BY <1>9, <2>1, <2>2
<1>12. FilesAreThere'
  <2> SUFFICES ASSUME ~overlap
               PROVE  /\ \A c \in DOMAIN work' : \A f \in work'[c].linked :
                            Handout(c, f) \in objects
                      /\ \A p \in Pictures : Settled(p)' =>
                            subject'.url[p] = New(q).pics[p] /\ Image(New(q).pics[p]) \in objects
    BY <1>2, <1>3 DEF FilesAreThere
  <2>1. ASSUME NEW c \in DOMAIN work', NEW f \in work'[c].linked
        PROVE  Handout(c, f) \in objects
    <3>1. CASE f \in Linked(q, c)
      BY <1>5, <3>1 DEF Linked
    <3>2. CASE f \notin Linked(q, c)
      <4>1. c \notin Creates(q)
        <5>1. c \in Creates(q) => work'[c] = CreateAssignment(q, c)
          BY CommitWork
        <5> QED BY <2>1, <3>2, <5>1 DEF CreateAssignment
      <4>2. c \in DOMAIN work /\ versions # << >> /\ work'[c] = ApplyAssignmentFields(q, c, work[c])
        BY <1>10, <4>1, CommitWork
      <4>3. f \in work[c].linked
        BY <2>1, <3>2, <4>2 DEF ApplyAssignmentFields
      <4> QED BY <4>2, <4>3 DEF Mirrored, FilesAreThere
    <3> QED BY <3>1, <3>2
  <2>2. ASSUME NEW p \in Pictures, Settled(p)'
        PROVE  subject'.url[p] = New(q).pics[p] /\ Image(New(q).pics[p]) \in objects
    <3> DEFINE n == New(q).pics[p]
    <3>1. /\ n # None
          /\ \A k \in DOMAIN versions' :
                /\ \A o \in Pictures \ {p} : Config[versions'[k]].pics[o] # n
                /\ Config[versions'[k]].pics[p] = n => Image(n) \in Config[versions'[k]].inside
      BY <1>3, <2>2 DEF Settled
    <3>2. Image(n) \in New(q).inside
      BY <1>3, <3>1 DEF New
    <3>3. CASE n # Prev(q).pics[p]
      <4>1. p \in NewPictures(q)
        BY <3>1, <3>2, <3>3 DEF NewPictures
      <4>2. Image(n) \in Uploads(q)
        BY <4>1 DEF Uploads
      <4> QED BY <1>2, <1>5, <4>1, <4>2 DEF ApplySubjectFields
    <3>4. CASE n = Prev(q).pics[p]
      <4>1. versions # << >> /\ Live.pics[p] = n
        BY <1>6, <1>7, <3>1, <3>4 DEF NoConfig
      <4>2. Settled(p)
        BY <1>3, <3>1, <4>1 DEF Settled
      <4>3. subject.url[p] = n /\ Image(n) \in objects
        BY <4>1, <4>2 DEF Mirrored, FilesAreThere
      <4>4. p \notin NewPictures(q)
        BY <3>4 DEF NewPictures
      <4> QED BY <1>2, <4>3, <4>4 DEF ApplySubjectFields
    <3> QED BY <3>3, <3>4
  <2> QED BY <2>1, <2>2
<1> QED BY <1>4, <1>11, <1>12 DEF Mirrored

LEMMA MirroredStep == TypeOK /\ Flight /\ Mirrored /\ [Next]_vars => Mirrored'
<1> SUFFICES ASSUME TypeOK, Flight, Mirrored, [Next]_vars PROVE Mirrored'
  OBVIOUS
<1>1. ASSUME NEW r \in Requests, NEW a \in Archives, ApplyBegin(r, a) PROVE Mirrored'
  BY <1>1, QuietMirrored DEF ApplyBegin
<1>2. ASSUME NEW r \in Requests, ApplyUpload(r) PROVE Mirrored'
  BY <1>2, QuietMirrored, UploadEnds DEF ApplyUpload
<1>3. ASSUME NEW r \in Requests, ApplyWrite(r) \/ EnrolEnd(r) \/ Abort(r) PROVE Mirrored'
  BY <1>3, QuietMirrored DEF ApplyWrite, EnrolEnd, Abort
<1>4. ASSUME NEW r \in Requests, NEW s \in Students, EnrolBegin(r, s) PROVE Mirrored'
  BY <1>4, QuietMirrored DEF EnrolBegin
<1>5. ASSUME NEW s \in Students, Unenrol(s) PROVE Mirrored'
  BY <1>5, QuietMirrored DEF Unenrol
<1>6. CASE UNCHANGED vars
  BY <1>6, QuietMirrored DEF vars
<1> QED
  BY <1>1, <1>2, <1>3, <1>4, <1>5, <1>6, CommitMirrored, CleanMirrored DEF Next

-----------------------------------------------------------------------------
(* Theorems.                                                               *)

LEMMA InitInv == Init => IInv
<1> SUFFICES ASSUME Init PROVE IInv
  OBVIOUS
<1>1. subject \in [meta : Metas, url : [Pictures -> Names]]
  BY DEF Init, Metas, Names
<1>2. req \in [Requests -> {Idle}] /\ DOMAIN work = {} /\ versions = << >>
  BY DEF Init
<1>3. TypeOK
  <2>1. req \in [Requests -> {Idle} \cup Upload \cup Enrolment]
    BY <1>2
  <2>2. versions \in Seq(Archives)
    BY <1>2
  <2> QED BY <1>1, <1>2, <2>1, <2>2 DEF Init, TypeOK
<1>4. \A r \in Requests : req[r] = Idle
  BY <1>2
<1>5. ReadExists /\ Alone /\ Current /\ SentFirst /\ Apart /\ ReadAll
  BY <1>4 DEF ReadExists, Alone, Current, SentFirst, Apart, ReadAll, Applying, Idle
<1>6. Empty /\ MirrorsLatest /\ FilesAreThere /\ EveryoneHasRow
  BY <1>2 DEF Init, Empty, MirrorsLatest, FilesAreThere, EveryoneHasRow
<1> QED BY <1>3, <1>5, <1>6 DEF IInv

LEMMA InvStep == IInv /\ [Next]_vars => IInv'
<1>1. IInv <=> TypeOK /\ Flight /\ Covered /\ Mirrored
  BY DEF IInv, Flight, Covered, Mirrored
<1>2. TypeOK' /\ Flight' /\ Covered' /\ Mirrored' => IInv'
  BY DEF IInv, Flight, Covered, Mirrored
<1> QED BY <1>1, <1>2, TypeStep, FlightStep, CoveredStep, MirroredStep

LEMMA Invariance == Spec => []IInv
BY InitInv, InvStep, PTL DEF Spec

\* Types: uploads and enrolments in any order, failing at any step, leave the
\* tables, the store and the requests in flight of their types.
THEOREM TypeCorrect == Spec => []TypeOK
<1>1. IInv => TypeOK
  BY DEF IInv
<1> QED BY <1>1, Invariance, PTL

\* ConfigApplyService writes differences only, but for any history of archives,
\* rollbacks and failures the tables equal the archive that is live.
THEOREM TablesMirror == Spec => []MirrorsLatest
<1>1. IInv => MirrorsLatest
  BY DEF IInv
<1> QED BY <1>1, Invariance, PTL

\* S3 first, the transaction next, the cleanup last: for any archives no step
\* leaves a link without its file.
THEOREM LinksWork == Spec => []FilesAreThere
<1>1. IInv => FilesAreThere
  BY DEF IInv
<1> QED BY <1>1, Invariance, PTL

\* The fan-out of an upload and the enrolment leave no student without a row, for
\* any number of students, assignments and requests.
THEOREM RowsComplete == Spec => []EveryoneHasRow
<1>1. IInv => EveryoneHasRow
  BY DEF IInv
<1> QED BY <1>1, Invariance, PTL
=============================================================================
