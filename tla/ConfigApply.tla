----------------------------- MODULE ConfigApply -----------------------------
(***************************************************************************)
(* A teacher uploads the archive of one subject; the tables and the object *)
(* store follow it by a diff against the version before.  Students are     *)
(* enrolled and unenrolled meanwhile.                                      *)
(*                                                                         *)
(* An upload reads the subject and its latest version (ApplyBegin), sends  *)
(* its files to the store, writes in one transaction, and cleans the store *)
(* up; other requests commit between these steps.  The storage is          *)
(* configured, and the uploader owns the subject: anybody else is refused  *)
(* before the first write.                                                 *)
(***************************************************************************)
EXTENDS Naturals, FiniteSets, Sequences, SequencesExt

CONSTANTS Archives,     \* the archives that may be uploaded
          Config,       \* their config.yml and the files inside
          Students,
          Requests,     \* as many requests overlap as there are slots
          MaxVersions,  \* bound on the versions an upload may start from
          None

ASSUME ConfigAssumption ==
    MaxVersions \in Nat \ {0} /\ Archives = DOMAIN Config /\ None \notin Archives

Pictures == {"gridPicture", "mainPicture"}

VARIABLES versions,   \* subject_plugin_configs; no subject before the first
          subject,    \* the mirrored columns of subjects, and its picture URLs
          work,       \* subjects_assignments by code
          enrolled,   \* subjects_students
          rows,       \* students_assignments
          objects,    \* the keys in the object store
          req,        \* the requests in flight
          overlap,    \* two uploads have been in flight together
          raced       \* an enrolment has met the transaction of an upload

vars == <<versions, subject, work, enrolled, rows, objects, req, overlap, raced>>

Idle == [op |-> "idle"]

Codes == UNION {DOMAIN Config[a].work : a \in Archives}
Files == UNION {UNION {Config[a].work[c].files : c \in DOMAIN Config[a].work} : a \in Archives}
Metas == {None} \cup {Config[a].meta : a \in Archives}
Names == {None} \cup {Config[a].pics[p] : a \in Archives, p \in Pictures}

\* The keys subjects/<code>/images/<f> and subjects/<code>/assignments/<c>/<f>.
Image(f) == <<"images", f>>
Handout(c, f) == <<"assignments", c, f>>

\* An upload and an enrolment in flight.
Upload ==
    [op : {"upload", "write", "commit", "clean"}, archive : Archives,
     prev : {None} \cup Archives, meta : Metas, url : [Pictures -> Names],
     version : Nat, enrolled : SUBSET Students]
Enrolment ==
    [op : {"enrol"}, who : Students, fresh : BOOLEAN, on : SUBSET (Codes \X Nat)]

TypeOK ==
    /\ versions \in Seq(Archives)
    /\ subject \in [meta : Metas, url : [Pictures -> Names]]
    /\ DOMAIN work \subseteq Codes
    /\ \A c \in DOMAIN work :
          /\ work[c].linked \subseteq work[c].files /\ work[c].files \subseteq Files
          /\ work[c].born \in Nat
    /\ enrolled \in SUBSET Students
    /\ rows \in SUBSET (Students \X Codes)
    /\ objects \subseteq UNION {Config[a].inside : a \in Archives}
    /\ req \in [Requests -> {Idle} \cup Upload \cup Enrolment]
    /\ overlap \in BOOLEAN /\ raced \in BOOLEAN

Init ==
    /\ versions = << >>
    /\ subject = [meta |-> None, url |-> [p \in Pictures |-> None]]
    /\ work = [c \in {} |-> None]
    /\ enrolled = {}
    /\ rows = {}
    /\ objects = {}
    /\ req = [r \in Requests |-> Idle]
    /\ overlap = FALSE
    /\ raced = FALSE

Applying(r) == req[r].op \in {"upload", "write", "commit", "clean"}

Step(r, op) == req' = [req EXCEPT ![r].op = op]

Finish(r) == req' = [req EXCEPT ![r] = Idle]

-----------------------------------------------------------------------------
(* The plan of an upload q: its archive against the version it has read.   *)

New(q) == Config[q.archive]

NoConfig == [meta |-> None, pics |-> [p \in Pictures |-> None],
             work |-> [c \in {} |-> None], inside |-> {}]

Prev(q) == IF q.prev = None THEN NoConfig ELSE Config[q.prev]

\* Mutant: the config keys are left out.
ChangedColumns(new, prev) == {g \in {"columns", "files"} : new[g] # prev[g]}

\* _diff_assignment compares columns, config keys and content files, but not
\* the llm_grading block that _build_assignment_config copies.
Changed(new, prev) == {g \in {"columns", "config", "files"} : new[g] # prev[g]}

Creates(q) == DOMAIN New(q).work \ DOMAIN Prev(q).work

Deletes(q) == DOMAIN Prev(q).work \ DOMAIN New(q).work

Kept(q) == DOMAIN New(q).work \cap DOMAIN Prev(q).work

\* Pictures whose name changed and whose file is in the archive.
NewPictures(q) ==
    {p \in Pictures : /\ New(q).pics[p] \notin {None, Prev(q).pics[p]}
                      /\ Image(New(q).pics[p]) \in New(q).inside}

\* Listed content files are sent with every upload, known or not.
ContentFiles(q) ==
    New(q).inside \cap
        UNION {{Handout(c, f) : f \in New(q).work[c].files} : c \in DOMAIN New(q).work}

Uploads(q) == {Image(New(q).pics[p]) : p \in NewPictures(q)} \cup ContentFiles(q)

Removed(q) ==
    {Image(Prev(q).pics[p]) : p \in
        {p \in Pictures : /\ Prev(q).pics[p] \notin {None, New(q).pics[p]}
                          /\ q.url[p] # None}}
    \cup UNION {{Handout(c, f) : f \in Prev(q).work[c].files \ New(q).work[c].files} :
                  c \in Kept(q)}

\* The names with a URL: those this upload has sent.
Linked(q, c) == {f \in New(q).work[c].files : Handout(c, f) \in Uploads(q)}

CreateAssignment(q, c) ==
    LET a == New(q).work[c]
    IN  [columns |-> a.columns, config |-> a.config, llm |-> a.llm,
         files |-> a.files, linked |-> Linked(q, c), born |-> q.version]

ApplyAssignmentFields(q, c, row) ==
    LET a == New(q).work[c]
        g == Changed(a, Prev(q).work[c])
    IN  [columns |-> IF "columns" \in g THEN a.columns ELSE row.columns,
         config  |-> IF "config" \in g THEN a.config ELSE row.config,
         llm     |-> IF "config" \in g THEN a.llm ELSE row.llm,
         files   |-> IF "files" \in g THEN a.files ELSE row.files,
         linked  |-> IF "files" \in g THEN Linked(q, c) ELSE row.linked,
         born    |-> row.born]

\* Subject columns are compared with the row the upload has loaded.
ApplySubjectFields(q, row) ==
    [meta |-> IF New(q).meta # q.meta THEN New(q).meta ELSE row.meta,
     url  |-> [p \in Pictures |-> IF p \in NewPictures(q) THEN New(q).pics[p]
                                  ELSE row.url[p]]]

\* Mutant: only the upload that creates the subject gives out rows.
FanOutOnce(q) == IF q.prev = None THEN q.enrolled \X Creates(q) ELSE {}

\* Every student enrolled when the transaction looks gets a row.
FanOut(q) == q.enrolled \X Creates(q)

-----------------------------------------------------------------------------
(* An upload.                                                              *)

\* The archive that is live already changes nothing; an older one is a
\* rollback and goes on.
ApplyBegin(r, a) ==
    /\ req[r] = Idle
    /\ Len(versions) < MaxVersions
    /\ versions # << >> => Last(versions) # a
    /\ req' = [req EXCEPT ![r] =
                  [op |-> "upload", archive |-> a,
                   prev |-> IF versions = << >> THEN None ELSE Last(versions),
                   meta |-> subject.meta, url |-> subject.url,
                   version |-> 0, enrolled |-> {}]]
    /\ overlap' = (overlap \/ \E o \in Requests : Applying(o))
    /\ UNCHANGED <<versions, subject, work, enrolled, rows, objects, raced>>

\* Mutant: the store is cleaned up before the transaction.
ApplyUploadCleaning(r) ==
    /\ req[r].op = "upload"
    /\ objects' = (objects \ Removed(req[r])) \cup Uploads(req[r])
    /\ Step(r, "write")
    /\ UNCHANGED <<versions, subject, work, enrolled, rows, overlap, raced>>

\* The store may fail at any file: those before it are there.
ApplyUpload(r) ==
    /\ req[r].op = "upload"
    /\ \E sent \in SUBSET Uploads(req[r]) :
          /\ objects' = objects \cup sent
          /\ IF sent = Uploads(req[r]) THEN Step(r, "write") ELSE Finish(r)
    /\ UNCHANGED <<versions, subject, work, enrolled, rows, overlap, raced>>

\* What the transaction reads: the enrolled students and the next version.
ApplyWrite(r) ==
    /\ req[r].op = "write"
    /\ req' = [req EXCEPT ![r].op = "commit", ![r].version = Len(versions) + 1,
                          ![r].enrolled = IF Creates(req[r]) = {} THEN {} ELSE enrolled]
    /\ raced' = (raced \/ \E o \in Requests : req[o].op = "enrol")
    /\ UNCHANGED <<versions, subject, work, enrolled, rows, objects, overlap>>

\* The unique indexes on the active code, on (subject, version) and on
\* (subject, code), and the foreign key of students_assignments.
Violates(q) ==
    \/ Len(versions) >= q.version
    \/ q.prev = None /\ versions # << >>
    \/ Creates(q) \cap DOMAIN work # {}
    \/ \E s \in Students, c \in Deletes(q) \cap DOMAIN work : <<s, c>> \in rows

ApplyCommit(r) ==
    LET q == req[r]
    IN  /\ q.op = "commit"
        /\ ~Violates(q)
        /\ versions' = Append(versions, q.archive)
        /\ subject' = ApplySubjectFields(q, subject)
        /\ work' = [c \in (DOMAIN work \cup Creates(q)) \ Deletes(q) |->
                       IF c \in Creates(q) THEN CreateAssignment(q, c)
                       ELSE IF c \in Kept(q) THEN ApplyAssignmentFields(q, c, work[c])
                       ELSE work[c]]
        /\ rows' = rows \cup FanOut(q)
        /\ IF Removed(q) = {} THEN Finish(r) ELSE Step(r, "clean")
        /\ UNCHANGED <<enrolled, objects, overlap, raced>>

\* Best effort: a key that cannot be deleted stays.
ApplyClean(r) ==
    /\ req[r].op = "clean"
    /\ \E gone \in SUBSET Removed(req[r]) : objects' = objects \ gone
    /\ Finish(r)
    /\ UNCHANGED <<versions, subject, work, enrolled, rows, overlap, raced>>

-----------------------------------------------------------------------------
(* Enrolment.                                                              *)

\* The assignment an id stands for is still there.
Exists(c, born) == c \in DOMAIN work /\ work[c].born = born

\* By button, search or CSV; the CSV alone goes on for a student already in.
EnrolBegin(r, s) ==
    /\ req[r] = Idle
    /\ versions # << >>
    /\ req' = [req EXCEPT ![r] =
                  [op |-> "enrol", who |-> s, fresh |-> s \notin enrolled,
                   on |-> {<<c, work[c].born>> : c \in DOMAIN work}]]
    /\ raced' = (raced \/ \E o \in Requests : req[o].op = "commit")
    /\ UNCHANGED <<versions, subject, work, enrolled, rows, objects, overlap>>

\* The primary key of subjects_students and the foreign key of the rows.
EnrolEnd(r) ==
    LET q == req[r]
    IN  /\ q.op = "enrol"
        /\ q.fresh => q.who \notin enrolled
        /\ \A i \in q.on : Exists(i[1], i[2])
        /\ enrolled' = IF q.fresh THEN enrolled \cup {q.who} ELSE enrolled
        /\ rows' = rows \cup {<<q.who, i[1]>> : i \in q.on}
        /\ Finish(r)
        /\ UNCHANGED <<versions, subject, work, objects, overlap, raced>>

\* The rows, and the work on them, stay.
Unenrol(s) ==
    /\ s \in enrolled
    /\ enrolled' = enrolled \ {s}
    /\ UNCHANGED <<versions, subject, work, rows, objects, req, overlap, raced>>

\* A constraint, the connection or the process ends the request: its
\* transaction is rolled back, what it sent to the store stays.
Abort(r) ==
    /\ req[r].op \in {"upload", "write", "commit", "enrol"}
    /\ Finish(r)
    /\ UNCHANGED <<versions, subject, work, enrolled, rows, objects, overlap, raced>>

Next ==
    \/ \E r \in Requests :
          \/ \E a \in Archives : ApplyBegin(r, a)
          \/ ApplyUpload(r) \/ ApplyWrite(r) \/ ApplyCommit(r) \/ ApplyClean(r)
          \/ \E s \in Students : EnrolBegin(r, s)
          \/ EnrolEnd(r) \/ Abort(r)
    \/ \E s \in Students : Unenrol(s)

Spec == Init /\ [][Next]_vars

-----------------------------------------------------------------------------
(* Properties.                                                             *)

Live == Config[Last(versions)]

\* The spec of the config upload: the tables follow the archive.  Although each
\* upload writes only what differs from the version before, and uploads fail at
\* any step or roll back to an older archive, the rows equal the live version.
\* (Two uploads at once diff against the same version, and llm_grading is not
\* compared: see the README.)
MirrorsLatest ==
    versions # << >> /\ ~overlap =>
        /\ subject.meta = Live.meta
        /\ DOMAIN work = DOMAIN Live.work
        /\ \A c \in DOMAIN work : \A g \in {"columns", "config", "files"} :
              work[c][g] = Live.work[c][g]

\* The live version names a picture for this place, which no version has named
\* for the other place or without its file.
Settled(p) ==
    /\ Live.pics[p] # None
    /\ \A k \in DOMAIN versions :
          LET v == Config[versions[k]]
          IN  /\ \A o \in Pictures \ {p} : v.pics[o] # Live.pics[p]
              /\ v.pics[p] = Live.pics[p] => Image(Live.pics[p]) \in v.inside

\* S3 first, then the database, then the cleanup: whatever step fails, every
\* handout with a link is there, and so is a picture of the live version.
FilesAreThere ==
    versions # << >> /\ ~overlap =>
        /\ \A c \in DOMAIN work : \A f \in work[c].linked : Handout(c, f) \in objects
        /\ \A p \in Pictures : Settled(p) =>
              subject.url[p] = Live.pics[p] /\ Image(Live.pics[p]) \in objects

\* _ensure_assignment_rows and the fan-out of an upload cover each other: every
\* enrolled student has a row for every assignment, in whichever order both came.
EveryoneHasRow == ~raced => enrolled \X DOMAIN work \subseteq rows
=============================================================================
