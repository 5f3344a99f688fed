------------------------------ MODULE Accounts ------------------------------
(***************************************************************************)
(* Accounts and their passwords: creation by a teacher or an admin, the    *)
(* credentials mail through the outbox, login with its throttle, password  *)
(* resets and changes, and the sessions they end.  Requests overlap where  *)
(* they await; time is counted in whole seconds, as a token's iat is.      *)
(***************************************************************************)
EXTENDS Mailer

CONSTANTS StudentAccounts, TeacherAccounts, TestAccounts,   \* by the route that makes them
          Slots, NoRequest,              \* requests in flight, and none
          Max, IpMax, Window,            \* of the login throttles, in seconds
          SessionTTL, ResetTTL,          \* JWT_EXPIRY_HOURS and ttl_hours
          MaxTime, MaxRequests           \* bounds

ASSUME AccountsAssumption ==
    /\ Max \in Nat \ {0} /\ IpMax \in Nat \ {0} /\ Window \in Nat \ {0}
    /\ SessionTTL \in Nat /\ ResetTTL \in Nat
    /\ MaxTime \in Nat \ {0} /\ MaxRequests \in Nat
    /\ IsFiniteSet(StudentAccounts) /\ IsFiniteSet(Slots)
    /\ StudentAccounts \cap TeacherAccounts = {}
    /\ (StudentAccounts \cup TeacherAccounts) \cap TestAccounts = {}
    /\ {"ip", "forgot"} \cap (StudentAccounts \cup TeacherAccounts \cup TestAccounts) = {}

Accounts == StudentAccounts \cup TeacherAccounts \cup TestAccounts
Keys == Accounts \cup {"ip", "forgot"}

VARIABLES user,       \* the users row; pw = 0 before it exists
          known,      \* versions of the password its owner has been given or chose
          sessions,   \* cookies: iat, and the password at the moment of minting
          tokens,     \* password_reset_tokens, and whether the mail got out
          request,    \* what each request has read
          failures,   \* the limiters' deques
          began,      \* the second in which the last committed change began
          now, requests   \* time, and the requests so far

auth == <<user, known, sessions, tokens, request, failures, began>>
clock == <<now, requests>>
accountsVars == <<mail, auth, clock>>

Never == 0      \* password_changed_at IS NULL

Credential ==
    [event : {"SEND_CREDENTIALS"}, who : StudentAccounts, secret : Nat \cup {NoSecret},
     state : {"PENDING", "ERROR", "FINISHED"}, retries : Nat, rung : {{}}, skipped : {{}}]

\* What a request keeps across its awaits.
LoginState == [op : {"login"}, of : Accounts, typed : Nat, checked : BOOLEAN]
ResetState == [op : {"reset"}, of : Accounts, token : DOMAIN tokens]
ChangeState == [op : {"change"}, of : Accounts, at : 1 .. MaxTime]

AccountsTypeOK ==
    /\ box \in Seq(Credential)
    /\ batch \in [on : BOOLEAN, left : SUBSET Nat, rows : [DOMAIN batch.rows -> Credential]]
    /\ batch.left \subseteq DOMAIN batch.rows /\ DOMAIN batch.rows \subseteq Ids
    /\ sent \subseteq Ids \X StudentAccounts \X Channels
    /\ tokens \in Seq([of : Accounts, expires : Nat, used : BOOLEAN, mailed : BOOLEAN])
    /\ request \in [Slots -> {NoRequest} \cup LoginState \cup ResetState \cup ChangeState]
    /\ user \in [Accounts -> [pw : Nat, active : BOOLEAN, changed : 0 .. MaxTime]]
    /\ known \in [Accounts -> SUBSET Nat]
    /\ sessions \subseteq [of : Accounts, iat : 1 .. MaxTime, pw : Nat]
    /\ failures \in [Keys -> Seq(1 .. MaxTime)]
    /\ began \in [Accounts -> 0 .. MaxTime] /\ now \in 1 .. MaxTime

AccountsInit ==
    /\ MailInit
    /\ user = [a \in Accounts |-> [pw |-> 0, active |-> TRUE, changed |-> Never]]
    /\ known = [a \in Accounts |-> {}]
    /\ sessions = {} /\ tokens = <<>>
    /\ request = [r \in Slots |-> NoRequest]
    /\ failures = [k \in Keys |-> <<>>]
    /\ began = [a \in Accounts |-> Never]
    /\ now = 1 /\ requests = 0

Exists(a) == user[a].pw # 0

\* Another request comes in.
Request == requests < MaxRequests /\ requests' = requests + 1 /\ now' = now

\* The version a generated or chosen password gets.
Fresh(a) == user[a].pw + 1

-----------------------------------------------------------------------------
(* Making accounts.                                                        *)

Credentials(a, version) == New("SEND_CREDENTIALS", a, version)

\* The rows of the students in S and a message for each, in one transaction.
Registered(S) ==
    /\ user' = [a \in Accounts |-> IF a \in S THEN [user[a] EXCEPT !.pw = 1] ELSE user[a]]
    /\ \E order \in Orders(S) : Enqueue([n \in DOMAIN order |-> Credentials(order[n], 1)])
    /\ UNCHANGED <<batch, sent, crashes, known, sessions, tokens, request, failures, began>>

\* add_student refuses an address that is taken.
AddStudent(a) ==
    /\ Request
    /\ a \in StudentAccounts /\ ~Exists(a)
    /\ Registered({a})

\* import_students skips the rows whose address is taken.
ImportStudents(S) ==
    /\ Request
    /\ {a \in S : ~Exists(a)} # {}
    /\ Registered({a \in S : ~Exists(a)})

\* create_teacher: the admin types the password.
CreateTeacher(a) ==
    /\ Request
    /\ a \in TeacherAccounts /\ ~Exists(a)
    /\ user' = [user EXCEPT ![a].pw = 1]
    /\ known' = [known EXCEPT ![a] = {1}]
    /\ UNCHANGED <<mail, sessions, tokens, request, failures, began>>

\* provision_test_student: nobody ever learns the password.
ProvisionTestStudent(a) ==
    /\ Request
    /\ a \in TestAccounts /\ ~Exists(a)
    /\ user' = [user EXCEPT ![a].pw = 1]
    /\ UNCHANGED <<mail, known, sessions, tokens, request, failures, began>>

Session(a, iat) == [of |-> a, iat |-> iat, pw |-> user[a].pw]

\* enter_as_test_student.
EnterAsTestStudent(a) ==
    /\ Request
    /\ a \in TestAccounts /\ Exists(a)
    /\ sessions' = sessions \cup {Session(a, now)}
    /\ UNCHANGED <<mail, user, known, tokens, request, failures, began>>

\* toggle_user_active, by an admin on someone else.
ToggleUserActive(a) ==
    /\ Request
    /\ Exists(a)
    /\ user' = [user EXCEPT ![a].active = ~@]
    /\ UNCHANGED <<mail, known, sessions, tokens, request, failures, began>>

\* A new password hash, stamped with the second at.
Rotated(u, at) == [u EXCEPT !.pw = @ + 1, !.changed = at]

\* teacher_resend_credentials for the students selected.
ResendCredentials(S) ==
    /\ Request
    /\ S # {} /\ \A a \in S : Exists(a)
    /\ user' = [a \in Accounts |-> IF a \in S THEN Rotated(user[a], now) ELSE user[a]]
    /\ began' = [a \in Accounts |-> IF a \in S THEN now ELSE began[a]]
    /\ \E order \in Orders(S) :
          Enqueue([n \in DOMAIN order |-> Credentials(order[n], Fresh(order[n]))])
    /\ UNCHANGED <<batch, sent, crashes, known, sessions, tokens, request, failures>>

\* The outbox hands over one credentials mail: a send makes its password known.
SendCredentials(i) ==
    /\ Handle(i, <<box[i].who>>, {}, FALSE)
    /\ known' = IF sent' = sent THEN known
                ELSE [known EXCEPT ![box[i].who] = @ \cup {batch.rows[i].secret}]
    /\ UNCHANGED <<user, sessions, tokens, request, failures, began, clock>>

-----------------------------------------------------------------------------
(* The throttle: SlidingWindowLimiter.                                     *)

\* The failures _prune pops: from the left, while the oldest is out of the window.
Stale(q) == {n \in DOMAIN q : \A m \in 1 .. n : q[m] + Window <= now}
Pruned(q) == SubSeq(q, Cardinality(Stale(q)) + 1, Len(q))

\* Mutant of IsBlocked: one guess too many.
IsBlockedLate(k, max) == Len(Pruned(failures[k])) > max

IsBlocked(k, max) == Len(Pruned(failures[k])) >= max

Failed(f, k) == [f EXCEPT ![k] = Append(Pruned(@), now)]

-----------------------------------------------------------------------------
(* Login.                                                                  *)

Start(r, record) ==
    request[r] = NoRequest /\ request' = [request EXCEPT ![r] = record]

End(r) == request' = [request EXCEPT ![r] = NoRequest]

\* Up to the first await: the throttles of the account and of the client.
LoginBegin(r, a, typed) ==
    /\ Request
    /\ ~IsBlocked(a, Max) /\ ~IsBlocked("ip", IpMax)
    /\ Start(r, [op |-> "login", of |-> a, typed |-> typed, checked |-> FALSE])
    /\ UNCHANGED <<mail, user, known, sessions, tokens, failures, began>>

\* The row is loaded and the password verified, without an await in between.
LoginCheck(r) ==
    /\ request[r] # NoRequest /\ request[r].op = "login" /\ ~request[r].checked
    /\ LET a == request[r].of
       IN  IF user[a].active /\ Exists(a) /\ request[r].typed = user[a].pw
           THEN /\ failures' = [failures EXCEPT ![a] = <<>>]
                /\ request' = [request EXCEPT ![r].checked = TRUE]
           ELSE /\ failures' = Failed(Failed(failures, a), "ip")
                /\ End(r)
    /\ UNCHANGED <<mail, user, known, sessions, tokens, began, clock>>

\* The login row is committed, then the token is minted.
LoginEnd(r) ==
    /\ request[r] # NoRequest /\ request[r].op = "login" /\ request[r].checked
    /\ sessions' = sessions \cup {Session(request[r].of, now)}
    /\ End(r)
    /\ UNCHANGED <<mail, user, known, tokens, failures, began, clock>>

\* Mutant of IssuedBefore: a token of the same second is refused.
IssuedBeforeOrAt(s) == user[s.of].changed # Never /\ s.iat <= user[s.of].changed

\* issued_before_password_change.
IssuedBefore(s) == user[s.of].changed # Never /\ s.iat < user[s.of].changed

\* _get_current_user.
IsAccepted(s) == s.iat + SessionTTL > now /\ user[s.of].active /\ ~IssuedBefore(s)

\* logout drops the cookie.
Logout(s) ==
    /\ Request
    /\ sessions' = sessions \ {s}
    /\ UNCHANGED <<mail, user, known, tokens, request, failures, began>>

-----------------------------------------------------------------------------
(* Resets and changes.                                                     *)

\* forgot_password: the token is committed, then mailed if there is an address
\* and the channel does not fail.
ForgotPassword(a) ==
    /\ Request
    /\ ~IsBlocked("forgot", Max)
    /\ failures' = Failed(failures, "forgot")
    /\ IF Exists(a) /\ user[a].active
       THEN \E out \in BOOLEAN :
             /\ out => a \in StudentAccounts
             /\ tokens' = Append(tokens, [of |-> a, expires |-> now + ResetTTL,
                                         used |-> FALSE, mailed |-> out])
       ELSE UNCHANGED tokens
    /\ UNCHANGED <<mail, user, known, sessions, request, began>>

IsValid(t) == ~tokens[t].used /\ now < tokens[t].expires

\* reset_password reads the token and the user.
ResetBegin(r, t) ==
    /\ Request
    /\ tokens[t].mailed /\ IsValid(t)
    /\ Start(r, [op |-> "reset", of |-> tokens[t].of, token |-> t])
    /\ UNCHANGED <<mail, user, known, sessions, tokens, failures, began>>

\* The owner of a sets a password of their own choice, stamped with second at.
Chosen(a, at) ==
    /\ user' = [user EXCEPT ![a] = Rotated(@, at)]
    /\ known' = [known EXCEPT ![a] = @ \cup {Fresh(a)}]
    /\ began' = [began EXCEPT ![a] = at]

ResetEnd(r) ==
    /\ request[r] # NoRequest /\ request[r].op = "reset"
    /\ Chosen(request[r].of, now)
    /\ tokens' = [tokens EXCEPT ![request[r].token].used = TRUE]
    /\ End(r)
    /\ UNCHANGED <<mail, sessions, failures, clock>>

\* change_password by a signed-in owner who typed the current password.
ChangeBegin(r, s) ==
    /\ Request
    /\ IsAccepted(s) /\ user[s.of].pw \in known[s.of]
    /\ Start(r, [op |-> "change", of |-> s.of, at |-> now])
    /\ UNCHANGED <<mail, user, known, sessions, tokens, failures, began>>

\* Its commit, and the cookie minted at the same instant.
ChangeEnd(r) ==
    /\ request[r] # NoRequest /\ request[r].op = "change"
    /\ LET a == request[r].of IN
       /\ Chosen(a, request[r].at)
       /\ sessions' = sessions \cup {[of |-> a, iat |-> request[r].at, pw |-> Fresh(a)]}
    /\ End(r)
    /\ UNCHANGED <<mail, tokens, failures, clock>>

-----------------------------------------------------------------------------
Tick == now < MaxTime /\ now' = now + 1 /\ UNCHANGED <<mail, auth, requests>>

CredentialsOutbox == (Poll \/ Commit \/ Crash) /\ UNCHANGED <<auth, clock>>

AccountsNext ==
    \/ \E a \in Accounts :
        \/ AddStudent(a) \/ CreateTeacher(a) \/ ProvisionTestStudent(a)
        \/ EnterAsTestStudent(a) \/ ToggleUserActive(a) \/ ForgotPassword(a)
    \/ \E S \in SUBSET StudentAccounts : ImportStudents(S) \/ ResendCredentials(S)
    \/ \E i \in Ids : SendCredentials(i)
    \/ \E r \in Slots :
        \/ \E a \in Accounts : \E v \in known[a] \cup {0} : LoginBegin(r, a, v)
        \/ LoginCheck(r) \/ LoginEnd(r) \/ ResetEnd(r) \/ ChangeEnd(r)
        \/ \E t \in DOMAIN tokens : ResetBegin(r, t)
        \/ \E s \in sessions : ChangeBegin(r, s)
    \/ \E s \in sessions : Logout(s)
    \/ Tick \/ CredentialsOutbox

AccountsSpec == AccountsInit /\ [][AccountsNext]_accountsVars

-----------------------------------------------------------------------------
(* Properties.                                                             *)

\* Nobody is left outside: the password in a student's row is one its owner has
\* been mailed or chose, or it is still sealed in an unfinished SEND_CREDENTIALS
\* message, however resends, retries, crashes and resets overlap.
PasswordIsDeliverable ==
    \A a \in StudentAccounts : Exists(a) =>
        \/ user[a].pw \in known[a]
        \/ \E i \in Ids : /\ box[i].who = a /\ box[i].secret = user[a].pw
                          /\ box[i].state # "FINISHED"

\* A session minted under the current password works until it expires or the
\* account is closed, in the second of the change too; one minted under an
\* older password works only if it is not older than the request that changed
\* the password.
SessionFollowsPassword ==
    \A s \in sessions :
        /\ s.pw = user[s.of].pw /\ user[s.of].active /\ s.iat + SessionTTL > now
              => IsAccepted(s)
        /\ IsAccepted(s) /\ s.pw # user[s.of].pw => s.iat >= began[s.of]

\* The throttle is read before the password is looked up and written after it:
\* requests that overlap may all pass, but within a window the failures of a
\* key never exceed its budget by more than the other requests in flight.
FailuresAreBounded ==
    \A a \in Accounts : Len(Pruned(failures[a])) <= Max + Cardinality(Slots) - 1
=============================================================================
