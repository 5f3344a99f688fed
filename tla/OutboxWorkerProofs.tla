------------------------- MODULE OutboxWorkerProofs -------------------------
(***************************************************************************)
(* The outbox worker: the lock that lets one replica process the outbox,   *)
(* and the sessions its batch shares a submission with.                    *)
(* AdvisoryLock: only one replica processes the outbox at a time, for any  *)
(* number of replicas and any pool.  The lock belongs to a connection, so  *)
(* the proof is about connections: none is in two places of its replica at *)
(* once, and a processor at work still holds the very connection that owns *)
(* the lock.                                                               *)
(* SubmissionSessions: for any number of teacher requests in flight,       *)
(* messages, retries and worker deaths, under any mode without a quiz:     *)
(* however the stale copies of the sessions are merged, no submission      *)
(* loses its message, none waits on a teacher who was not told, none is    *)
(* COMPLETED without a grade, and none is decided without the teacher.     *)
(***************************************************************************)
EXTENDS AdvisoryLock, SubmissionSessions, SubmissionRowsProofs

-----------------------------------------------------------------------------
(* AdvisoryLock.                                                           *)

Distinct(q) == \A i, j \in 1 .. Len(q) : q[i] = q[j] => i = j

Absent(c, q) == \A i \in 1 .. Len(q) : q[i] # c

\* The pool queue q, the borrowed connections b and the job's connection k of a
\* replica (0 for none) never share a connection.
Apart(q, b, k) ==
    /\ q \in Seq(Conns) /\ Len(q) <= PoolSize
    /\ b \in SUBSET Conns
    /\ k \in Conns \cup {0}
    /\ Distinct(q)
    /\ \A i \in 1 .. Len(q) : q[i] \notin b
    /\ Absent(k, q)
    /\ k \notin b

Owner == {Nobody} \cup (Replicas \X Conns)

LockOK(l) ==
    /\ l \in [owner : Owner, times : 0 .. MaxHeld]
    /\ l.owner # Nobody => l.times > 0

\* The job of a replica at pc p holds connection k, under lock l.
JobHolds(r, p, k, l) ==
    /\ p \in {"waiting", "working", "unlocking"}
    /\ p = "working" => k # 0 /\ l.owner = <<r, k>>
    /\ p # "working" => k = 0

\* The inductive invariant.
LockIInv ==
    /\ idle = [r \in Replicas |-> idle[r]]
    /\ busy = [r \in Replicas |-> busy[r]]
    /\ pc = [r \in Replicas |-> pc[r]]
    /\ conn = [r \in Replicas |-> conn[r]]
    /\ \A r \in Replicas : Apart(idle[r], busy[r], conn[r])
    /\ \A r \in Replicas : JobHolds(r, pc[r], conn[r], lock)
    /\ LockOK(lock)
    /\ traffic \in 0 .. MaxTraffic
    /\ restarts \in 0 .. MaxRestarts

-----------------------------------------------------------------------------
(* The pool.                                                               *)

LEMMA ConnsAreNat == Conns \subseteq Nat \ {0}
BY PoolAssumption DEF Conns

\* The lock of one replica's connection is not another's, nor free.
LEMMA OwnersDiffer ==
    ASSUME NEW r, NEW s, NEW c \in Conns, NEW d
    PROVE  /\ <<r, c>> # Nobody
           /\ <<r, c>> = <<s, d>> => r = s /\ c = d
BY ConnsAreNat DEF Nobody

\* A checkout takes a connection nobody else of the replica holds, and leaves
\* room in the pool for it.
LEMMA CheckoutTakes ==
    ASSUME NEW r, Apart(idle[r], busy[r], conn[r]), NEW c \in Checkout(r)
    PROVE  /\ c \in Conns /\ c \notin busy[r] /\ c # conn[r]
           /\ Absent(c, Taken(r))
           /\ Len(Taken(r)) < PoolSize
           /\ Apart(Taken(r), busy[r], conn[r])
<1> DEFINE q == idle[r]
<1>0. /\ q \in Seq(Conns) /\ Len(q) <= PoolSize /\ Distinct(q)
      /\ \A i \in 1 .. Len(q) : q[i] \in Conns /\ q[i] \notin busy[r] /\ q[i] # conn[r]
      /\ busy[r] \in SUBSET Conns /\ conn[r] \in Conns \cup {0} /\ conn[r] \notin busy[r]
  BY DEF Apart, Absent
<1>1. CASE q # <<>>
  <2>1. c = q[1] /\ Taken(r) = Tail(q)
    BY <1>1 DEF Checkout, Taken
  <2>2. /\ Tail(q) \in Seq(Conns) /\ Len(Tail(q)) = Len(q) - 1
        /\ \A i \in 1 .. Len(q) - 1 : Tail(q)[i] = q[i + 1]
        /\ 1 \in 1 .. Len(q)
    BY <1>0, <1>1
  <2>3. \A i \in 1 .. Len(q) - 1 : i + 1 \in 1 .. Len(q) /\ i + 1 # 1
    BY <1>0
  <2>4. Absent(c, Tail(q)) /\ Distinct(Tail(q))
    BY <1>0, <2>1, <2>2, <2>3 DEF Absent, Distinct
  <2>5. Len(Tail(q)) < PoolSize
    BY <1>0, <2>2, PoolAssumption
  <2>6. Apart(Tail(q), busy[r], conn[r])
    BY <1>0, <2>2, <2>3, <2>4, <2>5, PoolAssumption DEF Apart, Absent
  <2> QED
    BY <1>0, <2>1, <2>2, <2>4, <2>5, <2>6
<1>2. CASE q = <<>>
  <2>1. c \in Conns /\ c \notin Opened(r) /\ Taken(r) = <<>>
    BY <1>2 DEF Checkout, Taken
  <2>2. c \notin busy[r] /\ c # conn[r]
    BY <2>1 DEF Opened
  <2> QED
    BY <1>0, <2>1, <2>2, PoolAssumption DEF Apart, Absent, Distinct
<1> QED BY <1>1, <1>2

\* A connection that nobody else of the replica holds may go back to the pool.
LEMMA ReturnKeepsApart ==
    ASSUME NEW q, NEW b, NEW k, Apart(q, b, k),
           NEW c \in Conns, c \notin b, c # k, Absent(c, q)
    PROVE  Apart(Returned(q, c), b, k)
<1>1. CASE Len(q) < PoolSize
  <2>1. /\ Append(q, c) \in Seq(Conns) /\ Len(Append(q, c)) = Len(q) + 1
        /\ \A i \in 1 .. Len(q) : Append(q, c)[i] = q[i]
        /\ Append(q, c)[Len(q) + 1] = c
        /\ Len(q) \in Nat
    BY DEF Apart
  <2>2. \A i \in 1 .. Len(q) + 1 : i \in 1 .. Len(q) \/ i = Len(q) + 1
    BY <2>1
  <2>3. Distinct(Append(q, c))
    BY <2>1, <2>2 DEF Distinct, Apart, Absent
  <2> QED
    BY <1>1, <2>1, <2>2, <2>3, PoolAssumption DEF Returned, Apart, Absent
<1>2. CASE ~(Len(q) < PoolSize)
  BY <1>2 DEF Returned
<1> QED BY <1>1, <1>2

-----------------------------------------------------------------------------
(* The lock.                                                               *)

LEMMA FreeLockOK == LockOK(FreeLock)
BY PoolAssumption DEF LockOK, FreeLock, Owner

\* Taking the lock for c makes c its owner.
LEMMA LockedOK ==
    ASSUME NEW r \in Replicas, NEW c \in Conns, LockOK(lock)
    PROVE  LockOK(Locked(r, c)) /\ Locked(r, c).owner = <<r, c>>
BY PoolAssumption DEF LockOK, Locked, Owner

\* What replica r does with a lock on its connection c leaves the lock of any
\* other connection alone.
LEMMA UnlockedOK ==
    ASSUME NEW r \in Replicas, NEW c \in Conns, LockOK(lock),
           NEW l \in Unlocked(r, c)
    PROVE  LockOK(l) /\ (lock.owner # <<r, c>> => l = lock)
<1>1. CASE lock.owner # <<r, c>>
  BY <1>1 DEF Unlocked
<1>2. CASE lock.owner = <<r, c>>
  <2>1. lock.times \in 1 .. MaxHeld
    BY <1>2, OwnersDiffer, PoolAssumption DEF LockOK
  <2>2. \/ l = lock
        \/ l = FreeLock
        \/ lock.times # 1 /\ l = [lock EXCEPT !.times = @ - 1]
    BY <1>2 DEF Unlocked
  <2>3. ASSUME lock.times # 1 PROVE LockOK([lock EXCEPT !.times = @ - 1])
    BY <2>1, <2>3, PoolAssumption DEF LockOK
  <2> QED BY <1>2, <2>2, <2>3, FreeLockOK
<1> QED BY <1>1, <1>2

LEMMA AfterReturnOK ==
    ASSUME NEW r, NEW q, NEW c, NEW l, LockOK(l)
    PROVE  /\ LockOK(AfterReturn(r, q, c, l))
           /\ l.owner # <<r, c>> => AfterReturn(r, q, c, l) = l
BY FreeLockOK DEF AfterReturn

-----------------------------------------------------------------------------
(* The steps.                                                              *)

\* What a step of replica r owes: its own connections stay apart, its job holds
\* what it should, and a lock another replica's connection owns is unchanged.
StepOK(r) ==
    /\ \E q, b, p, k :
          /\ idle' = [idle EXCEPT ![r] = q]
          /\ busy' = [busy EXCEPT ![r] = b]
          /\ pc' = [pc EXCEPT ![r] = p]
          /\ conn' = [conn EXCEPT ![r] = k]
          /\ Apart(q, b, k)
          /\ JobHolds(r, p, k, lock')
    /\ LockOK(lock')
    /\ \A s \in Replicas \ {r}, c \in Conns :
          lock.owner = <<s, c>> => lock' = lock
    /\ traffic' \in 0 .. MaxTraffic
    /\ restarts' \in 0 .. MaxRestarts

LEMMA StepSuffices ==
    ASSUME LockIInv, NEW r \in Replicas, StepOK(r)
    PROVE  LockIInv'
<1>1. PICK q, b, p, k :
          /\ idle' = [idle EXCEPT ![r] = q]
          /\ busy' = [busy EXCEPT ![r] = b]
          /\ pc' = [pc EXCEPT ![r] = p]
          /\ conn' = [conn EXCEPT ![r] = k]
          /\ Apart(q, b, k)
          /\ JobHolds(r, p, k, lock')
  BY Zenon DEF StepOK
<1>2. /\ idle'[r] = q /\ busy'[r] = b /\ pc'[r] = p /\ conn'[r] = k
      /\ \A s \in Replicas \ {r} : /\ idle'[s] = idle[s] /\ busy'[s] = busy[s]
                                   /\ pc'[s] = pc[s] /\ conn'[s] = conn[s]
      /\ idle' = [s \in Replicas |-> idle'[s]]
      /\ busy' = [s \in Replicas |-> busy'[s]]
      /\ pc' = [s \in Replicas |-> pc'[s]]
      /\ conn' = [s \in Replicas |-> conn'[s]]
  BY <1>1 DEF LockIInv
<1>3. ASSUME NEW s \in Replicas
      PROVE  Apart(idle'[s], busy'[s], conn'[s])
  BY <1>1, <1>2 DEF LockIInv
<1>4. ASSUME NEW s \in Replicas
      PROVE  JobHolds(s, pc'[s], conn'[s], lock')
  <2>1. CASE s = r
    BY <1>1, <1>2, <2>1
  <2>2. CASE s # r
    <3>1. JobHolds(s, pc[s], conn[s], lock) /\ conn[s] \in Conns \cup {0}
      BY DEF LockIInv, Apart
    <3>2. pc[s] = "working" => lock' = lock
      BY <2>2, <3>1 DEF StepOK, JobHolds
    <3> QED BY <1>2, <2>2, <3>1, <3>2 DEF JobHolds
  <2> QED BY <2>1, <2>2
<1> QED BY <1>2, <1>3, <1>4 DEF LockIInv, StepOK, Apart, Distinct, Absent, JobHolds, LockOK

\* A fact used for every job step: what LockIInv says of the acting replica.
LEMMA OwnReplica ==
    ASSUME LockIInv, NEW r \in Replicas
    PROVE  /\ Apart(idle[r], busy[r], conn[r])
           /\ JobHolds(r, pc[r], conn[r], lock)
           /\ LockOK(lock)
           /\ idle = [idle EXCEPT ![r] = idle[r]]
           /\ busy = [busy EXCEPT ![r] = busy[r]]
           /\ pc = [pc EXCEPT ![r] = pc[r]]
           /\ conn = [conn EXCEPT ![r] = conn[r]]
           /\ traffic \in 0 .. MaxTraffic
           /\ restarts \in 0 .. MaxRestarts
BY DEF LockIInv

LEMMA AcquireStep ==
    ASSUME LockIInv, NEW r \in Replicas, Acquire(r)
    PROVE  StepOK(r)
<1>1. PICK c \in Checkout(r) :
          /\ Grants(r, c)
          /\ lock' = Locked(r, c)
          /\ conn' = [conn EXCEPT ![r] = c]
  BY DEF Acquire
<1>2. /\ c \in Conns /\ c \notin busy[r] /\ Absent(c, Taken(r))
      /\ Apart(Taken(r), busy[r], conn[r])
  BY OwnReplica, CheckoutTakes
<1>3. Apart(Taken(r), busy[r], c)
  BY <1>2 DEF Apart
<1>4. LockOK(lock') /\ lock'.owner = <<r, c>>
  BY <1>1, <1>2, OwnReplica, LockedOK
<1>5. JobHolds(r, "working", c, lock')
  BY <1>2, <1>4, ConnsAreNat DEF JobHolds
<1>6. \A s \in Replicas \ {r}, d \in Conns : lock.owner # <<s, d>>
  BY <1>1, OwnersDiffer DEF Grants
<1>7. /\ idle' = [idle EXCEPT ![r] = Taken(r)]
      /\ busy' = [busy EXCEPT ![r] = busy[r]]
      /\ pc' = [pc EXCEPT ![r] = "working"]
      /\ traffic' \in 0 .. MaxTraffic /\ restarts' \in 0 .. MaxRestarts
  BY OwnReplica DEF Acquire
<1> QED BY <1>1, <1>3, <1>4, <1>5, <1>6, <1>7 DEF StepOK

LEMMA SkipStep ==
    ASSUME LockIInv, NEW r \in Replicas, Skip(r)
    PROVE  StepOK(r)
<1>1. PICK c \in Checkout(r) : idle' = [idle EXCEPT ![r] = Returned(Taken(r), c)]
  BY DEF Skip
<1>2. Apart(Returned(Taken(r), c), busy[r], conn[r])
  BY OwnReplica, CheckoutTakes, ReturnKeepsApart
<1>3. /\ busy' = [busy EXCEPT ![r] = busy[r]]
      /\ pc' = [pc EXCEPT ![r] = pc[r]]
      /\ conn' = [conn EXCEPT ![r] = conn[r]]
      /\ lock' = lock
      /\ traffic' \in 0 .. MaxTraffic /\ restarts' \in 0 .. MaxRestarts
  BY OwnReplica DEF Skip
<1>4. JobHolds(r, pc[r], conn[r], lock') /\ LockOK(lock')
  BY <1>3, OwnReplica
<1> QED BY <1>1, <1>2, <1>3, <1>4 DEF StepOK

\* The end of a run, by Commit or by Leave: the job's connection goes back to
\* the pool, and the lock it left is l.
LEMMA JobReturns ==
    ASSUME LockIInv, NEW r \in Replicas, pc[r] = "working",
           NEW p \in {"waiting", "unlocking"},
           NEW l, LockOK(l), lock.owner # <<r, conn[r]>> => l = lock,
           idle' = [idle EXCEPT ![r] = Returned(@, conn[r])],
           lock' = AfterReturn(r, idle[r], conn[r], l),
           conn' = [conn EXCEPT ![r] = 0],
           pc' = [pc EXCEPT ![r] = p],
           UNCHANGED <<busy, traffic, restarts>>
    PROVE  StepOK(r)
<1> DEFINE c == conn[r]
<1>1. /\ c \in Conns /\ lock.owner = <<r, c>>
      /\ Apart(idle[r], busy[r], c)
  BY OwnReplica DEF JobHolds, Apart
<1>2. c \notin busy[r] /\ Absent(c, idle[r]) /\ c # 0
  BY <1>1, ConnsAreNat DEF Apart
<1>3. Apart(idle[r], busy[r], 0)
  BY <1>1, ConnsAreNat DEF Apart, Absent
<1>4. Apart(Returned(idle[r], c), busy[r], 0)
  BY <1>1, <1>2, <1>3, ReturnKeepsApart
<1>5. /\ idle' = [idle EXCEPT ![r] = Returned(idle[r], c)]
      /\ busy' = [busy EXCEPT ![r] = busy[r]]
      /\ traffic' \in 0 .. MaxTraffic /\ restarts' \in 0 .. MaxRestarts
  BY OwnReplica
<1>6. LockOK(lock')
  BY AfterReturnOK
<1>7. \A s \in Replicas \ {r}, d \in Conns : lock.owner # <<s, d>>
  BY <1>1, OwnersDiffer
<1>8. JobHolds(r, p, 0, lock')
  BY DEF JobHolds
<1> QED BY <1>4, <1>5, <1>6, <1>7, <1>8 DEF StepOK

LEMMA CommitStep ==
    ASSUME LockIInv, NEW r \in Replicas, Commit(r)
    PROVE  StepOK(r)
BY JobReturns, OwnReplica DEF Commit

LEMMA LeaveStep ==
    ASSUME LockIInv, NEW r \in Replicas, Leave(r)
    PROVE  StepOK(r)
<1>1. conn[r] \in Conns
  BY OwnReplica DEF Leave, JobHolds, Apart
<1>2. PICK l : /\ l = lock \/ l \in Unlocked(r, conn[r])
               /\ lock' = AfterReturn(r, idle[r], conn[r], l)
  BY DEF Leave
<1>3. LockOK(l) /\ (lock.owner # <<r, conn[r]>> => l = lock)
  BY <1>1, <1>2, OwnReplica, UnlockedOK
<1> QED BY <1>2, <1>3, JobReturns DEF Leave

LEMMA UnlockStep ==
    ASSUME LockIInv, NEW r \in Replicas, Unlock(r)
    PROVE  StepOK(r)
<1>0. PICK c \in Checkout(r) :
          /\ \E l \in Unlocked(r, c) : lock' = AfterReturn(r, Taken(r), c, l)
          /\ idle' = [idle EXCEPT ![r] = Returned(Taken(r), c)]
  BY DEF Unlock
<1>1. PICK l \in Unlocked(r, c) : lock' = AfterReturn(r, Taken(r), c, l)
  BY <1>0
<1>2. c \in Conns /\ Apart(Returned(Taken(r), c), busy[r], conn[r])
  BY OwnReplica, CheckoutTakes, ReturnKeepsApart
<1>3. LockOK(l) /\ (lock.owner # <<r, c>> => l = lock)
  BY <1>2, OwnReplica, UnlockedOK
<1>4. LockOK(lock') /\ (lock.owner # <<r, c>> => lock' = lock)
  BY <1>1, <1>3, AfterReturnOK
<1>5. \A s \in Replicas \ {r}, d \in Conns : lock.owner = <<s, d>> => lock' = lock
  BY <1>4, OwnersDiffer
<1>6. /\ busy' = [busy EXCEPT ![r] = busy[r]]
      /\ pc' = [pc EXCEPT ![r] = "waiting"]
      /\ conn' = [conn EXCEPT ![r] = conn[r]]
      /\ traffic' \in 0 .. MaxTraffic /\ restarts' \in 0 .. MaxRestarts
  BY OwnReplica DEF Unlock
<1>7. JobHolds(r, "waiting", conn[r], lock')
  BY OwnReplica DEF JobHolds, Unlock
<1> QED BY <1>0, <1>2, <1>4, <1>5, <1>6, <1>7 DEF StepOK

LEMMA BorrowStep ==
    ASSUME LockIInv, NEW r \in Replicas, Borrow(r)
    PROVE  StepOK(r)
<1>1. PICK c \in Checkout(r) : busy' = [busy EXCEPT ![r] = busy[r] \cup {c}]
  BY DEF Borrow
<1>2. /\ c \in Conns /\ c # conn[r] /\ Absent(c, Taken(r))
      /\ Apart(Taken(r), busy[r], conn[r])
  BY OwnReplica, CheckoutTakes
<1>3. Apart(Taken(r), busy[r] \cup {c}, conn[r])
  BY <1>2 DEF Apart, Absent
<1>4. /\ idle' = [idle EXCEPT ![r] = Taken(r)]
      /\ pc' = [pc EXCEPT ![r] = pc[r]]
      /\ conn' = [conn EXCEPT ![r] = conn[r]]
      /\ lock' = lock
      /\ traffic' \in 0 .. MaxTraffic /\ restarts' \in 0 .. MaxRestarts
  BY OwnReplica, PoolAssumption DEF Borrow
<1>5. JobHolds(r, pc[r], conn[r], lock') /\ LockOK(lock')
  BY <1>4, OwnReplica
<1> QED BY <1>1, <1>3, <1>4, <1>5 DEF StepOK

LEMMA GiveBackStep ==
    ASSUME LockIInv, NEW r \in Replicas, NEW c \in Conns, GiveBack(r, c)
    PROVE  StepOK(r)
<1>1. c \in busy[r] /\ Apart(idle[r], busy[r], conn[r])
  BY OwnReplica DEF GiveBack
<1>2. Apart(idle[r], busy[r] \ {c}, conn[r]) /\ c # conn[r] /\ Absent(c, idle[r])
  BY <1>1 DEF Apart, Absent
<1>3. Apart(Returned(idle[r], c), busy[r] \ {c}, conn[r])
  BY <1>2, ReturnKeepsApart
<1>4. LockOK(lock') /\ (lock.owner # <<r, c>> => lock' = lock)
  BY OwnReplica, AfterReturnOK DEF GiveBack
<1>5. \A s \in Replicas \ {r}, d \in Conns : lock.owner = <<s, d>> => lock' = lock
  BY <1>4, OwnersDiffer
<1>6. JobHolds(r, pc[r], conn[r], lock')
  <2>1. lock.owner = <<r, conn[r]>> => lock' = lock
    BY <1>2, <1>4, OwnersDiffer
  <2> QED BY <2>1, OwnReplica DEF JobHolds
<1>7. /\ idle' = [idle EXCEPT ![r] = Returned(idle[r], c)]
      /\ busy' = [busy EXCEPT ![r] = busy[r] \ {c}]
      /\ pc' = [pc EXCEPT ![r] = pc[r]]
      /\ conn' = [conn EXCEPT ![r] = conn[r]]
      /\ traffic' \in 0 .. MaxTraffic /\ restarts' \in 0 .. MaxRestarts
  BY OwnReplica DEF GiveBack
<1> QED BY <1>3, <1>4, <1>5, <1>6, <1>7 DEF StepOK

LEMMA RestartStep ==
    ASSUME LockIInv, NEW r \in Replicas, Restart(r)
    PROVE  StepOK(r)
<1>1. Apart(<<>>, {}, 0)
  BY PoolAssumption DEF Apart, Distinct, Absent
<1>2. LockOK(lock')
  BY OwnReplica, FreeLockOK DEF Restart
<1>3. \A s \in Replicas \ {r}, d \in Conns : lock.owner = <<s, d>> => lock' = lock
  BY DEF Restart
<1>4. JobHolds(r, "waiting", 0, lock')
  BY DEF JobHolds
<1>5. traffic' \in 0 .. MaxTraffic /\ restarts' \in 0 .. MaxRestarts
  BY OwnReplica, PoolAssumption DEF Restart
<1> QED BY <1>1, <1>2, <1>3, <1>4, <1>5 DEF StepOK, Restart

-----------------------------------------------------------------------------
(* The theorems.                                                           *)

\* In every reachable state a replica's connections are in one place each, and
\* a processor at work holds the connection that owns the lock.
THEOREM LockInvariance == LockSpec => []LockIInv
<1>1. LockInit => LockIInv
  BY FreeLockOK, PoolAssumption DEF LockInit, LockIInv, Apart, Distinct, Absent, JobHolds
<1>2. LockIInv /\ [LockNext]_lockVars => LockIInv'
  <2> SUFFICES ASSUME LockIInv, [LockNext]_lockVars PROVE LockIInv'
    OBVIOUS
  <2>1. CASE UNCHANGED lockVars
    BY <2>1 DEF lockVars, LockIInv, Apart, Distinct, Absent, JobHolds, LockOK
  <2>2. CASE LockNext
    <3>1. PICK r \in Replicas :
              \/ Acquire(r) \/ Skip(r) \/ Commit(r) \/ Unlock(r) \/ Leave(r)
              \/ Borrow(r) \/ (\E c \in Conns : GiveBack(r, c)) \/ Restart(r)
      BY <2>2 DEF LockNext, Job
    <3>2. StepOK(r)
      BY <3>1, AcquireStep, SkipStep, CommitStep, UnlockStep, LeaveStep,
         BorrowStep, GiveBackStep, RestartStep
    <3> QED BY <3>2, StepSuffices
  <2> QED BY <2>1, <2>2
<1> QED BY <1>1, <1>2, PTL DEF LockSpec

\* The variables keep their types; a pool never holds more than PoolSize
\* connections.
THEOREM LockTypes == LockSpec => []LockTypeOK
<1>1. LockIInv => LockTypeOK
  BY DEF LockIInv, LockTypeOK, Apart, JobHolds, LockOK, Owner
<1> QED BY <1>1, LockInvariance, PTL

\* process_outbox_messages runs in one replica at a time, whatever the number
\* of replicas, the size of the pool, the failures and the restarts.
THEOREM OneProcessorAtATime == LockSpec => []OneProcessor
<1>1. LockIInv => OneProcessor
  <2> SUFFICES ASSUME LockIInv, NEW r \in Replicas, NEW s \in Replicas,
                      pc[r] = "working", pc[s] = "working"
               PROVE  r = s
    BY DEF OneProcessor, Running
  <2>1. lock.owner = <<r, conn[r]>> /\ conn[r] \in Conns /\ lock.owner = <<s, conn[s]>>
    BY DEF LockIInv, JobHolds, Apart
  <2> QED BY <2>1, OwnersDiffer
<1> QED BY <1>1, LockInvariance, PTL

-----------------------------------------------------------------------------
(* SubmissionSessions.                                                     *)

-----------------------------------------------------------------------------
(* The inductive invariant, for the config version v of the subject.       *)

HasChecks(box) == \E m \in Slots : IsFor(box[m], "RUN_CHECKS", 1)
HasReview(box) == \E m \in Slots : IsFor(box[m], "RUN_AI_REVIEW", 1) /\ IsLive(box[m])

EndsWithTeacher(v) == NextStepFor(Config[v].mode) = "teacher"

\* An AI review leads to the teacher where the mode does.
Leads(msg, v) ==
    msg.state # "FINISHED" /\ msg.event = "RUN_AI_REVIEW" /\ EndsWithTeacher(v)
        => msg.next = "teacher"

BoxLeads(box, v) == \A m \in Slots : Leads(box[m], v)

\* A copy of the row r, as loaded and as changed: a grade or a notification that
\* was there is there still, and one comes with the status that calls for it.
Follows(r, base, cur, v) ==
    /\ base.pin \in {0, v} /\ cur.pin \in {0, v}
    /\ base.graded = TRUE => r.graded = TRUE /\ cur.graded = TRUE
    /\ base.queued # "none" => r.queued # "none" /\ cur.queued # "none"
    /\ cur.status = "COMPLETED" /\ base.status # "COMPLETED" => cur.graded = TRUE
    /\ cur.status = "AWAITING_TEACHER_REVIEW" /\ base.status # "AWAITING_TEACHER_REVIEW"
          => cur.queued # "none"

\* The batch has loaded the row; what its commit will make of the messages.
LoadedBy(b) == b.todo # b.took
Merge(b, box) == [m \in Slots |-> IF m \in b.took THEN b.box[m] ELSE box[m]]

\* Nobody touches a message the batch has selected.
Holds(b, box) ==
    /\ b.todo \subseteq b.took
    /\ \A m \in b.took : IsLive(box[m])
    /\ \A m \in b.todo : b.box[m] = box[m]

\* The batch's copy, with the messages it will commit, while the row is in status
\* held: the batch makes no row PENDING or FAILED, completes none for the teacher,
\* sends one to the AI with its message only, and nobody else sends one there.
Working(base, cur, box, held, v) ==
    /\ cur.status = "PENDING" => base.status = "PENDING"
    /\ cur.status = "VALIDATING" => base.status \in Unchecked
    /\ cur.status = "AWAITING_AI_REVIEW" => HasReview(box)
    /\ held = "AWAITING_AI_REVIEW" => base.status = "AWAITING_AI_REVIEW"
    /\ cur.status = "FAILED" => base.status = "FAILED"
    /\ cur.status = "COMPLETED" /\ EndsWithTeacher(v) => base.status = "COMPLETED"

\* The batch will overwrite the status of a row it found unchecked.
Overwrites(base, cur) == base.status \in Unchecked /\ cur.status \notin Unchecked

\* A row that is PENDING while a batch runs keeps a message through its commit, or
\* is not PENDING after it.
PendingKept(held, b, box) ==
    held = "PENDING" /\ b.took # {} =>
        \/ HasChecks(Merge(b, box))
        \/ LoadedBy(b) /\ Overwrites(b.copy.base, b.copy.cur)

BatchInv(r, b, box, v) ==
    /\ Holds(b, box) /\ PendingKept(r.status, b, box) /\ BoxLeads(Merge(b, box), v)
    /\ LoadedBy(b) =>
          /\ Working(b.copy.base, b.copy.cur, Merge(b, box), r.status, v)
          /\ Follows(r, b.copy.base, b.copy.cur, v)

\* A request sends a row to its checks with the message, to the AI never, and
\* records the decision it makes.
Deciding(cur, adds, decision, v) ==
    /\ cur.status # "AWAITING_AI_REVIEW"
    /\ cur.status = "PENDING" => adds = {RunChecks(1)}
    /\ adds \subseteq {RunChecks(1), RunAiReview(1, NextStepFor(Config[v].mode))}
    /\ cur.status = "FAILED" => decision = "reject"
    /\ cur.status = "COMPLETED" => decision = "approve"

RequestInv(r, q, v) ==
    q.open = TRUE => /\ Deciding(q.copy.cur, q.adds, q.decision, v)
                     /\ Follows(r, q.copy.base, q.copy.cur, v)

RowInv(r, box, told, v) ==
    /\ r.pin \in {0, v}
    /\ r.status = "PENDING" => HasChecks(box)
    /\ r.status = "AWAITING_AI_REVIEW" => HasReview(box)
    /\ r.status = "AWAITING_TEACHER_REVIEW" => r.queued # "none"
    /\ r.status = "COMPLETED" => r.graded = TRUE
    /\ r.status = "COMPLETED" /\ EndsWithTeacher(v) => "approve" \in told
    /\ r.status = "FAILED" => "reject" \in told

SessionsInv ==
    /\ TypeOK
    /\ RowInv(row, outbox, decided, conf) /\ BoxLeads(outbox, conf)
    /\ BatchInv(row, batch, outbox, conf)
    /\ \A c \in Clerks : RequestInv(row, req[c], conf)

-----------------------------------------------------------------------------
(* Handlers and messages of an assignment without a quiz.                  *)

LEMMA NoQuiz ==
    ASSUME NEW v \in Versions
    PROVE  /\ Config[v].mode \in Modes \ QuizFirst /\ Config[v].mode # Scored
           /\ Config[v].quiz = FALSE
           /\ Sids = {1}
           /\ NextStepFor(Config[v].mode) \in NextSteps
           /\ EndsWithTeacher(v) =>
                 /\ Config[v].mode # "tests_only"
                 /\ Config[v].mode \in DOMAIN AiNext => AiNext[Config[v].mode] = "teacher"
<1>1. Config[v].mode \in Modes \ QuizFirst /\ Config[v].quiz = FALSE /\ MaxUploads = 1
  BY SessionsAssumption, ConfigAssumption
<1>2. Sids = {1}
  BY <1>1 DEF Sids
<1>3. Config[v].mode # Scored
  BY <1>1 DEF QuizFirst, Scored
<1>4. NextStepFor(Config[v].mode) \in NextSteps
  BY DEF NextStepFor, NextSteps
<1>5. EndsWithTeacher(v) =>
         /\ Config[v].mode # "tests_only"
         /\ Config[v].mode \in DOMAIN AiNext => AiNext[Config[v].mode] = "teacher"
  BY <1>1 DEF EndsWithTeacher, NextStepFor, AiNext, QuizFirst
<1> QED
  BY <1>1, <1>2, <1>3, <1>4, <1>5

\* RUN_CHECKS returns only when it ended the checks of a row.
LEMMA CheckEnds ==
    ASSUME NEW r \in Row, NEW v \in Versions, r.pin \in {0, v},
           NEW o \in ExecuteCheck(r, v, FALSE), o.ok = TRUE
    PROVE  r.status \in Unchecked /\ o.row.status \notin Unchecked
<1>1. Leaves(o) /\ Checked(r, o, Config[Pinning(r, v)].mode, v)
  BY ExecuteCheckGood, ExecuteCheckShape
<1> QED
  BY <1>1 DEF Leaves, Checked, Unchecked

\* What a handler of the batch does to the row it has, by the message.
Handles(r, o, msg, v) ==
    /\ Sound(r, o) /\ o.row.pin \in {0, v}
    /\ o.row.status = "COMPLETED" /\ r.status # "COMPLETED" => o.row.graded = TRUE
    /\ o.row.status = "PENDING" => r.status = "PENDING"
    /\ o.row.status = "VALIDATING" => r.status \in Unchecked
    /\ o.row.status = "FAILED" => r.status = "FAILED"
    /\ o.row.status = "COMPLETED" /\ EndsWithTeacher(v) => r.status = "COMPLETED"
    /\ o.row.status = "AWAITING_AI_REVIEW" =>
          /\ msg.event = "RUN_CHECKS"
          /\ r.status = "AWAITING_AI_REVIEW" \/ (o.send # {} /\ o.ok = TRUE)
    /\ msg.event = "RUN_CHECKS" /\ o.ok = TRUE =>
          r.status \in Unchecked /\ o.row.status \notin Unchecked
    /\ o.send # {} /\ EndsWithTeacher(v) => o.send = {"teacher"}

LEMMA ChecksHandle ==
    ASSUME NEW r \in Row, NEW v \in Versions, r.pin \in {0, v}, NEW msg \in Message,
           msg.event = "RUN_CHECKS", NEW o \in ExecuteCheck(r, v, FALSE)
    PROVE  Handles(r, o, msg, v)
<1>1. Pinning(r, v) = v
  BY DEF Pinning
<1>2. Good(r, o) /\ Leaves(o)
  BY ExecuteCheckGood
<1>3. o.row.pin = v /\ Checked(r, o, Config[v].mode, v)
  BY <1>1, ExecuteCheckShape
<1>4. o.ok = TRUE => r.status \in Unchecked /\ o.row.status \notin Unchecked
  BY CheckEnds
<1> DEFINE mode == Config[v].mode
<1>5. /\ mode \in Modes \ QuizFirst /\ mode # Scored
      /\ EndsWithTeacher(v) => /\ mode # "tests_only"
                               /\ mode \in DOMAIN AiNext => AiNext[mode] = "teacher"
  BY NoQuiz
<1>6. Checked(r, o, mode, v) /\ (mode # Scored <=> Config[v].mode # Scored)
  BY <1>3
<1> HIDE DEF mode
<1>7. Sound(r, o) /\ KeepsMessage(r, o)
  BY <1>2 DEF Good
<1>8. o.row.status = "COMPLETED" /\ r.status # "COMPLETED" => o.row.graded = TRUE
  BY <1>5, <1>6 DEF Checked, Unchecked
<1>9. /\ o.row.status = "PENDING" => r.status = "PENDING"
      /\ o.row.status = "VALIDATING" => r.status \in Unchecked
      /\ o.row.status = "FAILED" => r.status = "FAILED"
      /\ o.row.status = "COMPLETED" /\ EndsWithTeacher(v) => r.status = "COMPLETED"
  BY <1>5, <1>6 DEF Checked, Unchecked
<1>10. o.row.status = "AWAITING_AI_REVIEW" =>
          r.status = "AWAITING_AI_REVIEW" \/ (o.send # {} /\ o.ok = TRUE)
  BY <1>7 DEF KeepsMessage
<1>11. o.send # {} /\ EndsWithTeacher(v) => o.send = {"teacher"}
  BY <1>5, <1>6 DEF Checked
<1> QED
  BY <1>3, <1>4, <1>7, <1>8, <1>9, <1>10, <1>11 DEF Handles

LEMMA ReviewHandles ==
    ASSUME NEW r \in Row, NEW v \in Versions, r.pin \in {0, v}, NEW msg \in Message,
           msg.state # "FINISHED", msg.event # "RUN_CHECKS", Leads(msg, v),
           NEW o \in ExecuteAiReview(r, msg.next, v, FALSE)
    PROVE  Handles(r, o, msg, v)
<1>1. Good(r, o) /\ o.row.status # "AWAITING_AI_REVIEW"
  BY ExecuteAiReviewGood
<1>2. Keeps(r, o.row) /\ Reviewed(r, o, msg.next, v) /\ o.send = {}
  BY ExecuteAiReviewShape
<1>3. Config[v].mode # Scored
  BY NoQuiz
<1>4. EndsWithTeacher(v) => msg.next = "teacher"
  BY DEF Leads, Message
<1>5. Sound(r, o) /\ o.row.pin \in {0, v}
  BY <1>1, <1>2 DEF Good, Keeps
<1>6. o.row.status = "COMPLETED" /\ r.status # "COMPLETED" => o.row.graded = TRUE
  BY <1>2, <1>3 DEF Reviewed
<1>7. /\ o.row.status = "PENDING" => r.status = "PENDING"
      /\ o.row.status = "VALIDATING" => r.status \in Unchecked
      /\ o.row.status = "FAILED" => r.status = "FAILED"
      /\ o.row.status = "COMPLETED" /\ EndsWithTeacher(v) => r.status = "COMPLETED"
  BY <1>2, <1>4 DEF Reviewed, Unchecked
<1> QED
  BY <1>1, <1>2, <1>5, <1>6, <1>7 DEF Handles

LEMMA HandleHandles ==
    ASSUME NEW r \in Row, NEW v \in Versions, r.pin \in {0, v}, NEW msg \in Message,
           msg.state # "FINISHED", Leads(msg, v),
           NEW o \in Handle(msg, r, v, FALSE)
    PROVE  Handles(r, o, msg, v)
<1>1. CASE msg.event = "RUN_CHECKS"
  BY <1>1, ChecksHandle DEF Handle
<1>2. CASE msg.event # "RUN_CHECKS"
  BY <1>2, ReviewHandles DEF Handle
<1> QED
  BY <1>1, <1>2

\* The messages, when there is one submission.
LEMMA MarkedLeads ==
    ASSUME NEW msg \in Message, IsLive(msg), NEW r, NEW o, NEW v \in Versions,
           Handles(r, o, msg, v), Leads(msg, v)
    PROVE  /\ Marked(msg, o) \in Message /\ Leads(Marked(msg, o), v)
           /\ o.ok = FALSE => IsFor(Marked(msg, o), msg.event, 1)
           /\ o.ok = TRUE /\ o.send # {} =>
                 IsFor(Marked(msg, o), "RUN_AI_REVIEW", 1) /\ IsLive(Marked(msg, o))
<1>1. o \in Outcome
  BY DEF Handles, Sound
<1>2. msg.sid = 1
  BY NoQuiz DEF Message
<1>3. /\ Marked(msg, o) \in Message
      /\ o.ok = FALSE => IsFor(Marked(msg, o), msg.event, 1)
      /\ o.ok = TRUE /\ o.send # {} =>
            IsFor(Marked(msg, o), "RUN_AI_REVIEW", 1) /\ IsLive(Marked(msg, o))
  BY <1>1, <1>2, MarkedFacts
<1>4. Leads(Marked(msg, o), v)
  <2>1. CASE o.ok = FALSE
    <3> DEFINE n == [msg EXCEPT !.state = "ERROR", !.retries = @ + 1]
    <3>1. Marked(msg, o) = n /\ msg.state # "FINISHED"
      BY <2>1 DEF Marked, IsLive
    <3>2. n.next = msg.next /\ n.event = msg.event
      BY DEF Message
    <3> HIDE DEF n
    <3> QED
      BY <3>1, <3>2 DEF Leads
  <2>2. CASE o.ok = TRUE /\ o.send = {}
    BY <2>2 DEF Marked, Leads, Finished, RunChecks
  <2>3. CASE o.ok = TRUE /\ o.send # {}
    <3> DEFINE next == CHOOSE x \in o.send : TRUE
    <3>1. Marked(msg, o) = RunAiReview(msg.sid, next)
      BY <2>3 DEF Marked
    <3>2. next \in o.send
      BY <2>3
    <3> HIDE DEF next
    <3>3. EndsWithTeacher(v) => next = "teacher"
      BY <2>3, <3>2 DEF Handles
    <3> QED
      BY <3>1, <3>3 DEF Leads, RunAiReview
  <2> QED
    BY <1>1, <2>1, <2>2, <2>3 DEF Outcome
<1> QED
  BY <1>3, <1>4

-----------------------------------------------------------------------------
(* The flush.                                                              *)

\* A column is the copy's where the copy changed it and the row's elsewhere; a
\* notification is never taken back.
LEMMA FlushFacts ==
    ASSUME NEW r \in Row, NEW copy \in Copy
    PROVE  LET n == Flush(r, copy)
               base == copy.base
               cur == copy.cur
           IN  /\ n \in Row
               /\ n.status = IF cur.status # base.status THEN cur.status ELSE r.status
               /\ n.pin = IF cur.pin # base.pin THEN cur.pin ELSE r.pin
               /\ n.graded = IF cur.graded # base.graded THEN cur.graded ELSE r.graded
               /\ r.queued # "none" => n.queued # "none"
               /\ cur.queued # base.queued => n.queued # "none"
<1> DEFINE base == copy.base
           cur == copy.cur
           col(f) == IF cur[f] # base[f] THEN cur[f] ELSE r[f]
           rung == IF cur.queued # base.queued
                   THEN Queue(r.queued, cur.queued = "pending") ELSE r.queued
           n == Flush(r, copy)
           new == [status |-> col("status"), source |-> r.source, pin |-> col("pin"),
                   results |-> col("results"), ai |-> col("ai"), graded |-> col("graded"),
                   staff |-> r.staff, queued |-> rung, att |-> r.att, used |-> r.used, failed |-> r.failed,
                   passed |-> r.passed, extra |-> r.extra]
<1>1. base \in Row /\ cur \in Row
  BY DEF Copy
<1>2. /\ r.queued \in {"none", "nobody", "pending", "sent"}
      /\ Queue(r.queued, cur.queued = "pending") \in {"nobody", "pending", "sent"}
  BY DEF Row, Queue
<1>3. n = new
  <2>1. DOMAIN r = {"status", "source", "pin", "results", "ai", "graded", "staff",
                    "queued", "att", "used", "failed", "passed", "extra"}
    BY DEF Row
  <2>2. n = [f \in DOMAIN r |->
               IF f \in Columns THEN col(f)
               ELSE IF f = "queued" /\ cur.queued # base.queued
                    THEN Queue(r.queued, cur.queued = "pending")
                    ELSE r[f]]
    BY DEF Flush
  <2> HIDE DEF n, base, cur
  <2> QED
    BY <2>1, <2>2 DEF Columns
<1> HIDE DEF n, base, cur
<1>4. rung \in {"none", "nobody", "pending", "sent"} /\ (r.queued # "none" => rung # "none")
      /\ (cur.queued # base.queued => rung # "none")
  BY <1>2 DEF Row
<1>5. /\ col("status") \in Statuses /\ col("pin") \in Versions \cup {0}
      /\ col("results") \in {"none", "reason", "skipped", "passed", "failed"}
      /\ col("ai") \in {"none", "clean", "flagged"} /\ col("graded") \in BOOLEAN
  BY <1>1 DEF Row
<1> HIDE DEF rung
<1>6. new \in Row
  BY <1>4, <1>5 DEF Row
<1>7. /\ new.status = IF cur.status # base.status THEN cur.status ELSE r.status
      /\ new.pin = IF cur.pin # base.pin THEN cur.pin ELSE r.pin
      /\ new.graded = IF cur.graded # base.graded THEN cur.graded ELSE r.graded
      /\ new.queued = rung
  OBVIOUS
<1> HIDE DEF new
<1> QED
  BY <1>3, <1>4, <1>6, <1>7 DEF n, base, cur

\* What a flush leaves of a row: the grade and the notification stay, and a status
\* that calls for one has it, whichever session brought which.
LEMMA FlushKeeps ==
    ASSUME NEW r \in Row, NEW copy \in Copy, NEW v,
           Follows(r, copy.base, copy.cur, v), r.pin \in {0, v},
           r.status = "AWAITING_TEACHER_REVIEW" => r.queued # "none",
           r.status = "COMPLETED" => r.graded = TRUE
    PROVE  LET n == Flush(r, copy)
           IN  /\ n \in Row /\ n.pin \in {0, v}
               /\ r.graded = TRUE => n.graded = TRUE
               /\ r.queued # "none" => n.queued # "none"
               /\ n.status = "AWAITING_TEACHER_REVIEW" => n.queued # "none"
               /\ n.status = "COMPLETED" => n.graded = TRUE
<1> DEFINE n == Flush(r, copy)
           base == copy.base
           cur == copy.cur
<1>1. base \in Row /\ cur \in Row
  BY DEF Copy
<1>2. /\ n \in Row
      /\ n.status = IF cur.status # base.status THEN cur.status ELSE r.status
      /\ n.pin = IF cur.pin # base.pin THEN cur.pin ELSE r.pin
      /\ n.graded = IF cur.graded # base.graded THEN cur.graded ELSE r.graded
      /\ r.queued # "none" => n.queued # "none"
      /\ cur.queued # base.queued => n.queued # "none"
  BY FlushFacts
<1>3. Follows(r, base, cur, v)
  OBVIOUS
<1> HIDE DEF n, base, cur
<1>4. base.graded \in BOOLEAN /\ cur.graded \in BOOLEAN /\ r.graded \in BOOLEAN
  BY <1>1 DEF Row
<1>5. n.pin \in {0, v}
  BY <1>2, <1>3 DEF Follows
<1>6. r.graded = TRUE => n.graded = TRUE
  BY <1>2, <1>3, <1>4 DEF Follows
<1>7. n.status = "COMPLETED" => n.graded = TRUE
  BY <1>2, <1>3, <1>4, <1>6 DEF Follows
<1>8. n.status = "AWAITING_TEACHER_REVIEW" => n.queued # "none"
  BY <1>2, <1>3 DEF Follows
<1> QED
  BY <1>2, <1>5, <1>6, <1>7, <1>8 DEF n

\* A handler's outcome on the copy.
LEMMA HandledFollows ==
    ASSUME NEW r, NEW base, NEW cur, NEW msg, NEW v, NEW o,
           Follows(r, base, cur, v), Handles(cur, o, msg, v)
    PROVE  Follows(r, base, o.row, v)
BY DEF Follows, Handles, Sound, KeepsCompleted, Announces

\* A copy just loaded.
LEMMA LoadedFollows ==
    ASSUME NEW r, NEW v, r.pin \in {0, v}
    PROVE  Follows(r, r, r, v)
BY DEF Follows

\* What a session finds in its copy.
LEMMA CopyTypes ==
    ASSUME NEW r \in Row
    PROVE  /\ Load(r) \in Copy /\ Load(r).base = r /\ Load(r).cur = r
           /\ \A c \in Row : LET k == [base |-> r, cur |-> c]
                             IN  k \in Copy /\ k.base = r /\ k.cur = c
           /\ \A k \in Copy : /\ k.base \in Row /\ k.cur \in Row
                              /\ LET n == [k EXCEPT !.cur = r]
                                 IN  n \in Copy /\ n.base = k.base /\ n.cur = r
BY DEF Load, Copy

LEMMA NewSubmissionRow ==
    /\ NewSubmission \in Row /\ NewSubmission.pin = 0 /\ NewSubmission.status = "PENDING"
    /\ Finished \in Message
<1>1. NewSubmission \in Row /\ NewSubmission.pin = 0 /\ NewSubmission.status = "PENDING"
  BY DEF NewSubmission, NewRow, Row, Statuses
<1> QED
  BY <1>1, OutboxAssumption DEF Finished, RunChecks, Message, Sids

\* No batch runs.
LEMMA IdleInv ==
    ASSUME NEW r, NEW box \in [Slots -> Message], NEW v, BoxLeads(box, v)
    PROVE  IdleBatch \in Batch /\ BatchInv(r, IdleBatch, box, v)
<1>1. /\ IdleBatch.todo = {} /\ IdleBatch.took = {}
      /\ IdleBatch.box = [m \in Slots |-> Finished] /\ IdleBatch.copy = Load(NewSubmission)
  BY DEF IdleBatch
<1>2. IdleBatch \in Batch
  <2>1. Load(NewSubmission) \in Copy /\ Finished \in Message
    BY NewSubmissionRow, CopyTypes
  <2> QED
    BY <2>1 DEF IdleBatch, Batch
<1>3. Merge(IdleBatch, box) = box
  BY <1>1 DEF Merge
<1> QED
  BY <1>1, <1>2, <1>3 DEF BatchInv, Holds, PendingKept, LoadedBy

-----------------------------------------------------------------------------
(* The batch.                                                              *)

\* The poll: the messages it selected are as the table has them.
LEMMA PollInv ==
    ASSUME NEW r \in Row, NEW box \in [Slots -> Message], NEW told, NEW v,
           RowInv(r, box, told, v), BoxLeads(box, v),
           NEW live, live = {m \in Slots : IsLive(box[m])}
    PROVE  LET b == [IdleBatch EXCEPT !.todo = live, !.took = live, !.box = box]
           IN  b \in Batch /\ BatchInv(r, b, box, v)
<1> DEFINE b == [IdleBatch EXCEPT !.todo = live, !.took = live, !.box = box]
<1>1. IdleBatch \in Batch
  BY IdleInv
<1>2. b \in Batch /\ b.todo = live /\ b.took = live /\ b.box = box
  BY <1>1 DEF Batch
<1> HIDE DEF b
<1>3. Merge(b, box) = box
  BY <1>2 DEF Merge
<1>4. Holds(b, box) /\ ~LoadedBy(b)
  BY <1>2 DEF Holds, LoadedBy
<1>5. PendingKept(r.status, b, box)
  BY <1>3 DEF PendingKept, RowInv
<1> QED
  BY <1>2, <1>3, <1>4, <1>5 DEF BatchInv, b

\* The copy a handler works on, reloaded or not, is as good as the batch's.
LEMMA CopyWorks ==
    ASSUME NEW r \in Row, NEW b \in Batch, NEW box \in [Slots -> Message], NEW told,
           NEW v, RowInv(r, box, told, v), BatchInv(r, b, box, v), b.took # {},
           NEW copy \in {b.copy, Load(r)},
           b.todo = b.took => copy = Load(r),
           Dirty(b.copy) => copy = b.copy
    PROVE  /\ copy \in Copy /\ Follows(r, copy.base, copy.cur, v)
           /\ Working(copy.base, copy.cur, Merge(b, box), r.status, v)
           /\ r.status = "PENDING" =>
                 HasChecks(Merge(b, box)) \/ Overwrites(copy.base, copy.cur)
<1>1. b.copy \in Copy /\ Load(r) \in Copy /\ Load(r).base = r /\ Load(r).cur = r
  BY CopyTypes DEF Batch
<1>2. CASE b.todo = b.took
  <2>1. copy = Load(r)
    BY <1>2
  <2>2. Merge(b, box) = box
    BY <1>2 DEF BatchInv, Holds, Merge
  <2>3. Follows(r, r, r, v)
    BY LoadedFollows DEF RowInv
  <2>4. Working(r, r, box, r.status, v) /\ (r.status = "PENDING" => HasChecks(box))
    BY DEF Working, RowInv, Unchecked
  <2> QED
    BY <1>1, <2>1, <2>2, <2>3, <2>4
<1>3. CASE b.todo # b.took /\ copy = b.copy
  BY <1>1, <1>3 DEF BatchInv, LoadedBy, PendingKept
<1>4. CASE b.todo # b.took /\ copy # b.copy
  <2>1. copy = Load(r) /\ b.copy.cur = b.copy.base
    BY <1>4 DEF Dirty
  <2>2. /\ Working(b.copy.base, b.copy.cur, Merge(b, box), r.status, v)
        /\ r.status = "PENDING" =>
              HasChecks(Merge(b, box)) \/ Overwrites(b.copy.base, b.copy.cur)
    BY <1>4 DEF BatchInv, LoadedBy, PendingKept
  <2>3. Follows(r, r, r, v)
    BY LoadedFollows DEF RowInv
  <2>4. /\ Working(r, r, Merge(b, box), r.status, v)
        /\ r.status = "PENDING" => HasChecks(Merge(b, box))
    BY <2>1, <2>2 DEF Working, Overwrites, Unchecked
  <2> QED
    BY <1>1, <2>1, <2>3, <2>4
<1> QED
  BY <1>2, <1>3, <1>4

\* The batch's messages after one of them was marked.
LEMMA MarkedBox ==
    ASSUME NEW box \in [Slots -> Message], NEW m \in Slots, NEW msg \in Message, NEW v,
           BoxLeads(box, v), Leads(msg, v), NEW n, n = [box EXCEPT ![m] = msg]
    PROVE  /\ n \in [Slots -> Message] /\ BoxLeads(n, v)
           /\ HasReview(box) /\ box[m].event = "RUN_CHECKS" => HasReview(n)
           /\ HasChecks(box) /\ ~IsFor(box[m], "RUN_CHECKS", 1) => HasChecks(n)
           /\ HasChecks(box) /\ IsFor(msg, "RUN_CHECKS", 1) => HasChecks(n)
           /\ IsFor(msg, "RUN_AI_REVIEW", 1) /\ IsLive(msg) => HasReview(n)
<1>1. n \in [Slots -> Message] /\ n[m] = msg /\ \A k \in Slots : k # m => n[k] = box[k]
  OBVIOUS
<1>2. BoxLeads(n, v)
  BY <1>1 DEF BoxLeads
<1>3. HasReview(box) /\ box[m].event = "RUN_CHECKS" => HasReview(n)
  BY <1>1 DEF HasReview, IsFor
<1>4. HasChecks(box) /\ ~IsFor(box[m], "RUN_CHECKS", 1) => HasChecks(n)
  BY <1>1 DEF HasChecks
<1>5. /\ IsFor(msg, "RUN_CHECKS", 1) => HasChecks(n)
      /\ IsFor(msg, "RUN_AI_REVIEW", 1) /\ IsLive(msg) => HasReview(n)
  BY <1>1 DEF HasChecks, HasReview
<1> QED
  BY <1>1, <1>2, <1>3, <1>4, <1>5

\* One message of the batch.
LEMMA ProcessInv ==
    ASSUME NEW r \in Row, NEW b \in Batch, NEW box \in [Slots -> Message], NEW told,
           NEW v \in Versions, RowInv(r, box, told, v), BatchInv(r, b, box, v),
           NEW m \in b.todo, NEW copy \in {b.copy, Load(r)},
           b.todo = b.took => copy = Load(r),
           Dirty(b.copy) => copy = b.copy,
           NEW o \in Handle(b.box[m], copy.cur, v, FALSE)
    PROVE  LET n == [b EXCEPT !.todo = @ \ {m}, !.box[m] = Marked(@, o),
                              !.copy = [copy EXCEPT !.cur = o.row]]
           IN  n \in Batch /\ BatchInv(r, n, box, v)
<1> DEFINE msg == b.box[m]
           new == Marked(msg, o)
           k == [copy EXCEPT !.cur = o.row]
           n == [b EXCEPT !.todo = @ \ {m}, !.box[m] = Marked(@, o), !.copy = k]
           was == Merge(b, box)
<1>1. /\ b.todo \subseteq Slots /\ b.took \subseteq Slots
      /\ b.box \in [Slots -> Message] /\ b.copy \in Copy
  BY DEF Batch
<1>2. /\ b.todo \subseteq b.took /\ m \in Slots /\ m \in b.took
      /\ msg = box[m] /\ IsLive(msg) /\ msg \in Message
  BY <1>1 DEF BatchInv, Holds
<1>3. /\ copy \in Copy /\ Follows(r, copy.base, copy.cur, v)
      /\ Working(copy.base, copy.cur, was, r.status, v)
      /\ r.status = "PENDING" => HasChecks(was) \/ Overwrites(copy.base, copy.cur)
  BY <1>2, CopyWorks
<1>4. copy.base \in Row /\ copy.cur \in Row
  BY <1>3, CopyTypes
<1>5. was \in [Slots -> Message] /\ was[m] = msg /\ BoxLeads(was, v)
  BY <1>1, <1>2 DEF BatchInv, Merge
<1>6. msg.state # "FINISHED" /\ Leads(msg, v)
  BY <1>2, <1>5 DEF BoxLeads, IsLive
<1>7. Handles(copy.cur, o, msg, v)
  <2>1. copy.cur.pin \in {0, v}
    BY <1>3 DEF Follows
  <2> QED
    BY <1>2, <1>4, <1>6, <2>1, HandleHandles
<1>8. /\ new \in Message /\ Leads(new, v)
      /\ o.ok = FALSE => IsFor(new, msg.event, 1)
      /\ o.ok = TRUE /\ o.send # {} => IsFor(new, "RUN_AI_REVIEW", 1) /\ IsLive(new)
  BY <1>2, <1>6, <1>7, MarkedLeads
<1>9. o.row \in Row /\ o.ok \in BOOLEAN
  BY <1>7 DEF Handles, Sound, Outcome
<1>10. k \in Copy /\ k.base = copy.base /\ k.cur = o.row
  BY <1>3, <1>9, CopyTypes
<1> HIDE DEF k, msg
<1>11. /\ n \in Batch /\ n.todo = b.todo \ {m} /\ n.took = b.took /\ n.copy = k
       /\ n.box = [b.box EXCEPT ![m] = new]
  BY <1>1, <1>8, <1>10 DEF Batch, msg
<1> HIDE DEF n, new
<1>12. Merge(n, box) = [was EXCEPT ![m] = new]
  BY <1>1, <1>2, <1>11 DEF Merge
<1> DEFINE now == Merge(n, box)
<1> HIDE DEF now, was
<1>13. /\ BoxLeads(now, v)
       /\ HasReview(was) /\ msg.event = "RUN_CHECKS" => HasReview(now)
       /\ HasChecks(was) /\ ~IsFor(msg, "RUN_CHECKS", 1) => HasChecks(now)
       /\ HasChecks(was) /\ IsFor(new, "RUN_CHECKS", 1) => HasChecks(now)
       /\ IsFor(new, "RUN_AI_REVIEW", 1) /\ IsLive(new) => HasReview(now)
  <2>1. now = [was EXCEPT ![m] = new]
    BY <1>12 DEF now
  <2>2. /\ was \in [Slots -> Message] /\ m \in Slots /\ new \in Message
        /\ BoxLeads(was, v) /\ Leads(new, v)
    BY <1>2, <1>5, <1>8
  <2>3. /\ BoxLeads(now, v)
        /\ HasReview(was) /\ was[m].event = "RUN_CHECKS" => HasReview(now)
        /\ HasChecks(was) /\ ~IsFor(was[m], "RUN_CHECKS", 1) => HasChecks(now)
        /\ HasChecks(was) /\ IsFor(new, "RUN_CHECKS", 1) => HasChecks(now)
        /\ IsFor(new, "RUN_AI_REVIEW", 1) /\ IsLive(new) => HasReview(now)
    BY <2>1, <2>2, MarkedBox, Zenon
  <2> QED
    BY <1>5, <2>3
<1>14. Holds(n, box) /\ LoadedBy(n)
  <2>1. \A j \in n.todo : n.box[j] = box[j]
    BY <1>1, <1>11 DEF BatchInv, Holds
  <2> QED
    BY <1>2, <1>11, <2>1 DEF BatchInv, Holds, LoadedBy
<1>15. Follows(r, k.base, k.cur, v)
  BY <1>3, <1>7, <1>10, HandledFollows
<1>16. Working(copy.base, o.row, now, r.status, v)
  BY <1>3, <1>7, <1>8, <1>13 DEF Working, Handles, Unchecked
<1>17. r.status = "PENDING" => HasChecks(now) \/ Overwrites(copy.base, o.row)
  <2>1. CASE Overwrites(copy.base, copy.cur)
    BY <1>7, <2>1 DEF Overwrites, Handles, Unchecked
  <2>2. CASE HasChecks(was) /\ ~IsFor(msg, "RUN_CHECKS", 1)
    BY <1>13, <2>2
  <2>3. CASE HasChecks(was) /\ IsFor(msg, "RUN_CHECKS", 1) /\ o.ok = FALSE
    BY <1>8, <1>13, <2>3 DEF IsFor
  <2>4. CASE HasChecks(was) /\ IsFor(msg, "RUN_CHECKS", 1) /\ o.ok = TRUE
    <3>1. copy.cur.status \in Unchecked /\ o.row.status \notin Unchecked
      BY <1>7, <2>4 DEF Handles, IsFor
    <3>2. copy.base.status \in Unchecked
      BY <1>3, <3>1 DEF Working, Unchecked
    <3> QED
      BY <3>1, <3>2 DEF Overwrites
  <2> QED
    BY <1>3, <1>9, <2>1, <2>2, <2>3, <2>4
<1>18. PendingKept(r.status, n, box)
  BY <1>10, <1>11, <1>14, <1>17 DEF PendingKept, now
<1>19. Working(n.copy.base, n.copy.cur, Merge(n, box), r.status, v)
  BY <1>10, <1>11, <1>16 DEF now
<1>20. BoxLeads(Merge(n, box), v)
  BY <1>13 DEF now
<1>21. BatchInv(r, n, box, v)
  BY <1>11, <1>14, <1>15, <1>18, <1>19, <1>20 DEF BatchInv
<1> QED
  BY <1>11, <1>21 DEF n, k

\* The commit of the batch.
LEMMA CommitBatchInv ==
    ASSUME NEW r \in Row, NEW b \in Batch, NEW box \in [Slots -> Message], NEW told,
           NEW v, RowInv(r, box, told, v), BatchInv(r, b, box, v),
           b.took # {}, b.todo = {}
    PROVE  LET n == Flush(r, b.copy)
           IN  /\ n \in Row /\ RowInv(n, Merge(b, box), told, v)
               /\ Merge(b, box) \in [Slots -> Message] /\ BoxLeads(Merge(b, box), v)
               /\ r.graded = TRUE => n.graded = TRUE
               /\ r.queued # "none" => n.queued # "none"
<1> DEFINE n == Flush(r, b.copy)
           new == Merge(b, box)
           base == b.copy.base
           cur == b.copy.cur
<1>1. b.copy \in Copy /\ b.box \in [Slots -> Message] /\ b.took \subseteq Slots
  BY DEF Batch
<1>2. LoadedBy(b)
  BY DEF LoadedBy
<1>3. /\ Follows(r, base, cur, v) /\ Working(base, cur, new, r.status, v)
      /\ r.status = "PENDING" => HasChecks(new) \/ Overwrites(base, cur)
      /\ BoxLeads(new, v)
  BY <1>2 DEF BatchInv, PendingKept
<1>4. new \in [Slots -> Message]
  BY <1>1 DEF Merge
<1>5. n.status = IF cur.status # base.status THEN cur.status ELSE r.status
  BY <1>1, FlushFacts
<1>6. /\ n \in Row /\ n.pin \in {0, v}
      /\ r.graded = TRUE => n.graded = TRUE
      /\ r.queued # "none" => n.queued # "none"
      /\ n.status = "AWAITING_TEACHER_REVIEW" => n.queued # "none"
      /\ n.status = "COMPLETED" => n.graded = TRUE
  BY <1>1, <1>3, FlushKeeps DEF RowInv
<1> HIDE DEF n, new, base, cur
<1>7. n.status = "PENDING" => HasChecks(new)
  BY <1>3, <1>5 DEF Working, Overwrites, Unchecked
<1>8. n.status = "AWAITING_AI_REVIEW" => HasReview(new)
  BY <1>3, <1>5 DEF Working
<1>9. /\ n.status = "COMPLETED" /\ EndsWithTeacher(v) => "approve" \in told
      /\ n.status = "FAILED" => "reject" \in told
  BY <1>3, <1>5 DEF Working, RowInv
<1>10. RowInv(n, new, told, v)
  BY <1>6, <1>7, <1>8, <1>9 DEF RowInv
<1> QED
  BY <1>3, <1>4, <1>6, <1>10 DEF n, new

-----------------------------------------------------------------------------
(* The requests.                                                           *)

\* Messages are added without touching an unfinished one.
Grows(box, new, v) ==
    /\ new \in [Slots -> Message]
    /\ \A k \in Slots : \/ new[k] = box[k]
                        \/ box[k].state = "FINISHED" /\ Leads(new[k], v)

LEMMA GrowsKeeps ==
    ASSUME NEW box \in [Slots -> Message], NEW new, NEW v, Grows(box, new, v),
           BoxLeads(box, v)
    PROVE  /\ BoxLeads(new, v)
           /\ HasChecks(box) => HasChecks(new)
           /\ HasReview(box) => HasReview(new)
BY DEF Grows, BoxLeads, HasChecks, HasReview, IsFor

\* The running batch holds none of the slots they went to.
LEMMA MergeGrows ==
    ASSUME NEW b \in Batch, NEW box \in [Slots -> Message], NEW new, NEW v,
           Holds(b, box), Grows(box, new, v)
    PROVE  /\ Holds(b, new) /\ Grows(Merge(b, box), Merge(b, new), v)
           /\ Merge(b, box) \in [Slots -> Message]
           /\ \A k \in Slots : new[k] # box[k] => Merge(b, new)[k] = new[k]
<1>1. /\ b.took \subseteq Slots /\ b.todo \subseteq b.took /\ b.box \in [Slots -> Message]
  BY DEF Batch, Holds
<1>2. \A k \in b.took : new[k] = box[k] /\ IsLive(box[k])
  BY <1>1 DEF Holds, Grows, IsLive
<1>3. Holds(b, new)
  BY <1>1, <1>2 DEF Holds
<1>4. /\ Merge(b, box) \in [Slots -> Message] /\ Merge(b, new) \in [Slots -> Message]
      /\ \A k \in b.took : Merge(b, new)[k] = Merge(b, box)[k]
      /\ \A k \in Slots \ b.took : Merge(b, new)[k] = new[k] /\ Merge(b, box)[k] = box[k]
  BY <1>1 DEF Merge, Grows
<1>5. Grows(Merge(b, box), Merge(b, new), v)
  BY <1>4 DEF Grows
<1> QED
  BY <1>2, <1>3, <1>4, <1>5

\* The messages a request adds.
Adding(adds, box, new) ==
    \/ adds = {} /\ new = box
    \/ \E msg \in adds : new \in Put(box, msg)

LEMMA AddedGrows ==
    ASSUME NEW box \in [Slots -> Message], NEW new, NEW v \in Versions, NEW adds,
           adds \subseteq {RunChecks(1), RunAiReview(1, NextStepFor(Config[v].mode))},
           Adding(adds, box, new)
    PROVE  /\ Grows(box, new, v)
           /\ adds = {RunChecks(1)} =>
                 \E k \in Slots : new[k] = RunChecks(1) /\ box[k].state = "FINISHED"
<1>1. CASE adds = {} /\ new = box
  BY <1>1 DEF Grows
<1>2. ASSUME NEW msg \in adds, new \in Put(box, msg)
      PROVE  /\ Grows(box, new, v)
             /\ adds = {RunChecks(1)} =>
                   \E k \in Slots : new[k] = RunChecks(1) /\ box[k].state = "FINISHED"
  <2>1. 1 \in Sids /\ NextStepFor(Config[v].mode) \in NextSteps
    BY NoQuiz
  <2>2. msg \in Message
    BY <2>1, MessageTypes
  <2>3. Leads(msg, v)
    BY DEF Leads, EndsWithTeacher, RunChecks, RunAiReview
  <2>4. /\ new \in [Slots -> Message]
        /\ \A k \in Slots : new[k] = box[k] \/ (new[k] = msg /\ box[k].state = "FINISHED")
    BY <1>2, <2>2, PutFacts
  <2>5. \E k \in Slots : new[k] = msg /\ box[k].state = "FINISHED"
    BY <1>2 DEF Put
  <2>6. Grows(box, new, v)
    BY <2>3, <2>4 DEF Grows
  <2> QED
    BY <2>5, <2>6
<1> QED
  BY <1>1, <1>2 DEF Adding

\* The commit of a request.
LEMMA CommitRequestInv ==
    ASSUME row \in Row, batch \in Batch, outbox \in [Slots -> Message],
           decided \in SUBSET {"approve", "reject"}, conf \in Versions,
           RowInv(row, outbox, decided, conf), BoxLeads(outbox, conf),
           BatchInv(row, batch, outbox, conf),
           NEW q \in Request, q.open = TRUE, RequestInv(row, q, conf),
           Adding(q.adds, outbox, outbox'), row' = Flush(row, q.copy),
           decided' = decided \cup ({q.decision} \ {"none"})
    PROVE  /\ row' \in Row /\ outbox' \in [Slots -> Message]
           /\ decided' \subseteq {"approve", "reject"}
           /\ RowInv(row', outbox', decided', conf) /\ BoxLeads(outbox', conf)
           /\ BatchInv(row', batch, outbox', conf)
           /\ row.graded = TRUE => row'.graded = TRUE
           /\ row.queued # "none" => row'.queued # "none"
<1> DEFINE base == q.copy.base
           cur == q.copy.cur
<1>1. q.copy \in Copy /\ q.decision \in {"none", "approve", "reject"}
  BY DEF Request
<1>2. Deciding(cur, q.adds, q.decision, conf) /\ Follows(row, base, cur, conf)
  BY DEF RequestInv
<1>3. row'.status = IF cur.status # base.status THEN cur.status ELSE row.status
  BY <1>1, FlushFacts
<1>4. /\ row' \in Row /\ row'.pin \in {0, conf}
      /\ row.graded = TRUE => row'.graded = TRUE
      /\ row.queued # "none" => row'.queued # "none"
      /\ row'.status = "AWAITING_TEACHER_REVIEW" => row'.queued # "none"
      /\ row'.status = "COMPLETED" => row'.graded = TRUE
  BY <1>1, <1>2, FlushKeeps DEF RowInv
<1>5. /\ decided' \subseteq {"approve", "reject"} /\ decided \subseteq decided'
      /\ q.decision # "none" => q.decision \in decided'
  BY <1>1
<1> HIDE DEF base, cur
<1>6. /\ Grows(outbox, outbox', conf)
      /\ q.adds = {RunChecks(1)} =>
            \E k \in Slots : outbox'[k] = RunChecks(1) /\ outbox[k].state = "FINISHED"
  BY <1>2, AddedGrows DEF Deciding
<1>7. /\ BoxLeads(outbox', conf) /\ outbox' \in [Slots -> Message]
      /\ HasChecks(outbox) => HasChecks(outbox')
      /\ HasReview(outbox) => HasReview(outbox')
  BY <1>6, GrowsKeeps DEF Grows
<1> DEFINE before == Merge(batch, outbox)
           after == Merge(batch, outbox')
<1>8. /\ Holds(batch, outbox') /\ Grows(before, after, conf) /\ before \in [Slots -> Message]
      /\ \A k \in Slots : outbox'[k] # outbox[k] => after[k] = outbox'[k]
  BY <1>6, MergeGrows DEF BatchInv
<1> HIDE DEF before, after
<1>9. BoxLeads(before, conf)
  BY DEF BatchInv, before
<1>10. /\ BoxLeads(after, conf)
       /\ HasChecks(before) => HasChecks(after)
       /\ HasReview(before) => HasReview(after)
  BY <1>8, <1>9, GrowsKeeps
<1>11. q.adds = {RunChecks(1)} => HasChecks(outbox') /\ HasChecks(after)
  <2>1. IsFor(RunChecks(1), "RUN_CHECKS", 1) /\ RunChecks(1).state # "FINISHED"
    BY DEF IsFor, RunChecks
  <2> QED
    BY <1>6, <1>8, <2>1 DEF HasChecks
<1>12. row'.status = "PENDING" =>
          q.adds = {RunChecks(1)} \/ row.status = "PENDING"
  BY <1>2, <1>3 DEF Deciding
<1>13. row'.status = "AWAITING_AI_REVIEW" => row.status = "AWAITING_AI_REVIEW"
  BY <1>2, <1>3 DEF Deciding
<1>14. RowInv(row', outbox', decided', conf)
  <2>1. /\ row'.status = "COMPLETED" /\ EndsWithTeacher(conf) => "approve" \in decided'
        /\ row'.status = "FAILED" => "reject" \in decided'
    BY <1>2, <1>3, <1>5 DEF Deciding, RowInv
  <2> QED
    BY <1>4, <1>7, <1>11, <1>12, <1>13, <2>1 DEF RowInv
<1>15. PendingKept(row'.status, batch, outbox')
  BY <1>10, <1>11, <1>12 DEF BatchInv, PendingKept, before, after
<1>16. LoadedBy(batch) =>
          /\ Working(batch.copy.base, batch.copy.cur, after, row'.status, conf)
          /\ Follows(row', batch.copy.base, batch.copy.cur, conf)
  <2> SUFFICES ASSUME LoadedBy(batch)
               PROVE  /\ Working(batch.copy.base, batch.copy.cur, after, row'.status, conf)
                      /\ Follows(row', batch.copy.base, batch.copy.cur, conf)
    OBVIOUS
  <2>1. /\ Working(batch.copy.base, batch.copy.cur, before, row.status, conf)
        /\ Follows(row, batch.copy.base, batch.copy.cur, conf)
    BY DEF BatchInv, before
  <2>2. Follows(row', batch.copy.base, batch.copy.cur, conf)
    BY <1>4, <2>1 DEF Follows
  <2>3. Working(batch.copy.base, batch.copy.cur, after, row'.status, conf)
    BY <1>10, <1>13, <2>1 DEF Working
  <2> QED
    BY <2>2, <2>3
<1>17. BatchInv(row', batch, outbox', conf)
  BY <1>8, <1>10, <1>15, <1>16 DEF BatchInv, after
<1> QED
  BY <1>4, <1>5, <1>7, <1>14, <1>17

\* What a request decides on the row it loaded.
LEMMA SoundFollows ==
    ASSUME NEW r, NEW o, NEW v, Sound(r, o), r.pin \in {0, v}, o.row.pin \in {0, v},
           o.row.status = "COMPLETED" => o.row.graded = TRUE
    PROVE  Follows(r, r, o.row, v)
BY DEF Follows, Sound, KeepsCompleted, Announces

LEMMA ApproveDecides ==
    ASSUME NEW r \in Row, NEW v \in Versions, NEW o \in Approve(r, v, FALSE)
    PROVE  /\ Keeps(r, o.row)
           /\ o.row.status \in {"QUIZ_SENT", "COMPLETED"}
           /\ o.row.status = "COMPLETED" => o.row.graded = TRUE
<1>1. PICK pts \in BOOLEAN : pts = FALSE
  OBVIOUS
<1>2. o \in Approve(r, v, pts)
  BY <1>1
<1>3. /\ Keeps(r, o.row)
      /\ \/ o.row.status = "QUIZ_SENT"
         \/ /\ o.row.status = "COMPLETED"
            /\ Config[v].mode # Scored => o.row.graded = TRUE
  BY <1>2, ApproveShape
<1> QED
  BY <1>3, NoQuiz

-----------------------------------------------------------------------------
(* Steps.                                                                  *)

LEMMA SessionTypes ==
    ASSUME SessionsInv
    PROVE  /\ row \in Row /\ outbox \in [Slots -> Message] /\ conf \in Versions
           /\ batch \in Batch /\ decided \in SUBSET {"approve", "reject"}
           /\ \A c \in Clerks : req[c] \in Request
           /\ RowInv(row, outbox, decided, conf) /\ BoxLeads(outbox, conf)
           /\ BatchInv(row, batch, outbox, conf)
           /\ \A c \in Clerks : RequestInv(row, req[c], conf)
BY DEF SessionsInv, TypeOK

\* A step of the worker leaves the requests alone.
LEMMA WorkerJoin ==
    ASSUME SessionsInv, req' = req, decided' = decided, conf' = conf,
           crashes' \in 0 .. MaxCrashes,
           row' \in Row, outbox' \in [Slots -> Message], batch' \in Batch,
           RowInv(row', outbox', decided, conf), BoxLeads(outbox', conf),
           BatchInv(row', batch', outbox', conf),
           row.graded = TRUE => row'.graded = TRUE,
           row.queued # "none" => row'.queued # "none"
    PROVE  SessionsInv'
<1>1. TypeOK'
  BY DEF SessionsInv, TypeOK
<1>2. \A c \in Clerks : RequestInv(row', req[c], conf)
  BY DEF SessionsInv, RequestInv, Follows
<1>3. \A c \in Clerks : RequestInv(row', req'[c], conf')
  BY <1>2
<1>4. /\ RowInv(row', outbox', decided', conf') /\ BoxLeads(outbox', conf')
      /\ BatchInv(row', batch', outbox', conf')
  OBVIOUS
<1> QED
  BY <1>1, <1>3, <1>4 DEF SessionsInv

LEMMA PollStep ==
    ASSUME SessionsInv, Poll
    PROVE  SessionsInv'
<1> DEFINE live == {m \in Slots : IsLive(outbox[m])}
           b == [IdleBatch EXCEPT !.todo = live, !.took = live, !.box = outbox]
<1>1. /\ batch' = b
      /\ row' = row /\ outbox' = outbox /\ conf' = conf /\ req' = req
      /\ decided' = decided /\ crashes' = crashes
  BY DEF Poll
<1>2. /\ row \in Row /\ outbox \in [Slots -> Message]
      /\ RowInv(row, outbox, decided, conf) /\ BoxLeads(outbox, conf)
      /\ crashes \in 0 .. MaxCrashes
  BY SessionTypes DEF SessionsInv, TypeOK
<1>3. b \in Batch /\ BatchInv(row, b, outbox, conf)
  BY <1>2, PollInv
<1> HIDE DEF b
<1> QED
  BY <1>1, <1>2, <1>3, WorkerJoin

LEMMA ProcessStep ==
    ASSUME SessionsInv, NEW m \in Slots, Process(m)
    PROVE  SessionsInv'
<1>1. PICK copy \in {batch.copy, Load(row)} :
         /\ batch.todo = batch.took => copy = Load(row)
         /\ Dirty(batch.copy) => copy = batch.copy
         /\ \E o \in Handle(batch.box[m], copy.cur, conf, FALSE) :
               batch' = [batch EXCEPT !.todo = @ \ {m}, !.box[m] = Marked(@, o),
                                      !.copy = [copy EXCEPT !.cur = o.row]]
  BY DEF Process
<1>2. PICK o \in Handle(batch.box[m], copy.cur, conf, FALSE) :
         batch' = [batch EXCEPT !.todo = @ \ {m}, !.box[m] = Marked(@, o),
                                !.copy = [copy EXCEPT !.cur = o.row]]
  BY <1>1
<1>3. /\ m \in batch.todo
      /\ row' = row /\ outbox' = outbox /\ conf' = conf /\ req' = req
      /\ decided' = decided /\ crashes' = crashes
  BY DEF Process
<1>4. /\ row \in Row /\ batch \in Batch /\ outbox \in [Slots -> Message]
      /\ conf \in Versions
      /\ RowInv(row, outbox, decided, conf) /\ BoxLeads(outbox, conf)
      /\ BatchInv(row, batch, outbox, conf) /\ crashes \in 0 .. MaxCrashes
  BY SessionTypes DEF SessionsInv, TypeOK
<1> DEFINE n == [batch EXCEPT !.todo = @ \ {m}, !.box[m] = Marked(@, o),
                              !.copy = [copy EXCEPT !.cur = o.row]]
<1>5. n \in Batch /\ BatchInv(row, n, outbox, conf)
  BY <1>1, <1>2, <1>3, <1>4, ProcessInv
<1>6. batch' = n
  BY <1>2
<1> HIDE DEF n
<1> QED
  BY <1>3, <1>4, <1>5, <1>6, WorkerJoin

LEMMA CommitBatchStep ==
    ASSUME SessionsInv, CommitBatch
    PROVE  SessionsInv'
<1>1. /\ batch.took # {} /\ batch.todo = {}
      /\ row' = Flush(row, batch.copy) /\ outbox' = Merge(batch, outbox)
      /\ batch' = IdleBatch /\ conf' = conf /\ req' = req
      /\ decided' = decided /\ crashes' = crashes
  BY DEF CommitBatch, Merge
<1>2. /\ row \in Row /\ batch \in Batch /\ outbox \in [Slots -> Message]
      /\ RowInv(row, outbox, decided, conf) /\ BatchInv(row, batch, outbox, conf)
      /\ crashes \in 0 .. MaxCrashes
  BY SessionTypes DEF SessionsInv, TypeOK
<1>3. /\ row' \in Row /\ RowInv(row', outbox', decided, conf)
      /\ outbox' \in [Slots -> Message] /\ BoxLeads(outbox', conf)
      /\ row.graded = TRUE => row'.graded = TRUE
      /\ row.queued # "none" => row'.queued # "none"
  BY <1>1, <1>2, CommitBatchInv
<1>4. batch' \in Batch /\ BatchInv(row', batch', outbox', conf)
  BY <1>1, <1>3, IdleInv
<1> QED
  BY <1>1, <1>2, <1>3, <1>4, WorkerJoin

\* Nothing the dead worker did is left: the messages are as they were.
LEMMA CrashStep ==
    ASSUME SessionsInv, Crash
    PROVE  SessionsInv'
<1>1. /\ batch' = IdleBatch /\ crashes < MaxCrashes /\ crashes' = crashes + 1
      /\ row' = row /\ outbox' = outbox /\ conf' = conf /\ req' = req
      /\ decided' = decided
  BY DEF Crash
<1>2. /\ row \in Row /\ outbox \in [Slots -> Message]
      /\ RowInv(row, outbox, decided, conf) /\ BoxLeads(outbox, conf)
      /\ crashes \in 0 .. MaxCrashes
  BY SessionTypes DEF SessionsInv, TypeOK
<1>3. batch' \in Batch /\ BatchInv(row', batch', outbox', conf)
  BY <1>1, <1>2, IdleInv
<1>4. crashes' \in 0 .. MaxCrashes
  BY <1>1, <1>2, SessionsAssumption
<1> QED
  BY <1>1, <1>2, <1>3, <1>4, WorkerJoin

LEMMA SendDigestStep ==
    ASSUME SessionsInv, SendDigest
    PROVE  SessionsInv'
<1>1. /\ row' = [row EXCEPT !.queued = "sent"] /\ outbox' = outbox /\ batch' = batch
      /\ conf' = conf /\ req' = req /\ decided' = decided /\ crashes' = crashes
  BY DEF SendDigest
<1>2. /\ row \in Row /\ batch \in Batch /\ outbox \in [Slots -> Message]
      /\ RowInv(row, outbox, decided, conf) /\ BoxLeads(outbox, conf)
      /\ BatchInv(row, batch, outbox, conf) /\ crashes \in 0 .. MaxCrashes
  BY SessionTypes DEF SessionsInv, TypeOK
<1>3. /\ row' \in Row /\ row'.status = row.status /\ row'.pin = row.pin
      /\ row'.graded = row.graded /\ row'.queued # "none"
  BY <1>1, <1>2 DEF Row
<1>4. RowInv(row', outbox', decided, conf)
  BY <1>1, <1>2, <1>3 DEF RowInv
<1>5. BatchInv(row', batch', outbox', conf)
  BY <1>1, <1>2, <1>3 DEF BatchInv, Follows
<1> QED
  BY <1>1, <1>2, <1>3, <1>4, <1>5, WorkerJoin

\* A request has loaded the row and decided.
LEMMA DecideStep ==
    ASSUME SessionsInv, NEW c \in Clerks, NEW r \in Row, NEW adds \in SUBSET Message,
           NEW decision \in {"none", "approve", "reject"}, Decide(c, r, adds, decision),
           Deciding(r, adds, decision, conf), Follows(row, row, r, conf)
    PROVE  SessionsInv'
<1> DEFINE k == [base |-> row, cur |-> r]
           q == [open |-> TRUE, copy |-> k, adds |-> adds, decision |-> decision]
<1>1. /\ req' = [req EXCEPT ![c] = q]
      /\ row' = row /\ outbox' = outbox /\ batch' = batch /\ conf' = conf
      /\ decided' = decided /\ crashes' = crashes
  BY DEF Decide
<1>2. row \in Row /\ req \in [Clerks -> Request]
  BY DEF SessionsInv, TypeOK
<1>3. k \in Copy /\ k.base = row /\ k.cur = r
  BY <1>2, CopyTypes
<1> HIDE DEF k
<1>4. /\ q \in Request /\ q.copy = k /\ q.adds = adds /\ q.decision = decision
  BY <1>3 DEF Request
<1> HIDE DEF q
<1>5. RequestInv(row, q, conf)
  BY <1>3, <1>4 DEF RequestInv
<1>6. /\ req' \in [Clerks -> Request] /\ req'[c] = q
      /\ \A d \in Clerks : d # c => req'[d] = req[d]
  BY <1>1, <1>2, <1>4
<1>7. \A d \in Clerks : RequestInv(row', req'[d], conf')
  BY <1>1, <1>5, <1>6 DEF SessionsInv
<1>8. TypeOK'
  BY <1>1, <1>6 DEF SessionsInv, TypeOK
<1>9. /\ RowInv(row', outbox', decided', conf') /\ BoxLeads(outbox', conf')
      /\ BatchInv(row', batch', outbox', conf')
  BY <1>1 DEF SessionsInv
<1> QED
  BY <1>7, <1>8, <1>9 DEF SessionsInv

LEMMA DecisionSteps ==
    ASSUME SessionsInv, NEW c \in Clerks,
           \/ ApproveSubmission(c) \/ RejectSubmission(c)
           \/ RerunChecks(c) \/ RetryAiReview(c) \/ SendToTeacher(c)
    PROVE  SessionsInv'
<1>1. row \in Row /\ conf \in Versions /\ row.pin \in {0, conf}
  BY DEF SessionsInv, TypeOK, RowInv
<1>2. 1 \in Sids /\ NextStepFor(Config[conf].mode) \in NextSteps
      /\ Config[conf].mode # Scored
  BY <1>1, NoQuiz
<1>3. /\ RunChecks(1) \in Message
      /\ RunAiReview(1, NextStepFor(Config[conf].mode)) \in Message
  BY <1>2, MessageTypes
<1>4. CASE ApproveSubmission(c)
  <2>1. PICK o \in Approve(row, conf, FALSE) : Decide(c, o.row, {}, "approve")
    BY <1>4 DEF ApproveSubmission
  <2>2. Sound(row, o)
    BY <1>1, ApproveGood DEF Quiet, Good
  <2>3. /\ Keeps(row, o.row)
        /\ o.row.status \in {"QUIZ_SENT", "COMPLETED"}
        /\ o.row.status = "COMPLETED" => o.row.graded = TRUE
    BY <1>1, ApproveDecides
  <2>4. o.row \in Row /\ o.row.pin \in {0, conf}
    BY <1>1, <2>2, <2>3 DEF Sound, Outcome, Keeps
  <2>5. Follows(row, row, o.row, conf)
    BY <1>1, <2>2, <2>3, <2>4, SoundFollows
  <2>6. Deciding(o.row, {}, "approve", conf)
    BY <2>3 DEF Deciding
  <2> QED
    BY <2>1, <2>4, <2>5, <2>6, DecideStep
<1>5. CASE RejectSubmission(c)
  <2>1. PICK o \in Reject(row, conf) : Decide(c, o.row, {}, "reject")
    BY <1>5 DEF RejectSubmission
  <2>2. Sound(row, o)
    BY <1>1, RejectGood DEF Quiet, Good
  <2>3. Keeps(row, o.row) /\ o.row.status = "FAILED"
    BY <1>1, RejectShape
  <2>4. o.row \in Row /\ o.row.pin \in {0, conf}
    BY <1>1, <2>2, <2>3 DEF Sound, Outcome, Keeps
  <2>5. Follows(row, row, o.row, conf)
    BY <1>1, <2>2, <2>3, <2>4, SoundFollows
  <2>6. Deciding(o.row, {}, "reject", conf)
    BY <2>3 DEF Deciding
  <2> QED
    BY <2>1, <2>4, <2>5, <2>6, DecideStep
<1>6. CASE RerunChecks(c)
  <2>1. PICK o \in RequeueChecks(row) : Decide(c, o.row, {RunChecks(1)}, "none")
    BY <1>6 DEF RerunChecks
  <2>2. Sound(row, o) /\ o.row.status = "PENDING"
    BY <1>1, RequeueChecksSound
  <2>3. o.row.pin = 0
    BY <1>1, RequeueChecksShape
  <2>4. o.row \in Row /\ o.row.pin \in {0, conf}
    BY <2>2, <2>3 DEF Sound, Outcome
  <2>5. Follows(row, row, o.row, conf)
    BY <1>1, <2>2, <2>4, SoundFollows
  <2>6. Deciding(o.row, {RunChecks(1)}, "none", conf)
    BY <2>2 DEF Deciding
  <2> QED
    BY <1>3, <2>1, <2>4, <2>5, <2>6, DecideStep
<1>7. CASE RetryAiReview(c)
  <2> DEFINE msg == RunAiReview(1, NextStepFor(Config[conf].mode))
  <2>1. row.status = "AI_REVIEW_FAILED" /\ Decide(c, row, {msg}, "none")
    BY <1>7 DEF RetryAiReview
  <2>2. Follows(row, row, row, conf)
    BY <1>1, LoadedFollows
  <2>3. Deciding(row, {msg}, "none", conf) /\ {msg} \in SUBSET Message
    BY <1>3, <2>1 DEF Deciding
  <2> HIDE DEF msg
  <2> QED
    BY <1>1, <2>1, <2>2, <2>3, DecideStep
<1>8. CASE SendToTeacher(c)
  <2>1. PICK o \in SkipAiReview(row) : Decide(c, o.row, {}, "none")
    BY <1>8 DEF SendToTeacher
  <2>2. Sound(row, o)
    BY <1>1, SkipAiReviewGood DEF Quiet, Good
  <2>3. Keeps(row, o.row) /\ o.row.status = "AWAITING_TEACHER_REVIEW"
    BY <1>1, SkipAiReviewShape
  <2>4. o.row \in Row /\ o.row.pin \in {0, conf}
    BY <1>1, <2>2, <2>3 DEF Sound, Outcome, Keeps
  <2>5. Follows(row, row, o.row, conf)
    BY <1>1, <2>2, <2>3, <2>4, SoundFollows
  <2>6. Deciding(o.row, {}, "none", conf)
    BY <2>3 DEF Deciding
  <2> QED
    BY <2>1, <2>4, <2>5, <2>6, DecideStep
<1> QED
  BY <1>4, <1>5, <1>6, <1>7, <1>8

LEMMA CommitRequestStep ==
    ASSUME SessionsInv, NEW c \in Clerks, CommitRequest(c)
    PROVE  SessionsInv'
<1> DEFINE q == req[c]
<1>1. /\ q.open /\ row' = Flush(row, q.copy)
      /\ \/ q.adds = {} /\ outbox' = outbox
         \/ \E msg \in q.adds : outbox' \in Put(outbox, msg)
      /\ decided' = decided \cup ({q.decision} \ {"none"})
      /\ req' = [req EXCEPT ![c] = IdleRequest]
      /\ conf' = conf /\ batch' = batch /\ crashes' = crashes
  BY DEF CommitRequest
<1>2. /\ row \in Row /\ batch \in Batch /\ outbox \in [Slots -> Message]
      /\ conf \in Versions /\ decided \in SUBSET {"approve", "reject"}
      /\ RowInv(row, outbox, decided, conf) /\ BoxLeads(outbox, conf)
      /\ BatchInv(row, batch, outbox, conf)
      /\ q \in Request /\ RequestInv(row, q, conf)
  BY SessionTypes
<1>3. q.open = TRUE
  BY <1>1, <1>2 DEF Request
<1> HIDE DEF q
<1>4. /\ row' \in Row /\ outbox' \in [Slots -> Message]
      /\ decided' \subseteq {"approve", "reject"}
      /\ RowInv(row', outbox', decided', conf) /\ BoxLeads(outbox', conf)
      /\ BatchInv(row', batch, outbox', conf)
      /\ row.graded = TRUE => row'.graded = TRUE
      /\ row.queued # "none" => row'.queued # "none"
  <2>1. /\ Adding(q.adds, outbox, outbox')
        /\ row' = Flush(row, q.copy)
        /\ decided' = decided \cup ({q.decision} \ {"none"})
    BY <1>1 DEF Adding
  <2> QED
    BY <1>2, <1>3, <2>1, CommitRequestInv
<1>5. IdleRequest \in Request /\ IdleRequest.open = FALSE
  <2>1. Load(NewSubmission) \in Copy
    BY NewSubmissionRow, CopyTypes
  <2> QED
    BY <2>1 DEF IdleRequest, Request
<1>6. req \in [Clerks -> Request] /\ crashes \in 0 .. MaxCrashes
  BY DEF SessionsInv, TypeOK
<1>7. /\ req' \in [Clerks -> Request] /\ req'[c] = IdleRequest
      /\ \A d \in Clerks : d # c => req'[d] = req[d]
  BY <1>1, <1>5, <1>6
<1>8. \A d \in Clerks : RequestInv(row', req'[d], conf)
  <2>1. RequestInv(row', IdleRequest, conf)
    BY <1>5 DEF RequestInv
  <2>2. \A d \in Clerks : RequestInv(row', req[d], conf)
    BY <1>4 DEF SessionsInv, RequestInv, Follows
  <2> QED
    BY <1>7, <2>1, <2>2
<1>9. TypeOK'
  BY <1>1, <1>2, <1>4, <1>6, <1>7 DEF TypeOK
<1>10. /\ RowInv(row', outbox', decided', conf') /\ BoxLeads(outbox', conf')
       /\ BatchInv(row', batch', outbox', conf')
       /\ \A d \in Clerks : RequestInv(row', req'[d], conf')
  BY <1>1, <1>4, <1>8
<1> QED
  BY <1>9, <1>10 DEF SessionsInv

LEMMA StutterStep ==
    ASSUME SessionsInv, UNCHANGED vars
    PROVE  SessionsInv'
<1>1. /\ row' = row /\ outbox' = outbox /\ conf' = conf /\ batch' = batch
      /\ req' = req /\ decided' = decided /\ crashes' = crashes
  BY DEF vars
<1> QED
  BY <1>1, SessionTypes, WorkerJoin DEF SessionsInv, TypeOK

LEMMA InitSessions ==
    ASSUME Init
    PROVE  SessionsInv
<1>1. /\ batch = IdleBatch /\ conf \in Versions
      /\ outbox = [m \in Slots |-> IF m = 1 THEN RunChecks(1) ELSE Finished]
      /\ req = [c \in Clerks |-> IdleRequest] /\ decided = {} /\ crashes = 0
  BY DEF Init
<1>2. /\ row \in Row /\ row.pin = 0 /\ row.status = "PENDING"
      /\ NewSubmission \in Row /\ Finished \in Message
  <2>1. PICK b \in BOOLEAN : row = [NewSubmission EXCEPT !.staff = b]
    BY DEF Init
  <2>2. row \in Row
    BY <2>1, NewSubmissionRow DEF Row
  <2>3. row.pin = 0 /\ row.status = "PENDING"
    BY <2>1, NewSubmissionRow DEF Row
  <2> QED
    BY <2>2, <2>3, NewSubmissionRow
<1>3. 1 \in Sids /\ 1 \in Slots /\ "completed" \in NextSteps
  <2>1. 1 \in Sids
    BY <1>1, NoQuiz
  <2>2. 1 \in Slots
    BY OutboxAssumption DEF Slots
  <2> QED
    BY <2>1, <2>2 DEF NextSteps
<1>4. /\ RunChecks(1) \in Message /\ IsFor(RunChecks(1), "RUN_CHECKS", 1)
      /\ Finished.state = "FINISHED" /\ RunChecks(1).event = "RUN_CHECKS"
  BY <1>3, MessageTypes DEF RunChecks
<1>5. outbox \in [Slots -> Message] /\ HasChecks(outbox) /\ BoxLeads(outbox, conf)
  <2>1. Leads(RunChecks(1), conf) /\ Leads(Finished, conf)
    BY <1>4 DEF Leads
  <2> QED
    BY <1>1, <1>2, <1>3, <1>4, <2>1 DEF HasChecks, BoxLeads
<1>6. RowInv(row, outbox, decided, conf)
  BY <1>1, <1>2, <1>5 DEF RowInv
<1>7. batch \in Batch /\ BatchInv(row, batch, outbox, conf)
  BY <1>1, <1>5, IdleInv
<1>8. IdleRequest \in Request /\ IdleRequest.open = FALSE
  <2>1. Load(NewSubmission) \in Copy
    BY <1>2, CopyTypes
  <2> QED
    BY <2>1 DEF IdleRequest, Request
<1>9. req \in [Clerks -> Request] /\ \A c \in Clerks : RequestInv(row, req[c], conf)
  BY <1>1, <1>8 DEF RequestInv
<1>10. crashes \in 0 .. MaxCrashes
  BY <1>1, SessionsAssumption
<1> QED
  BY <1>1, <1>2, <1>5, <1>6, <1>7, <1>9, <1>10 DEF SessionsInv, TypeOK

LEMMA SessionsStep ==
    ASSUME SessionsInv, [Next]_vars
    PROVE  SessionsInv'
<1>1. CASE Poll \/ (\E m \in Slots : Process(m)) \/ CommitBatch
  BY <1>1, PollStep, ProcessStep, CommitBatchStep
<1>2. CASE Crash \/ SendDigest
  BY <1>2, CrashStep, SendDigestStep
<1>3. CASE Teacher
  <2>1. PICK c \in Clerks :
           \/ ApproveSubmission(c) \/ RejectSubmission(c)
           \/ RerunChecks(c) \/ RetryAiReview(c) \/ SendToTeacher(c)
           \/ CommitRequest(c)
    BY <1>3 DEF Teacher
  <2> QED
    BY <2>1, DecisionSteps, CommitRequestStep
<1>4. CASE UNCHANGED vars
  BY <1>4, StutterStep
<1> QED
  BY <1>1, <1>2, <1>3, <1>4 DEF Next, Worker

LEMMA SessionsInductive == Spec => []SessionsInv
<1>1. Init => SessionsInv
  BY InitSessions
<1>2. SessionsInv /\ [Next]_vars => SessionsInv'
  BY SessionsStep
<1> QED
  BY <1>1, <1>2, PTL DEF Spec

-----------------------------------------------------------------------------
(* The theorems.                                                           *)

\* Type correctness: whatever copies are merged, the result is a row, and the
\* messages, the sessions and the decisions keep their form (_requeue_checks,
\* process_outbox_messages).
THEOREM SessionsTyped == Spec => []TypeOK
<1>1. SessionsInv => TypeOK
  BY DEF SessionsInv
<1> QED
  BY <1>1, SessionsInductive, PTL

\* No submission is lost between the sessions: a row committed as PENDING or as
\* waiting for the AI has its message, for any number of requests in flight and of
\* worker deaths (process_outbox_messages' single commit, _requeue_checks).
THEOREM NoMessageLost == Spec => []PipelineHasMessage
<1>1. SessionsInv => PipelineHasMessage
  BY DEF SessionsInv, RowInv, PipelineHasMessage, HasChecks, HasReview
<1> QED
  BY <1>1, SessionsInductive, PTL

\* Nothing is COMPLETED under a mode that ends with the teacher without a committed
\* approval, and nothing FAILED without a committed rejection, whatever the batch
\* overwrites (_apply_review_decision).
THEOREM OnlyTheTeacherDecides == Spec => []TeacherDecided
<1>1. SessionsInv => TeacherDecided
  BY DEF SessionsInv, RowInv, TeacherDecided, EndsWithTeacher
<1> QED
  BY <1>1, SessionsInductive, PTL

\* A row in the teacher's queue was announced and a COMPLETED row is graded, though
\* the status and its companion column may come from two sessions
\* (enqueue_teacher_review_notification, finalize_grade).
THEOREM StatusKeepsItsCompanion == Spec => [](ReviewIsAnnounced /\ CompletedIsGraded)
<1>1. SessionsInv => ReviewIsAnnounced /\ CompletedIsGraded
  BY DEF SessionsInv, RowInv, ReviewIsAnnounced, CompletedIsGraded
<1> QED
  BY <1>1, SessionsInductive, PTL
=============================================================================
