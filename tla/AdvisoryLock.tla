---------------------------- MODULE AdvisoryLock ----------------------------
(***************************************************************************)
(* The session-level advisory lock of process_outbox_messages.  Every      *)
(* replica runs the job over its own connection pool.  (The reminder job   *)
(* follows the same pattern; the digest and statistics jobs commit several *)
(* times in a run and are left to a module of their own.)                  *)
(*                                                                         *)
(* The lock belongs to the connection that took it.  db.commit() gives the *)
(* connection back to the pool, so the unlock in the finally block may run *)
(* on another connection, where PostgreSQL ignores it.                     *)
(***************************************************************************)
EXTENDS Naturals, Sequences, FiniteSets

CONSTANTS Replicas,      \* application processes, each with its scheduler
          PoolSize,      \* db_pool_size: idle connections a replica keeps
          Overflow,      \* db_max_overflow: further ones, closed on return
          SqlErrors,     \* whether a statement of the job may fail
          MaxHeld,       \* the count of a lock taken again saturates here
          MaxTraffic,    \* bound on connections borrowed by web requests
          MaxRestarts     \* bound on replica restarts

ASSUME PoolAssumption ==
    /\ IsFiniteSet(Replicas)
    /\ PoolSize \in Nat \ {0} /\ Overflow \in Nat
    /\ SqlErrors \in BOOLEAN
    /\ MaxHeld \in Nat \ {0} /\ MaxTraffic \in Nat /\ MaxRestarts \in Nat

Conns == 1 .. PoolSize + Overflow

\* Nobody's connection: owns the lock when it is free.
Nobody == <<"nobody", 0>>

VARIABLES idle,      \* each replica's pool, a FIFO queue of idle connections
          busy,      \* its connections that web requests hold
          pc,        \* where its job is
          conn,      \* the connection its job holds, 0 for none
          lock,      \* the connection that owns the lock, and how many times
          traffic, restarts

lockVars == <<idle, busy, pc, conn, lock, traffic, restarts>>

FreeLock == [owner |-> Nobody, times |-> 0]

LockTypeOK ==
    /\ idle \in [Replicas -> Seq(Conns)]
    /\ \A r \in Replicas : Len(idle[r]) <= PoolSize
    /\ busy \in [Replicas -> SUBSET Conns]
    /\ pc \in [Replicas -> {"waiting", "working", "unlocking"}]
    /\ conn \in [Replicas -> Conns \cup {0}]
    /\ lock \in [owner : {Nobody} \cup (Replicas \X Conns), times : 0 .. MaxHeld]
    /\ traffic \in 0 .. MaxTraffic
    /\ restarts \in 0 .. MaxRestarts

LockInit ==
    /\ idle = [r \in Replicas |-> <<>>]
    /\ busy = [r \in Replicas |-> {}]
    /\ pc = [r \in Replicas |-> "waiting"]
    /\ conn = [r \in Replicas |-> 0]
    /\ lock = FreeLock
    /\ traffic = 0
    /\ restarts = 0

-----------------------------------------------------------------------------
(* The pool (SQLAlchemy's QueuePool) and the lock (PostgreSQL).            *)

Opened(r) == {idle[r][i] : i \in DOMAIN idle[r]} \cup busy[r] \cup {conn[r]}

\* What a checkout hands out: the connection idle longest, else a new one.
Checkout(r) ==
    IF idle[r] # <<>>
    THEN {Head(idle[r])}
    ELSE {c \in Conns \ Opened(r) : \A d \in Conns \ Opened(r) : c <= d}

\* The pool without the connection a checkout took.
Taken(r) == IF idle[r] # <<>> THEN Tail(idle[r]) ELSE <<>>

\* Connection c comes back to pool q: kept, or closed when the pool is full.
Returned(q, c) == IF Len(q) < PoolSize THEN Append(q, c) ELSE q

\* A closed connection loses its lock.
AfterReturn(r, q, c, l) ==
    IF Len(q) = PoolSize /\ l.owner = <<r, c>> THEN FreeLock ELSE l

\* Mutants of Grants: the answer is not looked at; the lock is not reentrant.
GrantsAlways(r, c) == TRUE
GrantsOnce(r, c) == lock.owner = Nobody

\* pg_try_advisory_lock on c: granted when free or already c's own.
Grants(r, c) == lock.owner \in {Nobody, <<r, c>>}

Locked(r, c) == [owner |-> <<r, c>>,
                 times |-> IF lock.times < MaxHeld THEN lock.times + 1 ELSE MaxHeld]

\* pg_advisory_unlock on c: ignored unless c owns the lock.  A saturated count
\* may stand for a larger one.
Unlocked(r, c) ==
    IF lock.owner # <<r, c>> THEN {lock}
    ELSE {IF lock.times = 1 THEN FreeLock ELSE [lock EXCEPT !.times = @ - 1]}
         \cup (IF lock.times = MaxHeld /\ MaxHeld > 1 THEN {lock} ELSE {})

-----------------------------------------------------------------------------
(* The job of replica r.                                                   *)

\* The lock is free, or this very connection kept it from an earlier run.
Acquire(r) ==
    /\ pc[r] = "waiting"
    /\ \E c \in Checkout(r) :
          /\ Grants(r, c)
          /\ lock' = Locked(r, c)
          /\ conn' = [conn EXCEPT ![r] = c]
    /\ idle' = [idle EXCEPT ![r] = Taken(r)]
    /\ pc' = [pc EXCEPT ![r] = "working"]
    /\ UNCHANGED <<busy, traffic, restarts>>

\* Another connection has the lock: this run is skipped.
Skip(r) ==
    /\ pc[r] = "waiting"
    /\ \E c \in Checkout(r) :
          /\ ~Grants(r, c)
          /\ idle' = [idle EXCEPT ![r] = Returned(Taken(r), c)]
    /\ UNCHANGED <<busy, pc, conn, lock, traffic, restarts>>

\* db.commit(), or the rollback of a commit that failed: either way the session
\* gives the connection back to the pool.
Commit(r) ==
    LET c == conn[r]
    IN  /\ pc[r] = "working"
        /\ idle' = [idle EXCEPT ![r] = Returned(@, c)]
        /\ lock' = AfterReturn(r, idle[r], c, lock)
        /\ conn' = [conn EXCEPT ![r] = 0]
        /\ pc' = [pc EXCEPT ![r] = "unlocking"]
        /\ UNCHANGED <<busy, traffic, restarts>>

\* The run ends before its commit, by an early return or an exception: the
\* finally block unlocks on the connection of the open transaction, except that
\* a failed statement has aborted the transaction and the unlock fails too.
Leave(r) ==
    LET c == conn[r]
    IN  /\ pc[r] = "working"
        /\ idle' = [idle EXCEPT ![r] = Returned(@, c)]
        /\ \/ \E l \in Unlocked(r, c) : lock' = AfterReturn(r, idle[r], c, l)
           \/ SqlErrors /\ lock' = AfterReturn(r, idle[r], c, lock)
        /\ conn' = [conn EXCEPT ![r] = 0]
        /\ pc' = [pc EXCEPT ![r] = "waiting"]
        /\ UNCHANGED <<busy, traffic, restarts>>

\* The finally block after the last commit, on whatever connection it is given.
Unlock(r) ==
    /\ pc[r] = "unlocking"
    /\ \E c \in Checkout(r) :
          /\ \E l \in Unlocked(r, c) : lock' = AfterReturn(r, Taken(r), c, l)
          /\ idle' = [idle EXCEPT ![r] = Returned(Taken(r), c)]
    /\ pc' = [pc EXCEPT ![r] = "waiting"]
    /\ UNCHANGED <<busy, conn, traffic, restarts>>

-----------------------------------------------------------------------------
(* The rest of the replica.                                                *)

\* A web request checks a connection out, and gives it back.
Borrow(r) ==
    /\ traffic < MaxTraffic
    /\ \E c \in Checkout(r) : busy' = [busy EXCEPT ![r] = @ \cup {c}]
    /\ idle' = [idle EXCEPT ![r] = Taken(r)]
    /\ traffic' = traffic + 1
    /\ UNCHANGED <<pc, conn, lock, restarts>>

GiveBack(r, c) ==
    /\ c \in busy[r]
    /\ busy' = [busy EXCEPT ![r] = @ \ {c}]
    /\ idle' = [idle EXCEPT ![r] = Returned(@, c)]
    /\ lock' = AfterReturn(r, idle[r], c, lock)
    /\ UNCHANGED <<pc, conn, traffic, restarts>>

\* The replica is replaced: its connections close, and its lock with them.
Restart(r) ==
    /\ restarts < MaxRestarts
    /\ restarts' = restarts + 1
    /\ idle' = [idle EXCEPT ![r] = <<>>]
    /\ busy' = [busy EXCEPT ![r] = {}]
    /\ pc' = [pc EXCEPT ![r] = "waiting"]
    /\ conn' = [conn EXCEPT ![r] = 0]
    /\ lock' = IF lock.owner[1] = r THEN FreeLock ELSE lock
    /\ UNCHANGED traffic

Job(r) == Acquire(r) \/ Skip(r) \/ Commit(r) \/ Unlock(r)

LockNext == \E r \in Replicas :
            \/ Job(r) \/ Leave(r)
            \/ Borrow(r) \/ (\E c \in Conns : GiveBack(r, c))
            \/ Restart(r)

LockSpec == LockInit /\ [][LockNext]_lockVars

\* Every replica's scheduler keeps running the job, and requests end.
FairSpec ==
    /\ LockSpec
    /\ \A r \in Replicas : WF_lockVars(Job(r))
    /\ \A r \in Replicas : WF_lockVars(\E c \in Conns : GiveBack(r, c))

-----------------------------------------------------------------------------
(* Properties.                                                             *)

Running(r) == pc[r] = "working"

\* "Advisory lock ensures only one processor runs at a time across all
\* instances" (process_outbox_messages), although the lock leaks, is taken again
\* by the connection that kept it, and goes away with a closed connection.
OneProcessor ==
    \A r, s \in Replicas : Running(r) /\ Running(s) => r = s

\* A leaked lock does not stop the queue for good: the pool hands its
\* connections out in turn, so the replica that leaked the lock meets the
\* connection that owns it again.
QueueIsServed == []<>(\E r \in Replicas : Running(r))

\* "Always release the advisory lock" (process_outbox_messages): when no run of
\* the job is under way, no connection owns the lock.
LockIsReleased ==
    (\A r \in Replicas : pc[r] = "waiting") => lock = FreeLock
=============================================================================
