-------------------------------- MODULE CronLock --------------------------------
(*****************************************************************************)
(* lib/cronRegistry.ts over lib/lock.ts: every pod has the same timer for a  *)
(* job and runs it under withAdvisoryLock.  The lock is one of a Postgres    *)
(* SESSION: it is taken by a query on some connection of the pod's pool,     *)
(* given back by a query on some connection of the pod's pool, counted when  *)
(* the same session takes it again, and gone when that connection closes.    *)
(* The pool closes a connection only when it stays idle for a while; one     *)
(* that the pod's other queries keep using stays open, and its lock held.    *)
(*****************************************************************************)
EXTENDS Integers, FiniteSets

CONSTANTS
  Pods,
  PoolSize,   \* connections a pod may have open
  MaxRuns,    \* bound: runs of the job on one pod at a time
  MaxCount,   \* bound: how often one session takes the lock (leaks pile up)
  NoConn

Conns == Pods \X (1..PoolSize)

ASSUME CronAssumption ==
  PoolSize \in Nat /\ MaxRuns \in Nat /\ MaxCount \in Nat /\ NoConn \notin Conns

VARIABLES
  open,     \* the open connections
  busy,     \* those that queries of anything but the lock are using now
  holder,   \* the connection whose session holds the advisory lock, or NoConn
  count,    \* how many times it holds it
  runs,     \* the runs of job.fn(): what connection took the lock for each
  orphaned, \* history: a connection was closed under a run in progress
  strayed   \* history: since the lock was last free, an unlock missed its session

cronVars == << open, busy, holder, count, runs, orphaned, strayed >>

PodOf(c) == c[1]

RunsOn(p) == {r \in runs : PodOf(r.conn) = p}

-------------------------------------------------------------------------------
CronInit ==
  /\ open = {} /\ busy = {}
  /\ holder = NoConn /\ count = 0 /\ strayed = FALSE
  /\ runs = {} /\ orphaned = FALSE

\* The pool opens a connection when a query finds none of its own idle.
Connect(c) ==
  /\ c \notin open
  /\ open' = open \cup {c}
  /\ UNCHANGED << busy, holder, count, runs, orphaned, strayed >>

\* A query of the pod, of a request or of the job itself, takes an idle connection.
Use(c) ==
  /\ c \in open \ busy
  /\ busy' = busy \cup {c}
  /\ UNCHANGED << open, holder, count, runs, orphaned, strayed >>

\* The query ends and gives the connection back.
Return(c) ==
  /\ c \in busy
  /\ busy' = busy \ {c}
  /\ UNCHANGED << open, holder, count, runs, orphaned, strayed >>

\* Seeded fault of MayLock: the answer of pg_try_advisory_lock is not looked at.
AlwaysLock(c) == TRUE

\* pg_try_advisory_lock: free, or held by this very session.
MayLock(c) == holder \in {NoConn, c}

\* The timer fires on a pod, whatever became of its last run, and the lock is got
\* on some connection: the run starts.  Where it is not got the tick is skipped.
Tick(c) ==
  /\ c \in open \ busy
  /\ Cardinality(RunsOn(PodOf(c))) < MaxRuns
  /\ MayLock(c)
  /\ count < MaxCount
  /\ holder' = c
  /\ count' = IF holder = c THEN count + 1 ELSE 1
  /\ \E id \in 1..MaxRuns :
       /\ \A r \in RunsOn(PodOf(c)) : r.id # id
       /\ runs' = runs \cup {[conn |-> c, id |-> id]}
  /\ UNCHANGED << open, busy, orphaned, strayed >>

\* Seeded fault of Unlock: it is not in a "finally", and the job threw.
UnlockSkipped(c) == UNCHANGED << holder, count, strayed >>

\* pg_advisory_unlock on the session of c: one of the counts is given back, the last
\* one frees the lock.  On another session than the holder's it only returns false.
Unlock(c) ==
  IF c = holder
  THEN /\ count' = count - 1
       /\ holder' = (IF count = 1 THEN NoConn ELSE holder)
       /\ strayed' = (strayed /\ count # 1)
  ELSE strayed' = (strayed \/ holder # NoConn) /\ UNCHANGED << holder, count >>

\* The run ends, or throws; pg_advisory_unlock goes to some connection of the pool.
Finish(r, c) ==
  /\ r \in runs
  /\ c \in open \ busy /\ PodOf(c) = PodOf(r.conn)
  /\ runs' = runs \ {r}
  /\ Unlock(c)
  /\ UNCHANGED << open, busy, orphaned >>

\* What Postgres does when sessions end: their lock is free.
ReleaseLocksOf(closed) ==
  IF holder \in closed THEN holder' = NoConn /\ count' = 0 /\ strayed' = FALSE
  ELSE UNCHANGED << holder, count, strayed >>

\* The pool closes a connection that no query has used for idleTimeoutMillis; the runs
\* that took the lock on it go on.
CloseIdle(c) ==
  /\ c \in open \ busy
  /\ open' = open \ {c}
  /\ ReleaseLocksOf({c})
  /\ orphaned' = (orphaned \/ \E r \in runs : r.conn = c)
  /\ UNCHANGED << busy, runs >>

\* The pod dies, its connections and runs with it.
PodDies(p) ==
  /\ open' = {c \in open : PodOf(c) # p}
  /\ busy' = busy \cap open'
  /\ runs' = runs \ RunsOn(p)
  /\ ReleaseLocksOf({p} \X (1..PoolSize))
  /\ UNCHANGED orphaned

-------------------------------------------------------------------------------
CronNext ==
  \/ \E c \in Conns : Connect(c) \/ Use(c) \/ Return(c) \/ Tick(c) \/ CloseIdle(c)
  \/ \E r \in runs, c \in Conns : Finish(r, c)
  \/ \E p \in Pods : PodDies(p)

\* A timer fires while the lock is free.
FreeTick == holder = NoConn /\ \E c \in Conns : Tick(c)

FinishAny(p) == \E r \in RunsOn(p), c \in open : Finish(r, c)

\* Queries end, a connection that STAYS idle is closed, and a pod gets a connection
\* when it needs one: each weakly fair.  The timers fire for ever, and they and the
\* unlock of a job that ended get a connection, as the pool serves its waiters in
\* order: strongly fair, as others may have the connections in between.  Nothing
\* makes a tick or an unlock reach the connection that holds the lock, and no query
\* is obliged to come or to stay away.
CronFairness ==
  /\ \A c \in Conns : WF_cronVars(CloseIdle(c)) /\ WF_cronVars(Return(c))
  /\ WF_cronVars(\E c \in Conns : Connect(c))
  /\ \A p \in Pods : SF_cronVars(FinishAny(p))
  /\ SF_cronVars(FreeTick)

CronSpec == CronInit /\ [][CronNext]_cronVars /\ CronFairness

-------------------------------------------------------------------------------
(* Properties.                                                               *)

\* Every variable holds a value of its type, and the lock, when held, is held by
\* an open connection at least once.
CronTypeOK ==
  /\ open \subseteq Conns
  /\ busy \subseteq open
  /\ holder \in open \cup {NoConn}
  /\ count \in Nat
  /\ holder = NoConn <=> count = 0
  /\ runs \subseteq [conn : Conns, id : 1..MaxRuns]
  /\ orphaned \in BOOLEAN /\ strayed \in BOOLEAN

\* What the lock does give, as long as no run outlives the pool's idle timeout: all
\* runs in progress are on one pod, in fact took the lock on one connection, in
\* spite of unlocks that go to the wrong session and of crashes.  It rests on the
\* count of the session never falling below the number of its runs.
OnePodAtATime == orphaned \/ \A r, q \in runs : r.conn = q.conn

\* "Other instances can take it on the next tick" (cronRegistry.ts:20): the job starts
\* again and again, through crashes, overlapping runs and locks that leaked onto a
\* connection that falls idle.  One way is left to stop it for good: an unlock strayed,
\* and the pod's traffic never lets the connection with the leaked lock stay idle.
JobKeepsRunning ==
  \/ []<><< \E c \in Conns : Tick(c) >>_cronVars
  \/ \E c \in Conns : <>[](holder = c /\ strayed) /\ []<>(c \in busy)

=================================================================================
