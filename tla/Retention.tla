------------------------------ MODULE Retention ------------------------------
(***************************************************************************)
(* RetentionService.cleanup: after a successful backup of a job, remove    *)
(* the dumps of its older runs from the object store and clear their       *)
(* storage paths.                                                          *)
(*                                                                         *)
(* A cleanup decides from rows it read at its start; each removal is       *)
(* decided again under the run's lock, and wal-g runs while the lock is    *)
(* held.  A manual and a scheduled backup of one job may end together, so  *)
(* cleanups may overlap; Cleanups bounds how many run at a time.           *)
(***************************************************************************)
EXTENDS BackupCatalog

CONSTANTS
  Cleanups,
  StartedAt,    \* backup_runs.started_at
  RetainCount,  \* backup_jobs.retention_full_count
  MaxFailures   \* bound on wal-g removals and transactions that fail

ASSUME RetentionAssumption ==
  /\ IsFiniteSet(Runs)
  /\ StartedAt \in [Runs -> Nat]
  /\ \A a, b \in Runs : StartedAt[a] = StartedAt[b] => a = b
  /\ RetainCount \in [Jobs -> Nat \ {0}]
  /\ MaxFailures \in Nat

VARIABLES
  cleanup,  \* cleanup[k]: its process and step, its anchor and its candidates
  failures, \* how many removals or transactions have failed
  cut       \* runs a cleanup was cut off at, between removal and commit (history)

retentionVars == <<cleanup, failures, cut>>

NoCleanup ==
  [proc |-> None, step |-> "idle", anchor |-> None, todo |-> {}, run |-> None]

Newer(a, b) == StartedAt[a] > StartedAt[b]
RunsOf(j) == {b \in Runs : JobOf[b] = j}

\* The first retention_full_count runs, newest first.
Retained(j) ==
  {b \in RunsOf(j) : Cardinality({a \in RunsOf(j) : Newer(a, b)}) < RetainCount[j]}

\* deterministicObject: a path, once recorded, is the run's deterministic one.
Anchors(j) == {b \in RunsOf(j) : verification[b] = "verified" /\ path[b]}
NewestVerified(j) ==
  CHOOSE b \in Anchors(j) : \A a \in Anchors(j) : a = b \/ Newer(b, a)

\* Candidates, from the rows just read.
Expired(j, anchor) == {b \in RunsOf(j) \ (Retained(j) \cup {anchor}) : path[b]}

\* pinnedRunIds: runs whose row is VERIFYING, runs an active restore refers to.
Verifying(b) == verification[b] = "verifying"
Referenced(b) == ActiveRestoresOf(b) # {}

\* cleanup up to the probe: without an anchor it is deferred.  The rows read here
\* also tell which candidates were being verified.
StartCleanup(k, p, j) ==
  /\ up[p]
  /\ cleanup[k].step = "idle"
  /\ Anchors(j) # {}
  /\ LET a == NewestVerified(j)
     IN  cleanup' = [cleanup EXCEPT ![k] =
           [proc |-> p, step |-> "probe", anchor |-> a,
            todo |-> {b \in Expired(j, a) : ~Verifying(b)}, run |-> None]]
  /\ UNCHANGED <<catalogVars, failures, cut>>

Finish(k) == cleanup' = [cleanup EXCEPT ![k] = NoCleanup]

\* The next candidate, or the end of the loop.
Continue(k, todo) ==
  cleanup' = [cleanup EXCEPT ![k] =
    IF todo = {} THEN NoCleanup
    ELSE [@ EXCEPT !.step = "loop", !.todo = todo, !.run = None]]

\* MUTANT: a row that says verified is taken for the object itself.
AnchorProbedNever(a) == TRUE

\* probeLogicalObject of the anchor.
AnchorPresent(a) == object[a]

\* anchorIsProven, then the candidates no active restore refers to.
ProbeAnchor(k) ==
  /\ cleanup[k].step = "probe"
  /\ AnchorPresent(cleanup[k].anchor)
  /\ Continue(k, {b \in cleanup[k].todo : ~Referenced(b)})
  /\ UNCHANGED <<catalogVars, failures, cut>>

\* The anchor is absent, or wal-g could not tell: the cleanup is deferred.
ProbeUnproven(k) ==
  /\ cleanup[k].step = "probe"
  /\ Finish(k)
  /\ UNCHANGED <<catalogVars, failures, cut>>

\* MUTANT: the pins are not read again under the lock.
StillPinnedNever(b) == ~path[b]

\* The recheck of deleteExpiredObject.
StillPinned(b) == ~path[b] \/ Verifying(b) \/ Referenced(b)

\* withBackupRunLock and the recheck: the candidate is kept, or wal-g is started
\* with the lock held.
LockCandidate(k, b) ==
  /\ cleanup[k].step = "loop"
  /\ b \in cleanup[k].todo
  /\ LockFree(b)
  /\ IF StillPinned(b)
     THEN /\ Continue(k, cleanup[k].todo \ {b})
          /\ UNCHANGED lock
     ELSE /\ AcquireRunLock(b, cleanup[k].proc)
          /\ cleanup' = [cleanup EXCEPT ![k].step = "removing", ![k].run = b]
  /\ UNCHANGED <<up, crashes, dto, status, verification, path, object, failures, cut>>

CandidateLockTimeout(k, b) ==
  /\ cleanup[k].step = "loop"
  /\ b \in cleanup[k].todo
  /\ ~LockFree(b)
  /\ Continue(k, cleanup[k].todo \ {b})
  /\ UNCHANGED <<catalogVars, failures, cut>>

\* deleteLogicalObject: wal-g st rm removes exactly this object.
RemoveObject(k) ==
  /\ cleanup[k].step = "removing"
  /\ object' = [object EXCEPT ![cleanup[k].run] = FALSE]
  /\ cleanup' = [cleanup EXCEPT ![k].step = "removed"]
  /\ UNCHANGED <<up, crashes, dto, status, verification, path, lock, failures, cut>>

\* wal-g exits with an error: the candidate is counted as failed.
RemoveFails(k) ==
  /\ cleanup[k].step = "removing"
  /\ failures < MaxFailures
  /\ failures' = failures + 1
  /\ Continue(k, cleanup[k].todo \ {cleanup[k].run})
  /\ ReleaseRunLock(cleanup[k].run)
  /\ UNCHANGED <<up, crashes, dto, status, verification, path, object, cut>>

\* MUTANT: the transaction commits and the path was not cleared.
ClearPathForgotten(k) ==
  /\ cleanup[k].step = "removed"
  /\ Continue(k, cleanup[k].todo \ {cleanup[k].run})
  /\ ReleaseRunLock(cleanup[k].run)
  /\ UNCHANGED <<up, crashes, dto, status, verification, path, object, failures, cut>>

\* storage_path is cleared and the transaction commits.
ClearPath(k) ==
  /\ cleanup[k].step = "removed"
  /\ path' = [path EXCEPT ![cleanup[k].run] = FALSE]
  /\ Continue(k, cleanup[k].todo \ {cleanup[k].run})
  /\ ReleaseRunLock(cleanup[k].run)
  /\ UNCHANGED <<up, crashes, dto, status, verification, object, failures, cut>>

\* The update or the commit fails after wal-g removed the object, or wal-g itself
\* reports an error after it did.
ClearPathFails(k) ==
  /\ cleanup[k].step = "removed"
  /\ failures < MaxFailures
  /\ failures' = failures + 1
  /\ cut' = cut \cup {cleanup[k].run}
  /\ Continue(k, cleanup[k].todo \ {cleanup[k].run})
  /\ ReleaseRunLock(cleanup[k].run)
  /\ UNCHANGED <<up, crashes, dto, status, verification, path, object>>

CleanupStep(k) ==
  \/ \E p \in Procs, j \in Jobs : StartCleanup(k, p, j)
  \/ ProbeAnchor(k)
  \/ ProbeUnproven(k)
  \/ \E b \in cleanup[k].todo : LockCandidate(k, b) \/ CandidateLockTimeout(k, b)
  \/ RemoveObject(k)
  \/ RemoveFails(k)
  \/ ClearPath(k)
  \/ ClearPathFails(k)

RetentionInit ==
  /\ cleanup = [k \in Cleanups |-> NoCleanup]
  /\ failures = 0
  /\ cut = {}

\* The cleanups of p that have removed an object and not cleared its path.
CutOff(p) == {k \in Cleanups : cleanup[k].proc = p /\ cleanup[k].step = "removed"}

CleanupsForget(p) ==
  /\ cleanup' = [k \in Cleanups |-> IF cleanup[k].proc = p THEN NoCleanup
                                    ELSE cleanup[k]]
  /\ cut' = cut \cup {cleanup[k].run : k \in CutOff(p)}
  /\ UNCHANGED failures

CleanupSteps == {"idle", "probe", "loop", "removing", "removed"}

RetentionTypeOK ==
  /\ cleanup \in [Cleanups -> [proc : Procs \cup {None}, step : CleanupSteps,
                               anchor : Runs \cup {None}, todo : SUBSET Runs,
                               run : Runs \cup {None}]]
  /\ failures \in 0..MaxFailures
  /\ cut \subseteq Runs \cup {None}
=============================================================================
