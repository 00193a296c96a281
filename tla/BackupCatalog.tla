--------------------------- MODULE BackupCatalog ---------------------------
(***************************************************************************)
(* What the components of the backup control plane share: the rows of      *)
(* restore_requests and backup_runs they read and write, the per-run       *)
(* advisory lock, the object store, and the processes that run the code.   *)
(*                                                                         *)
(* A deployment has one replica but surges a second one during a rollout,  *)
(* so Procs may hold two processes.  Everything a process keeps in memory  *)
(* is lost when it crashes; the rows and the objects survive.              *)
(***************************************************************************)
EXTENDS Naturals, FiniteSets

CONSTANTS
  Procs,        \* processes that may run the service
  Targets,      \* backup_targets rows
  Jobs,         \* backup_jobs rows
  TargetOf,     \* backup_jobs.target_id
  Runs,         \* backup_runs rows, all of status 'success'
  JobOf,        \* backup_runs.job_id
  Requests,     \* restore_requests rows that calls of create may insert
  Actors,       \* requested_by together with approval actor and reason
  Keys,         \* idempotency keys a client may supply
  Submissions,  \* the submissions clients make
  MaxCrashes,   \* bound on the number of crashes
  None          \* null

\* The restore submissions a client can make: a backup run, the approval, and
\* an optional idempotency key.  The target is the one of the run's job.
Dto == [run : Runs, actor : Actors, key : Keys \cup {None}]

ASSUME CatalogAssumption ==
  /\ TargetOf \in [Jobs -> Targets]
  /\ JobOf \in [Runs -> Jobs]
  /\ Submissions \subseteq Dto
  /\ MaxCrashes \in Nat
  /\ None \notin Procs
  /\ None \notin Requests
  /\ None \notin Keys

VARIABLES
  up,            \* up[p]: process p is running
  crashes,       \* how many crashes have happened
  dto,           \* dto[r]: the submission of the call that may insert row r
  status,        \* status[r]: restore_requests.status, or "absent"
  verification,  \* verification[b]: backup_runs.verification_status
  path,          \* path[b]: backup_runs.storage_path is set
  object,        \* object[b]: the dump of run b is in the object store
  lock           \* lock[b]: the process whose transaction holds b's lock

catalogVars == <<up, crashes, dto, status, verification, path, object, lock>>

ACTIVE_RESTORE_STATUSES == {"pending", "running"}
TERMINAL_RESTORE_STATUSES == {"completed", "failed"}
RestoreStatus == ACTIVE_RESTORE_STATUSES \cup TERMINAL_RESTORE_STATUSES
VerificationStatus == {"pending", "verifying", "verified", "failed"}

BackupRunOf(r) == dto[r].run
RestoreTarget(r) == TargetOf[JobOf[BackupRunOf(r)]]

Active(r) == status[r] \in ACTIVE_RESTORE_STATUSES
Terminal(r) == status[r] \in TERMINAL_RESTORE_STATUSES

ActiveRestoresOf(b) == {r \in Requests : Active(r) /\ BackupRunOf(r) = b}
ActiveRestoresOn(t) == {r \in Requests : Active(r) /\ RestoreTarget(r) = t}

(***************************************************************************)
(* withBackupRunLock: a transaction that first takes pg_advisory_xact_lock *)
(* for the run, under a bounded lock_timeout.  The lock is the             *)
(* transaction's, so commit, rollback and the loss of the process free it. *)
(***************************************************************************)
LockFree(b) == lock[b] = None
AcquireRunLock(b, p) == LockFree(b) /\ lock' = [lock EXCEPT ![b] = p]
ReleaseRunLock(b) == lock' = [lock EXCEPT ![b] = None]

\* Runs are catalogued by successful uploads: the path is recorded after the
\* object was stored, and nothing has been restored yet.
CatalogInit ==
  /\ up = [p \in Procs |-> TRUE]
  /\ crashes = 0
  /\ dto \in [Requests -> Submissions]
  /\ status = [r \in Requests |-> "absent"]
  /\ verification = [b \in Runs |-> "pending"]
  /\ path = [b \in Runs |-> TRUE]
  /\ object = [b \in Runs |-> TRUE]
  /\ lock = [b \in Runs |-> None]

\* A process dies between two of its steps; its open transactions roll back.
ProcessDies(p) ==
  /\ up[p]
  /\ crashes < MaxCrashes
  /\ up' = [up EXCEPT ![p] = FALSE]
  /\ crashes' = crashes + 1
  /\ lock' = [b \in Runs |-> IF lock[b] = p THEN None ELSE lock[b]]

\* Kubernetes starts the process again.
ProcessStarts(p) ==
  /\ ~up[p]
  /\ up' = [up EXCEPT ![p] = TRUE]

CatalogTypeOK ==
  /\ up \in [Procs -> BOOLEAN]
  /\ crashes \in 0..MaxCrashes
  /\ dto \in [Requests -> Submissions]
  /\ status \in [Requests -> RestoreStatus \cup {"absent"}]
  /\ verification \in [Runs -> VerificationStatus]
  /\ path \in [Runs -> BOOLEAN]
  /\ object \in [Runs -> BOOLEAN]
  /\ lock \in [Runs -> Procs \cup {None}]
=============================================================================
