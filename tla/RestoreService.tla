--------------------------- MODULE RestoreService --------------------------
(***************************************************************************)
(* RestoreService: accepting an approved restore submission, executing it, *)
(* and writing its terminal state.                                         *)
(*                                                                         *)
(* A call of create is a sequence of database round trips, so calls,       *)
(* executions and everything else that runs in any process interleave      *)
(* between them.  Row r of restore_requests is the row call r inserts.     *)
(***************************************************************************)
EXTENDS BackupCatalog

VARIABLES
  indexed,  \* both unique indexes are installed, and this was verified at boot
  call,     \* call[c]: how far call c of create has come
  caller,   \* caller[c]: the process that serves call c
  reply,    \* reply[c]: the request returned to the client of call c
  exec,     \* exec[p][r]: the execution of r in process p
  age,      \* age[r]: age of an active row, since created_at or started_at
  error,    \* error[r]: why a failed request failed (error_message, recovery)
  audit,    \* audit[r][a]: audit_events about r with action a
  started,  \* history: how often the claim of r succeeded
  effect    \* history: how often pg_restore committed for r

restoreVars ==
  <<indexed, call, caller, reply, exec, age, error, audit, started, effect>>

CallOpen == {"validated", "pinning", "collided"}
CallAnswered == {"accepted", "replayed", "conflict", "rejected", "unavailable"}
Stages == {"none", "dispatched", "validated", "executing", "committed", "failing"}

\* The thresholds of the reconciler cut time into three: a row is too young to
\* touch, old enough to adopt, or past the abandon or stale window.  The age of a
\* terminal row is never read, and is kept at "young".
Ages == {"young", "due", "old"}
AuditActions == {"created", "completed", "failed"}
Errors == {"execution", "interrupted", "abandoned"}

ASSUME ErrorAssumption == None \notin Errors

\* inFlight: the requests process p is executing, kept in p's memory.
isInFlight(p, r) == exec[p][r] # "none"

\* A pg_restore for r is running, or has committed without being recorded.
Live(p, r) == exec[p][r] \in {"executing", "committed"}

----------------------------------------------------------------------------
(* Accepting a submission. *)

\* The supplied key, or a digest of everything the submission says.
restoreIdempotencyKey(d) ==
  IF d.key # None THEN d.key ELSE <<d.run, d.actor>>

findByIdempotencyKey(k) ==
  {r \in Requests : status[r] # "absent" /\ restoreIdempotencyKey(dto[r]) = k}

SameKey(c) == findByIdempotencyKey(restoreIdempotencyKey(dto[c]))

\* MUTANT: the stored request is returned whatever it was for.
assertReplayMatchesNever(r, c) == TRUE

assertReplayMatches(r, c) ==
  dto[r].run = dto[c].run /\ dto[r].actor = dto[c].actor

assertRestoreSerializationReady == indexed

\* assertRestorableRun and logicalRestoreLocation: runs here are successful, so
\* what can be missing is the storage path.
Restorable(b) == path[b]

Answer(c, how) == call' = [call EXCEPT ![c] = how] /\ UNCHANGED reply

\* Return r to call c, or refuse when the key was used for something else.
Replay(c, r) ==
  IF assertReplayMatches(r, c)
  THEN /\ call' = [call EXCEPT ![c] = "replayed"]
       /\ reply' = [reply EXCEPT ![c] = r]
  ELSE Answer(c, "conflict")

\* Up to the call of createPin.  The approval fields of a submission are valid.
create(c, p) ==
  /\ up[p]
  /\ call[c] = "idle"
  /\ caller' = [caller EXCEPT ![c] = p]
  /\ \/ /\ ~assertRestoreSerializationReady
        /\ Answer(c, "unavailable")
     \/ /\ assertRestoreSerializationReady
        /\ \E r \in SameKey(c) : Replay(c, r)
     \/ /\ assertRestoreSerializationReady
        /\ SameKey(c) = {}
        /\ Answer(c, IF Restorable(dto[c].run) THEN "validated" ELSE "rejected")
  /\ UNCHANGED <<catalogVars, indexed, exec, age, error, audit, started, effect>>

\* createPin up to the insert: under the run's lock, re-read the run, the key
\* and the target's active slot.  Answering ends the transaction.
PinChecks(c) ==
  LET b == dto[c].run
  IN  /\ call[c] = "validated"
      /\ LockFree(b)
      /\ \/ /\ ~Restorable(b)
            /\ Answer(c, "rejected")
            /\ UNCHANGED lock
         \/ /\ Restorable(b)
            /\ \E r \in SameKey(c) : Replay(c, r)
            /\ UNCHANGED lock
         \/ /\ Restorable(b)
            /\ SameKey(c) = {}
            /\ ActiveRestoresOn(RestoreTarget(c)) # {}
            /\ Answer(c, "conflict")
            /\ UNCHANGED lock
         \/ /\ Restorable(b)
            /\ SameKey(c) = {}
            /\ ActiveRestoresOn(RestoreTarget(c)) = {}
            /\ Answer(c, "pinning")
            /\ AcquireRunLock(b, caller[c])
      /\ UNCHANGED <<up, crashes, dto, status, verification, path, object, indexed,
                     caller, exec, age, error, audit, started, effect>>

\* The bounded wait for the run's lock ran out.
PinLockTimeout(c) ==
  /\ call[c] = "validated"
  /\ ~LockFree(dto[c].run)
  /\ Answer(c, "unavailable")
  /\ UNCHANGED <<catalogVars, indexed, caller, exec, age, error, audit, started, effect>>

\* MUTANT: only the idempotency index exists.
UniqueViolationKeyOnly(c) == indexed /\ SameKey(c) # {}

\* MUTANT: only the index on the active target exists.
UniqueViolationTargetOnly(c) ==
  indexed /\ ActiveRestoresOn(RestoreTarget(c)) # {}

\* The insert meets a row with the same key, or an active one for the target.
UniqueViolation(c) ==
  indexed /\ (SameKey(c) # {} \/ ActiveRestoresOn(RestoreTarget(c)) # {})

\* The insert and its audit event commit, and create dispatches the execution;
\* or a unique index raises 23505; or anything else fails and rolls both back.
PinInserts(c) ==
  /\ call[c] = "pinning"
  /\ ~UniqueViolation(c)
  /\ status' = [status EXCEPT ![c] = "pending"]
  /\ age' = [age EXCEPT ![c] = "young"]
  /\ audit' = [audit EXCEPT ![c]["created"] = @ + 1]
  /\ call' = [call EXCEPT ![c] = "accepted"]
  /\ reply' = [reply EXCEPT ![c] = c]
  /\ exec' = [exec EXCEPT ![caller[c]][c] = "dispatched"]
  /\ ReleaseRunLock(dto[c].run)
  /\ UNCHANGED <<up, crashes, dto, verification, path, object, indexed, caller,
                 error, started, effect>>

PinRollsBack(c) ==
  /\ call[c] = "pinning"
  /\ Answer(c, IF UniqueViolation(c) THEN "collided" ELSE "rejected")
  /\ ReleaseRunLock(dto[c].run)
  /\ UNCHANGED <<up, crashes, dto, status, verification, path, object, indexed,
                 caller, exec, age, error, audit, started, effect>>

\* MUTANT: a 23505 is always taken for a duplicate submission.
ResolveCollisionReplayOnly(c) ==
  /\ call[c] = "collided"
  /\ \E r \in SameKey(c) : Replay(c, r)
  /\ UNCHANGED <<catalogVars, indexed, caller, exec, age, error, audit, started, effect>>

\* After a 23505 the key is resolved first, and only then is it a conflict.
ResolveCollision(c) ==
  /\ call[c] = "collided"
  /\ \/ \E r \in SameKey(c) : Replay(c, r)
     \/ SameKey(c) = {} /\ Answer(c, "conflict")
  /\ UNCHANGED <<catalogVars, indexed, caller, exec, age, error, audit, started, effect>>

----------------------------------------------------------------------------
(* Executing a request. *)

Stage(p, r, from, to) ==
  /\ exec[p][r] = from
  /\ exec' = [exec EXCEPT ![p][r] = to]

\* runExecution loads the rows and validates them again.  Validation fails for
\* a run without a path and for a target edited into one that cannot be restored.
LoadForExecution(p, r) ==
  /\ \/ Restorable(BackupRunOf(r)) /\ Stage(p, r, "dispatched", "validated")
     \/ Stage(p, r, "dispatched", "failing")
  /\ UNCHANGED <<catalogVars, indexed, call, caller, reply, age, error, audit,
                 started, effect>>

\* MUTANT: UPDATE ... WHERE id = r, whatever the status.
ClaimableAlways(r) == TRUE

\* The condition of the UPDATE: WHERE id = r AND status = 'pending'.
Claimable(r) == status[r] = "pending"

\* claimForExecution: the conditional UPDATE and the run's VERIFYING mark, in
\* one locked transaction; or another execution already took the request.
claimForExecution(p, r) ==
  /\ LockFree(BackupRunOf(r))
  /\ IF Claimable(r)
     THEN /\ Stage(p, r, "validated", "executing")
          /\ status' = [status EXCEPT ![r] = "running"]
          /\ age' = [age EXCEPT ![r] = "young"]
          /\ verification' = [verification EXCEPT ![BackupRunOf(r)] = "verifying"]
          /\ started' = [started EXCEPT ![r] = @ + 1]
     ELSE /\ Stage(p, r, "validated", "none")
          /\ UNCHANGED <<status, age, verification, started>>
  /\ UNCHANGED <<up, crashes, dto, path, object, lock, indexed, call, caller,
                 reply, error, audit, effect>>

\* Any error of that transaction leaves the request pending.
ClaimDeferred(p, r) ==
  /\ Stage(p, r, "validated", "none")
  /\ UNCHANGED <<catalogVars, indexed, call, caller, reply, age, error, audit,
                 started, effect>>

\* pg_restore runs as one transaction on the target: it commits, or it fails
\* and has rolled back; the pair can also fail after the commit.
PgRestoreCommits(p, r) ==
  /\ object[BackupRunOf(r)]
  /\ Stage(p, r, "executing", "committed")
  /\ effect' = [effect EXCEPT ![r] = @ + 1]
  /\ UNCHANGED <<catalogVars, indexed, call, caller, reply, age, error, audit, started>>

RestorePairFails(p, r) ==
  /\ \E s \in {"executing", "committed"} : Stage(p, r, s, "failing")
  /\ UNCHANGED <<catalogVars, indexed, call, caller, reply, age, error, audit,
                 started, effect>>

----------------------------------------------------------------------------
(* Writing the terminal state. *)

\* MUTANT: a terminal state is written without reading the row again.
AlreadyTerminalNever(r) == FALSE

AlreadyTerminal(r) == Terminal(r)

\* MUTANT: the request's status is written to the run's verification_status.
VerificationAfterCopied(r, s) == s

\* MUTANT: the run's row is not saved along with the request.
VerificationAfterUnsaved(r, s) == verification[BackupRunOf(r)]

VerificationAfter(r, s) == IF s = "completed" THEN "verified" ELSE "failed"

\* MUTANT: the audit event is recorded outside the guarded transaction.
persistTerminalStateAuditOutside(r, s, why) ==
  /\ LockFree(BackupRunOf(r))
  /\ audit' = [audit EXCEPT ![r][s] = @ + 1]
  /\ IF AlreadyTerminal(r)
     THEN UNCHANGED <<status, verification, age, error>>
     ELSE /\ status' = [status EXCEPT ![r] = s]
          /\ age' = [age EXCEPT ![r] = "young"]
          /\ verification' =
               [verification EXCEPT ![BackupRunOf(r)] = VerificationAfter(r, s)]
          /\ error' = [error EXCEPT ![r] = why]

\* Request, run and audit event, in one locked transaction, unless the request
\* is already terminal.  The status it was read with before is not compared.
persistTerminalState(r, s, why) ==
  /\ LockFree(BackupRunOf(r))
  /\ IF AlreadyTerminal(r)
     THEN UNCHANGED <<status, verification, age, error, audit>>
     ELSE /\ status' = [status EXCEPT ![r] = s]
          /\ age' = [age EXCEPT ![r] = "young"]
          /\ verification' =
               [verification EXCEPT ![BackupRunOf(r)] = VerificationAfter(r, s)]
          /\ error' = [error EXCEPT ![r] = why]
          /\ audit' = [audit EXCEPT ![r][s] = @ + 1]

\* MUTANT: the exit code of the pair is not looked at.
recordSuccessAnyExit(p, r) ==
  /\ \E s \in {"committed", "failing"} : Stage(p, r, s, "none")
  /\ persistTerminalState(r, "completed", None)
  /\ UNCHANGED <<up, crashes, dto, path, object, lock, indexed, call, caller,
                 reply, started, effect>>

recordSuccess(p, r) ==
  /\ Stage(p, r, "committed", "none")
  /\ persistTerminalState(r, "completed", None)
  /\ UNCHANGED <<up, crashes, dto, path, object, lock, indexed, call, caller,
                 reply, started, effect>>

recordFailure(p, r) ==
  /\ Stage(p, r, "failing", "none")
  /\ persistTerminalState(r, "failed", "execution")
  /\ UNCHANGED <<up, crashes, dto, path, object, lock, indexed, call, caller,
                 reply, started, effect>>

\* A lock timeout or any other error is only logged: the row stays as it is and
\* the request leaves inFlight.
RecordThrows(p, r) ==
  /\ \E s \in {"committed", "failing"} : Stage(p, r, s, "none")
  /\ UNCHANGED <<catalogVars, indexed, call, caller, reply, age, error, audit,
                 started, effect>>

----------------------------------------------------------------------------
RestoreInit ==
  /\ indexed \in BOOLEAN
  /\ call = [c \in Requests |-> "idle"]
  /\ caller = [c \in Requests |-> None]
  /\ reply = [c \in Requests |-> None]
  /\ exec = [p \in Procs |-> [r \in Requests |-> "none"]]
  /\ age = [r \in Requests |-> "young"]
  /\ error = [r \in Requests |-> None]
  /\ audit = [r \in Requests |-> [a \in AuditActions |-> 0]]
  /\ started = [r \in Requests |-> 0]
  /\ effect = [r \in Requests |-> 0]

CallStep(c) ==
  \/ \E p \in Procs : create(c, p)
  \/ PinChecks(c)
  \/ PinLockTimeout(c)
  \/ PinInserts(c)
  \/ PinRollsBack(c)
  \/ ResolveCollision(c)

ExecutionStep(p, r) ==
  \/ LoadForExecution(p, r)
  \/ claimForExecution(p, r)
  \/ ClaimDeferred(p, r)
  \/ PgRestoreCommits(p, r)
  \/ RestorePairFails(p, r)
  \/ recordSuccess(p, r)
  \/ recordFailure(p, r)
  \/ RecordThrows(p, r)

RestoreStep ==
  \/ \E c \in Requests : CallStep(c)
  \/ \E p \in Procs, r \in Requests : ExecutionStep(p, r)

\* What the death of p does to this component: its calls get no answer and its
\* executions, with their inFlight entries, are gone.
RestoreForgets(p) ==
  /\ call' = [c \in Requests |-> IF caller[c] = p /\ call[c] \in CallOpen
                                 THEN "lost" ELSE call[c]]
  /\ exec' = [exec EXCEPT ![p] = [r \in Requests |-> "none"]]
  /\ UNCHANGED <<indexed, caller, reply, age, error, audit, started, effect>>

RestoreTypeOK ==
  /\ indexed \in BOOLEAN
  /\ call \in [Requests -> {"idle", "lost"} \cup CallOpen \cup CallAnswered]
  /\ caller \in [Requests -> Procs \cup {None}]
  /\ reply \in [Requests -> Requests \cup {None}]
  /\ exec \in [Procs -> [Requests -> Stages]]
  /\ age \in [Requests -> Ages]
  /\ error \in [Requests -> Errors \cup {None}]
  /\ audit \in [Requests -> [AuditActions -> Nat]]
  /\ started \in [Requests -> Nat]
  /\ effect \in [Requests -> Nat]
=============================================================================
