----------------------- MODULE RestoreReconciliation -----------------------
(***************************************************************************)
(* RestoreReconciliationService next to RestoreService: every minute a     *)
(* process sweeps the active requests, dispatches again those nothing      *)
(* picked up, and fails those past the abandon or the stale window.        *)
(*                                                                         *)
(* A sweep works on the rows and the clock it read when it started.  The   *)
(* interval does not wait for the previous sweep, so several may overlap   *)
(* in one process; Sweeps bounds how many run at a time.                   *)
(***************************************************************************)
EXTENDS RestoreService

CONSTANTS Sweeps

VARIABLE
  sweep  \* sweep[s]: its process, the items left, and the one being terminated

reconciliationVars == <<catalogVars, restoreVars, sweep>>

\* A row as the sweep read it.
Items == [request : Requests, status : ACTIVE_RESTORE_STATUSES, age : Ages]

Idle == [proc |-> None, todo |-> {}, terminating |-> None]

\* MUTANT: running rows are left to their executions.
TooYoungRunning(i) == i.status = "running" \/ i.age = "young"

\* Rows the age comparisons of the loop always skip are left out.
TooYoung(i) == IF i.status = "running" THEN i.age # "old" ELSE i.age = "young"

Snapshot == {i \in {[request |-> r, status |-> status[r], age |-> age[r]] :
                      r \in {q \in Requests : Active(q)}} : ~TooYoung(i)}

\* Time passes for a row that is still active.
Elapse(r) ==
  /\ Active(r)
  /\ age[r] # "old"
  /\ age' = [age EXCEPT ![r] = IF @ = "young" THEN "due" ELSE "old"]
  /\ UNCHANGED <<catalogVars, indexed, call, caller, reply, exec, error, audit,
                 started, effect, sweep>>

\* reconcile: find the active requests.
StartSweep(s, p) ==
  /\ up[p]
  /\ sweep[s] = Idle
  /\ Snapshot # {}
  /\ sweep' = [sweep EXCEPT ![s] =
                 [proc |-> p, todo |-> Snapshot, terminating |-> None]]
  /\ UNCHANGED <<catalogVars, restoreVars>>

\* A sweep with nothing left to do is over.
Rest(s, todo) ==
  [sweep EXCEPT ![s] =
     IF todo = {} THEN Idle ELSE [@ EXCEPT !.todo = todo, !.terminating = None]]

\* MUTANT: the in-flight set is not consulted.
SweepsInFlight(p, r) == FALSE

\* The first test of the loop, and of terminateStaleRequest.
InFlightHere(p, r) == isInFlight(p, r)

PastWindow(i) == i.age = "old"

NextItem(s, i) == sweep[s].terminating = None /\ i \in sweep[s].todo

SkipItem(s, i) ==
  /\ NextItem(s, i)
  /\ \/ InFlightHere(sweep[s].proc, i.request)
     \/ PastWindow(i) /\ status[i.request] # i.status
  /\ sweep' = Rest(s, sweep[s].todo \ {i})
  /\ UNCHANGED <<catalogVars, restoreVars>>

\* resumeExecution, for a pending request not yet expired.
RedispatchItem(s, i) ==
  /\ NextItem(s, i)
  /\ ~InFlightHere(sweep[s].proc, i.request)
  /\ ~PastWindow(i)
  /\ exec' = [exec EXCEPT ![sweep[s].proc][i.request] = "dispatched"]
  /\ sweep' = Rest(s, sweep[s].todo \ {i})
  /\ UNCHANGED <<catalogVars, indexed, call, caller, reply, age, error, audit,
                 started, effect>>

\* terminateStaleRequest up to recordFailure: not in flight here, and the row
\* read again still has the status of the snapshot.
BeginTermination(s, i) ==
  /\ NextItem(s, i)
  /\ ~InFlightHere(sweep[s].proc, i.request)
  /\ PastWindow(i)
  /\ status[i.request] = i.status
  /\ sweep' = [sweep EXCEPT ![s].terminating = i]
  /\ UNCHANGED <<catalogVars, restoreVars>>

\* Its recordFailure.
Terminate(s) ==
  LET i == sweep[s].terminating
  IN  /\ i # None
      /\ persistTerminalState(i.request, "failed",
           IF i.status = "running" THEN "interrupted" ELSE "abandoned")
      /\ sweep' = Rest(s, sweep[s].todo \ {i})
      /\ UNCHANGED <<up, crashes, dto, path, object, lock, indexed, call, caller,
                     reply, exec, started, effect>>

\* An error of that transaction, a lock timeout included, ends the whole sweep.
TerminationThrows(s) ==
  /\ sweep[s].terminating # None
  /\ sweep' = [sweep EXCEPT ![s] = Idle]
  /\ UNCHANGED <<catalogVars, restoreVars>>

ReconcilerStep ==
  \/ \E r \in Requests : Elapse(r)
  \/ \E s \in Sweeps :
       \/ \E p \in Procs : StartSweep(s, p)
       \/ \E i \in sweep[s].todo :
            SkipItem(s, i) \/ RedispatchItem(s, i) \/ BeginTermination(s, i)
       \/ Terminate(s)
       \/ TerminationThrows(s)

SweepsForget(p) ==
  sweep' = [s \in Sweeps |-> IF sweep[s].proc = p THEN Idle ELSE sweep[s]]

Crash(p) ==
  /\ ProcessDies(p)
  /\ RestoreForgets(p)
  /\ SweepsForget(p)
  /\ UNCHANGED <<dto, status, verification, path, object>>

Restart(p) ==
  /\ ProcessStarts(p)
  /\ UNCHANGED <<crashes, dto, status, verification, path, object, lock,
                 restoreVars, sweep>>

Init == CatalogInit /\ RestoreInit /\ sweep = [s \in Sweeps |-> Idle]

Next ==
  \/ RestoreStep /\ UNCHANGED sweep
  \/ ReconcilerStep
  \/ \E p \in Procs : Crash(p) \/ Restart(p)

Spec == Init /\ [][Next]_reconciliationVars

----------------------------------------------------------------------------
SweepTypeOK ==
  sweep \in [Sweeps -> [proc : Procs \cup {None},
                        todo : SUBSET Items,
                        terminating : Items \cup {None}]]

TypeOK == CatalogTypeOK /\ RestoreTypeOK /\ SweepTypeOK

\* At most one active restore per target, the promise of the partial unique
\* index: whatever calls, executions and sweeps race, and after any crash.
OneActivePerTarget ==
  \A r, q \in Requests :
    Active(r) /\ Active(q) /\ RestoreTarget(r) = RestoreTarget(q) => r = q

\* "A duplicate execution attempt can never run the same restore twice": however
\* often a request is dispatched, it is claimed once and restores once.
ExecutedAtMostOnce ==
  \A r \in Requests : started[r] <= 1 /\ effect[r] <= started[r]

\* A client that got a request as its answer asked for exactly that request, and
\* the row is there: a reused key never answers for another destructive action.
AnswersMatch ==
  \A c \in Requests :
    call[c] \in {"accepted", "replayed"} =>
      /\ reply[c] # None
      /\ status[reply[c]] # "absent"
      /\ [dto[reply[c]] EXCEPT !.key = dto[c].key] = dto[c]

\* Retries of one submission never leave two rows behind, even when they race
\* past both reads of the key.
OneRowPerKey ==
  \A r, q \in Requests :
    /\ status[r] # "absent" /\ status[q] # "absent"
    /\ restoreIdempotencyKey(dto[r]) = restoreIdempotencyKey(dto[q])
    => r = q

\* A row exists with its creation event or not at all, and every terminal state
\* was audited once, by the path that wrote it.
AuditedOnce ==
  \A r \in Requests :
    /\ audit[r]["created"] = IF status[r] = "absent" THEN 0 ELSE 1
    /\ \A s \in TERMINAL_RESTORE_STATUSES :
         audit[r][s] = IF status[r] = s THEN 1 ELSE 0

\* Retention reads VERIFYING as a pin: a run carries the mark exactly while one
\* of its restores is running.
VerifyingIffRunning ==
  \A b \in Runs :
    verification[b] = "verifying"
      <=> \E r \in Requests : BackupRunOf(r) = b /\ status[r] = "running"

\* Success is never claimed without a committed pg_restore, neither by the
\* request nor by the verification of its run, which retention relies on.
SuccessWasCommitted ==
  /\ \A r \in Requests : status[r] = "completed" => effect[r] = 1
  /\ \A b \in Runs : verification[b] = "verified" =>
       \E r \in Requests : BackupRunOf(r) = b /\ status[r] = "completed"

\* "A recovered request and a live execution can never both claim the outcome":
\* a terminal state, its reason and its events are never rewritten.
TerminalIsFinal ==
  [][\A r \in Requests : Terminal(r) =>
       <<status'[r], error'[r], audit'[r]>> = <<status[r], error[r], audit[r]>>
    ]_reconciliationVars

RequestLife ==
  INSTANCE RestoreLife WITH
    life <- status,
    target <- [r \in Requests |-> RestoreTarget(r)],
    begun <- {r \in Requests : started[r] > 0},
    restored <- {r \in Requests : effect[r] > 0}

\* All of this is what clients are promised: calls that race and retry, processes
\* that share the rows, sweeps and crashes only ever move a request along its life.
ImplementsRequestLife == RequestLife!LifeSpec

\* "Recovery never terminates a live restore": while a pg_restore of r runs or
\* waits to be recorded, r is running, so the target's slot stays taken.
RecoverySparesLive ==
  \A p \in Procs, r \in Requests : Live(p, r) => status[r] = "running"

\* No two pg_restores ever run against one target at the same time.
OneLiveRestorePerTarget ==
  \A p, q \in Procs, r, w \in Requests :
    Live(p, r) /\ Live(q, w) /\ RestoreTarget(r) = RestoreTarget(w)
      => p = q /\ r = w

\* "An interrupted restore has already rolled back": a request that recovery
\* failed as interrupted left the target as it was.
InterruptedRolledBack ==
  \A r \in Requests : error[r] = "interrupted" => effect[r] = 0

\* "Restore approval expired before execution started": a request that recovery
\* failed as abandoned was never claimed.
AbandonedNeverStarted ==
  \A r \in Requests : error[r] = "abandoned" => started[r] = 0

----------------------------------------------------------------------------
\* Node runs every enabled callback in the end, processes are restarted, clocks
\* advance and wal-g and pg_restore return.  Writing a terminal state can fail,
\* but not every time.
Fairness ==
  /\ \A c \in Requests : WF_reconciliationVars(CallStep(c) /\ UNCHANGED sweep)
  /\ \A p \in Procs, r \in Requests :
       WF_reconciliationVars(ExecutionStep(p, r) /\ UNCHANGED sweep)
  /\ \A p \in Procs : WF_reconciliationVars(Restart(p))
  /\ \A r \in Requests : WF_reconciliationVars(Elapse(r))
  /\ \A s \in Sweeps :
       /\ WF_reconciliationVars(\E p \in Procs : StartSweep(s, p))
       /\ WF_reconciliationVars(\E i \in sweep[s].todo :
            SkipItem(s, i) \/ RedispatchItem(s, i) \/ BeginTermination(s, i))
       /\ \A r \in Requests : SF_reconciliationVars(
            /\ sweep[s].terminating # None
            /\ sweep[s].terminating.request = r
            /\ Terminate(s))

FairSpec == Spec /\ Fairness

\* "The reconciler resolves every stranded request": no active request holds
\* the target's slot and its backup object forever.
EveryRequestResolved ==
  \A r \in Requests : Active(r) ~> Terminal(r)

\* Every submission is answered, unless the process serving it dies.
EveryCallAnswered ==
  \A c \in Requests :
    call[c] \in CallOpen ~> call[c] \in CallAnswered \cup {"lost"}
=============================================================================
