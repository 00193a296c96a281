---------------------------- MODULE RestoreProofs ----------------------------
(***************************************************************************)
(* Machine-checked facts about RestoreReconciliation, for every set of     *)
(* processes, runs, targets and submissions, and any number of crashes and *)
(* overlapping sweeps.                                                     *)
(***************************************************************************)
EXTENDS RestoreReconciliation, TLAPS

----------------------------------------------------------------------------
(* Type correctness. *)

LEMMA TypeInit == Init => TypeOK
  BY CatalogAssumption
  DEF Init, CatalogInit, RestoreInit, TypeOK, CatalogTypeOK, RestoreTypeOK,
      SweepTypeOK, RestoreStatus, ACTIVE_RESTORE_STATUSES,
      TERMINAL_RESTORE_STATUSES, VerificationStatus, Stages, Ages, Errors,
      AuditActions, Idle

CallStates == {"idle", "lost"} \cup CallOpen \cup CallAnswered

\* Answering a call, with or without a request, is well typed.
LEMMA AnswerTypes ==
  ASSUME TypeOK, NEW c \in Requests, NEW how \in CallStates, Answer(c, how)
  PROVE  /\ call' \in [Requests -> CallStates]
         /\ reply' \in [Requests -> Requests \cup {None}]
  BY DEF TypeOK, RestoreTypeOK, Answer, CallStates

LEMMA ReplayTypes ==
  ASSUME TypeOK, NEW c \in Requests, NEW r \in SameKey(c), Replay(c, r)
  PROVE  /\ call' \in [Requests -> CallStates]
         /\ reply' \in [Requests -> Requests \cup {None}]
<1>1. r \in Requests
  BY DEF SameKey, findByIdempotencyKey
<1>2. CASE assertReplayMatches(r, c)
  BY <1>1, <1>2 DEF TypeOK, RestoreTypeOK, Replay, CallStates, CallAnswered
<1>3. CASE ~assertReplayMatches(r, c)
  <2>1. Answer(c, "conflict") /\ "conflict" \in CallStates
    BY <1>3 DEF Replay, CallStates, CallAnswered
  <2>2. QED  BY <2>1, AnswerTypes
<1>4. QED  BY <1>2, <1>3

\* A stage change of one execution is well typed.
LEMMA ExecTypes ==
  ASSUME TypeOK, NEW p, NEW r, NEW to \in Stages,
         exec' = [exec EXCEPT ![p][r] = to]
  PROVE  exec' \in [Procs -> [Requests -> Stages]]
<1>1. exec \in [Procs -> [Requests -> Stages]]
  BY DEF TypeOK, RestoreTypeOK
<1>2. ASSUME NEW q \in Procs  PROVE exec'[q] \in [Requests -> Stages]
  BY <1>1, <1>2
<1>3. QED  BY <1>1, <1>2

\* So is recording an audit event.
LEMMA AuditTypes ==
  ASSUME TypeOK, NEW r \in Requests, NEW a \in AuditActions,
         audit' = [audit EXCEPT ![r][a] = @ + 1]
  PROVE  audit' \in [Requests -> [AuditActions -> Nat]]
<1>1. audit \in [Requests -> [AuditActions -> Nat]]
  BY DEF TypeOK, RestoreTypeOK
<1>2. audit[r][a] + 1 \in Nat
  BY <1>1
<1>3. [audit[r] EXCEPT ![a] = audit[r][a] + 1] \in [AuditActions -> Nat]
  BY <1>1, <1>2
<1>4. audit' = [audit EXCEPT ![r] = [audit[r] EXCEPT ![a] = audit[r][a] + 1]]
  BY <1>1
<1>5. QED  BY <1>1, <1>3, <1>4

LEMMA TypeCall ==
  ASSUME TypeOK, NEW c \in Requests, CallStep(c), UNCHANGED sweep
  PROVE  TypeOK'
<1> USE DEF TypeOK, CatalogTypeOK, RestoreTypeOK, SweepTypeOK
<1>1. CASE \E p \in Procs : create(c, p)
  <2> PICK p \in Procs : create(c, p)  BY <1>1
  <2>1. /\ call' \in [Requests -> CallStates]
        /\ reply' \in [Requests -> Requests \cup {None}]
    <3>1. CASE \E r \in SameKey(c) : Replay(c, r)
      BY <3>1, ReplayTypes
    <3>2. CASE \E how \in CallStates : Answer(c, how)
      BY <3>2, AnswerTypes
    <3>3. {"unavailable", "validated", "rejected"} \subseteq CallStates
      BY DEF CallStates, CallOpen, CallAnswered
    <3>4. QED  BY <3>1, <3>2, <3>3 DEF create
  <2>2. QED  BY <2>1 DEF create, catalogVars, CallStates
<1>2. CASE PinChecks(c)
  <2>1. /\ call' \in [Requests -> CallStates]
        /\ reply' \in [Requests -> Requests \cup {None}]
    <3>1. CASE \E r \in SameKey(c) : Replay(c, r)
      BY <3>1, ReplayTypes
    <3>2. CASE \E how \in CallStates : Answer(c, how)
      BY <3>2, AnswerTypes
    <3>3. {"pinning", "conflict", "rejected"} \subseteq CallStates
      BY DEF CallStates, CallOpen, CallAnswered
    <3>4. QED  BY <1>2, <3>1, <3>2, <3>3 DEF PinChecks
  <2>2. lock' \in [Runs -> Procs \cup {None}]
    BY <1>2 DEF PinChecks, AcquireRunLock
  <2>3. QED  BY <1>2, <2>1, <2>2 DEF PinChecks, CallStates
<1>3. CASE PinLockTimeout(c)
  BY <1>3 DEF PinLockTimeout, Answer, catalogVars, CallAnswered
<1>4. CASE PinInserts(c)
  <2>1. exec' \in [Procs -> [Requests -> Stages]]
    BY <1>4, ExecTypes DEF PinInserts, Stages
  <2>2. audit' \in [Requests -> [AuditActions -> Nat]]
    BY <1>4, AuditTypes DEF PinInserts, AuditActions
  <2>3. QED
    BY <1>4, <2>1, <2>2 DEF PinInserts, ReleaseRunLock, RestoreStatus,
       ACTIVE_RESTORE_STATUSES, Ages, CallAnswered
<1>5. CASE PinRollsBack(c)
  BY <1>5 DEF PinRollsBack, Answer, ReleaseRunLock, CallOpen, CallAnswered
<1>6. CASE ResolveCollision(c)
  <2>1. /\ call' \in [Requests -> CallStates]
        /\ reply' \in [Requests -> Requests \cup {None}]
    <3>1. CASE \E r \in SameKey(c) : Replay(c, r)
      BY <3>1, ReplayTypes
    <3>2. CASE Answer(c, "conflict")
      BY <3>2, AnswerTypes DEF CallStates, CallAnswered
    <3>3. QED  BY <1>6, <3>1, <3>2 DEF ResolveCollision
  <2>2. QED  BY <1>6, <2>1 DEF ResolveCollision, catalogVars, CallStates
<1>7. QED
  BY <1>1, <1>2, <1>3, <1>4, <1>5, <1>6 DEF CallStep

\* The rows and events persistTerminalState leaves behind.
LEMMA PersistTypes ==
  ASSUME TypeOK, NEW r \in Requests, NEW s \in TERMINAL_RESTORE_STATUSES,
         NEW why \in Errors \cup {None}, persistTerminalState(r, s, why)
  PROVE  /\ status' \in [Requests -> RestoreStatus \cup {"absent"}]
         /\ verification' \in [Runs -> VerificationStatus]
         /\ age' \in [Requests -> Ages]
         /\ error' \in [Requests -> Errors \cup {None}]
         /\ audit' \in [Requests -> [AuditActions -> Nat]]
<1> USE DEF TypeOK, CatalogTypeOK, RestoreTypeOK, persistTerminalState
<1>1. CASE AlreadyTerminal(r)
  BY <1>1
<1>2. CASE ~AlreadyTerminal(r)
  <2>1. audit' \in [Requests -> [AuditActions -> Nat]]
    BY <1>2, AuditTypes DEF AuditActions, TERMINAL_RESTORE_STATUSES
  <2>2. VerificationAfter(r, s) \in VerificationStatus
    BY DEF VerificationAfter, VerificationStatus
  <2>3. s \in RestoreStatus /\ "young" \in Ages
    BY DEF RestoreStatus, Ages
  <2>4. QED  BY <1>2, <2>1, <2>2, <2>3
<1>3. QED  BY <1>1, <1>2

LEMMA TypeExecution ==
  ASSUME TypeOK, NEW p \in Procs, NEW r \in Requests, ExecutionStep(p, r),
         UNCHANGED sweep
  PROVE  TypeOK'
<1> USE DEF TypeOK, CatalogTypeOK, RestoreTypeOK, SweepTypeOK
<1> DEFINE ExecOK == exec' \in [Procs -> [Requests -> Stages]]
<1>0. Stages = {"none", "dispatched", "validated", "executing", "committed", "failing"}
  BY DEF Stages
<1>1. CASE LoadForExecution(p, r)
  <2>1. ExecOK  BY <1>0, <1>1, ExecTypes DEF LoadForExecution, Stage
  <2>2. QED  BY <1>1, <2>1 DEF LoadForExecution, catalogVars
<1>2. CASE claimForExecution(p, r)
  <2>1. ExecOK  BY <1>0, <1>2, ExecTypes DEF claimForExecution, Stage
  <2>2. CASE Claimable(r)
    <3>1. /\ status' \in [Requests -> RestoreStatus \cup {"absent"}]
          /\ age' \in [Requests -> Ages]
          /\ verification' \in [Runs -> VerificationStatus]
      BY <1>2, <2>2 DEF claimForExecution, RestoreStatus, ACTIVE_RESTORE_STATUSES,
         VerificationStatus, Ages
    <3>2. started' \in [Requests -> Nat]
      BY <1>2, <2>2 DEF claimForExecution
    <3>3. QED  BY <1>2, <2>1, <3>1, <3>2 DEF claimForExecution
  <2>3. CASE ~Claimable(r)
    BY <1>2, <2>1, <2>3 DEF claimForExecution
  <2>4. QED  BY <2>2, <2>3
<1>3. CASE ClaimDeferred(p, r)
  <2>1. ExecOK  BY <1>0, <1>3, ExecTypes DEF ClaimDeferred, Stage
  <2>2. QED  BY <1>3, <2>1 DEF ClaimDeferred, catalogVars
<1>4. CASE PgRestoreCommits(p, r)
  <2>1. ExecOK  BY <1>0, <1>4, ExecTypes DEF PgRestoreCommits, Stage
  <2>2. QED  BY <1>4, <2>1 DEF PgRestoreCommits, catalogVars
<1>5. CASE RestorePairFails(p, r)
  <2>1. ExecOK  BY <1>0, <1>5, ExecTypes DEF RestorePairFails, Stage
  <2>2. QED  BY <1>5, <2>1 DEF RestorePairFails, catalogVars
<1>6. CASE recordSuccess(p, r)
  <2>1. ExecOK  BY <1>0, <1>6, ExecTypes DEF recordSuccess, Stage
  <2>2. "completed" \in TERMINAL_RESTORE_STATUSES
    BY DEF TERMINAL_RESTORE_STATUSES
  <2>3. QED  BY <1>6, <2>1, <2>2, PersistTypes DEF recordSuccess
<1>7. CASE recordFailure(p, r)
  <2>1. ExecOK  BY <1>0, <1>7, ExecTypes DEF recordFailure, Stage
  <2>2. "failed" \in TERMINAL_RESTORE_STATUSES /\ "execution" \in Errors
    BY DEF TERMINAL_RESTORE_STATUSES, Errors
  <2>3. QED  BY <1>7, <2>1, <2>2, PersistTypes DEF recordFailure
<1>8. CASE RecordThrows(p, r)
  <2>1. ExecOK  BY <1>0, <1>8, ExecTypes DEF RecordThrows, Stage
  <2>2. QED  BY <1>8, <2>1 DEF RecordThrows, catalogVars
<1>9. QED
  BY <1>1, <1>2, <1>3, <1>4, <1>5, <1>6, <1>7, <1>8 DEF ExecutionStep

\* The values the steps of a sweep give to it.
SweepStates == [proc : Procs \cup {None}, todo : SUBSET Items,
                terminating : Items \cup {None}]

LEMMA IdleIsState == Idle \in SweepStates
  BY DEF Idle, SweepStates

LEMMA SnapshotItems ==
  ASSUME TypeOK
  PROVE  Snapshot \subseteq Items
  BY DEF TypeOK, CatalogTypeOK, RestoreTypeOK, Snapshot, Items, Active

LEMMA RestTypes ==
  ASSUME TypeOK, NEW s \in Sweeps, NEW todo \in SUBSET Items,
         sweep' = Rest(s, todo)
  PROVE  sweep' \in [Sweeps -> SweepStates]
<1>1. sweep \in [Sweeps -> SweepStates]
  BY DEF TypeOK, SweepTypeOK, SweepStates
<1>2. [sweep[s] EXCEPT !.todo = todo, !.terminating = None] \in SweepStates
  BY <1>1 DEF SweepStates
<1>3. QED  BY <1>1, <1>2, IdleIsState DEF Rest

LEMMA TypeSweep ==
  ASSUME TypeOK, NEW s \in Sweeps,
         \/ \E p \in Procs : StartSweep(s, p)
         \/ \E i \in sweep[s].todo :
              SkipItem(s, i) \/ RedispatchItem(s, i) \/ BeginTermination(s, i)
         \/ Terminate(s)
         \/ TerminationThrows(s)
  PROVE  TypeOK'
<1>1. sweep \in [Sweeps -> SweepStates] /\ sweep[s].todo \subseteq Items
  BY DEF TypeOK, SweepTypeOK, SweepStates
<1>2. ASSUME sweep' \in [Sweeps -> SweepStates], UNCHANGED <<catalogVars, restoreVars>>
      PROVE  TypeOK'
  BY <1>2 DEF TypeOK, CatalogTypeOK, RestoreTypeOK, SweepTypeOK, SweepStates,
     catalogVars, restoreVars
<1>3. CASE \E p \in Procs : StartSweep(s, p)
  <2> PICK p \in Procs : StartSweep(s, p)  BY <1>3
  <2>1. [proc |-> p, todo |-> Snapshot, terminating |-> None] \in SweepStates
    BY SnapshotItems DEF SweepStates
  <2>2. sweep' \in [Sweeps -> SweepStates]
    BY <1>1, <2>1 DEF StartSweep
  <2>3. QED  BY <1>2, <2>2 DEF StartSweep
<1>4. CASE \E i \in sweep[s].todo : SkipItem(s, i)
  <2> PICK i \in sweep[s].todo : SkipItem(s, i)  BY <1>4
  <2>1. sweep' \in [Sweeps -> SweepStates]
    BY <1>1, RestTypes DEF SkipItem
  <2>2. QED  BY <1>2, <2>1 DEF SkipItem
<1>5. CASE \E i \in sweep[s].todo : RedispatchItem(s, i)
  <2> PICK i \in sweep[s].todo : RedispatchItem(s, i)  BY <1>5
  <2>1. sweep' \in [Sweeps -> SweepStates]
    BY <1>1, RestTypes DEF RedispatchItem
  <2>2. exec' \in [Procs -> [Requests -> Stages]]
    BY ExecTypes DEF RedispatchItem, Stages
  <2>3. QED
    BY <2>1, <2>2 DEF RedispatchItem, TypeOK, CatalogTypeOK, RestoreTypeOK,
       SweepTypeOK, SweepStates, catalogVars
<1>6. CASE \E i \in sweep[s].todo : BeginTermination(s, i)
  <2> PICK i \in sweep[s].todo : BeginTermination(s, i)  BY <1>6
  <2>1. [sweep[s] EXCEPT !.terminating = i] \in SweepStates
    BY <1>1 DEF SweepStates
  <2>2. sweep' = [sweep EXCEPT ![s] = [sweep[s] EXCEPT !.terminating = i]]
    BY <1>1 DEF BeginTermination
  <2>3. sweep' \in [Sweeps -> SweepStates]
    BY <1>1, <2>1, <2>2
  <2>4. QED  BY <1>2, <2>3 DEF BeginTermination
<1>7. CASE Terminate(s)
  <2> DEFINE i == sweep[s].terminating
  <2>1. sweep' \in [Sweeps -> SweepStates]
    BY <1>1, <1>7, RestTypes DEF Terminate
  <2>2. i.request \in Requests
    BY <1>1, <1>7 DEF Terminate, SweepStates, Items
  <2>3. /\ "failed" \in TERMINAL_RESTORE_STATUSES
        /\ {"interrupted", "abandoned"} \subseteq Errors
    BY DEF TERMINAL_RESTORE_STATUSES, Errors
  <2>4. /\ status' \in [Requests -> RestoreStatus \cup {"absent"}]
        /\ verification' \in [Runs -> VerificationStatus]
        /\ age' \in [Requests -> Ages]
        /\ error' \in [Requests -> Errors \cup {None}]
        /\ audit' \in [Requests -> [AuditActions -> Nat]]
    BY <1>7, <2>2, <2>3, PersistTypes DEF Terminate
  <2>5. QED
    BY <1>7, <2>1, <2>4 DEF Terminate, TypeOK, CatalogTypeOK, RestoreTypeOK,
       SweepTypeOK, SweepStates
<1>8. CASE TerminationThrows(s)
  <2>1. sweep' \in [Sweeps -> SweepStates]
    BY <1>1, <1>8, IdleIsState DEF TerminationThrows
  <2>2. QED  BY <1>2, <1>8, <2>1 DEF TerminationThrows
<1>9. QED  BY <1>3, <1>4, <1>5, <1>6, <1>7, <1>8

LEMMA TypeElapse ==
  ASSUME TypeOK, NEW r \in Requests, Elapse(r)
  PROVE  TypeOK'
  BY DEF Elapse, TypeOK, CatalogTypeOK, RestoreTypeOK, SweepTypeOK, Ages, catalogVars

LEMMA TypeCrash ==
  ASSUME TypeOK, NEW p \in Procs, Crash(p)
  PROVE  TypeOK'
<1>1. crashes' \in 0..MaxCrashes
  BY CatalogAssumption DEF Crash, ProcessDies, TypeOK, CatalogTypeOK
<1>2. CatalogTypeOK'
  BY <1>1 DEF Crash, ProcessDies, TypeOK, CatalogTypeOK
<1>3. RestoreTypeOK'
  BY DEF Crash, RestoreForgets, TypeOK, RestoreTypeOK, Stages
<1>4. SweepTypeOK'
  BY IdleIsState DEF Crash, SweepsForget, TypeOK, SweepTypeOK, SweepStates
<1>5. QED  BY <1>2, <1>3, <1>4 DEF TypeOK

LEMMA TypeRestart ==
  ASSUME TypeOK, NEW p \in Procs, Restart(p)
  PROVE  TypeOK'
  BY DEF Restart, ProcessStarts, TypeOK, CatalogTypeOK, RestoreTypeOK,
     SweepTypeOK, restoreVars

LEMMA TypeStep ==
  ASSUME TypeOK, [Next]_reconciliationVars
  PROVE  TypeOK'
<1>1. CASE RestoreStep /\ UNCHANGED sweep
  BY <1>1, TypeCall, TypeExecution DEF RestoreStep
<1>2. CASE ReconcilerStep
  BY <1>2, TypeElapse, TypeSweep DEF ReconcilerStep
<1>3. CASE \E p \in Procs : Crash(p) \/ Restart(p)
  BY <1>3, TypeCrash, TypeRestart
<1>4. CASE UNCHANGED reconciliationVars
  BY <1>4 DEF reconciliationVars, catalogVars, restoreVars, TypeOK, CatalogTypeOK,
     RestoreTypeOK, SweepTypeOK
<1>5. QED  BY <1>1, <1>2, <1>3, <1>4 DEF Next

\* Every variable keeps its type.
THEOREM TypeCorrect == Spec => []TypeOK
<1>1. TypeOK /\ [Next]_reconciliationVars => TypeOK'
  BY TypeStep
<1>2. QED  BY TypeInit, <1>1, PTL DEF Spec

----------------------------------------------------------------------------
(***************************************************************************)
(* A row exists exactly when the call that inserts it was accepted; calls  *)
(* pass the gate only over the unique indexes; and executions and sweeps   *)
(* only ever work on rows that exist.                                      *)
(***************************************************************************)
Stored(r) == status[r] # "absent"

RowInv ==
  /\ \A c \in Requests : Stored(c) <=> call[c] = "accepted"
  /\ \A c \in Requests : call[c] \in CallOpen \cup {"accepted"} => indexed
  /\ \A p \in Procs, r \in Requests : exec[p][r] # "none" => Stored(r)
  /\ \A s \in Sweeps : \A i \in sweep[s].todo : Stored(i.request)
  /\ \A s \in Sweeps : sweep[s].terminating # None => Stored(sweep[s].terminating.request)

LEMMA RowInit == Init => RowInv
  BY DEF Init, CatalogInit, RestoreInit, RowInv, Stored, Idle, CallOpen

LEMMA RowCall ==
  ASSUME TypeOK, RowInv, NEW c \in Requests, CallStep(c), UNCHANGED sweep
  PROVE  RowInv'
<1> USE DEF RowInv, Stored, CallOpen
<1>0. /\ call \in [Requests -> CallStates]
      /\ status \in [Requests -> RestoreStatus \cup {"absent"}]
      /\ exec \in [Procs -> [Requests -> Stages]]
      /\ sweep \in [Sweeps -> SweepStates]
  BY DEF TypeOK, CatalogTypeOK, RestoreTypeOK, SweepTypeOK, CallStates, SweepStates
<1>1. CASE PinInserts(c)
  <2>1. status' = [status EXCEPT ![c] = "pending"] /\ call' = [call EXCEPT ![c] = "accepted"]
    BY <1>1 DEF PinInserts
  <2>2. call[c] = "pinning" /\ UNCHANGED indexed
    BY <1>1 DEF PinInserts
  <2>3. \A r \in Requests : Stored(r) => Stored(r)'
    BY <1>0, <2>1
  <2>4. ASSUME NEW p \in Procs, NEW r \in Requests, exec'[p][r] # "none"
        PROVE  Stored(r)'
    BY <1>0, <1>1, <2>1, <2>3, <2>4 DEF PinInserts
  <2>5. \A s \in Sweeps : \A i \in sweep'[s].todo : Stored(i.request)'
    BY <1>0, <2>3 DEF SweepStates, Items
  <2>6. \A s \in Sweeps : sweep'[s].terminating # None =>
          Stored(sweep[s].terminating.request)'
    BY <1>0, <2>3 DEF SweepStates, Items
  <2>7. QED  BY <1>0, <2>1, <2>2, <2>4, <2>5, <2>6
<1>2. ASSUME NEW how \in CallStates \ {"accepted"}, call[c] # "accepted",
             call' = [call EXCEPT ![c] = how], how \in CallOpen => indexed,
             UNCHANGED <<status, exec, indexed>>
      PROVE  RowInv'
  BY <1>0, <1>2
<1>3. CASE \E p \in Procs : create(c, p)
  BY <1>2, <1>3 DEF create, Answer, Replay, assertRestoreSerializationReady,
     CallStates, CallAnswered, catalogVars
<1>4. CASE PinChecks(c)
  BY <1>2, <1>4 DEF PinChecks, Answer, Replay, CallStates, CallAnswered
<1>5. CASE PinLockTimeout(c) \/ PinRollsBack(c) \/ ResolveCollision(c)
  BY <1>2, <1>5 DEF PinLockTimeout, PinRollsBack, ResolveCollision, Answer, Replay,
     CallStates, CallAnswered, catalogVars
<1>6. QED  BY <1>1, <1>3, <1>4, <1>5 DEF CallStep

\* Steps that keep calls and rows, and start no execution.
LEMMA RowFrame ==
  ASSUME TypeOK, RowInv, UNCHANGED <<call, indexed>>,
         \A r \in Requests : Stored(r)' <=> Stored(r),
         \A p \in Procs, r \in Requests : exec'[p][r] # "none" => Stored(r),
         \A s \in Sweeps : sweep'[s].todo \subseteq Items
                       /\ sweep'[s].terminating \in Items \cup {None},
         \A s \in Sweeps : \A i \in sweep'[s].todo : Stored(i.request),
         \A s \in Sweeps : sweep'[s].terminating # None =>
                         Stored(sweep'[s].terminating.request)
  PROVE  RowInv'
  BY DEF RowInv, Items

LEMMA RowExecution ==
  ASSUME TypeOK, TypeOK', RowInv, NEW p \in Procs, NEW r \in Requests,
         ExecutionStep(p, r), UNCHANGED sweep
  PROVE  RowInv'
<1>0. /\ status \in [Requests -> RestoreStatus \cup {"absent"}]
      /\ exec \in [Procs -> [Requests -> Stages]]
      /\ sweep \in [Sweeps -> SweepStates]
  BY DEF TypeOK, CatalogTypeOK, RestoreTypeOK, SweepTypeOK, SweepStates
<1>1. Stored(r) /\ \E to : exec' = [exec EXCEPT ![p][r] = to]
  BY DEF ExecutionStep, LoadForExecution, claimForExecution, ClaimDeferred,
     PgRestoreCommits, RestorePairFails, recordSuccess, recordFailure, RecordThrows,
     Stage, RowInv
<1>2. ASSUME NEW q \in Procs, NEW w \in Requests, exec'[q][w] # "none"
      PROVE  Stored(w)
  BY <1>0, <1>1, <1>2 DEF RowInv
<1>3. \/ UNCHANGED status
      \/ \E s \in RestoreStatus : status' = [status EXCEPT ![r] = s]
  BY DEF ExecutionStep, LoadForExecution, claimForExecution, ClaimDeferred,
     PgRestoreCommits, RestorePairFails, recordSuccess, recordFailure, RecordThrows,
     persistTerminalState, catalogVars, RestoreStatus, ACTIVE_RESTORE_STATUSES,
     TERMINAL_RESTORE_STATUSES
<1>4. \A w \in Requests : Stored(w)' <=> Stored(w)
  BY <1>0, <1>1, <1>3 DEF Stored, RestoreStatus, ACTIVE_RESTORE_STATUSES,
     TERMINAL_RESTORE_STATUSES
<1>5. UNCHANGED <<call, indexed>>
  BY DEF ExecutionStep, LoadForExecution, claimForExecution, ClaimDeferred,
     PgRestoreCommits, RestorePairFails, recordSuccess, recordFailure, RecordThrows
<1>6. QED  BY <1>0, <1>2, <1>4, <1>5, RowFrame DEF RowInv, SweepStates

LEMMA RestRows ==
  ASSUME TypeOK, RowInv, NEW s \in Sweeps, NEW todo \in SUBSET sweep[s].todo,
         sweep' = Rest(s, todo), NEW z \in Sweeps
  PROVE  /\ sweep'[z].todo \subseteq sweep[z].todo
         /\ sweep'[z].terminating \in {sweep[z].terminating, None}
<1>1. sweep \in [Sweeps -> SweepStates]
  BY DEF TypeOK, SweepTypeOK, SweepStates
<1>2. sweep'[z] = IF z = s THEN IF todo = {} THEN Idle
                               ELSE [sweep[s] EXCEPT !.todo = todo, !.terminating = None]
                  ELSE sweep[z]
  BY <1>1 DEF Rest
<1>3. QED  BY <1>1, <1>2 DEF Idle, SweepStates

LEMMA RowSweep ==
  ASSUME TypeOK, TypeOK', RowInv, ReconcilerStep
  PROVE  RowInv'
<1>0. /\ status \in [Requests -> RestoreStatus \cup {"absent"}]
      /\ exec \in [Procs -> [Requests -> Stages]]
      /\ sweep \in [Sweeps -> SweepStates]
      /\ sweep' \in [Sweeps -> SweepStates]
  BY DEF TypeOK, CatalogTypeOK, RestoreTypeOK, SweepTypeOK, SweepStates
<1>1. UNCHANGED <<call, indexed>>
  BY DEF ReconcilerStep, Elapse, StartSweep, SkipItem, RedispatchItem,
     BeginTermination, Terminate, TerminationThrows, restoreVars
<1>2. ASSUME \A r \in Requests : Stored(r)' <=> Stored(r),
             \A p \in Procs, r \in Requests : exec'[p][r] # "none" => Stored(r),
             \A s \in Sweeps : \A i \in sweep'[s].todo : Stored(i.request),
             \A s \in Sweeps : sweep'[s].terminating # None =>
                             Stored(sweep'[s].terminating.request)
      PROVE  RowInv'
  BY <1>0, <1>1, <1>2, RowFrame DEF SweepStates
<1>3. ASSUME \A s \in Sweeps : /\ sweep'[s].todo \subseteq sweep[s].todo
                             /\ sweep'[s].terminating \in {sweep[s].terminating, None}
      PROVE  /\ \A s \in Sweeps : \A i \in sweep'[s].todo : Stored(i.request)
             /\ \A s \in Sweeps : sweep'[s].terminating # None =>
                             Stored(sweep'[s].terminating.request)
  BY <1>3 DEF RowInv
<1>4. CASE \E r \in Requests : Elapse(r)
  BY <1>2, <1>4 DEF Elapse, catalogVars, RowInv, Stored
<1>5. CASE \E s \in Sweeps, p \in Procs : StartSweep(s, p)
  <2> PICK s \in Sweeps, p \in Procs : StartSweep(s, p)  BY <1>5
  <2>1. \A i \in Snapshot : Stored(i.request)
    BY DEF Snapshot, Active, Stored, ACTIVE_RESTORE_STATUSES
  <2>2. sweep' = [sweep EXCEPT ![s] = [proc |-> p, todo |-> Snapshot, terminating |-> None]]
    BY DEF StartSweep
  <2>3. QED  BY <1>0, <1>2, <2>1, <2>2 DEF StartSweep, catalogVars, restoreVars, RowInv, Stored
<1>6. CASE \E s \in Sweeps : \E i \in sweep[s].todo : SkipItem(s, i)
  <2> PICK s \in Sweeps : \E i \in sweep[s].todo : SkipItem(s, i)  BY <1>6
  <2>1. UNCHANGED <<status, exec>> /\ \E i \in sweep[s].todo : sweep' = Rest(s, sweep[s].todo \ {i})
    BY DEF SkipItem, catalogVars, restoreVars
  <2>2. QED  BY <1>2, <1>3, <2>1, RestRows DEF RowInv, Stored
<1>7. CASE \E s \in Sweeps : \E i \in sweep[s].todo : RedispatchItem(s, i)
  <2> PICK s \in Sweeps : \E i \in sweep[s].todo : RedispatchItem(s, i)  BY <1>7
  <2> PICK i \in sweep[s].todo : RedispatchItem(s, i)  OBVIOUS
  <2>1. UNCHANGED status /\ sweep' = Rest(s, sweep[s].todo \ {i})
    BY DEF RedispatchItem, catalogVars
  <2>2. exec' = [exec EXCEPT ![sweep[s].proc][i.request] = "dispatched"]
    BY DEF RedispatchItem
  <2>3. Stored(i.request)
    BY DEF RowInv
  <2>4. \A q \in Procs, w \in Requests : exec'[q][w] # "none" => Stored(w)
    BY <1>0, <2>2, <2>3 DEF RowInv
  <2>5. QED  BY <1>2, <1>3, <2>1, <2>4, RestRows DEF Stored
<1>8. CASE \E s \in Sweeps : \E i \in sweep[s].todo : BeginTermination(s, i)
  <2> PICK s \in Sweeps : \E i \in sweep[s].todo : BeginTermination(s, i)  BY <1>8
  <2> PICK i \in sweep[s].todo : BeginTermination(s, i)  OBVIOUS
  <2>1. UNCHANGED <<status, exec>>
    BY DEF BeginTermination, catalogVars, restoreVars
  <2>2. sweep' = [sweep EXCEPT ![s].terminating = i]
    BY DEF BeginTermination
  <2>3. ASSUME NEW z \in Sweeps
        PROVE  /\ sweep'[z].todo = sweep[z].todo
               /\ sweep'[z].terminating \in {sweep[z].terminating, i}
    BY <1>0, <2>2 DEF SweepStates
  <2>4. Stored(i.request)
    BY DEF RowInv
  <2>5. QED  BY <1>2, <2>1, <2>3, <2>4 DEF RowInv, Stored
<1>9. CASE \E s \in Sweeps : Terminate(s)
  <2> PICK s \in Sweeps : Terminate(s)  BY <1>9
  <2> DEFINE i == sweep[s].terminating
  <2>1. UNCHANGED exec /\ sweep' = Rest(s, sweep[s].todo \ {i})
    BY DEF Terminate
  <2>2. Stored(i.request)
    BY DEF RowInv, Terminate
  <2>3. UNCHANGED status \/ status' = [status EXCEPT ![i.request] = "failed"]
    BY DEF Terminate, persistTerminalState
  <2>4. \A r \in Requests : Stored(r)' <=> Stored(r)
    BY <1>0, <2>2, <2>3 DEF Stored
  <2>5. QED  BY <1>2, <1>3, <2>1, <2>4, RestRows DEF RowInv
<1>10. CASE \E s \in Sweeps : TerminationThrows(s)
  <2> PICK s \in Sweeps : TerminationThrows(s)  BY <1>10
  <2>1. UNCHANGED <<status, exec>> /\ sweep' = [sweep EXCEPT ![s] = Idle]
    BY DEF TerminationThrows, catalogVars, restoreVars
  <2>2. QED  BY <1>0, <1>2, <1>3, <2>1 DEF Idle, RowInv, Stored
<1>11. QED
  BY <1>4, <1>5, <1>6, <1>7, <1>8, <1>9, <1>10 DEF ReconcilerStep

LEMMA RowCrash ==
  ASSUME TypeOK, TypeOK', RowInv, NEW p \in Procs, Crash(p)
  PROVE  RowInv'
<1>0. /\ call \in [Requests -> CallStates]
      /\ exec \in [Procs -> [Requests -> Stages]]
  BY DEF TypeOK, RestoreTypeOK, CallStates
<1>1. UNCHANGED <<status, indexed>>
  BY DEF Crash, RestoreForgets
<1>2. ASSUME NEW c \in Requests
      PROVE  \/ call'[c] = call[c]
             \/ call[c] \in CallOpen /\ call'[c] = "lost"
  BY DEF Crash, RestoreForgets
<1>3. \A q \in Procs, r \in Requests : exec'[q][r] # "none" => exec'[q][r] = exec[q][r]
  BY <1>0 DEF Crash, RestoreForgets
<1>4. \A s \in Sweeps : sweep'[s] \in {Idle, sweep[s]}
  BY DEF Crash, SweepsForget
<1>5. QED  BY <1>1, <1>2, <1>3, <1>4 DEF RowInv, Stored, CallOpen, Idle

LEMMA RowStep ==
  ASSUME TypeOK, TypeOK', RowInv, [Next]_reconciliationVars
  PROVE  RowInv'
<1>1. CASE RestoreStep /\ UNCHANGED sweep
  BY <1>1, RowCall, RowExecution DEF RestoreStep
<1>2. CASE ReconcilerStep
  BY <1>2, RowSweep
<1>3. CASE \E p \in Procs : Crash(p)
  BY <1>3, RowCrash
<1>4. CASE \E p \in Procs : Restart(p)
  BY <1>4 DEF Restart, restoreVars, RowInv, Stored
<1>5. CASE UNCHANGED reconciliationVars
  BY <1>5 DEF reconciliationVars, catalogVars, restoreVars, RowInv, Stored
<1>6. QED  BY <1>1, <1>2, <1>3, <1>4, <1>5 DEF Next

\* Rows, calls, executions and sweeps agree on which rows exist.
THEOREM RowInvariant == Spec => []RowInv
<1>1. TypeOK /\ TypeOK' /\ RowInv /\ [Next]_reconciliationVars => RowInv'
  BY RowStep
<1>2. QED  BY RowInit, TypeCorrect, <1>1, PTL DEF Spec

----------------------------------------------------------------------------
(***************************************************************************)
(* What a step can do to the rows.  Most steps are quiet: they move calls, *)
(* sweeps and executions along.  The others insert a row, claim it, commit *)
(* its pg_restore, or settle it.                                           *)
(***************************************************************************)
NotLive == {"none", "dispatched", "validated", "failing"}

\* Executions only move, if at all, to stages without a pg_restore.
ExecQuiet ==
  \A p \in Procs, r \in Requests :
    exec'[p][r] = exec[p][r] \/ exec'[p][r] \in NotLive

Quiet ==
  /\ UNCHANGED <<status, verification, error, audit, started, effect>>
  /\ ExecQuiet

\* Row r becomes terminal, completed only after a recorded commit.
Settles(r, s, why) ==
  /\ Active(r)
  /\ status' = [status EXCEPT ![r] = s]
  /\ verification' = [verification EXCEPT ![BackupRunOf(r)] = VerificationAfter(r, s)]
  /\ error' = [error EXCEPT ![r] = why]
  /\ audit' = [audit EXCEPT ![r][s] = @ + 1]
  /\ s = "completed" => \E p \in Procs : exec[p][r] = "committed"
  /\ UNCHANGED <<started, effect>>
  /\ ExecQuiet

SomeSettles ==
  \E r \in Requests, s \in TERMINAL_RESTORE_STATUSES, why \in Errors \cup {None} :
    Settles(r, s, why)

Claims(p, r) == Claimable(r) /\ claimForExecution(p, r)

StepKind ==
  \/ Quiet
  \/ \E c \in Requests : PinInserts(c)
  \/ \E p \in Procs, r \in Requests : Claims(p, r)
  \/ \E p \in Procs, r \in Requests : PgRestoreCommits(p, r)
  \/ SomeSettles

LEMMA StageIsQuiet ==
  ASSUME TypeOK, NEW p \in Procs, NEW r \in Requests, NEW to \in NotLive,
         exec' = [exec EXCEPT ![p][r] = to]
  PROVE  ExecQuiet
<1>1. exec \in [Procs -> [Requests -> Stages]]
  BY DEF TypeOK, RestoreTypeOK
<1>2. QED  BY <1>1 DEF ExecQuiet

LEMMA CallKind ==
  ASSUME TypeOK, NEW c \in Requests, CallStep(c)
  PROVE  StepKind
<1>1. CASE PinInserts(c)
  BY <1>1 DEF StepKind
<1>2. CASE UNCHANGED <<status, verification, error, audit, started, effect, exec>>
  BY <1>2 DEF StepKind, Quiet, ExecQuiet
<1>3. QED
  BY <1>1, <1>2 DEF CallStep, create, PinChecks, PinLockTimeout, PinRollsBack,
     ResolveCollision, catalogVars

\* The terminal write settles the row, or finds it settled.
LEMMA PersistKind ==
  ASSUME TypeOK, NEW r \in Requests, NEW s \in TERMINAL_RESTORE_STATUSES,
         NEW why \in Errors \cup {None}, persistTerminalState(r, s, why),
         UNCHANGED <<started, effect>>, ExecQuiet,
         s = "completed" => \E p \in Procs : exec[p][r] = "committed",
         Stored(r)
  PROVE  StepKind
<1>1. CASE AlreadyTerminal(r)
  BY <1>1 DEF persistTerminalState, StepKind, Quiet
<1>2. CASE ~AlreadyTerminal(r)
  <2>1. Active(r)
    BY <1>2 DEF AlreadyTerminal, Terminal, Active, Stored, TypeOK, CatalogTypeOK,
       RestoreStatus
  <2>2. QED
    BY <1>2, <2>1 DEF persistTerminalState, StepKind, SomeSettles, Settles
<1>3. QED  BY <1>1, <1>2

LEMMA ExecutionKind ==
  ASSUME TypeOK, RowInv, NEW p \in Procs, NEW r \in Requests, ExecutionStep(p, r)
  PROVE  StepKind
<1>1. CASE \E to \in NotLive : exec' = [exec EXCEPT ![p][r] = to]
  <2>1. ExecQuiet
    BY <1>1, StageIsQuiet
  <2>2. CASE UNCHANGED <<status, verification, error, audit, started, effect>>
    BY <2>1, <2>2 DEF StepKind, Quiet
  <2>3. CASE recordSuccess(p, r)
    BY <2>1, <2>3, PersistKind DEF recordSuccess, Stage, TERMINAL_RESTORE_STATUSES, RowInv
  <2>4. CASE recordFailure(p, r)
    BY <2>1, <2>4, PersistKind DEF recordFailure, Stage, TERMINAL_RESTORE_STATUSES,
       Errors, RowInv
  <2>5. CASE claimForExecution(p, r)
    <3>1. CASE Claimable(r)  BY <2>5, <3>1 DEF StepKind, Claims
    <3>2. CASE ~Claimable(r)  BY <2>2, <2>5, <3>2 DEF claimForExecution
    <3>3. QED  BY <3>1, <3>2
  <2>6. CASE PgRestoreCommits(p, r)
    BY <2>6 DEF StepKind
  <2>7. QED
    BY <2>2, <2>3, <2>4, <2>5, <2>6 DEF ExecutionStep, LoadForExecution,
       ClaimDeferred, RestorePairFails, RecordThrows, catalogVars
<1>2. CASE Claims(p, r)
  BY <1>2 DEF StepKind
<1>3. CASE PgRestoreCommits(p, r)
  BY <1>3 DEF StepKind
<1>4. QED
  BY <1>1, <1>2, <1>3 DEF ExecutionStep, LoadForExecution, claimForExecution, Claims,
     ClaimDeferred, RestorePairFails, recordSuccess, recordFailure, RecordThrows,
     Stage, NotLive

LEMMA SweepKind ==
  ASSUME TypeOK, RowInv, ReconcilerStep
  PROVE  StepKind
<1>1. CASE UNCHANGED <<status, verification, error, audit, started, effect, exec>>
  BY <1>1 DEF StepKind, Quiet, ExecQuiet
<1>2. CASE \E s \in Sweeps : \E i \in sweep[s].todo : RedispatchItem(s, i)
  <2> PICK s \in Sweeps : \E i \in sweep[s].todo : RedispatchItem(s, i)  BY <1>2
  <2> PICK i \in sweep[s].todo : RedispatchItem(s, i)  OBVIOUS
  <2>1. exec \in [Procs -> [Requests -> Stages]]
    BY DEF TypeOK, RestoreTypeOK
  <2>2. exec' = [exec EXCEPT ![sweep[s].proc][i.request] = "dispatched"]
    BY DEF RedispatchItem
  <2>3. ExecQuiet
    BY <2>1, <2>2 DEF ExecQuiet, NotLive
  <2>4. QED  BY <2>3 DEF StepKind, Quiet, RedispatchItem, catalogVars
<1>3. CASE \E s \in Sweeps : Terminate(s)
  <2> PICK s \in Sweeps : Terminate(s)  BY <1>3
  <2> DEFINE i == sweep[s].terminating
  <2>1. i.request \in Requests
    BY DEF Terminate, TypeOK, SweepTypeOK, Items
  <2>2. ExecQuiet
    BY DEF Terminate, ExecQuiet
  <2>3. QED
    BY <2>1, <2>2, PersistKind DEF Terminate, TERMINAL_RESTORE_STATUSES, Errors, RowInv
<1>4. QED
  BY <1>1, <1>2, <1>3 DEF ReconcilerStep, Elapse, StartSweep, SkipItem,
     BeginTermination, TerminationThrows, catalogVars, restoreVars

LEMMA StepKinds ==
  ASSUME TypeOK, RowInv, [Next]_reconciliationVars
  PROVE  StepKind
<1>1. CASE RestoreStep
  BY <1>1, CallKind, ExecutionKind DEF RestoreStep
<1>2. CASE ReconcilerStep
  BY <1>2, SweepKind
<1>3. CASE \E p \in Procs : Crash(p)
  BY <1>3 DEF Crash, RestoreForgets, StepKind, Quiet, ExecQuiet, NotLive, TypeOK,
     RestoreTypeOK
<1>4. CASE \E p \in Procs : Restart(p)
  BY <1>4 DEF Restart, restoreVars, StepKind, Quiet, ExecQuiet
<1>5. CASE UNCHANGED reconciliationVars
  BY <1>5 DEF reconciliationVars, catalogVars, restoreVars, StepKind, Quiet, ExecQuiet
<1>6. QED  BY <1>1, <1>2, <1>3, <1>4, <1>5 DEF Next

\* What a submission asks for, and whether the indexes exist, never change.
LEMMA SubmissionsFixed ==
  ASSUME [Next]_reconciliationVars
  PROVE  UNCHANGED <<dto, indexed>>
<1>1. CASE RestoreStep
  BY <1>1 DEF RestoreStep, CallStep, create, PinChecks, PinLockTimeout, PinInserts,
     PinRollsBack, ResolveCollision, ExecutionStep, LoadForExecution,
     claimForExecution, ClaimDeferred, PgRestoreCommits, RestorePairFails,
     recordSuccess, recordFailure, RecordThrows, catalogVars
<1>2. CASE ReconcilerStep
  BY <1>2 DEF ReconcilerStep, Elapse, StartSweep, SkipItem, RedispatchItem,
     BeginTermination, Terminate, TerminationThrows, catalogVars, restoreVars
<1>3. CASE \E p \in Procs : Crash(p) \/ Restart(p)
  BY <1>3 DEF Crash, RestoreForgets, Restart, restoreVars
<1>4. CASE UNCHANGED reconciliationVars
  BY <1>4 DEF reconciliationVars, catalogVars, restoreVars
<1>5. QED  BY <1>1, <1>2, <1>3, <1>4 DEF Next

----------------------------------------------------------------------------
(***************************************************************************)
(* A request is executed at most once.  Inductively: an execution with a   *)
(* live pg_restore is the only one of its request, it got there by the one *)
(* claim that can ever succeed, and what it committed is counted.          *)
(***************************************************************************)
OnceInv ==
  \A r \in Requests :
    /\ started[r] <= 1
    /\ effect[r] <= started[r]
    /\ status[r] \in {"absent", "pending"} =>
         started[r] = 0 /\ \A p \in Procs : ~Live(p, r)
    /\ \A p \in Procs :
         /\ exec[p][r] = "executing" => started[r] = 1 /\ effect[r] = 0
         /\ exec[p][r] = "committed" => effect[r] = 1
    /\ \A p, q \in Procs : Live(p, r) /\ Live(q, r) => p = q
    /\ status[r] = "completed" => effect[r] = 1

LEMMA OnceInit == Init => OnceInv
  BY DEF Init, CatalogInit, RestoreInit, OnceInv, Live

LEMMA OnceStep ==
  ASSUME TypeOK, TypeOK', RowInv, OnceInv, [Next]_reconciliationVars
  PROVE  OnceInv'
<1> USE DEF OnceInv, Live
<1>0. /\ status \in [Requests -> RestoreStatus \cup {"absent"}]
      /\ exec \in [Procs -> [Requests -> Stages]]
      /\ started \in [Requests -> Nat]
      /\ effect \in [Requests -> Nat]
  BY DEF TypeOK, CatalogTypeOK, RestoreTypeOK
<1>1. CASE Quiet
  BY <1>1 DEF Quiet, ExecQuiet, NotLive
<1>2. CASE \E c \in Requests : PinInserts(c)
  <2> PICK c \in Requests : PinInserts(c)  BY <1>2
  <2>1. ASSUME NEW p \in Procs, NEW r \in Requests
        PROVE  exec'[p][r] = exec[p][r] \/ exec'[p][r] = "dispatched"
    BY <1>0, <2>1 DEF PinInserts
  <2>2. ~Stored(c)
    BY DEF PinInserts, RowInv
  <2>3. ASSUME NEW r \in Requests
        PROVE  /\ status'[r] \in {"absent", "pending"} => status[r] \in {"absent", "pending"}
               /\ status'[r] = "completed" => status[r] = "completed"
    BY <1>0, <2>2, <2>3 DEF PinInserts, Stored
  <2>4. QED  BY <2>1, <2>3 DEF PinInserts
<1>3. CASE \E p \in Procs, r \in Requests : Claims(p, r)
  <2> PICK p \in Procs, r \in Requests : Claims(p, r)  BY <1>3
  <2> USE DEF Claims, Claimable, claimForExecution, Stage
  <2>1. started[r] = 0 /\ effect[r] = 0 /\ \A q \in Procs : ~Live(q, r)
    BY <1>0
  <2>2. /\ status' = [status EXCEPT ![r] = "running"]
        /\ started' = [started EXCEPT ![r] = started[r] + 1]
        /\ exec' = [exec EXCEPT ![p][r] = "executing"]
        /\ effect' = effect
    OBVIOUS
  <2>3. QED  BY <1>0, <2>1, <2>2
<1>4. CASE \E p \in Procs, r \in Requests : PgRestoreCommits(p, r)
  <2> PICK p \in Procs, r \in Requests : PgRestoreCommits(p, r)  BY <1>4
  <2> USE DEF PgRestoreCommits, Stage, catalogVars
  <2>1. started[r] = 1 /\ effect[r] = 0 /\ \A q \in Procs : Live(q, r) => q = p
    BY <1>0
  <2>2. /\ effect' = [effect EXCEPT ![r] = effect[r] + 1]
        /\ exec' = [exec EXCEPT ![p][r] = "committed"]
        /\ UNCHANGED <<status, started>>
    OBVIOUS
  <2>3. QED  BY <1>0, <2>1, <2>2
<1>5. CASE SomeSettles
  <2> PICK r \in Requests, s \in TERMINAL_RESTORE_STATUSES, why \in Errors \cup {None} :
        Settles(r, s, why)
    BY <1>5 DEF SomeSettles
  <2>1. ASSUME NEW w \in Requests
        PROVE  /\ status'[w] \in {"absent", "pending"} => status[w] = status'[w]
               /\ status'[w] = "completed" => effect[w] = 1
    BY <1>0, <2>1 DEF Settles, TERMINAL_RESTORE_STATUSES
  <2>2. QED  BY <2>1 DEF Settles, ExecQuiet, NotLive
<1>6. QED  BY <1>1, <1>2, <1>3, <1>4, <1>5, StepKinds DEF StepKind

THEOREM OnceInvariant == Spec => []OnceInv
<1>1. TypeOK /\ TypeOK' /\ RowInv /\ OnceInv /\ [Next]_reconciliationVars => OnceInv'
  BY OnceStep
<1>2. QED  BY OnceInit, <1>1, TypeCorrect, RowInvariant, PTL DEF Spec

\* However requests are submitted, dispatched, swept and re-dispatched, by any
\* number of processes that crash at any point, none is claimed or restored twice.
THEOREM NeverExecutedTwice == Spec => []ExecutedAtMostOnce
<1>1. OnceInv => ExecutedAtMostOnce
  BY DEF OnceInv, ExecutedAtMostOnce
<1>2. QED  BY <1>1, OnceInvariant, PTL

----------------------------------------------------------------------------
(***************************************************************************)
(* The target's single slot and the key's single row.  Only an insert can  *)
(* break either, and it happens over both unique indexes: the gate let no  *)
(* call through without them.                                              *)
(***************************************************************************)
LEMMA InsertMeetsIndexes ==
  ASSUME RowInv, NEW c \in Requests, PinInserts(c)
  PROVE  SameKey(c) = {} /\ ActiveRestoresOn(RestoreTarget(c)) = {}
  BY DEF RowInv, CallOpen, PinInserts, UniqueViolation

\* Rows other than an inserted one neither appear nor become active.
LEMMA RowsKept ==
  ASSUME TypeOK, RowInv, StepKind, NEW r \in Requests
  PROVE  \/ PinInserts(r) /\ ~Stored(r)
         \/ (Stored(r)' <=> Stored(r)) /\ (Active(r)' => Active(r))
<1> USE DEF Stored, Active, ACTIVE_RESTORE_STATUSES, TERMINAL_RESTORE_STATUSES
<1>0. status \in [Requests -> RestoreStatus \cup {"absent"}]
  BY DEF TypeOK, CatalogTypeOK
<1>1. CASE Quiet
  BY <1>1 DEF Quiet
<1>2. CASE \E c \in Requests : PinInserts(c)
  BY <1>0, <1>2 DEF PinInserts, RowInv
<1>3. CASE \E p \in Procs, w \in Requests : Claims(p, w)
  BY <1>0, <1>3 DEF Claims, Claimable, claimForExecution
<1>4. CASE \E p \in Procs, w \in Requests : PgRestoreCommits(p, w)
  BY <1>4 DEF PgRestoreCommits, catalogVars
<1>5. CASE SomeSettles
  BY <1>0, <1>5 DEF SomeSettles, Settles
<1>6. QED  BY <1>1, <1>2, <1>3, <1>4, <1>5 DEF StepKind

LEMMA SlotStep ==
  ASSUME TypeOK, RowInv, OneActivePerTarget, [Next]_reconciliationVars
  PROVE  OneActivePerTarget'
<1>1. StepKind /\ UNCHANGED dto
  BY StepKinds, SubmissionsFixed
<1>2. SUFFICES ASSUME NEW r \in Requests, NEW q \in Requests, r # q,
                      Active(r)', Active(q)', RestoreTarget(r) = RestoreTarget(q)
               PROVE  FALSE
  BY <1>1 DEF OneActivePerTarget, RestoreTarget, BackupRunOf
<1>3. ASSUME NEW a \in Requests, NEW b \in Requests, a # b, PinInserts(a),
             Active(b)', RestoreTarget(a) = RestoreTarget(b)
      PROVE  FALSE
  <2>1. ActiveRestoresOn(RestoreTarget(a)) = {}
    BY <1>3, InsertMeetsIndexes
  <2>2. status'[b] = status[b]
    BY <1>3 DEF PinInserts, TypeOK, CatalogTypeOK
  <2>3. QED  BY <1>3, <2>1, <2>2 DEF ActiveRestoresOn, Active
<1>4. CASE PinInserts(r) \/ PinInserts(q)
  BY <1>2, <1>3, <1>4
<1>5. CASE ~PinInserts(r) /\ ~PinInserts(q)
  BY <1>1, <1>2, <1>5, RowsKept DEF OneActivePerTarget
<1>6. QED  BY <1>4, <1>5

\* No two active requests ever share a target.
THEOREM OneActiveRestore == Spec => []OneActivePerTarget
<1>1. Init => OneActivePerTarget
  BY DEF Init, CatalogInit, OneActivePerTarget, Active, ACTIVE_RESTORE_STATUSES
<1>2. TypeOK /\ RowInv /\ OneActivePerTarget /\ [Next]_reconciliationVars
        => OneActivePerTarget'
  BY SlotStep
<1>3. QED  BY <1>1, <1>2, TypeCorrect, RowInvariant, PTL DEF Spec

LEMMA KeyStep ==
  ASSUME TypeOK, RowInv, OneRowPerKey, [Next]_reconciliationVars
  PROVE  OneRowPerKey'
<1> DEFINE Key(r) == restoreIdempotencyKey(dto[r])
<1>1. StepKind /\ UNCHANGED dto
  BY StepKinds, SubmissionsFixed
<1>2. SUFFICES ASSUME NEW r \in Requests, NEW q \in Requests, r # q,
                      Stored(r)', Stored(q)', Key(r) = Key(q)
               PROVE  FALSE
  BY <1>1 DEF OneRowPerKey, Stored
<1>3. ASSUME NEW a \in Requests, NEW b \in Requests, a # b, PinInserts(a),
             Stored(b)', Key(a) = Key(b)
      PROVE  FALSE
  <2>1. SameKey(a) = {}
    BY <1>3, InsertMeetsIndexes
  <2>2. status'[b] = status[b]
    BY <1>3 DEF PinInserts, TypeOK, CatalogTypeOK
  <2>3. QED  BY <1>3, <2>1, <2>2 DEF SameKey, findByIdempotencyKey, Stored
<1>4. CASE PinInserts(r) \/ PinInserts(q)
  BY <1>2, <1>3, <1>4
<1>5. CASE ~PinInserts(r) /\ ~PinInserts(q)
  BY <1>1, <1>2, <1>5, RowsKept DEF OneRowPerKey, Stored
<1>6. QED  BY <1>4, <1>5

\* No two rows ever carry one idempotency key.
THEOREM KeysUnique == Spec => []OneRowPerKey
<1>1. Init => OneRowPerKey
  BY DEF Init, CatalogInit, OneRowPerKey
<1>2. TypeOK /\ RowInv /\ OneRowPerKey /\ [Next]_reconciliationVars => OneRowPerKey'
  BY KeyStep
<1>3. QED  BY <1>1, <1>2, TypeCorrect, RowInvariant, PTL DEF Spec

----------------------------------------------------------------------------
(* Terminal states are written once and audited once. *)

LEMMA FinalStep ==
  ASSUME TypeOK, RowInv, [Next]_reconciliationVars, NEW r \in Requests, Terminal(r)
  PROVE  <<status'[r], error'[r], audit'[r]>> = <<status[r], error[r], audit[r]>>
<1> USE DEF Terminal, Active, ACTIVE_RESTORE_STATUSES, TERMINAL_RESTORE_STATUSES
<1>0. /\ status \in [Requests -> RestoreStatus \cup {"absent"}]
      /\ error \in [Requests -> Errors \cup {None}]
      /\ audit \in [Requests -> [AuditActions -> Nat]]
  BY DEF TypeOK, CatalogTypeOK, RestoreTypeOK
<1>1. CASE Quiet
  BY <1>1 DEF Quiet
<1>2. CASE \E c \in Requests : PinInserts(c)
  <2> PICK c \in Requests : PinInserts(c)  BY <1>2
  <2>1. c # r
    BY DEF PinInserts, RowInv, Stored
  <2>2. QED  BY <1>0, <2>1 DEF PinInserts
<1>3. CASE \E p \in Procs, w \in Requests : Claims(p, w)
  BY <1>0, <1>3 DEF Claims, Claimable, claimForExecution
<1>4. CASE \E p \in Procs, w \in Requests : PgRestoreCommits(p, w)
  BY <1>4 DEF PgRestoreCommits, catalogVars
<1>5. CASE SomeSettles
  BY <1>0, <1>5 DEF SomeSettles, Settles
<1>6. QED  BY <1>1, <1>2, <1>3, <1>4, <1>5, StepKinds DEF StepKind

\* Neither a late execution nor recovery rewrites an outcome.
THEOREM OutcomesFinal == Spec => TerminalIsFinal
<1>1. TypeOK /\ RowInv /\ [Next]_reconciliationVars
        => [\A r \in Requests : Terminal(r) =>
             <<status'[r], error'[r], audit'[r]>> = <<status[r], error[r], audit[r]>>
           ]_reconciliationVars
  BY FinalStep
<1>2. QED  BY <1>1, TypeCorrect, RowInvariant, PTL DEF Spec, TerminalIsFinal

LEMMA AuditStep ==
  ASSUME TypeOK, RowInv, AuditedOnce, [Next]_reconciliationVars
  PROVE  AuditedOnce'
<1> USE DEF AuditedOnce, TERMINAL_RESTORE_STATUSES
<1>0. /\ status \in [Requests -> RestoreStatus \cup {"absent"}]
      /\ audit \in [Requests -> [AuditActions -> Nat]]
  BY DEF TypeOK, CatalogTypeOK, RestoreTypeOK
<1>1. CASE Quiet
  BY <1>1 DEF Quiet
<1>2. CASE \E c \in Requests : PinInserts(c)
  <2> PICK c \in Requests : PinInserts(c)  BY <1>2
  <2>1. status[c] = "absent"
    BY DEF PinInserts, RowInv, Stored
  <2>2. /\ status' = [status EXCEPT ![c] = "pending"]
        /\ audit' = [audit EXCEPT ![c] = [audit[c] EXCEPT !["created"] = audit[c]["created"] + 1]]
    BY <1>0 DEF PinInserts
  <2>3. QED  BY <1>0, <2>1, <2>2 DEF AuditActions
<1>3. CASE \E p \in Procs, w \in Requests : Claims(p, w)
  BY <1>0, <1>3 DEF Claims, Claimable, claimForExecution
<1>4. CASE \E p \in Procs, w \in Requests : PgRestoreCommits(p, w)
  BY <1>4 DEF PgRestoreCommits, catalogVars
<1>5. CASE SomeSettles
  <2> PICK r \in Requests, s \in TERMINAL_RESTORE_STATUSES, why \in Errors \cup {None} :
        Settles(r, s, why)
    BY <1>5 DEF SomeSettles
  <2>1. status[r] \in {"pending", "running"}
    BY DEF Settles, Active, ACTIVE_RESTORE_STATUSES
  <2>2. /\ status' = [status EXCEPT ![r] = s]
        /\ audit' = [audit EXCEPT ![r] = [audit[r] EXCEPT ![s] = audit[r][s] + 1]]
    BY <1>0 DEF Settles
  <2>3. QED  BY <1>0, <2>1, <2>2 DEF AuditActions
<1>6. QED  BY <1>1, <1>2, <1>3, <1>4, <1>5, StepKinds DEF StepKind

\* The audit trail and the rows never disagree about what became of a request.
THEOREM AuditComplete == Spec => []AuditedOnce
<1>1. Init => AuditedOnce
  BY DEF Init, CatalogInit, RestoreInit, AuditedOnce, AuditActions,
     TERMINAL_RESTORE_STATUSES
<1>2. TypeOK /\ RowInv /\ AuditedOnce /\ [Next]_reconciliationVars => AuditedOnce'
  BY AuditStep
<1>3. QED  BY <1>1, <1>2, TypeCorrect, RowInvariant, PTL DEF Spec

----------------------------------------------------------------------------
(* The verification state of a run follows its restores. *)

LEMMA RunOfRequest ==
  ASSUME TypeOK, NEW r \in Requests
  PROVE  BackupRunOf(r) \in Runs
  BY CatalogAssumption DEF TypeOK, CatalogTypeOK, BackupRunOf, Dto

LEMMA VerifyingStep ==
  ASSUME TypeOK, RowInv, OneActivePerTarget, VerifyingIffRunning,
         [Next]_reconciliationVars
  PROVE  VerifyingIffRunning'
<1>0. /\ status \in [Requests -> RestoreStatus \cup {"absent"}]
      /\ verification \in [Runs -> VerificationStatus]
  BY DEF TypeOK, CatalogTypeOK
<1>a. \A r \in Requests : BackupRunOf(r)' = BackupRunOf(r) /\ BackupRunOf(r) \in Runs
  BY SubmissionsFixed, RunOfRequest DEF BackupRunOf
<1>b. SUFFICES ASSUME NEW b \in Runs
      PROVE  verification'[b] = "verifying"
               <=> \E r \in Requests : BackupRunOf(r) = b /\ status'[r] = "running"
  BY <1>a DEF VerifyingIffRunning
<1>c. verification[b] = "verifying"
        <=> \E r \in Requests : BackupRunOf(r) = b /\ status[r] = "running"
  BY DEF VerifyingIffRunning
<1>1. CASE Quiet
  BY <1>c, <1>1 DEF Quiet
<1>2. CASE \E c \in Requests : PinInserts(c)
  <2> PICK c \in Requests : PinInserts(c)  BY <1>2
  <2>1. status[c] = "absent"
    BY DEF PinInserts, RowInv, Stored
  <2>2. QED  BY <1>0, <1>c, <2>1 DEF PinInserts
<1>3. CASE \E p \in Procs, w \in Requests : Claims(p, w)
  <2> PICK p \in Procs, w \in Requests : Claims(p, w)  BY <1>3
  <2>1. /\ status[w] = "pending"
        /\ status' = [status EXCEPT ![w] = "running"]
        /\ verification' = [verification EXCEPT ![BackupRunOf(w)] = "verifying"]
    BY DEF Claims, Claimable, claimForExecution
  <2>2. CASE b = BackupRunOf(w)
    BY <1>0, <2>1, <2>2
  <2>3. CASE b # BackupRunOf(w)
    BY <1>0, <1>c, <2>1, <2>3
  <2>4. QED  BY <2>2, <2>3
<1>4. CASE \E p \in Procs, w \in Requests : PgRestoreCommits(p, w)
  BY <1>c, <1>4 DEF PgRestoreCommits, catalogVars
<1>5. CASE SomeSettles
  <2> PICK r \in Requests, s \in TERMINAL_RESTORE_STATUSES, why \in Errors \cup {None} :
        Settles(r, s, why)
    BY <1>5 DEF SomeSettles
  <2>1. /\ s # "running"
        /\ status' = [status EXCEPT ![r] = s]
        /\ VerificationAfter(r, s) # "verifying"
        /\ verification' = [verification EXCEPT ![BackupRunOf(r)] = VerificationAfter(r, s)]
    BY DEF Settles, TERMINAL_RESTORE_STATUSES, VerificationAfter
  <2>2. CASE b = BackupRunOf(r)
    <3>1. ASSUME NEW q \in Requests, BackupRunOf(q) = b, status[q] = "running"
          PROVE  q = r
      BY <2>2, <3>1 DEF OneActivePerTarget, Settles, Active, ACTIVE_RESTORE_STATUSES,
         RestoreTarget
    <3>2. QED  BY <1>0, <2>1, <2>2, <3>1
  <2>3. CASE b # BackupRunOf(r)
    BY <1>0, <1>c, <2>1, <2>3
  <2>4. QED  BY <2>2, <2>3
<1>6. QED  BY <1>1, <1>2, <1>3, <1>4, <1>5, StepKinds DEF StepKind

\* The mark retention reads as a pin is there exactly while a restore runs.
THEOREM VerifyingFollowsRestores == Spec => []VerifyingIffRunning
<1>1. Init => VerifyingIffRunning
  BY DEF Init, CatalogInit, VerifyingIffRunning
<1>2. TypeOK /\ RowInv /\ OneActivePerTarget /\ VerifyingIffRunning
        /\ [Next]_reconciliationVars => VerifyingIffRunning'
  BY VerifyingStep
<1>3. QED
  BY <1>1, <1>2, TypeCorrect, RowInvariant, OneActiveRestore, PTL DEF Spec

VerifiedWasCompleted ==
  \A b \in Runs : verification[b] = "verified" =>
    \E r \in Requests : BackupRunOf(r) = b /\ status[r] = "completed"

LEMMA VerifiedStep ==
  ASSUME TypeOK, RowInv, VerifiedWasCompleted, [Next]_reconciliationVars
  PROVE  VerifiedWasCompleted'
<1>0. /\ status \in [Requests -> RestoreStatus \cup {"absent"}]
      /\ verification \in [Runs -> VerificationStatus]
  BY DEF TypeOK, CatalogTypeOK
<1>a. \A r \in Requests : BackupRunOf(r)' = BackupRunOf(r)
  BY SubmissionsFixed DEF BackupRunOf
<1>b. \A r \in Requests : status[r] = "completed" => status'[r] = "completed"
  BY FinalStep DEF Terminal, TERMINAL_RESTORE_STATUSES
<1>c. SUFFICES ASSUME NEW b \in Runs, verification'[b] = "verified"
      PROVE  \E r \in Requests : BackupRunOf(r) = b /\ status'[r] = "completed"
  BY <1>a DEF VerifiedWasCompleted
<1>d. CASE verification[b] = "verified"
  BY <1>b, <1>d DEF VerifiedWasCompleted
<1>e. CASE verification[b] # "verified"
  <2>1. CASE SomeSettles
    <3> PICK r \in Requests, s \in TERMINAL_RESTORE_STATUSES, why \in Errors \cup {None} :
          Settles(r, s, why)
      BY <2>1 DEF SomeSettles
    <3>1. b = BackupRunOf(r) /\ s = "completed"
      BY <1>0, <1>c, <1>e DEF Settles, VerificationAfter
    <3>2. status'[r] = "completed"
      BY <1>0, <3>1 DEF Settles
    <3>3. QED  BY <3>1, <3>2
  <2>2. CASE \E p \in Procs, w \in Requests : Claims(p, w)
    BY <1>0, <1>c, <1>e, <2>2 DEF Claims, Claimable, claimForExecution
  <2>3. CASE UNCHANGED verification
    BY <1>c, <1>e, <2>3
  <2>4. QED
    BY <2>1, <2>2, <2>3, StepKinds DEF StepKind, Quiet, PinInserts, PgRestoreCommits,
       catalogVars
<1>f. QED  BY <1>d, <1>e

\* A completed request, and a verified run, rest on a committed pg_restore.
THEOREM SuccessIsReal == Spec => []SuccessWasCommitted
<1>1. Init => VerifiedWasCompleted
  BY DEF Init, CatalogInit, VerifiedWasCompleted
<1>2. TypeOK /\ RowInv /\ VerifiedWasCompleted /\ [Next]_reconciliationVars
        => VerifiedWasCompleted'
  BY VerifiedStep
<1>3. OnceInv /\ VerifiedWasCompleted => SuccessWasCommitted
  BY DEF OnceInv, VerifiedWasCompleted, SuccessWasCommitted
<1>4. QED
  BY <1>1, <1>2, <1>3, TypeCorrect, RowInvariant, OnceInvariant, PTL DEF Spec

----------------------------------------------------------------------------
(***************************************************************************)
(* What a client was answered.  A call is answered with a request either   *)
(* because it inserted it, or because the row it found under its key was   *)
(* compared with the submission; the row then stays, and submissions do    *)
(* not change.                                                             *)
(***************************************************************************)
Answered(c) == call[c] \in {"accepted", "replayed"}

\* How a step can leave call c answered.
AnsweredBefore(c) == Answered(c) /\ reply'[c] = reply[c]
AnsweredByInsert(c) == PinInserts(c) /\ reply'[c] = c
AnsweredByReplay(c) ==
  \E r \in SameKey(c) : assertReplayMatches(r, c) /\ reply'[c] = r

LEMMA AnswerKinds ==
  ASSUME TypeOK, [Next]_reconciliationVars, NEW c \in Requests, Answered(c)'
  PROVE  AnsweredBefore(c) \/ AnsweredByInsert(c) \/ AnsweredByReplay(c)
<1> USE DEF Answered, AnsweredBefore
<1>0. call \in [Requests -> CallStates] /\ reply \in [Requests -> Requests \cup {None}]
  BY DEF TypeOK, RestoreTypeOK, CallStates
<1>1. CASE UNCHANGED <<call, reply>>
  BY <1>1
<1>2. ASSUME NEW d \in Requests, CallStep(d)
      PROVE  AnsweredBefore(c) \/ AnsweredByInsert(c) \/ AnsweredByReplay(c)
  <2>1. CASE PinInserts(d)
    BY <1>0, <2>1 DEF PinInserts, AnsweredByInsert
  <2>2. CASE \E how \in CallStates \ {"accepted", "replayed"} : Answer(d, how)
    BY <1>0, <2>2 DEF Answer
  <2>3. CASE \E r \in SameKey(d) : Replay(d, r)
    <3> PICK r \in SameKey(d) : Replay(d, r)  BY <2>3
    <3>1. r \in Requests  BY DEF SameKey, findByIdempotencyKey
    <3>2. CASE assertReplayMatches(r, d)
      BY <1>0, <3>1, <3>2 DEF Replay, AnsweredByReplay
    <3>3. CASE ~assertReplayMatches(r, d)
      BY <1>0, <3>3 DEF Replay, Answer
    <3>4. QED  BY <3>2, <3>3
  <2>4. {"unavailable", "validated", "rejected", "conflict", "pinning", "collided"}
          \subseteq CallStates \ {"accepted", "replayed"}
    BY DEF CallStates, CallOpen, CallAnswered
  <2>5. QED
    BY <1>2, <2>1, <2>2, <2>3, <2>4 DEF CallStep, create, PinChecks, PinLockTimeout,
       PinRollsBack, ResolveCollision
<1>3. CASE RestoreStep
  <2>1. ASSUME NEW p \in Procs, NEW r \in Requests, ExecutionStep(p, r)
        PROVE  UNCHANGED <<call, reply>>
    BY <2>1 DEF ExecutionStep, LoadForExecution, claimForExecution, ClaimDeferred,
       PgRestoreCommits, RestorePairFails, recordSuccess, recordFailure, RecordThrows
  <2>2. QED  BY <1>1, <1>2, <1>3, <2>1 DEF RestoreStep
<1>4. CASE ReconcilerStep
  BY <1>1, <1>4 DEF ReconcilerStep, Elapse, StartSweep, SkipItem, RedispatchItem,
     BeginTermination, Terminate, TerminationThrows, restoreVars
<1>5. CASE \E p \in Procs : Crash(p)
  BY <1>0, <1>5 DEF Crash, RestoreForgets, CallOpen
<1>6. CASE \E p \in Procs : Restart(p)
  BY <1>1, <1>6 DEF Restart, restoreVars
<1>7. CASE UNCHANGED reconciliationVars
  BY <1>1, <1>7 DEF reconciliationVars, restoreVars
<1>8. QED  BY <1>3, <1>4, <1>5, <1>6, <1>7 DEF Next

LEMMA AnswersStep ==
  ASSUME TypeOK, RowInv, AnswersMatch, [Next]_reconciliationVars
  PROVE  AnswersMatch'
<1>1. StepKind /\ UNCHANGED dto
  BY StepKinds, SubmissionsFixed
<1>2. \A r \in Requests : dto[r] \in Dto /\ r # None
  BY CatalogAssumption DEF TypeOK, CatalogTypeOK
<1>3. \A r \in Requests : Stored(r) => status'[r] # "absent"
  BY <1>1, RowsKept DEF Stored
<1>4. SUFFICES ASSUME NEW c \in Requests, Answered(c)'
      PROVE  /\ reply'[c] \in Requests
             /\ status'[reply'[c]] # "absent"
             /\ [dto[reply'[c]] EXCEPT !.key = dto[c].key] = dto[c]
  BY <1>1, <1>2 DEF AnswersMatch, Answered, Stored
<1>5. CASE AnsweredBefore(c)
  BY <1>3, <1>5 DEF AnsweredBefore, Answered, AnswersMatch, Stored, TypeOK, RestoreTypeOK
<1>6. CASE AnsweredByInsert(c)
  <2>1. status'[c] # "absent"
    BY <1>6 DEF AnsweredByInsert, PinInserts, TypeOK, CatalogTypeOK
  <2>2. [dto[c] EXCEPT !.key = dto[c].key] = dto[c]
    BY <1>2 DEF Dto
  <2>3. QED  BY <1>6, <2>1, <2>2 DEF AnsweredByInsert
<1>7. CASE AnsweredByReplay(c)
  <2> PICK r \in SameKey(c) : assertReplayMatches(r, c) /\ reply'[c] = r
    BY <1>7 DEF AnsweredByReplay
  <2>1. r \in Requests /\ Stored(r)
    BY DEF SameKey, findByIdempotencyKey, Stored
  <2>2. [dto[r] EXCEPT !.key = dto[c].key] = dto[c]
    BY <1>2, <2>1 DEF Dto, assertReplayMatches
  <2>3. QED  BY <1>3, <2>1, <2>2
<1>8. QED  BY <1>4, <1>5, <1>6, <1>7, AnswerKinds

LEMMA AnswersInit == Init => AnswersMatch
  BY DEF Init, RestoreInit, AnswersMatch

\* Whatever keys clients reuse and however their calls race, nobody is ever
\* answered with a request other than the one submitted, or with a lost row.
THEOREM AnswersAreForTheSubmission == Spec => []AnswersMatch
<1>1. TypeOK /\ RowInv /\ AnswersMatch /\ [Next]_reconciliationVars => AnswersMatch'
  BY AnswersStep
<1>2. QED  BY AnswersInit, <1>1, TypeCorrect, RowInvariant, PTL DEF Spec

----------------------------------------------------------------------------
(***************************************************************************)
(* Recovery and live executions.  A process tells what is in flight from   *)
(* its own memory, and a sweep trusts rows it read a while ago.  That      *)
(* spares a live restore as long as every request on a sweep's list is on  *)
(* no other sweep's and in flight in no other process: the assumption the  *)
(* code makes and does not enforce, and the one the rollout breaks.  It is *)
(* a hypothesis about the behaviour, which one process whose sweeps do not *)
(* overlap always satisfies.                                               *)
(***************************************************************************)
SweptAlone ==
  \A s \in Sweeps : \A i \in sweep[s].todo :
    /\ \A z \in Sweeps : \A j \in sweep[z].todo : j.request = i.request => z = s
    /\ \A p \in Procs : isInFlight(p, i.request) => p = sweep[s].proc

\* A sweep with requests on its list runs in some process.
SweepOwned ==
  \A s \in Sweeps : sweep[s].todo # {} => sweep[s].proc \in Procs

\* What a sweep's bookkeeping does to the sweeps.
LEMMA RestTodo ==
  ASSUME TypeOK, NEW s \in Sweeps, NEW todo \in SUBSET sweep[s].todo,
         sweep' = Rest(s, todo)
  PROVE  /\ sweep'[s].terminating = None
         /\ sweep'[s].todo = todo
         /\ todo # {} => sweep'[s].proc = sweep[s].proc
         /\ \A z \in Sweeps : z # s => sweep'[z] = sweep[z]
<1>1. sweep \in [Sweeps -> SweepStates]
  BY DEF TypeOK, SweepTypeOK, SweepStates
<1>2. CASE todo = {}
  BY <1>1, <1>2 DEF Rest, Idle
<1>3. CASE todo # {}
  <2>1. sweep' = [sweep EXCEPT ![s] = [sweep[s] EXCEPT !.todo = todo, !.terminating = None]]
    BY <1>3 DEF Rest
  <2>2. QED  BY <1>1, <2>1 DEF SweepStates
<1>4. QED  BY <1>2, <1>3

LEMMA OwnedRest ==
  ASSUME TypeOK, SweepOwned, NEW s \in Sweeps, NEW todo \in SUBSET sweep[s].todo,
         sweep' = Rest(s, todo)
  PROVE  SweepOwned'
  BY RestTodo DEF SweepOwned

LEMMA OwnedStep ==
  ASSUME TypeOK, SweepOwned, [Next]_reconciliationVars
  PROVE  SweepOwned'
<1>0. sweep \in [Sweeps -> SweepStates]
  BY DEF TypeOK, SweepTypeOK, SweepStates
<1>1. CASE UNCHANGED sweep
  BY <1>1 DEF SweepOwned
<1>2. CASE \E s \in Sweeps : \E i \in sweep[s].todo : SkipItem(s, i) \/ RedispatchItem(s, i)
  BY <1>2, OwnedRest DEF SkipItem, RedispatchItem
<1>3. CASE \E s \in Sweeps : Terminate(s)
  BY <1>3, OwnedRest DEF Terminate
<1>4. CASE \E s \in Sweeps : \E i \in sweep[s].todo : BeginTermination(s, i)
  <2> PICK s \in Sweeps : \E i \in sweep[s].todo : BeginTermination(s, i)  BY <1>4
  <2> PICK i \in sweep[s].todo : BeginTermination(s, i)  OBVIOUS
  <2>1. sweep' = [sweep EXCEPT ![s].terminating = i]
    BY DEF BeginTermination
  <2>2. \A z \in Sweeps : sweep'[z].todo = sweep[z].todo /\ sweep'[z].proc = sweep[z].proc
    BY <1>0, <2>1 DEF SweepStates
  <2>3. QED  BY <2>2 DEF SweepOwned
<1>5. CASE \E s \in Sweeps, p \in Procs : StartSweep(s, p)
  BY <1>0, <1>5 DEF StartSweep, SweepOwned
<1>6. CASE \E s \in Sweeps : TerminationThrows(s)
  BY <1>0, <1>6 DEF TerminationThrows, Idle, SweepOwned
<1>7. CASE \E p \in Procs : Crash(p)
  BY <1>0, <1>7 DEF Crash, SweepsForget, Idle, SweepOwned
<1>8. QED
  BY <1>1, <1>2, <1>3, <1>4, <1>5, <1>6, <1>7 DEF Next, ReconcilerStep, Elapse, Restart,
     reconciliationVars

LEMMA OwnedInvariant == Spec => []SweepOwned
<1>1. Init => SweepOwned
  BY DEF Init, SweepOwned, Idle
<1>2. TypeOK /\ SweepOwned /\ [Next]_reconciliationVars => SweepOwned'
  BY OwnedStep
<1>3. QED  BY <1>1, <1>2, TypeCorrect, PTL DEF Spec

\* One process at a time executes a request; what a sweep is about to terminate
\* nobody executes, and its row is still as the sweep read it.
FlightAlone ==
  \A p, q \in Procs, r \in Requests : isInFlight(p, r) /\ isInFlight(q, r) => p = q

TerminatingIsStill ==
  \A s \in Sweeps : sweep[s].terminating # None =>
    LET i == sweep[s].terminating
    IN  /\ i \in sweep[s].todo
        /\ status[i.request] = i.status
        /\ \A p \in Procs : ~isInFlight(p, i.request)

AbandonedUnclaimed ==
  \A r \in Requests : error[r] = "abandoned" => Terminal(r) /\ started[r] = 0

RecoveryInv ==
  /\ FlightAlone
  /\ TerminatingIsStill
  /\ RecoverySparesLive
  /\ AbandonedUnclaimed

LEMMA RecoveryInit == Init => RecoveryInv
  BY ErrorAssumption DEF Errors, Init, CatalogInit, RestoreInit, RecoveryInv, FlightAlone,
     TerminatingIsStill, RecoverySparesLive, AbandonedUnclaimed, Idle, isInFlight,
     Live

\* Steps of calls: an insert dispatches a row nobody knew, the others touch neither
\* executions nor rows.
LEMMA RecoveryCall ==
  ASSUME TypeOK, RowInv, RecoveryInv, NEW c \in Requests, CallStep(c),
         UNCHANGED sweep
  PROVE  RecoveryInv'
<1> USE DEF RecoveryInv, FlightAlone, TerminatingIsStill, RecoverySparesLive,
            isInFlight, Live
<1>0. /\ exec \in [Procs -> [Requests -> Stages]]
      /\ status \in [Requests -> RestoreStatus \cup {"absent"}]
      /\ sweep \in [Sweeps -> SweepStates]
  BY DEF TypeOK, CatalogTypeOK, RestoreTypeOK, SweepTypeOK, SweepStates
<1>1. CASE PinInserts(c)
  <2>1. ~Stored(c) /\ \A p \in Procs : exec[p][c] = "none"
    BY <1>1 DEF RowInv, PinInserts
  <2>2. /\ status' = [status EXCEPT ![c] = "pending"]
        /\ exec' = [exec EXCEPT ![caller[c]][c] = "dispatched"]
        /\ UNCHANGED <<error, started>>
    BY <1>1 DEF PinInserts
  <2>3. \A p \in Procs, r \in Requests :
          exec'[p][r] = exec[p][r] \/ (r = c /\ p = caller[c] /\ exec'[p][r] = "dispatched")
    BY <1>0, <2>2
  <2>4. \A r \in Requests : r # c => status'[r] = status[r]
    BY <1>0, <2>2
  <2>5. FlightAlone'
    BY <2>1, <2>3
  <2>6. TerminatingIsStill'
    <3> SUFFICES ASSUME NEW s \in Sweeps, sweep[s].terminating # None
                 PROVE  LET i == sweep[s].terminating
                        IN  /\ i \in sweep[s].todo
                            /\ status'[i.request] = i.status
                            /\ \A p \in Procs : exec'[p][i.request] = "none"
      OBVIOUS
    <3> DEFINE i == sweep[s].terminating
    <3>1. i \in sweep[s].todo /\ i.request \in Requests /\ Stored(i.request)
      BY <1>0 DEF RowInv, SweepStates, Items
    <3>2. i.request # c
      BY <2>1, <3>1
    <3>3. QED  BY <2>3, <2>4, <3>1, <3>2
  <2>7. RecoverySparesLive'
    BY <2>1, <2>3, <2>4
  <2>8. AbandonedUnclaimed'
    BY <2>1, <2>2, <2>4 DEF AbandonedUnclaimed, Stored, Terminal,
       TERMINAL_RESTORE_STATUSES
  <2>9. QED  BY <2>5, <2>6, <2>7, <2>8
<1>2. CASE UNCHANGED <<status, exec, error, started>>
  BY <1>2 DEF AbandonedUnclaimed, Terminal
<1>3. QED
  BY <1>1, <1>2 DEF CallStep, create, PinChecks, PinLockTimeout, PinRollsBack,
     ResolveCollision, catalogVars

\* Steps of the execution of r: it is in flight, so no sweep is terminating r, and
\* no other process executes it.
LEMMA RecoveryExecution ==
  ASSUME TypeOK, RowInv, OnceInv, RecoveryInv, NEW p \in Procs, NEW r \in Requests,
         ExecutionStep(p, r), UNCHANGED sweep
  PROVE  RecoveryInv'
<1> USE DEF RecoveryInv, FlightAlone, TerminatingIsStill, RecoverySparesLive,
            isInFlight, Live
<1>0. /\ exec \in [Procs -> [Requests -> Stages]]
      /\ status \in [Requests -> RestoreStatus \cup {"absent"}]
      /\ sweep \in [Sweeps -> SweepStates]
      /\ error \in [Requests -> Errors \cup {None}]
      /\ started \in [Requests -> Nat]
  BY DEF TypeOK, CatalogTypeOK, RestoreTypeOK, SweepTypeOK, SweepStates
<1>1. PICK to \in Stages : exec[p][r] # "none" /\ exec' = [exec EXCEPT ![p][r] = to]
  BY DEF ExecutionStep, LoadForExecution, claimForExecution, ClaimDeferred,
     PgRestoreCommits, RestorePairFails, recordSuccess, recordFailure, RecordThrows,
     Stage, Stages
<1>2. \A q \in Procs, w \in Requests : ~(q = p /\ w = r) => exec'[q][w] = exec[q][w]
  BY <1>0, <1>1
<1>3. \A q \in Procs : q # p => exec'[q][r] = "none"
  BY <1>0, <1>1, <1>2
<1>4. exec'[p][r] = to
  BY <1>0, <1>1
<1>5. FlightAlone'
  BY <1>2, <1>3
<1>6. \A w \in Requests : w # r => status'[w] = status[w] /\ started'[w] = started[w]
  BY <1>0 DEF ExecutionStep, LoadForExecution, claimForExecution, ClaimDeferred,
     PgRestoreCommits, RestorePairFails, recordSuccess, recordFailure, RecordThrows,
     persistTerminalState, catalogVars
<1>7. TerminatingIsStill'
  <2> SUFFICES ASSUME NEW s \in Sweeps, sweep[s].terminating # None
               PROVE  LET i == sweep[s].terminating
                      IN  /\ i \in sweep[s].todo
                          /\ status'[i.request] = i.status
                          /\ \A q \in Procs : exec'[q][i.request] = "none"
    OBVIOUS
  <2> DEFINE i == sweep[s].terminating
  <2>1. i \in sweep[s].todo /\ i.request \in Requests
    BY <1>0 DEF SweepStates, Items
  <2>2. i.request # r
    BY <1>1
  <2>3. QED  BY <1>2, <1>6, <2>1, <2>2
<1>8. RecoverySparesLive'
  <2> SUFFICES ASSUME to \in {"executing", "committed"}  PROVE status'[r] = "running"
    BY <1>2, <1>3, <1>4, <1>6
  <2>1. claimForExecution(p, r) \/ PgRestoreCommits(p, r)
    BY <1>0, <1>1, <1>4 DEF ExecutionStep, LoadForExecution, ClaimDeferred,
       RestorePairFails, recordSuccess, recordFailure, RecordThrows, Stage
  <2>2. CASE claimForExecution(p, r)
    BY <1>0, <1>4, <2>2 DEF claimForExecution, Stage
  <2>3. CASE PgRestoreCommits(p, r)
    BY <2>3 DEF PgRestoreCommits, Stage, catalogVars
  <2>4. QED  BY <2>1, <2>2, <2>3
<1>9. AbandonedUnclaimed'
  <2> SUFFICES ASSUME NEW w \in Requests, error'[w] = "abandoned"
               PROVE  Terminal(w)' /\ started'[w] = 0
    BY DEF AbandonedUnclaimed
  <2>1. error[w] = "abandoned"
    BY <1>0, ErrorAssumption DEF ExecutionStep, LoadForExecution, claimForExecution,
       ClaimDeferred, PgRestoreCommits, RestorePairFails, recordSuccess, recordFailure,
       RecordThrows, persistTerminalState, catalogVars, Errors
  <2>2. Terminal(w) /\ started[w] = 0
    BY <2>1 DEF AbandonedUnclaimed
  <2>3. status'[w] = status[w] /\ started'[w] = started[w]
    BY <1>0, <2>2 DEF ExecutionStep, LoadForExecution, claimForExecution,
       ClaimDeferred, PgRestoreCommits, RestorePairFails, recordSuccess, recordFailure,
       RecordThrows, persistTerminalState, catalogVars, Claimable, AlreadyTerminal,
       Terminal, TERMINAL_RESTORE_STATUSES
  <2>4. QED  BY <2>2, <2>3 DEF Terminal
<1>10. QED  BY <1>5, <1>7, <1>8, <1>9

\* Steps that change no row and no execution keep the invariant when every sweep
\* that terminates something was terminating it before.
LEMMA RecoveryFrame ==
  ASSUME RecoveryInv, UNCHANGED <<status, exec, error, started>>,
         \A s \in Sweeps : sweep'[s].terminating # None => sweep'[s] = sweep[s]
  PROVE  RecoveryInv'
  BY DEF RecoveryInv, FlightAlone, TerminatingIsStill, RecoverySparesLive,
     AbandonedUnclaimed, isInFlight, Live, Terminal

LEMMA RecoverySweep ==
  ASSUME TypeOK, RowInv, OnceInv, SweepOwned, SweptAlone, RecoveryInv, ReconcilerStep
  PROVE  RecoveryInv'
<1>0. /\ exec \in [Procs -> [Requests -> Stages]]
      /\ status \in [Requests -> RestoreStatus \cup {"absent"}]
      /\ sweep \in [Sweeps -> SweepStates]
      /\ error \in [Requests -> Errors \cup {None}]
  BY DEF TypeOK, CatalogTypeOK, RestoreTypeOK, SweepTypeOK, SweepStates
<1>1. CASE \E r \in Requests : Elapse(r)
  BY <1>1, RecoveryFrame DEF Elapse, catalogVars
<1>2. CASE \E s \in Sweeps, p \in Procs : StartSweep(s, p)
  <2> PICK s \in Sweeps, p \in Procs : StartSweep(s, p)  BY <1>2
  <2>1. sweep' = [sweep EXCEPT ![s] = [proc |-> p, todo |-> Snapshot, terminating |-> None]]
    BY DEF StartSweep
  <2>2. \A z \in Sweeps : sweep'[z].terminating # None => sweep'[z] = sweep[z]
    BY <1>0, <2>1
  <2>3. QED  BY <2>2, RecoveryFrame DEF StartSweep, catalogVars, restoreVars
<1>3. CASE \E s \in Sweeps : \E i \in sweep[s].todo : SkipItem(s, i)
  <2> PICK s \in Sweeps : \E i \in sweep[s].todo : SkipItem(s, i)  BY <1>3
  <2>1. \E i \in sweep[s].todo : sweep' = Rest(s, sweep[s].todo \ {i})
    BY DEF SkipItem
  <2>2. UNCHANGED <<status, exec, error, started>>
    BY DEF SkipItem, catalogVars, restoreVars
  <2>3. QED  BY <2>1, <2>2, RestTodo, RecoveryFrame
<1>4. CASE \E s \in Sweeps : \E i \in sweep[s].todo : RedispatchItem(s, i)
  <2> PICK s \in Sweeps : \E i \in sweep[s].todo : RedispatchItem(s, i)  BY <1>4
  <2> PICK i \in sweep[s].todo : RedispatchItem(s, i)  OBVIOUS
  <2> DEFINE p == sweep[s].proc
             r == i.request
  <2>1. p \in Procs /\ r \in Requests
    BY <1>0 DEF SweepOwned, SweepStates, Items
  <2>2. \A q \in Procs : exec[q][r] = "none"
    BY <2>1 DEF SweptAlone, RedispatchItem, InFlightHere, isInFlight
  <2>3. exec' = [exec EXCEPT ![p][r] = "dispatched"] /\ UNCHANGED <<status, error, started>>
    BY DEF RedispatchItem, catalogVars
  <2>4. \A q \in Procs, w \in Requests :
          IF q = p /\ w = r THEN exec'[q][w] = "dispatched" ELSE exec'[q][w] = exec[q][w]
    BY <1>0, <2>1, <2>3
  <2>5. sweep' = Rest(s, sweep[s].todo \ {i})
    BY DEF RedispatchItem
  <2>6. /\ sweep'[s].terminating = None
        /\ \A z \in Sweeps : z # s => sweep'[z] = sweep[z]
    BY <2>5, RestTodo
  <2>7. FlightAlone'
    BY <2>2, <2>4 DEF RecoveryInv, FlightAlone, isInFlight
  <2>8. TerminatingIsStill'
    <3> SUFFICES ASSUME NEW z \in Sweeps, sweep'[z].terminating # None
                 PROVE  LET j == sweep'[z].terminating
                        IN  /\ j \in sweep'[z].todo
                            /\ status'[j.request] = j.status
                            /\ \A q \in Procs : exec'[q][j.request] = "none"
      BY DEF TerminatingIsStill, isInFlight
    <3> DEFINE j == sweep[z].terminating
    <3>1. z # s /\ sweep'[z] = sweep[z]
      BY <2>6
    <3>2. /\ j \in sweep[z].todo
          /\ status[j.request] = j.status
          /\ \A q \in Procs : exec[q][j.request] = "none"
      BY <3>1 DEF RecoveryInv, TerminatingIsStill, isInFlight
    <3>3. j.request # r /\ j.request \in Requests
      BY <1>0, <3>1, <3>2 DEF SweptAlone, SweepStates, Items
    <3>4. QED  BY <2>3, <2>4, <3>1, <3>2, <3>3
  <2>9. RecoverySparesLive' /\ AbandonedUnclaimed'
    BY <2>3, <2>4 DEF RecoveryInv, RecoverySparesLive, AbandonedUnclaimed, Live, Terminal
  <2>10. QED  BY <2>7, <2>8, <2>9 DEF RecoveryInv
<1>5. CASE \E s \in Sweeps : \E i \in sweep[s].todo : BeginTermination(s, i)
  <2> PICK s \in Sweeps : \E i \in sweep[s].todo : BeginTermination(s, i)  BY <1>5
  <2> PICK i \in sweep[s].todo : BeginTermination(s, i)  OBVIOUS
  <2>1. UNCHANGED <<status, exec, error, started>>
    BY DEF BeginTermination, catalogVars, restoreVars
  <2>2. sweep' = [sweep EXCEPT ![s].terminating = i]
    BY DEF BeginTermination
  <2>3. /\ sweep'[s].terminating = i
        /\ \A z \in Sweeps : /\ sweep'[z].todo = sweep[z].todo
                             /\ sweep'[z].proc = sweep[z].proc
                             /\ z # s => sweep'[z] = sweep[z]
    BY <1>0, <2>2 DEF SweepStates
  <2>4. \A q \in Procs : exec[q][i.request] = "none"
    BY DEF SweptAlone, BeginTermination, InFlightHere, isInFlight
  <2>5. status[i.request] = i.status
    BY DEF BeginTermination
  <2>6. TerminatingIsStill'
    BY <2>1, <2>3, <2>4, <2>5 DEF RecoveryInv, TerminatingIsStill, isInFlight
  <2>7. QED
    BY <2>1, <2>3, <2>6 DEF RecoveryInv, FlightAlone, RecoverySparesLive,
       AbandonedUnclaimed, isInFlight, Live, Terminal
<1>6. CASE \E s \in Sweeps : Terminate(s)
  <2> PICK s \in Sweeps : Terminate(s)  BY <1>6
  <2> DEFINE i == sweep[s].terminating
             r == i.request
             why == IF i.status = "running" THEN "interrupted" ELSE "abandoned"
  <2>1. /\ i \in sweep[s].todo
        /\ status[r] = i.status
        /\ \A q \in Procs : exec[q][r] = "none"
    BY DEF Terminate, RecoveryInv, TerminatingIsStill, isInFlight
  <2>2. i \in Items /\ r \in Requests /\ i.status \in ACTIVE_RESTORE_STATUSES
    BY <1>0, <2>1 DEF SweepStates, Items
  <2>3. persistTerminalState(r, "failed", why) /\ UNCHANGED <<exec, started>>
    BY DEF Terminate
  <2>4. ~AlreadyTerminal(r)
    BY <2>1, <2>2 DEF AlreadyTerminal, Terminal, ACTIVE_RESTORE_STATUSES,
       TERMINAL_RESTORE_STATUSES
  <2>5. status' = [status EXCEPT ![r] = "failed"] /\ error' = [error EXCEPT ![r] = why]
    BY <2>3, <2>4 DEF persistTerminalState
  <2>6. /\ sweep'[s].terminating = None
        /\ \A z \in Sweeps : z # s => sweep'[z] = sweep[z]
    BY RestTodo DEF Terminate
  <2>7. TerminatingIsStill'
    <3> SUFFICES ASSUME NEW z \in Sweeps, sweep'[z].terminating # None
                 PROVE  LET j == sweep'[z].terminating
                        IN  /\ j \in sweep'[z].todo
                            /\ status'[j.request] = j.status
                            /\ \A q \in Procs : exec'[q][j.request] = "none"
      BY DEF TerminatingIsStill, isInFlight
    <3> DEFINE j == sweep[z].terminating
    <3>1. z # s /\ sweep'[z] = sweep[z]
      BY <2>6
    <3>2. /\ j \in sweep[z].todo
          /\ status[j.request] = j.status
          /\ \A q \in Procs : exec[q][j.request] = "none"
      BY <3>1 DEF RecoveryInv, TerminatingIsStill, isInFlight
    <3>3. j.request # r /\ j.request \in Requests
      BY <1>0, <2>1, <3>1, <3>2 DEF SweptAlone, SweepStates, Items
    <3>4. QED  BY <1>0, <2>3, <2>5, <3>1, <3>2, <3>3
  <2>8. RecoverySparesLive'
    BY <1>0, <2>1, <2>3, <2>5 DEF RecoveryInv, RecoverySparesLive, Live
  <2>9. AbandonedUnclaimed'
    <3> SUFFICES ASSUME NEW w \in Requests, error'[w] = "abandoned"
                 PROVE  Terminal(w)' /\ started'[w] = 0
      BY DEF AbandonedUnclaimed
    <3>1. CASE w = r
      <4>1. status[r] = "pending"
        BY <1>0, <2>1, <2>2, <2>5, <3>1 DEF ACTIVE_RESTORE_STATUSES
      <4>2. QED
        BY <1>0, <2>3, <2>5, <3>1, <4>1 DEF OnceInv, Terminal, TERMINAL_RESTORE_STATUSES
    <3>2. CASE w # r
      BY <1>0, <2>3, <2>5, <3>2 DEF RecoveryInv, AbandonedUnclaimed, Terminal
    <3>3. QED  BY <3>1, <3>2
  <2>10. QED
    BY <2>3, <2>7, <2>8, <2>9 DEF RecoveryInv, FlightAlone, isInFlight
<1>7. CASE \E s \in Sweeps : TerminationThrows(s)
  <2> PICK s \in Sweeps : TerminationThrows(s)  BY <1>7
  <2>1. \A z \in Sweeps : sweep'[z] = IF z = s THEN Idle ELSE sweep[z]
    BY <1>0 DEF TerminationThrows
  <2>2. UNCHANGED <<status, exec, error, started>>
    BY DEF TerminationThrows, catalogVars, restoreVars
  <2>3. QED  BY <2>1, <2>2, RecoveryFrame DEF Idle
<1>8. QED
  BY <1>1, <1>2, <1>3, <1>4, <1>5, <1>6, <1>7 DEF ReconcilerStep

LEMMA RecoveryStep ==
  ASSUME TypeOK, RowInv, OnceInv, SweepOwned, SweptAlone, RecoveryInv,
         [Next]_reconciliationVars
  PROVE  RecoveryInv'
<1>0. exec \in [Procs -> [Requests -> Stages]]
  BY DEF TypeOK, RestoreTypeOK
<1>1. CASE RestoreStep /\ UNCHANGED sweep
  BY <1>1, RecoveryCall, RecoveryExecution DEF RestoreStep
<1>2. CASE ReconcilerStep
  BY <1>2, RecoverySweep
<1>3. CASE \E p \in Procs : Crash(p)
  <2> PICK p \in Procs : Crash(p)  BY <1>3
  <2>1. \A q \in Procs, r \in Requests : exec'[q][r] \in {exec[q][r], "none"}
    BY <1>0 DEF Crash, RestoreForgets
  <2>2. \A s \in Sweeps : sweep'[s] \in {Idle, sweep[s]}
    BY DEF Crash, SweepsForget
  <2>3. UNCHANGED <<status, error, started>>
    BY DEF Crash, RestoreForgets
  <2>4. TerminatingIsStill'
    BY <1>0, <2>1, <2>2, <2>3 DEF TypeOK, SweepTypeOK, Items, RecoveryInv,
       TerminatingIsStill, Idle, isInFlight
  <2>5. QED
    BY <2>1, <2>3, <2>4 DEF RecoveryInv, FlightAlone, RecoverySparesLive,
       AbandonedUnclaimed, isInFlight, Live, Terminal
<1>4. CASE \E p \in Procs : Restart(p)
  BY <1>4, RecoveryFrame DEF Restart, restoreVars
<1>5. CASE UNCHANGED reconciliationVars
  BY <1>5, RecoveryFrame DEF reconciliationVars, catalogVars, restoreVars
<1>6. QED  BY <1>1, <1>2, <1>3, <1>4, <1>5 DEF Next

LEMMA RecoveryInvariant == Spec /\ []SweptAlone => []RecoveryInv
<1>1. TypeOK /\ RowInv /\ OnceInv /\ SweepOwned /\ SweptAlone /\ RecoveryInv
        /\ [Next]_reconciliationVars => RecoveryInv'
  BY RecoveryStep
<1>2. QED
  BY RecoveryInit, <1>1, TypeCorrect, RowInvariant, OnceInvariant, OwnedInvariant, PTL
  DEF Spec

\* Recovery never fails a request whose pg_restore is running or waits to be
\* recorded, as long as sweeps work on their requests alone: after any crash, lock
\* timeout or late execution.
THEOREM RecoverySpares == Spec /\ []SweptAlone => []RecoverySparesLive
<1>1. RecoveryInv => RecoverySparesLive
  BY DEF RecoveryInv
<1>2. QED  BY <1>1, RecoveryInvariant, PTL

\* Under the same assumption an approval that expired was never acted upon.
THEOREM AbandonedWereIdle == Spec /\ []SweptAlone => []AbandonedNeverStarted
<1>1. RecoveryInv => AbandonedNeverStarted
  BY DEF RecoveryInv, AbandonedUnclaimed, AbandonedNeverStarted
<1>2. QED  BY <1>1, RecoveryInvariant, PTL

\* And no target is ever overwritten by two pg_restores at a time: the live ones
\* are those of running requests, of which the target has one, claimed once.
THEOREM TargetsRestoredAlone == Spec /\ []SweptAlone => []OneLiveRestorePerTarget
<1>1. OnceInv /\ OneActivePerTarget /\ RecoveryInv => OneLiveRestorePerTarget
  BY DEF OnceInv, OneActivePerTarget, RecoveryInv, RecoverySparesLive,
     OneLiveRestorePerTarget, Active, ACTIVE_RESTORE_STATUSES
<1>2. QED  BY <1>1, RecoveryInvariant, OnceInvariant, OneActiveRestore, PTL

\* One process whose sweeps do not overlap satisfies the assumption.
SingleSweeper ==
  /\ \A p, q \in Procs : p = q
  /\ \A s, z \in Sweeps : s = z

THEOREM SingleSweeperIsAlone ==
  ASSUME SingleSweeper
  PROVE  Spec => []SweptAlone
<1>1. SweepOwned => SweptAlone
  BY DEF SingleSweeper, SweepOwned, SweptAlone
<1>2. QED  BY <1>1, OwnedInvariant, PTL

----------------------------------------------------------------------------
(***************************************************************************)
(* The life of a request.  Each kind of step is a step of RestoreLife: the *)
(* insert is Accept, the claim Begin, the commit TakeEffect, a settling    *)
(* write Complete or Fail, and everything else leaves the request alone.   *)
(***************************************************************************)
BegunOnes == {r \in Requests : started[r] > 0}
RestoredOnes == {r \in Requests : effect[r] > 0}
TargetsOf == [r \in Requests |-> RestoreTarget(r)]

LEMMA LifeInits == Init => RequestLife!LifeInit
<1> SUFFICES ASSUME Init  PROVE RequestLife!LifeInit
  OBVIOUS
<1>1. TargetsOf \in [Requests -> Targets]
  BY TypeInit, RunOfRequest, CatalogAssumption DEF TargetsOf, RestoreTarget
<1>2. BegunOnes = {} /\ RestoredOnes = {}
  BY DEF Init, RestoreInit, BegunOnes, RestoredOnes
<1>3. status = [r \in Requests |-> "absent"]
  BY DEF Init, CatalogInit
<1>4. QED
  BY <1>1, <1>2, <1>3 DEF RequestLife!LifeInit, TargetsOf, BegunOnes, RestoredOnes

LEMMA LifeAccept ==
  ASSUME TypeOK, RowInv, UNCHANGED dto, NEW r \in Requests, PinInserts(r)
  PROVE  RequestLife!Accept(r)
<1>1. status[r] = "absent"
  BY DEF PinInserts, RowInv, Stored
<1>2. RequestLife!Holders(TargetsOf[r]) = {}
  BY InsertMeetsIndexes DEF RequestLife!Holders, TargetsOf, ActiveRestoresOn, Active,
     ACTIVE_RESTORE_STATUSES
<1>3. status' = [status EXCEPT ![r] = "pending"] /\ UNCHANGED <<started, effect>>
  BY DEF PinInserts
<1>4. TargetsOf' = TargetsOf
  BY DEF TargetsOf, RestoreTarget, BackupRunOf
<1>5. QED
  BY <1>1, <1>2, <1>3, <1>4 DEF RequestLife!Accept, RequestLife!Becomes, TargetsOf

LEMMA LifeBegin ==
  ASSUME TypeOK, OnceInv, UNCHANGED dto, NEW p \in Procs, NEW r \in Requests, Claims(p, r)
  PROVE  RequestLife!Begin(r)
<1>1. status[r] = "pending" /\ started[r] = 0
  BY DEF Claims, Claimable, OnceInv
<1>2. /\ status' = [status EXCEPT ![r] = "running"]
      /\ started' = [started EXCEPT ![r] = started[r] + 1]
      /\ UNCHANGED effect
  BY DEF Claims, claimForExecution
<1>3. BegunOnes' = BegunOnes \cup {r} /\ r \notin BegunOnes
  BY <1>1, <1>2 DEF BegunOnes, TypeOK, RestoreTypeOK
<1>4. TargetsOf' = TargetsOf
  BY DEF TargetsOf, RestoreTarget, BackupRunOf
<1>5. QED
  BY <1>1, <1>2, <1>3, <1>4 DEF RequestLife!Begin, RequestLife!Becomes, BegunOnes, TargetsOf

LEMMA LifeEffect ==
  ASSUME TypeOK, OnceInv, UNCHANGED dto, NEW p \in Procs, NEW r \in Requests,
         PgRestoreCommits(p, r)
  PROVE  RequestLife!TakeEffect(r)
<1>1. started[r] = 1 /\ effect[r] = 0
  BY DEF PgRestoreCommits, Stage, OnceInv
<1>2. effect' = [effect EXCEPT ![r] = effect[r] + 1] /\ UNCHANGED <<status, started>>
  BY DEF PgRestoreCommits, catalogVars
<1>3. /\ RestoredOnes' = RestoredOnes \cup {r}
      /\ r \in BegunOnes \ RestoredOnes
  BY <1>1, <1>2 DEF BegunOnes, RestoredOnes, TypeOK, RestoreTypeOK
<1>4. TargetsOf' = TargetsOf
  BY DEF TargetsOf, RestoreTarget, BackupRunOf
<1>5. QED
  BY <1>2, <1>3, <1>4 DEF RequestLife!TakeEffect, BegunOnes, RestoredOnes, TargetsOf

LEMMA LifeSettles ==
  ASSUME TypeOK, OnceInv, UNCHANGED dto, NEW r \in Requests,
         NEW s \in TERMINAL_RESTORE_STATUSES, NEW why, Settles(r, s, why)
  PROVE  RequestLife!Complete(r) \/ RequestLife!Fail(r)
<1>1. /\ status[r] \in {"pending", "running"}
      /\ status' = [status EXCEPT ![r] = s]
      /\ UNCHANGED <<started, effect>>
  BY DEF Settles, Active, ACTIVE_RESTORE_STATUSES
<1>2. TargetsOf' = TargetsOf
  BY DEF TargetsOf, RestoreTarget, BackupRunOf
<1>3. CASE s = "failed"
  BY <1>1, <1>2, <1>3 DEF RequestLife!Fail, RequestLife!Becomes, TargetsOf
<1>4. CASE s = "completed"
  <2>1. status[r] = "running" /\ effect[r] = 1
    BY <1>1, <1>4 DEF Settles, OnceInv, Live
  <2>2. r \in RestoredOnes
    BY <2>1 DEF RestoredOnes
  <2>3. QED
    BY <1>1, <1>2, <1>4, <2>1, <2>2 DEF RequestLife!Complete, RequestLife!Becomes,
       RestoredOnes, TargetsOf
<1>5. QED  BY <1>3, <1>4 DEF TERMINAL_RESTORE_STATUSES

LifeStutters == UNCHANGED <<status, TargetsOf, BegunOnes, RestoredOnes>>

LEMMA LifeStep ==
  ASSUME TypeOK, RowInv, OnceInv, [Next]_reconciliationVars
  PROVE  RequestLife!LifeNext \/ LifeStutters
<1>0. StepKind /\ UNCHANGED dto
  BY StepKinds, SubmissionsFixed
<1>1. CASE Quiet
  BY <1>0, <1>1 DEF Quiet, LifeStutters, TargetsOf, BegunOnes, RestoredOnes,
     RestoreTarget, BackupRunOf
<1>2. CASE \E c \in Requests : PinInserts(c)
  BY <1>0, <1>2, LifeAccept DEF RequestLife!LifeNext
<1>3. CASE \E p \in Procs, r \in Requests : Claims(p, r)
  BY <1>0, <1>3, LifeBegin DEF RequestLife!LifeNext
<1>4. CASE \E p \in Procs, r \in Requests : PgRestoreCommits(p, r)
  BY <1>0, <1>4, LifeEffect DEF RequestLife!LifeNext
<1>5. CASE SomeSettles
  BY <1>0, <1>5, LifeSettles DEF SomeSettles, RequestLife!LifeNext
<1>6. QED  BY <1>0, <1>1, <1>2, <1>3, <1>4, <1>5 DEF StepKind

\* Calls, executions and sweeps, in any number of processes that crash and restart,
\* implement the life a client is promised of a request.
THEOREM RequestsLiveAsPromised == Spec => ImplementsRequestLife
<1>1. TypeOK /\ RowInv /\ OnceInv /\ [Next]_reconciliationVars
        => [RequestLife!LifeNext]_<<status, TargetsOf, BegunOnes, RestoredOnes>>
  BY LifeStep DEF LifeStutters
<1>2. QED
  BY LifeInits, <1>1, TypeCorrect, RowInvariant, OnceInvariant, PTL
  DEF Spec, ImplementsRequestLife, RequestLife!LifeSpec, RequestLife!lifeVars,
      TargetsOf, BegunOnes, RestoredOnes
=============================================================================
