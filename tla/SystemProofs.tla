---------------------------- MODULE SystemProofs ----------------------------
(***************************************************************************)
(* Machine-checked facts about BackupSystem: restores, their recovery and  *)
(* any number of overlapping cleanups, in any number of processes, over    *)
(* one catalog and one object store, after any crash or wal-g failure.     *)
(***************************************************************************)
EXTENDS BackupSystem, RestoreProofs, FiniteSetTheorems

----------------------------------------------------------------------------
(***************************************************************************)
(* The newest verified run exists: a job has finitely many runs, and no    *)
(* two of them started at the same time.                                   *)
(***************************************************************************)
LEMMA SmallestNumber ==
  ASSUME NEW T \in SUBSET Nat, T # {}
  PROVE  \E n \in T : \A m \in T : n <= m
<1>1. PICK n \in T : \A m \in T : <<m, n>> \notin OpToRel(<, Nat)
  BY WFMin, NatLessThanWellFounded
<1>2. \A m \in T : ~(m < n)
  BY <1>1 DEF OpToRel
<1>3. QED  BY <1>2

\* A function on a finite set has a largest value: a smallest set without one
\* would leave a smaller one without one.
LEMMA LargestValue ==
  ASSUME NEW S, NEW f \in [S -> Nat], IsFiniteSet(S), S # {}
  PROVE  \E x \in S : \A y \in S : f[y] <= f[x]
<1> DEFINE HasLargest(T) == \E x \in T : \A y \in T : f[y] <= f[x]
           Bad == {T \in SUBSET S : T # {} /\ ~HasLargest(T)}
           Sizes == {Cardinality(T) : T \in Bad}
<1>1. SUFFICES ASSUME Bad # {}  PROVE FALSE
  OBVIOUS
<1>2. \A T \in SUBSET S : IsFiniteSet(T) /\ Cardinality(T) \in Nat
  BY FS_Subset, FS_CardinalityType
<1>3. PICK n \in Sizes : \A m \in Sizes : n <= m
  <2>1. Sizes \in SUBSET Nat /\ Sizes # {}
    BY <1>1, <1>2
  <2>2. QED  BY <2>1, SmallestNumber
<1>4. PICK T \in Bad : \A U \in Bad : Cardinality(T) <= Cardinality(U)
  BY <1>3
<1>5. PICK x \in T : TRUE
  OBVIOUS
<1>6. Cardinality(T \ {x}) < Cardinality(T)
  <2>1. IsFiniteSet(T) /\ Cardinality(T) \in Nat
    BY <1>2
  <2>2. Cardinality(T \ {x}) = Cardinality(T) - 1
    BY <2>1, FS_RemoveElement
  <2>3. QED  BY <2>1, <2>2
<1>7. T \ {x} \notin Bad
  <2>1. Cardinality(T) \in Nat /\ Cardinality(T \ {x}) \in Nat
    BY <1>2
  <2>2. T \ {x} \in Bad => Cardinality(T) <= Cardinality(T \ {x})
    BY <1>4
  <2>3. QED  BY <1>6, <2>1, <2>2
<1>8. CASE T \ {x} = {}
  BY <1>8
<1>9. CASE T \ {x} # {}
  <2>1. PICK y \in T \ {x} : \A z \in T \ {x} : f[z] <= f[y]
    BY <1>7, <1>9
  <2>2. f[x] \in Nat /\ f[y] \in Nat /\ \A z \in T : f[z] \in Nat
    OBVIOUS
  <2>3. CASE f[x] <= f[y]
    BY <2>1, <2>3
  <2>4. CASE f[y] < f[x]
    BY <2>1, <2>2, <2>4
  <2>5. QED  BY <2>2, <2>3, <2>4
<1>10. QED  BY <1>8, <1>9

LEMMA NewestExists ==
  ASSUME NEW T \in SUBSET Runs, T # {}
  PROVE  \E b \in T : \A a \in T : a = b \/ Newer(b, a)
<1> DEFINE when == [b \in T |-> StartedAt[b]]
<1>1. IsFiniteSet(T)
  BY RetentionAssumption, FS_Subset
<1>2. when \in [T -> Nat]
  BY RetentionAssumption
<1>3. PICK b \in T : \A a \in T : when[a] <= when[b]
  BY <1>1, <1>2, LargestValue
<1>4. ASSUME NEW a \in T, a # b  PROVE Newer(b, a)
  <2>1. StartedAt[a] <= StartedAt[b] /\ StartedAt[a] # StartedAt[b]
    BY <1>3, <1>4, RetentionAssumption
  <2>2. QED  BY <2>1, RetentionAssumption DEF Newer
<1>5. QED  BY <1>4

LEMMA NewestVerifiedIsAnchor ==
  ASSUME NEW j \in Jobs, Anchors(j) # {}
  PROVE  NewestVerified(j) \in Anchors(j)
<1>1. \E b \in Anchors(j) : \A a \in Anchors(j) : a = b \/ Newer(b, a)
  BY NewestExists DEF Anchors, RunsOf
<1>2. QED  BY <1>1 DEF NewestVerified

----------------------------------------------------------------------------
(***************************************************************************)
(* The steps of the composition.  A cleanup reads rows and touches only    *)
(* locks, objects, paths and itself; every other step is one of restore    *)
(* and recovery, and a crash also ends the cleanups of its process.        *)
(***************************************************************************)
CleanupMoves(k) == CleanupStep(k) /\ UNCHANGED <<restoreVars, sweep>>

RestoreMoves ==
  /\ [Next]_reconciliationVars
  /\ UNCHANGED <<retentionVars, crashes>> \/ \E p \in Procs : SystemCrash(p)

LEMMA SystemSteps ==
  ASSUME [SystemNext]_systemVars
  PROVE  RestoreMoves \/ \E k \in Cleanups : CleanupMoves(k)
<1>1. CASE RestoreStep /\ UNCHANGED <<sweep, retentionVars>>
  <2>1. UNCHANGED crashes
    BY <1>1 DEF RestoreStep, CallStep, create, PinChecks, PinLockTimeout, PinInserts,
       PinRollsBack, ResolveCollision, ExecutionStep, LoadForExecution,
       claimForExecution, ClaimDeferred, PgRestoreCommits, RestorePairFails,
       recordSuccess, recordFailure, RecordThrows, catalogVars
  <2>2. QED  BY <1>1, <2>1 DEF RestoreMoves, Next
<1>2. CASE ReconcilerStep /\ UNCHANGED retentionVars
  <2>1. UNCHANGED crashes
    BY <1>2 DEF ReconcilerStep, Elapse, StartSweep, SkipItem, RedispatchItem,
       BeginTermination, Terminate, TerminationThrows, catalogVars
  <2>2. QED  BY <1>2, <2>1 DEF RestoreMoves, Next
<1>3. CASE \E p \in Procs : SystemCrash(p)
  BY <1>3 DEF SystemCrash, RestoreMoves, Next
<1>4. CASE \E p \in Procs : Restart(p) /\ UNCHANGED retentionVars
  BY <1>4 DEF RestoreMoves, Next, Restart
<1>5. CASE UNCHANGED systemVars
  BY <1>5 DEF systemVars, RestoreMoves, reconciliationVars, catalogVars
<1>6. QED
  BY <1>1, <1>2, <1>3, <1>4, <1>5 DEF SystemNext, CleanupMoves

\* The rows a cleanup leaves alone.
LEMMA CleanupKeepsRows ==
  ASSUME NEW k \in Cleanups, CleanupMoves(k)
  PROVE  UNCHANGED <<up, crashes, dto, status, verification, restoreVars, sweep>>
  BY DEF CleanupMoves, CleanupStep, StartCleanup, ProbeAnchor, ProbeUnproven,
     LockCandidate, CandidateLockTimeout, RemoveObject, RemoveFails, ClearPath,
     ClearPathFails, catalogVars

----------------------------------------------------------------------------
(* Type correctness of the composition. *)

CleanupStates == [proc : Procs \cup {None}, step : CleanupSteps,
                  anchor : Runs \cup {None}, todo : SUBSET Runs,
                  run : Runs \cup {None}]

LEMMA NoCleanupIsState == NoCleanup \in CleanupStates
  BY DEF NoCleanup, CleanupStates, CleanupSteps

\* What the bookkeeping of cleanup k does to the cleanups.
LEMMA ContinueKind ==
  ASSUME RetentionTypeOK, NEW k \in Cleanups, NEW todo \in SUBSET Runs,
         Continue(k, todo)
  PROVE  /\ cleanup' \in [Cleanups -> CleanupStates]
         /\ \A l \in Cleanups \ {k} : cleanup'[l] = cleanup[l]
         /\ \/ cleanup'[k] = NoCleanup
            \/ /\ cleanup'[k].step = "loop"
               /\ cleanup'[k].todo = todo
               /\ cleanup'[k].anchor = cleanup[k].anchor
               /\ cleanup'[k].proc = cleanup[k].proc
<1>1. cleanup \in [Cleanups -> CleanupStates]
  BY DEF RetentionTypeOK, CleanupStates
<1>2. CASE todo = {}
  BY <1>1, <1>2, NoCleanupIsState DEF Continue
<1>3. CASE todo # {}
  <2> DEFINE next == [cleanup[k] EXCEPT !.step = "loop", !.todo = todo, !.run = None]
  <2>1. cleanup' = [cleanup EXCEPT ![k] = next]
    BY <1>3 DEF Continue
  <2>2. /\ next \in CleanupStates
        /\ next.step = "loop" /\ next.todo = todo
        /\ next.anchor = cleanup[k].anchor /\ next.proc = cleanup[k].proc
    BY <1>1 DEF CleanupStates, CleanupSteps
  <2>3. QED  BY <1>1, <2>1, <2>2
<1>4. QED  BY <1>2, <1>3

(***************************************************************************)
(* What a step of cleanup k does.  It starts; it moves on between          *)
(* candidates; it takes a candidate's lock; it removes the object; or it   *)
(* lets go of the candidate, with its path cleared or an error counted.    *)
(***************************************************************************)
Removing(k) == cleanup[k].step \in {"removing", "removed"}

Others(k) == \A l \in Cleanups \ {k} : cleanup'[l] = cleanup[l]

CleanupStarts(k) ==
  /\ cleanup[k].step = "idle"
  /\ \E p \in Procs, j \in Jobs :
       /\ NewestVerified(j) \in Anchors(j)
       /\ cleanup'[k] = [proc |-> p, step |-> "probe", anchor |-> NewestVerified(j),
                         todo |-> {b \in Expired(j, NewestVerified(j)) : ~Verifying(b)},
                         run |-> None]
  /\ UNCHANGED <<path, object, lock, failures, cut>>

\* Its list only shrinks, and the loop is entered over a proven anchor.
ListShrinks(k) ==
  \/ cleanup'[k] = NoCleanup
  \/ /\ cleanup'[k].step = "loop"
     /\ cleanup'[k].todo \subseteq cleanup[k].todo
     /\ cleanup'[k].anchor = cleanup[k].anchor
     /\ cleanup'[k].proc = cleanup[k].proc

CleanupMovesOn(k) ==
  /\ cleanup[k].step \in {"probe", "loop"}
  /\ cleanup[k].step = "probe" =>
       cleanup'[k] = NoCleanup \/ object[cleanup[k].anchor]
  /\ ListShrinks(k)
  /\ UNCHANGED <<path, object, lock, failures, cut>>

CleanupTakes(k, b) ==
  /\ cleanup[k].step = "loop"
  /\ b \in cleanup[k].todo
  /\ LockFree(b)
  /\ ~StillPinned(b)
  /\ lock' = [lock EXCEPT ![b] = cleanup[k].proc]
  /\ cleanup'[k] = [cleanup[k] EXCEPT !.step = "removing", !.run = b]
  /\ UNCHANGED <<path, object, failures, cut>>

CleanupRemoves(k) ==
  /\ cleanup[k].step = "removing"
  /\ object' = [object EXCEPT ![cleanup[k].run] = FALSE]
  /\ cleanup'[k] = [cleanup[k] EXCEPT !.step = "removed"]
  /\ UNCHANGED <<path, lock, failures, cut>>

CleanupLetsGo(k) ==
  /\ Removing(k)
  /\ ListShrinks(k)
  /\ lock' = [lock EXCEPT ![cleanup[k].run] = None]
  /\ \/ /\ cleanup[k].step = "removed"
        /\ path' = [path EXCEPT ![cleanup[k].run] = FALSE]
        /\ UNCHANGED <<failures, cut>>
     \/ /\ UNCHANGED path
        /\ failures' = failures + 1
        /\ cut' = IF cleanup[k].step = "removed" THEN cut \cup {cleanup[k].run} ELSE cut
  /\ failures' \in 0..MaxFailures
  /\ UNCHANGED object

CleanupKind(k) ==
  /\ Others(k)
  /\ \/ CleanupStarts(k)
     \/ CleanupMovesOn(k)
     \/ \E b \in Runs : CleanupTakes(k, b)
     \/ CleanupRemoves(k)
     \/ CleanupLetsGo(k)

LEMMA CleanupKinds ==
  ASSUME TypeOK, RetentionTypeOK, NEW k \in Cleanups, CleanupMoves(k)
  PROVE  CleanupKind(k) /\ cleanup' \in [Cleanups -> CleanupStates]
<1>0. /\ cleanup \in [Cleanups -> CleanupStates]
      /\ cleanup[k] \in CleanupStates
      /\ cleanup[k].todo \subseteq Runs
  BY DEF RetentionTypeOK, CleanupStates
<1>a. failures \in 0..MaxFailures /\ MaxFailures \in Nat
  BY RetentionAssumption DEF RetentionTypeOK
<1>1. ASSUME NEW todo \in SUBSET cleanup[k].todo, Continue(k, todo)
      PROVE  /\ ListShrinks(k) /\ Others(k)
             /\ cleanup' \in [Cleanups -> CleanupStates]
  BY <1>0, <1>1, ContinueKind DEF ListShrinks, Others
<1>2. CASE \E p \in Procs, j \in Jobs : StartCleanup(k, p, j)
  <2> PICK p \in Procs, j \in Jobs : StartCleanup(k, p, j)  BY <1>2
  <2> DEFINE a == NewestVerified(j)
             new == [proc |-> p, step |-> "probe", anchor |-> a,
                     todo |-> {b \in Expired(j, a) : ~Verifying(b)}, run |-> None]
  <2>1. a \in Anchors(j)
    BY NewestVerifiedIsAnchor DEF StartCleanup
  <2>2. new \in CleanupStates
    BY <2>1 DEF CleanupStates, CleanupSteps, Anchors, RunsOf, Expired
  <2>3. cleanup' = [cleanup EXCEPT ![k] = new]
    BY DEF StartCleanup
  <2>4. cleanup'[k] = new /\ Others(k) /\ cleanup' \in [Cleanups -> CleanupStates]
    BY <1>0, <2>2, <2>3 DEF Others
  <2>5. CleanupStarts(k)
    BY <2>1, <2>4 DEF StartCleanup, CleanupStarts, catalogVars
  <2>6. QED  BY <2>4, <2>5 DEF CleanupKind
<1>3. CASE ProbeAnchor(k)
  <2>1. ListShrinks(k) /\ Others(k) /\ cleanup' \in [Cleanups -> CleanupStates]
    BY <1>1, <1>3 DEF ProbeAnchor
  <2>2. CleanupMovesOn(k)
    BY <1>3, <2>1 DEF ProbeAnchor, AnchorPresent, CleanupMovesOn, catalogVars
  <2>3. QED  BY <2>1, <2>2 DEF CleanupKind
<1>4. CASE ProbeUnproven(k)
  BY <1>0, <1>4, NoCleanupIsState DEF ProbeUnproven, Finish, CleanupMovesOn,
     ListShrinks, Others, CleanupKind, catalogVars
<1>5. ASSUME NEW b \in cleanup[k].todo, LockCandidate(k, b)
      PROVE  CleanupKind(k) /\ cleanup' \in [Cleanups -> CleanupStates]
  <2>1. CASE StillPinned(b)
    <3>1. ListShrinks(k) /\ Others(k) /\ cleanup' \in [Cleanups -> CleanupStates]
      BY <1>1, <1>5, <2>1 DEF LockCandidate
    <3>2. CleanupMovesOn(k)
      BY <1>5, <2>1, <3>1 DEF LockCandidate, CleanupMovesOn
    <3>3. QED  BY <3>1, <3>2 DEF CleanupKind
  <2>2. CASE ~StillPinned(b)
    <3> DEFINE new == [cleanup[k] EXCEPT !.step = "removing", !.run = b]
    <3>1. cleanup' = [cleanup EXCEPT ![k] = new]
      BY <1>0, <1>5, <2>2 DEF LockCandidate
    <3>2. new \in CleanupStates
      BY <1>0 DEF CleanupStates, CleanupSteps
    <3>3. cleanup'[k] = new /\ Others(k) /\ cleanup' \in [Cleanups -> CleanupStates]
      BY <1>0, <3>1, <3>2 DEF Others
    <3>4. CleanupTakes(k, b)
      BY <1>5, <2>2, <3>3 DEF LockCandidate, AcquireRunLock, CleanupTakes
    <3>5. QED  BY <1>0, <3>3, <3>4 DEF CleanupKind
  <2>3. QED  BY <2>1, <2>2
<1>6. ASSUME NEW b \in cleanup[k].todo, CandidateLockTimeout(k, b)
      PROVE  CleanupKind(k) /\ cleanup' \in [Cleanups -> CleanupStates]
  <2>1. ListShrinks(k) /\ Others(k) /\ cleanup' \in [Cleanups -> CleanupStates]
    BY <1>1, <1>6 DEF CandidateLockTimeout
  <2>2. CleanupMovesOn(k)
    BY <1>6, <2>1 DEF CandidateLockTimeout, CleanupMovesOn, catalogVars
  <2>3. QED  BY <2>1, <2>2 DEF CleanupKind
<1>7. CASE RemoveObject(k)
  <2> DEFINE new == [cleanup[k] EXCEPT !.step = "removed"]
  <2>1. cleanup' = [cleanup EXCEPT ![k] = new] /\ new \in CleanupStates
    BY <1>0, <1>7 DEF RemoveObject, CleanupStates, CleanupSteps
  <2>2. cleanup'[k] = new /\ Others(k) /\ cleanup' \in [Cleanups -> CleanupStates]
    BY <1>0, <2>1 DEF Others
  <2>3. CleanupRemoves(k)
    BY <1>7, <2>2 DEF RemoveObject, CleanupRemoves
  <2>4. QED  BY <2>2, <2>3 DEF CleanupKind
<1>8. CASE RemoveFails(k) \/ ClearPath(k) \/ ClearPathFails(k)
  <2>1. Continue(k, cleanup[k].todo \ {cleanup[k].run})
    BY <1>8 DEF RemoveFails, ClearPath, ClearPathFails
  <2>2. ListShrinks(k) /\ Others(k) /\ cleanup' \in [Cleanups -> CleanupStates]
    BY <1>1, <2>1
  <2>3. CleanupLetsGo(k)
    BY <1>8, <1>a, <2>2 DEF RemoveFails, ClearPath, ClearPathFails, CleanupLetsGo,
       Removing, ReleaseRunLock
  <2>4. QED  BY <2>2, <2>3 DEF CleanupKind
<1>9. QED
  BY <1>2, <1>3, <1>4, <1>5, <1>6, <1>7, <1>8 DEF CleanupMoves, CleanupStep

LEMMA SystemTypeCleanup ==
  ASSUME SystemTypeOK, NEW k \in Cleanups, CleanupMoves(k)
  PROVE  SystemTypeOK'
<1>0. /\ CleanupKind(k) /\ cleanup' \in [Cleanups -> CleanupStates]
      /\ cleanup[k] \in CleanupStates
  BY CleanupKinds DEF SystemTypeOK, RetentionTypeOK, CleanupStates
<1>1. UNCHANGED <<up, crashes, dto, status, verification, restoreVars, sweep>>
  BY CleanupKeepsRows
<1>2. /\ path \in [Runs -> BOOLEAN] /\ object \in [Runs -> BOOLEAN]
      /\ lock \in [Runs -> Procs \cup {None}] /\ failures \in 0..MaxFailures
      /\ cut \subseteq Runs \cup {None}
  BY DEF SystemTypeOK, TypeOK, CatalogTypeOK, RetentionTypeOK
<1>3. /\ path' \in [Runs -> BOOLEAN]
      /\ object' \in [Runs -> BOOLEAN]
      /\ lock' \in [Runs -> Procs \cup {None}]
      /\ failures' \in 0..MaxFailures /\ cut' \subseteq Runs \cup {None}
  <2>1. CASE CleanupStarts(k) \/ CleanupMovesOn(k)
    BY <1>2, <2>1 DEF CleanupStarts, CleanupMovesOn
  <2>2. CASE \E b \in Runs : CleanupTakes(k, b)
    BY <1>0, <1>2, <2>2 DEF CleanupTakes, CleanupStates
  <2>3. CASE CleanupRemoves(k)
    BY <1>2, <2>3 DEF CleanupRemoves
  <2>4. CASE CleanupLetsGo(k)
    BY <1>0, <1>2, <2>4 DEF CleanupLetsGo, CleanupStates
  <2>5. QED  BY <1>0, <2>1, <2>2, <2>3, <2>4 DEF CleanupKind
<1>4. QED
  BY <1>0, <1>1, <1>3 DEF SystemTypeOK, TypeOK, CatalogTypeOK, RestoreTypeOK,
     SweepTypeOK, RetentionTypeOK, CleanupStates, restoreVars

LEMMA SystemTypeStep ==
  ASSUME SystemTypeOK, [SystemNext]_systemVars
  PROVE  SystemTypeOK'
<1>1. CASE RestoreMoves
  <2>1. TypeOK'
    BY <1>1, TypeStep DEF SystemTypeOK, RestoreMoves
  <2>2. /\ cleanup' \in [Cleanups -> CleanupStates] /\ failures' \in 0..MaxFailures
        /\ cut' \subseteq Runs \cup {None}
    BY <1>1, NoCleanupIsState DEF RestoreMoves, SystemCrash, CleanupsForget, CutOff,
       SystemTypeOK, RetentionTypeOK, CleanupStates, retentionVars
  <2>3. QED  BY <2>1, <2>2 DEF SystemTypeOK, RetentionTypeOK, CleanupStates
<1>2. CASE \E k \in Cleanups : CleanupMoves(k)
  BY <1>2, SystemTypeCleanup
<1>3. QED  BY <1>1, <1>2, SystemSteps

LEMMA SystemTypeInit == SystemInit => SystemTypeOK
  BY TypeInit, NoCleanupIsState, RetentionAssumption
  DEF SystemInit, RetentionInit, SystemTypeOK, RetentionTypeOK, CleanupStates

\* Every variable keeps its type with restores, recovery and cleanups together.
THEOREM SystemTypeCorrect == SystemSpec => []SystemTypeOK
<1>1. SystemTypeOK /\ [SystemNext]_systemVars => SystemTypeOK'
  BY SystemTypeStep
<1>2. QED  BY SystemTypeInit, <1>1, PTL DEF SystemSpec

----------------------------------------------------------------------------
(***************************************************************************)
(* What restores promise they also promise next to retention: cleanups     *)
(* change no row, call, execution or sweep.                                *)
(***************************************************************************)
RestorePromises ==
  /\ OneActivePerTarget
  /\ OneRowPerKey
  /\ ExecutedAtMostOnce
  /\ AnswersMatch
  /\ AuditedOnce
  /\ VerifyingIffRunning
  /\ SuccessWasCommitted

RestoreInv ==
  /\ RowInv
  /\ OnceInv
  /\ SweepOwned
  /\ OneActivePerTarget
  /\ OneRowPerKey
  /\ AnswersMatch
  /\ AuditedOnce
  /\ VerifyingIffRunning
  /\ VerifiedWasCompleted

LEMMA RestoreInvInit == Init => RestoreInv
<1>1. Init => SweepOwned /\ OneActivePerTarget /\ OneRowPerKey
  BY DEF Init, CatalogInit, SweepOwned, Idle, OneActivePerTarget, OneRowPerKey, Active,
     ACTIVE_RESTORE_STATUSES
<1>2. Init => AuditedOnce /\ VerifyingIffRunning /\ VerifiedWasCompleted
  BY DEF Init, CatalogInit, RestoreInit, AuditedOnce, AuditActions,
     TERMINAL_RESTORE_STATUSES, VerifyingIffRunning, VerifiedWasCompleted
<1>3. QED
  BY <1>1, <1>2, RowInit, OnceInit, AnswersInit DEF RestoreInv

LEMMA RestoreInvStep ==
  ASSUME TypeOK, TypeOK', RestoreInv, [Next]_reconciliationVars
  PROVE  RestoreInv'
<1>1. RowInv' /\ OnceInv' /\ SweepOwned'
  BY RowStep, OnceStep, OwnedStep DEF RestoreInv
<1>2. OneActivePerTarget' /\ OneRowPerKey' /\ AnswersMatch' /\ AuditedOnce'
  BY SlotStep, KeyStep, AnswersStep, AuditStep DEF RestoreInv
<1>3. VerifyingIffRunning' /\ VerifiedWasCompleted'
  BY VerifyingStep, VerifiedStep DEF RestoreInv
<1>4. QED  BY <1>1, <1>2, <1>3 DEF RestoreInv

LEMMA RestoreInvFrame ==
  ASSUME RestoreInv, UNCHANGED <<dto, status, verification, restoreVars, sweep>>
  PROVE  RestoreInv'
<1> USE DEF RestoreInv, restoreVars
<1>1. RowInv'  BY DEF RowInv, Stored
<1>2. OnceInv'  BY DEF OnceInv, Live
<1>3. SweepOwned' /\ OneActivePerTarget' /\ OneRowPerKey'
  BY DEF SweepOwned, OneActivePerTarget, OneRowPerKey, Active, RestoreTarget,
     BackupRunOf
<1>4. AnswersMatch'  BY DEF AnswersMatch
<1>5. AuditedOnce'  BY DEF AuditedOnce
<1>6. VerifyingIffRunning' /\ VerifiedWasCompleted'
  BY DEF VerifyingIffRunning, VerifiedWasCompleted, BackupRunOf
<1>7. QED  BY <1>1, <1>2, <1>3, <1>4, <1>5, <1>6

LEMMA RestoreInvariant == SystemSpec => []RestoreInv
<1>1. SystemInit => RestoreInv
  BY RestoreInvInit DEF SystemInit
<1>2. ASSUME SystemTypeOK, SystemTypeOK', RestoreInv, [SystemNext]_systemVars
      PROVE  RestoreInv'
  <2>1. CASE RestoreMoves
    BY <1>2, <2>1, RestoreInvStep DEF RestoreMoves, SystemTypeOK
  <2>2. CASE \E k \in Cleanups : CleanupMoves(k)
    BY <1>2, <2>2, CleanupKeepsRows, RestoreInvFrame
  <2>3. QED  BY <1>2, <2>1, <2>2, SystemSteps
<1>3. QED  BY <1>1, <1>2, SystemTypeCorrect, PTL DEF SystemSpec

\* Retention takes nothing away from what a restore promises: one active restore
\* per target, one row per key, one execution, a matching answer, a complete trail,
\* an exact VERIFYING mark and no success without a committed pg_restore.
THEOREM PromisesKeptBesideRetention == SystemSpec => []RestorePromises
<1>1. RestoreInv => RestorePromises
  BY DEF RestoreInv, RestorePromises, OnceInv, ExecutedAtMostOnce,
     VerifiedWasCompleted, SuccessWasCommitted
<1>2. QED  BY <1>1, RestoreInvariant, PTL

LEMMA SystemFinalStep ==
  ASSUME SystemTypeOK, RestoreInv, [SystemNext]_systemVars, NEW r \in Requests,
         Terminal(r)
  PROVE  <<status'[r], error'[r], audit'[r]>> = <<status[r], error[r], audit[r]>>
<1>1. CASE RestoreMoves
  BY <1>1, FinalStep DEF RestoreMoves, SystemTypeOK, RestoreInv
<1>2. CASE \E k \in Cleanups : CleanupMoves(k)
  BY <1>2, CleanupKeepsRows DEF restoreVars
<1>3. QED  BY <1>1, <1>2, SystemSteps

\* Nor does retention reopen or rewrite an outcome.
THEOREM OutcomesFinalBesideRetention == SystemSpec => TerminalIsFinal
<1>1. SystemTypeOK /\ RestoreInv /\ [SystemNext]_systemVars
        => [\A r \in Requests : Terminal(r) =>
             <<status'[r], error'[r], audit'[r]>> = <<status[r], error[r], audit[r]>>
           ]_reconciliationVars
  BY SystemFinalStep
<1>2. QED
  BY <1>1, SystemTypeCorrect, RestoreInvariant, PTL DEF SystemSpec, TerminalIsFinal

\* A request lives as promised when cleanups run next to it.
THEOREM RequestsLiveBesideRetention == SystemSpec => ImplementsRequestLife
<1>1. ASSUME SystemTypeOK, RestoreInv, [SystemNext]_systemVars
      PROVE  [RequestLife!LifeNext]_<<status, TargetsOf, BegunOnes, RestoredOnes>>
  <2>1. CASE RestoreMoves
    BY <1>1, <2>1, LifeStep DEF RestoreMoves, SystemTypeOK, RestoreInv, LifeStutters
  <2>2. CASE \E k \in Cleanups : CleanupMoves(k)
    BY <1>1, <2>2, CleanupKeepsRows DEF restoreVars, TargetsOf, BegunOnes, RestoredOnes,
       RestoreTarget, BackupRunOf
  <2>3. QED  BY <1>1, <2>1, <2>2, SystemSteps
<1>2. SystemInit => RequestLife!LifeInit
  BY LifeInits DEF SystemInit
<1>3. QED
  BY <1>1, <1>2, SystemTypeCorrect, RestoreInvariant, PTL
  DEF SystemSpec, ImplementsRequestLife, RequestLife!LifeSpec, RequestLife!lifeVars,
      TargetsOf, BegunOnes, RestoredOnes

\* What spares live restores from recovery does so next to retention.
THEOREM RecoverySparesBesideRetention ==
  SystemSpec /\ []SweptAlone => [](RecoverySparesLive /\ OneLiveRestorePerTarget)
<1>1. SystemInit => RecoveryInv
  BY RecoveryInit DEF SystemInit
<1>2. ASSUME SystemTypeOK, RestoreInv, SweptAlone, RecoveryInv, [SystemNext]_systemVars
      PROVE  RecoveryInv'
  <2>1. CASE RestoreMoves
    BY <1>2, <2>1, RecoveryStep DEF RestoreMoves, SystemTypeOK, RestoreInv
  <2>2. CASE \E k \in Cleanups : CleanupMoves(k)
    BY <1>2, <2>2, CleanupKeepsRows, RecoveryFrame DEF restoreVars
  <2>3. QED  BY <1>2, <2>1, <2>2, SystemSteps
<1>3. RestoreInv /\ RecoveryInv => RecoverySparesLive /\ OneLiveRestorePerTarget
  BY DEF RestoreInv, OnceInv, OneActivePerTarget, RecoveryInv, RecoverySparesLive,
     OneLiveRestorePerTarget, Active, ACTIVE_RESTORE_STATUSES
<1>4. QED
  BY <1>1, <1>2, <1>3, SystemTypeCorrect, RestoreInvariant, PTL DEF SystemSpec

\* In one process whose sweeps end before the next begins, the replica that is not
\* being rolled out, this needs no further condition.
THEOREM OneReplicaSparesLive ==
  ASSUME SingleSweeper
  PROVE  SystemSpec => [](RecoverySparesLive /\ OneLiveRestorePerTarget)
<1>1. RestoreInv => SweptAlone
  BY DEF RestoreInv, SingleSweeper, SweepOwned, SweptAlone
<1>2. QED  BY <1>1, RestoreInvariant, RecoverySparesBesideRetention, PTL

----------------------------------------------------------------------------
(***************************************************************************)
(* Who holds a run's lock.  A call holds it between its checks and the end *)
(* of its insert, a cleanup from its recheck until it lets go: each in its *)
(* own process's name, and never two at a time for one run.                *)
(***************************************************************************)
Pinning(c) == call[c] = "pinning"

CallersKnown == \A c \in Requests : call[c] # "idle" => caller[c] \in Procs

WorkersKnown == \A k \in Cleanups : cleanup[k].step # "idle" => cleanup[k].proc \in Procs

HolderInv ==
  /\ \A c \in Requests : Pinning(c) => lock[BackupRunOf(c)] = caller[c]
  /\ \A k \in Cleanups : Removing(k) =>
       /\ cleanup[k].run \in Runs
       /\ cleanup[k].proc \in Procs
       /\ lock[cleanup[k].run] = cleanup[k].proc
  /\ \A c, d \in Requests :
       Pinning(c) /\ Pinning(d) /\ BackupRunOf(c) = BackupRunOf(d) => c = d
  /\ \A k, l \in Cleanups :
       Removing(k) /\ Removing(l) /\ cleanup[k].run = cleanup[l].run => k = l
  /\ \A c \in Requests, k \in Cleanups :
       Pinning(c) /\ Removing(k) => BackupRunOf(c) # cleanup[k].run

\* A call takes a free lock, or gives its own back, or leaves the locks alone.
CallTakes(c) ==
  /\ LockFree(BackupRunOf(c))
  /\ Restorable(BackupRunOf(c))
  /\ lock' = [lock EXCEPT ![BackupRunOf(c)] = caller[c]]
  /\ \A d \in Requests : Pinning(d)' <=> Pinning(d) \/ d = c
  /\ call[c] # "idle"
  /\ UNCHANGED caller

CallLetsGo(c) ==
  /\ Pinning(c)
  /\ lock' = [lock EXCEPT ![BackupRunOf(c)] = None]
  /\ \A d \in Requests : Pinning(d)' <=> Pinning(d) /\ d # c
  /\ UNCHANGED caller

LocksKept ==
  /\ UNCHANGED lock
  /\ \A c \in Requests : /\ Pinning(c)' <=> Pinning(c)
                         /\ Pinning(c) => caller'[c] = caller[c]

LEMMA CallLocks ==
  ASSUME TypeOK, NEW c \in Requests, CallStep(c)
  PROVE  CallTakes(c) \/ CallLetsGo(c) \/ LocksKept
<1>0. /\ call \in [Requests -> CallStates]
      /\ caller \in [Requests -> Procs \cup {None}]
  BY DEF TypeOK, RestoreTypeOK, CallStates
<1>1. ASSUME call[c] # "pinning", UNCHANGED <<lock, caller>>,
             \E how : how # "pinning" /\ call' = [call EXCEPT ![c] = how]
      PROVE  LocksKept
  BY <1>0, <1>1 DEF LocksKept, Pinning
<1>2. CASE \E p \in Procs : create(c, p)
  <2>1. /\ call[c] = "idle" /\ UNCHANGED lock
        /\ \E p : caller' = [caller EXCEPT ![c] = p]
        /\ \E how : how # "pinning" /\ call' = [call EXCEPT ![c] = how]
    BY <1>2 DEF create, Answer, Replay, catalogVars
  <2>2. QED  BY <1>0, <2>1 DEF LocksKept, Pinning
<1>3. CASE PinChecks(c)
  <2>1. call[c] = "validated" /\ LockFree(BackupRunOf(c)) /\ UNCHANGED caller
    BY <1>3 DEF PinChecks, BackupRunOf
  <2>2. \/ UNCHANGED lock /\ \E how : how # "pinning" /\ call' = [call EXCEPT ![c] = how]
        \/ /\ Restorable(BackupRunOf(c))
           /\ lock' = [lock EXCEPT ![BackupRunOf(c)] = caller[c]]
           /\ call' = [call EXCEPT ![c] = "pinning"]
    BY <1>3 DEF PinChecks, Answer, Replay, AcquireRunLock, BackupRunOf
  <2>3. CASE call' = [call EXCEPT ![c] = "pinning"]
    BY <1>0, <2>1, <2>2, <2>3 DEF CallTakes, Pinning
  <2>4. QED  BY <1>1, <2>1, <2>2, <2>3
<1>4. CASE PinLockTimeout(c) \/ ResolveCollision(c)
  BY <1>1, <1>4 DEF PinLockTimeout, ResolveCollision, Answer, Replay, catalogVars
<1>5. CASE PinInserts(c) \/ PinRollsBack(c)
  <2>1. /\ Pinning(c) /\ UNCHANGED caller
        /\ lock' = [lock EXCEPT ![BackupRunOf(c)] = None]
        /\ \E how : how # "pinning" /\ call' = [call EXCEPT ![c] = how]
    BY <1>5 DEF PinInserts, PinRollsBack, Pinning, Answer, ReleaseRunLock, BackupRunOf
  <2>2. QED  BY <1>0, <2>1 DEF CallLetsGo, Pinning
<1>6. QED  BY <1>2, <1>3, <1>4, <1>5 DEF CallStep

LEMMA RestoreLocks ==
  ASSUME TypeOK, [Next]_reconciliationVars
  PROVE  \/ \E c \in Requests : CallTakes(c) \/ CallLetsGo(c)
         \/ LocksKept
         \/ \E p \in Procs : Crash(p)
<1>1. CASE \E c \in Requests : CallStep(c)
  BY <1>1, CallLocks
<1>2. CASE UNCHANGED <<lock, call, caller>>
  BY <1>2 DEF LocksKept, Pinning
<1>3. CASE \E p \in Procs, r \in Requests : ExecutionStep(p, r)
  BY <1>2, <1>3 DEF ExecutionStep, LoadForExecution, claimForExecution,
     ClaimDeferred, PgRestoreCommits, RestorePairFails, recordSuccess, recordFailure,
     RecordThrows, catalogVars
<1>4. CASE ReconcilerStep
  BY <1>2, <1>4 DEF ReconcilerStep, Elapse, StartSweep, SkipItem, RedispatchItem,
     BeginTermination, Terminate, TerminationThrows, catalogVars, restoreVars
<1>5. CASE \E p \in Procs : Restart(p)
  BY <1>2, <1>5 DEF Restart, restoreVars
<1>6. CASE UNCHANGED reconciliationVars
  BY <1>2, <1>6 DEF reconciliationVars, catalogVars, restoreVars
<1>7. QED  BY <1>1, <1>3, <1>4, <1>5, <1>6 DEF Next, RestoreStep

LEMMA CallersStep ==
  ASSUME TypeOK, CallersKnown, [Next]_reconciliationVars
  PROVE  CallersKnown'
<1>0. /\ call \in [Requests -> CallStates]
      /\ caller \in [Requests -> Procs \cup {None}]
  BY DEF TypeOK, RestoreTypeOK, CallStates
<1>1. CASE UNCHANGED <<call, caller>>
  BY <1>1 DEF CallersKnown
<1>2. ASSUME NEW c \in Requests, CallStep(c)
      PROVE  CallersKnown'
  <2>1. CASE \E p \in Procs : create(c, p)
    <3>1. /\ \E p \in Procs : caller' = [caller EXCEPT ![c] = p]
          /\ \E how : call' = [call EXCEPT ![c] = how]
      BY <2>1 DEF create, Answer, Replay
    <3>2. QED  BY <1>0, <3>1 DEF CallersKnown
  <2>2. CASE call[c] # "idle" /\ UNCHANGED caller /\ \E how : call' = [call EXCEPT ![c] = how]
    BY <1>0, <2>2 DEF CallersKnown
  <2>3. QED
    BY <1>2, <2>1, <2>2 DEF CallStep, PinChecks, PinLockTimeout, PinInserts,
       PinRollsBack, ResolveCollision, Answer, Replay
<1>3. CASE \E p \in Procs, r \in Requests : ExecutionStep(p, r)
  BY <1>1, <1>3 DEF ExecutionStep, LoadForExecution, claimForExecution,
     ClaimDeferred, PgRestoreCommits, RestorePairFails, recordSuccess, recordFailure,
     RecordThrows
<1>4. CASE ReconcilerStep
  BY <1>1, <1>4 DEF ReconcilerStep, Elapse, StartSweep, SkipItem, RedispatchItem,
     BeginTermination, Terminate, TerminationThrows, restoreVars
<1>5. CASE \E p \in Procs : Crash(p)
  BY <1>0, <1>5 DEF Crash, RestoreForgets, CallersKnown, CallOpen
<1>6. CASE (\E p \in Procs : Restart(p)) \/ UNCHANGED reconciliationVars
  BY <1>1, <1>6 DEF Restart, reconciliationVars, restoreVars
<1>7. QED  BY <1>2, <1>3, <1>4, <1>5, <1>6 DEF Next, RestoreStep

\* A step of restore or recovery that is not a crash.
LEMMA HolderRestore ==
  ASSUME SystemTypeOK, CallersKnown, HolderInv, UNCHANGED <<dto, cleanup>>,
         (\E c \in Requests : CallTakes(c) \/ CallLetsGo(c)) \/ LocksKept
  PROVE  HolderInv'
<1>0. /\ lock \in [Runs -> Procs \cup {None}]
      /\ \A c \in Requests : BackupRunOf(c) \in Runs /\ BackupRunOf(c)' = BackupRunOf(c)
      /\ \A k \in Cleanups : Removing(k)' <=> Removing(k)
  BY RunOfRequest DEF SystemTypeOK, TypeOK, CatalogTypeOK, BackupRunOf, Removing
<1>1. CASE \E c \in Requests : CallTakes(c)
  <2> PICK c \in Requests : CallTakes(c)  BY <1>1
  <2> DEFINE b == BackupRunOf(c)
  <2>1. caller[c] \in Procs /\ b \in Runs
    BY <1>0 DEF CallTakes, CallersKnown
  <2>2. \A d \in Requests : Pinning(d) => BackupRunOf(d) # b
    <3> SUFFICES ASSUME NEW d \in Requests, Pinning(d), BackupRunOf(d) = b  PROVE FALSE
      OBVIOUS
    <3>1. lock[b] = caller[d] /\ caller[d] \in Procs
      BY DEF HolderInv, CallersKnown, Pinning
    <3>2. QED  BY <3>1, CatalogAssumption DEF CallTakes, LockFree
  <2>3. \A k \in Cleanups : Removing(k) => cleanup[k].run # b
    BY CatalogAssumption DEF HolderInv, CallTakes, LockFree
  <2>4. \A a \in Runs : lock'[a] = IF a = b THEN caller[c] ELSE lock[a]
    BY <1>0 DEF CallTakes
  <2>5. \A d \in Requests : Pinning(d)' <=> Pinning(d) \/ d = c
    BY DEF CallTakes
  <2>6. UNCHANGED caller
    BY DEF CallTakes
  <2>7. QED  BY <1>0, <2>1, <2>2, <2>3, <2>4, <2>5, <2>6 DEF HolderInv
<1>2. CASE \E c \in Requests : CallLetsGo(c)
  <2> PICK c \in Requests : CallLetsGo(c)  BY <1>2
  <2> DEFINE b == BackupRunOf(c)
  <2>1. \A d \in Requests : Pinning(d) /\ d # c => BackupRunOf(d) # b
    BY DEF HolderInv, CallLetsGo
  <2>2. \A k \in Cleanups : Removing(k) => cleanup[k].run # b
    BY DEF HolderInv, CallLetsGo
  <2>3. \A a \in Runs : lock'[a] = IF a = b THEN None ELSE lock[a]
    BY <1>0 DEF CallLetsGo
  <2>4. \A d \in Requests : Pinning(d)' <=> Pinning(d) /\ d # c
    BY DEF CallLetsGo
  <2>5. UNCHANGED caller
    BY DEF CallLetsGo
  <2>6. QED  BY <1>0, <2>1, <2>2, <2>3, <2>4, <2>5 DEF HolderInv
<1>3. CASE LocksKept
  BY <1>0, <1>3 DEF HolderInv, LocksKept
<1>4. QED  BY <1>1, <1>2, <1>3

\* A crash frees the locks of one process, all of whose calls and cleanups end.
LEMMA HolderCrash ==
  ASSUME SystemTypeOK, CallersKnown, HolderInv, NEW p \in Procs, SystemCrash(p)
  PROVE  HolderInv'
<1>0. /\ \A c \in Requests : BackupRunOf(c) \in Runs /\ BackupRunOf(c)' = BackupRunOf(c)
      /\ UNCHANGED caller
  BY RunOfRequest DEF SystemTypeOK, SystemCrash, Crash, RestoreForgets, BackupRunOf
<1>1. \A b \in Runs : lock'[b] = IF lock[b] = p THEN None ELSE lock[b]
  BY DEF SystemCrash, Crash, ProcessDies
<1>2. \A c \in Requests : Pinning(c)' => Pinning(c) /\ caller[c] # p
  BY DEF SystemCrash, Crash, RestoreForgets, Pinning, CallOpen
<1>3. \A k \in Cleanups : Removing(k)' =>
        Removing(k) /\ cleanup'[k] = cleanup[k] /\ cleanup[k].proc # p
  BY DEF SystemCrash, CleanupsForget, Removing, NoCleanup
<1>4. QED  BY <1>0, <1>1, <1>2, <1>3 DEF HolderInv

LEMMA WorkersStep ==
  ASSUME SystemTypeOK, WorkersKnown, RestoreMoves \/ \E k \in Cleanups : CleanupMoves(k)
  PROVE  WorkersKnown'
<1>1. CASE RestoreMoves
  BY <1>1 DEF RestoreMoves, WorkersKnown, retentionVars, SystemCrash, CleanupsForget,
     NoCleanup
<1>2. ASSUME NEW k \in Cleanups, CleanupMoves(k)  PROVE WorkersKnown'
  <2>1. CleanupKind(k) /\ Others(k) /\ cleanup[k] \in CleanupStates
    BY <1>2, CleanupKinds DEF SystemTypeOK, RetentionTypeOK, CleanupStates, CleanupKind
  <2>2. cleanup'[k].step # "idle" => cleanup'[k].proc \in Procs
    <3>1. CASE CleanupStarts(k)
      BY <3>1 DEF CleanupStarts
    <3>2. CASE ListShrinks(k) /\ cleanup[k].step # "idle"
      BY <3>2 DEF ListShrinks, WorkersKnown, NoCleanup
    <3>3. CASE (\E b \in Runs : CleanupTakes(k, b)) \/ CleanupRemoves(k)
      BY <2>1, <3>3 DEF CleanupTakes, CleanupRemoves, CleanupStates, WorkersKnown
    <3>4. QED
      BY <2>1, <3>1, <3>2, <3>3 DEF CleanupKind, CleanupMovesOn, CleanupLetsGo, Removing
  <2>3. QED  BY <2>1, <2>2 DEF Others, WorkersKnown
<1>3. QED  BY <1>1, <1>2

LEMMA HolderCleanup ==
  ASSUME SystemTypeOK, CallersKnown, WorkersKnown, HolderInv, NEW k \in Cleanups,
         CleanupMoves(k)
  PROVE  HolderInv'
<1>0. /\ CleanupKind(k) /\ Others(k)
      /\ cleanup[k] \in CleanupStates
      /\ lock \in [Runs -> Procs \cup {None}]
  BY CleanupKinds DEF SystemTypeOK, RetentionTypeOK, CleanupStates, CleanupKind, TypeOK,
     CatalogTypeOK
<1>1. /\ UNCHANGED caller
      /\ \A c \in Requests : /\ BackupRunOf(c)' = BackupRunOf(c)
                             /\ BackupRunOf(c) \in Runs
                             /\ Pinning(c)' <=> Pinning(c)
  BY CleanupKeepsRows, RunOfRequest DEF SystemTypeOK, BackupRunOf, Pinning, restoreVars
<1>2. \A l \in Cleanups \ {k} : cleanup'[l] = cleanup[l] /\ (Removing(l)' <=> Removing(l))
  BY <1>0 DEF Others, Removing
<1>3. CASE UNCHANGED lock /\ ~Removing(k)'
  BY <1>1, <1>2, <1>3 DEF HolderInv
<1>4. CASE CleanupStarts(k) \/ CleanupMovesOn(k)
  <2>1. CASE CleanupStarts(k)
    <3>1. UNCHANGED lock /\ cleanup'[k].step = "probe"
      BY <2>1 DEF CleanupStarts
    <3>2. QED  BY <1>3, <3>1 DEF Removing
  <2>2. CASE CleanupMovesOn(k)
    <3>1. UNCHANGED lock /\ cleanup'[k].step \in {"idle", "loop"}
      BY <2>2 DEF CleanupMovesOn, ListShrinks, NoCleanup
    <3>2. QED  BY <1>3, <3>1 DEF Removing
  <2>3. QED  BY <1>4, <2>1, <2>2
<1>5. CASE \E b \in Runs : CleanupTakes(k, b)
  <2> PICK b \in Runs : CleanupTakes(k, b)  BY <1>5
  <2>1. \A c \in Requests : Pinning(c) => BackupRunOf(c) # b
    <3> SUFFICES ASSUME NEW c \in Requests, Pinning(c), BackupRunOf(c) = b  PROVE FALSE
      OBVIOUS
    <3>1. lock[b] = caller[c] /\ caller[c] \in Procs
      BY DEF HolderInv, CallersKnown, Pinning
    <3>2. QED  BY <3>1, CatalogAssumption DEF CleanupTakes, LockFree
  <2>2. \A l \in Cleanups : Removing(l) => cleanup[l].run # b
    BY CatalogAssumption DEF HolderInv, CleanupTakes, LockFree
  <2>3. cleanup'[k].run = b /\ cleanup'[k].proc = cleanup[k].proc
    BY <1>0 DEF CleanupTakes, CleanupStates
  <2>4. \A a \in Runs : lock'[a] = IF a = b THEN cleanup[k].proc ELSE lock[a]
    BY <1>0 DEF CleanupTakes
  <2>5. cleanup[k].proc \in Procs
    BY DEF CleanupTakes, WorkersKnown
  <2>6. QED  BY <1>1, <1>2, <2>1, <2>2, <2>3, <2>4, <2>5 DEF HolderInv
<1>6. CASE CleanupRemoves(k)
  <2>1. Removing(k) /\ cleanup'[k].run = cleanup[k].run /\ cleanup'[k].proc = cleanup[k].proc
    BY <1>0, <1>6 DEF CleanupRemoves, CleanupStates, Removing
  <2>2. UNCHANGED lock
    BY <1>6 DEF CleanupRemoves
  <2>3. QED  BY <1>1, <1>2, <2>1, <2>2 DEF HolderInv
<1>7. CASE CleanupLetsGo(k)
  <2> DEFINE b == cleanup[k].run
  <2>1. Removing(k) /\ ~Removing(k)'
    BY <1>7 DEF CleanupLetsGo, ListShrinks, Removing, NoCleanup
  <2>2. \A a \in Runs : lock'[a] = IF a = b THEN None ELSE lock[a]
    BY <1>0, <1>7 DEF CleanupLetsGo
  <2>3. /\ \A c \in Requests : Pinning(c) => BackupRunOf(c) # b
        /\ \A l \in Cleanups \ {k} : Removing(l) => cleanup[l].run # b
    BY <2>1 DEF HolderInv
  <2>4. QED  BY <1>1, <1>2, <2>1, <2>2, <2>3 DEF HolderInv
<1>8. QED  BY <1>0, <1>4, <1>5, <1>6, <1>7 DEF CleanupKind

LEMMA HolderInvariant == SystemSpec => [](CallersKnown /\ WorkersKnown /\ HolderInv)
<1> DEFINE Known == CallersKnown /\ WorkersKnown
<1>1. SystemInit => Known /\ HolderInv
  BY DEF SystemInit, Init, RestoreInit, RetentionInit, CallersKnown, WorkersKnown,
     HolderInv, Pinning, Removing, NoCleanup
<1>2. ASSUME SystemTypeOK, Known, HolderInv, [SystemNext]_systemVars
      PROVE  Known' /\ HolderInv'
  <2>0. TypeOK
    BY <1>2 DEF SystemTypeOK
  <2>1. CallersKnown'
    <3>1. CASE RestoreMoves
      BY <1>2, <2>0, <3>1, CallersStep DEF RestoreMoves
    <3>2. CASE \E k \in Cleanups : CleanupMoves(k)
      BY <1>2, <3>2, CleanupKeepsRows DEF CallersKnown, restoreVars
    <3>3. QED  BY <1>2, <3>1, <3>2, SystemSteps
  <2>2. WorkersKnown'
    BY <1>2, WorkersStep, SystemSteps
  <2>3. HolderInv'
    <3>1. CASE \E p \in Procs : SystemCrash(p)
      BY <1>2, <3>1, HolderCrash
    <3>2. CASE RestoreMoves /\ UNCHANGED <<retentionVars, crashes>>
      <4>1. ~ \E p \in Procs : Crash(p)
        BY <2>0, <3>2, CatalogAssumption DEF Crash, ProcessDies, TypeOK, CatalogTypeOK
      <4>2. (\E c \in Requests : CallTakes(c) \/ CallLetsGo(c)) \/ LocksKept
        BY <2>0, <3>2, <4>1, RestoreLocks DEF RestoreMoves
      <4>3. UNCHANGED <<dto, cleanup>>
        BY <2>0, <3>2, SubmissionsFixed DEF RestoreMoves, retentionVars
      <4>4. QED  BY <1>2, <4>2, <4>3, HolderRestore
    <3>3. CASE \E k \in Cleanups : CleanupMoves(k)
      BY <1>2, <3>3, HolderCleanup
    <3>4. QED  BY <1>2, <3>1, <3>2, <3>3, SystemSteps DEF RestoreMoves
  <2>4. QED  BY <2>1, <2>2, <2>3
<1>3. QED  BY <1>1, <1>2, SystemTypeCorrect, PTL DEF SystemSpec

----------------------------------------------------------------------------
(***************************************************************************)
(* The pin.  A cleanup that has taken a run's lock and found no active     *)
(* restore of it keeps it so: the insert of one needs the same lock, and   *)
(* no other step makes a request active.                                   *)
(***************************************************************************)
SparesInv == \A k \in Cleanups : Removing(k) => ~Referenced(cleanup[k].run)

\* Restores and recovery never touch an object or a path.
LEMMA ObjectsKept ==
  ASSUME [Next]_reconciliationVars
  PROVE  UNCHANGED <<path, object>>
<1>1. CASE RestoreStep
  BY <1>1 DEF RestoreStep, CallStep, create, PinChecks, PinLockTimeout, PinInserts,
     PinRollsBack, ResolveCollision, ExecutionStep, LoadForExecution,
     claimForExecution, ClaimDeferred, PgRestoreCommits, RestorePairFails,
     recordSuccess, recordFailure, RecordThrows, catalogVars
<1>2. CASE ReconcilerStep
  BY <1>2 DEF ReconcilerStep, Elapse, StartSweep, SkipItem, RedispatchItem,
     BeginTermination, Terminate, TerminationThrows, catalogVars, restoreVars
<1>3. CASE \E p \in Procs : Crash(p) \/ Restart(p)
  BY <1>3 DEF Crash, RestoreForgets, Restart, restoreVars
<1>4. CASE UNCHANGED reconciliationVars
  BY <1>4 DEF reconciliationVars, catalogVars, restoreVars
<1>5. QED  BY <1>1, <1>2, <1>3, <1>4 DEF Next

\* Nor do they start a removal.
LEMMA RemovalsKept ==
  ASSUME RestoreMoves, NEW k \in Cleanups
  PROVE  /\ cleanup'[k] = cleanup[k] \/ cleanup'[k] = NoCleanup
         /\ Removing(k)' => cleanup'[k] = cleanup[k] /\ Removing(k)
<1>1. cleanup'[k] = cleanup[k] \/ cleanup'[k] = NoCleanup
  <2>1. CASE UNCHANGED retentionVars
    BY <2>1 DEF retentionVars
  <2>2. CASE \E p \in Procs : SystemCrash(p)
    BY <2>2 DEF SystemCrash, CleanupsForget
  <2>3. QED  BY <2>1, <2>2 DEF RestoreMoves
<1>2. cleanup'[k] = NoCleanup => ~Removing(k)'
  BY DEF NoCleanup, Removing
<1>3. cleanup'[k] = cleanup[k] => (Removing(k)' <=> Removing(k))
  BY DEF Removing
<1>4. QED  BY <1>1, <1>2, <1>3

LEMMA SparesRestore ==
  ASSUME SystemTypeOK, RestoreInv, HolderInv, SparesInv, RestoreMoves
  PROVE  SparesInv'
<1> SUFFICES ASSUME NEW k \in Cleanups, Removing(k)', NEW r \in Requests, Active(r)',
                    BackupRunOf(r)' = cleanup'[k].run
             PROVE  FALSE
  BY DEF SparesInv, Referenced, ActiveRestoresOf
<1>1. cleanup'[k] = cleanup[k] /\ Removing(k)
  BY RemovalsKept
<1>2. BackupRunOf(r) = cleanup[k].run
  BY <1>1, SubmissionsFixed DEF RestoreMoves, BackupRunOf
<1>3. PinInserts(r) \/ Active(r)
  BY StepKinds, RowsKept DEF RestoreMoves, SystemTypeOK, RestoreInv
<1>4. CASE PinInserts(r)
  BY <1>1, <1>2, <1>4 DEF PinInserts, Pinning, HolderInv
<1>5. CASE Active(r)
  BY <1>1, <1>2, <1>5 DEF SparesInv, Referenced, ActiveRestoresOf
<1>6. QED  BY <1>3, <1>4, <1>5

\* A removal under way was just decided, or goes on with the same run.
LEMMA RemovalKinds ==
  ASSUME SystemTypeOK, NEW k \in Cleanups, CleanupMoves(k), Removing(k)'
  PROVE  \/ ~StillPinned(cleanup'[k].run)
         \/ Removing(k) /\ cleanup'[k].run = cleanup[k].run
<1>1. CleanupKind(k) /\ cleanup[k] \in CleanupStates
  BY CleanupKinds DEF SystemTypeOK, RetentionTypeOK, CleanupStates
<1>2. ~CleanupStarts(k)
  <2>1. CleanupStarts(k) => cleanup'[k].step = "probe"
    BY DEF CleanupStarts
  <2>2. QED  BY <2>1 DEF Removing
<1>3. ~ListShrinks(k)
  BY DEF ListShrinks, NoCleanup, Removing
<1>4. CASE \E b \in Runs : CleanupTakes(k, b)
  <2> PICK b \in Runs : CleanupTakes(k, b)  BY <1>4
  <2>1. cleanup'[k].run = b
    BY <1>1 DEF CleanupTakes, CleanupStates
  <2>2. QED  BY <2>1 DEF CleanupTakes
<1>5. CASE CleanupRemoves(k)
  BY <1>1, <1>5 DEF CleanupRemoves, CleanupStates, Removing
<1>6. QED
  BY <1>1, <1>2, <1>3, <1>4, <1>5 DEF CleanupKind, CleanupMovesOn, CleanupLetsGo

LEMMA SparesCleanup ==
  ASSUME SystemTypeOK, SparesInv, NEW k \in Cleanups, CleanupMoves(k)
  PROVE  SparesInv'
<1>1. \A b \in Runs \cup {None} : Referenced(b)' => Referenced(b)
  BY CleanupKeepsRows DEF Referenced, ActiveRestoresOf, Active, BackupRunOf
<1>2. cleanup' \in [Cleanups -> CleanupStates] /\ Others(k)
  BY CleanupKinds DEF SystemTypeOK, CleanupKind
<1>3. ASSUME NEW l \in Cleanups, Removing(l)'
      PROVE  ~Referenced(cleanup'[l].run)
  <2>1. CASE l = k
    <3>1. CASE ~StillPinned(cleanup'[k].run)
      BY <2>1, <3>1 DEF StillPinned
    <3>2. CASE Removing(k) /\ cleanup'[k].run = cleanup[k].run
      BY <2>1, <3>2 DEF SparesInv
    <3>3. QED  BY <1>3, <2>1, <3>1, <3>2, RemovalKinds
  <2>2. CASE l # k
    BY <1>2, <1>3, <2>2 DEF Others, SparesInv, Removing
  <2>3. QED  BY <2>1, <2>2
<1>4. \A l \in Cleanups : cleanup'[l].run \in Runs \cup {None}
  BY <1>2 DEF CleanupStates
<1>5. QED  BY <1>1, <1>3, <1>4 DEF SparesInv

LEMMA SparesInvariant == SystemSpec => []SparesInv
<1>1. SystemInit => SparesInv
  BY DEF SystemInit, RetentionInit, SparesInv, Removing, NoCleanup
<1>2. SystemTypeOK /\ RestoreInv /\ HolderInv /\ SparesInv /\ [SystemNext]_systemVars
        => SparesInv'
  BY SparesRestore, SparesCleanup, SystemSteps
<1>3. QED
  BY <1>1, <1>2, SystemTypeCorrect, RestoreInvariant, HolderInvariant, PTL
  DEF SystemSpec

\* What a removal takes is its own run's, and nobody's pin.
LEMMA PinStep ==
  ASSUME SystemTypeOK, HolderInv, SparesInv, [SystemNext]_systemVars,
         NEW r \in Requests, Active(r) \/ Pinning(r)
  PROVE  /\ object'[BackupRunOf(r)] = object[BackupRunOf(r)]
         /\ path'[BackupRunOf(r)] = path[BackupRunOf(r)]
<1>0. /\ path \in [Runs -> BOOLEAN] /\ object \in [Runs -> BOOLEAN]
      /\ BackupRunOf(r) \in Runs
  BY RunOfRequest DEF SystemTypeOK, TypeOK, CatalogTypeOK
<1>1. CASE RestoreMoves
  BY <1>1, ObjectsKept DEF RestoreMoves
<1>2. ASSUME NEW k \in Cleanups, CleanupMoves(k)
      PROVE  /\ object'[BackupRunOf(r)] = object[BackupRunOf(r)]
             /\ path'[BackupRunOf(r)] = path[BackupRunOf(r)]
  <2>1. CleanupKind(k)
    BY <1>2, CleanupKinds DEF SystemTypeOK
  <2>2. CASE UNCHANGED <<path, object>>
    BY <2>2
  <2>3. CASE CleanupRemoves(k) \/ CleanupLetsGo(k)
    <3>1. Removing(k)
      BY <2>3 DEF CleanupRemoves, CleanupLetsGo, Removing
    <3>2. BackupRunOf(r) # cleanup[k].run
      BY <3>1 DEF HolderInv, SparesInv, Referenced, ActiveRestoresOf
    <3>3. \/ path' = [path EXCEPT ![cleanup[k].run] = FALSE] /\ UNCHANGED object
          \/ object' = [object EXCEPT ![cleanup[k].run] = FALSE] /\ UNCHANGED path
          \/ UNCHANGED <<path, object>>
      BY <2>3 DEF CleanupRemoves, CleanupLetsGo
    <3>4. QED  BY <1>0, <3>2, <3>3
  <2>4. QED
    BY <2>1, <2>2, <2>3 DEF CleanupKind, CleanupStarts, CleanupMovesOn, CleanupTakes
<1>3. QED  BY <1>1, <1>2, SystemSteps

\* The pin is honoured: whatever cleanups decided from old rows, and in whatever
\* process, none removes the object of an active restore or clears its path.
THEOREM PinAlwaysHonoured == SystemSpec => PinHonoured
<1>1. SystemTypeOK /\ HolderInv /\ SparesInv /\ [SystemNext]_systemVars
        => [\A r \in Requests : Active(r) =>
              /\ object'[BackupRunOf(r)] = object[BackupRunOf(r)]
              /\ path'[BackupRunOf(r)] = path[BackupRunOf(r)]]_systemVars
  BY PinStep
<1>2. QED
  BY <1>1, SystemTypeCorrect, HolderInvariant, SparesInvariant, PTL
  DEF SystemSpec, PinHonoured

----------------------------------------------------------------------------
(***************************************************************************)
(* Paths without objects.  Between its two halves a removal is held by the *)
(* run's lock; only a fault of that removal lets go of the lock in between.*)
(***************************************************************************)
BetweenHalves(b) ==
  \E k \in Cleanups : cleanup[k].step = "removed" /\ cleanup[k].run = b

DanglingInv ==
  \A b \in Runs : path[b] /\ ~object[b] => BetweenHalves(b) \/ b \in cut

LEMMA CutGrows ==
  ASSUME SystemTypeOK, [SystemNext]_systemVars
  PROVE  cut \subseteq cut'
<1>1. CASE RestoreMoves
  BY <1>1 DEF RestoreMoves, retentionVars, SystemCrash, CleanupsForget
<1>2. ASSUME NEW k \in Cleanups, CleanupMoves(k)
      PROVE  cut \subseteq cut'
  <2>1. CleanupKind(k)
    BY <1>2, CleanupKinds DEF SystemTypeOK
  <2>2. QED
    BY <2>1 DEF CleanupKind, CleanupStarts, CleanupMovesOn, CleanupTakes,
       CleanupRemoves, CleanupLetsGo
<1>3. QED  BY <1>1, <1>2, SystemSteps

LEMMA DanglingStep ==
  ASSUME SystemTypeOK, DanglingInv, [SystemNext]_systemVars
  PROVE  DanglingInv'
<1> SUFFICES ASSUME NEW b \in Runs, path'[b], ~object'[b], b \notin cut'
             PROVE  BetweenHalves(b)'
  BY DEF DanglingInv
<1>0. path \in [Runs -> BOOLEAN] /\ object \in [Runs -> BOOLEAN]
  BY DEF SystemTypeOK, TypeOK, CatalogTypeOK
<1>a. b \notin cut
  BY CutGrows
<1>b. path[b] /\ ~object[b] => BetweenHalves(b)
  BY <1>a DEF DanglingInv
<1>1. CASE RestoreMoves
  <2>1. BetweenHalves(b)
    BY <1>1, <1>b, ObjectsKept DEF RestoreMoves
  <2>2. PICK k \in Cleanups : cleanup[k].step = "removed" /\ cleanup[k].run = b
    BY <2>1 DEF BetweenHalves
  <2>3. CASE UNCHANGED <<retentionVars, crashes>>
    BY <2>1, <2>3 DEF BetweenHalves, retentionVars
  <2>4. ASSUME NEW p \in Procs, SystemCrash(p)
        PROVE  BetweenHalves(b)'
    <3>1. k \notin CutOff(p)
      BY <2>2, <2>4 DEF SystemCrash, CleanupsForget
    <3>2. cleanup'[k] = cleanup[k]
      BY <2>2, <2>4, <3>1 DEF CutOff, SystemCrash, CleanupsForget
    <3>3. QED  BY <2>2, <3>2 DEF BetweenHalves
  <2>5. QED  BY <1>1, <2>3, <2>4 DEF RestoreMoves
<1>2. ASSUME NEW k \in Cleanups, CleanupMoves(k)
      PROVE  BetweenHalves(b)'
  <2>1. /\ CleanupKind(k) /\ Others(k)
        /\ cleanup[k] \in CleanupStates
    BY <1>2, CleanupKinds DEF SystemTypeOK, CleanupKind, RetentionTypeOK, CleanupStates
  <2>2. ASSUME NEW l \in Cleanups \ {k}, cleanup[l].step = "removed", cleanup[l].run = b
        PROVE  BetweenHalves(b)'
    BY <2>1, <2>2 DEF Others, BetweenHalves
  <2>3. CASE UNCHANGED <<path, object>> /\ cleanup[k].step # "removed"
    BY <1>b, <2>2, <2>3 DEF BetweenHalves
  <2>4. CASE CleanupRemoves(k)
    <3>1. CASE cleanup[k].run = b
      <4>1. cleanup'[k].step = "removed" /\ cleanup'[k].run = b
        BY <2>1, <2>4, <3>1 DEF CleanupRemoves, CleanupStates
      <4>2. QED  BY <4>1 DEF BetweenHalves
    <3>2. CASE cleanup[k].run # b
      <4>1. path[b] /\ ~object[b] /\ cleanup[k].step = "removing"
        BY <1>0, <2>4, <3>2 DEF CleanupRemoves
      <4>2. QED  BY <1>b, <2>2, <4>1 DEF BetweenHalves
    <3>3. QED  BY <3>1, <3>2
  <2>5. CASE CleanupLetsGo(k)
    <3>1. path[b] /\ ~object[b] /\ ~(cleanup[k].step = "removed" /\ cleanup[k].run = b)
      BY <1>0, <2>5 DEF CleanupLetsGo
    <3>2. QED  BY <1>b, <2>2, <3>1 DEF BetweenHalves
  <2>6. CASE CleanupStarts(k) \/ CleanupMovesOn(k) \/ \E a \in Runs : CleanupTakes(k, a)
    BY <2>3, <2>6 DEF CleanupStarts, CleanupMovesOn, CleanupTakes
  <2>7. QED  BY <2>1, <2>4, <2>5, <2>6 DEF CleanupKind
<1>3. QED  BY <1>1, <1>2, SystemSteps

LEMMA DanglingInvariant == SystemSpec => []DanglingInv
<1>1. SystemInit => DanglingInv
  BY DEF SystemInit, Init, CatalogInit, DanglingInv
<1>2. SystemTypeOK /\ DanglingInv /\ [SystemNext]_systemVars => DanglingInv'
  BY DanglingStep
<1>3. QED  BY <1>1, <1>2, SystemTypeCorrect, PTL DEF SystemSpec

\* A path without an object, for a restore to pin, is left by a crash or an error
\* between the removal of that very object and the commit of its cleared path: no
\* fault elsewhere leaves one, and no overlap of cleanups, restores and recovery.
THEOREM OnlyFaultsDangle == SystemSpec => []DanglingOnlyByFault
<1>1. HolderInv /\ DanglingInv => DanglingOnlyByFault
  BY CatalogAssumption DEF HolderInv, DanglingInv, BetweenHalves, Removing,
     DanglingOnlyByFault, LockFree
<1>2. QED  BY <1>1, HolderInvariant, DanglingInvariant, PTL

(***************************************************************************)
(* A restore is only ever pinned to a dump that is there, unless the       *)
(* removal of that dump was cut off before.                                *)
(***************************************************************************)
PinnedInv ==
  \A r \in Requests : Active(r) \/ Pinning(r) =>
    path[BackupRunOf(r)] /\ (object[BackupRunOf(r)] \/ BackupRunOf(r) \in cut)

\* A crash makes no request active, and ends the calls of its process.
LEMMA CrashPinsNothing ==
  ASSUME TypeOK, NEW p \in Procs, Crash(p), NEW r \in Requests,
         ~Active(r), ~Pinning(r)
  PROVE  ~Active(r)' /\ ~Pinning(r)'
BY DEF Crash, RestoreForgets, Active, Pinning, TypeOK, RestoreTypeOK

LEMMA PinnedStep ==
  ASSUME SystemTypeOK, RestoreInv, HolderInv, SparesInv, DanglingInv, PinnedInv,
         [SystemNext]_systemVars
  PROVE  PinnedInv'
<1> SUFFICES ASSUME NEW r \in Requests, Active(r)' \/ Pinning(r)'
             PROVE  /\ path'[BackupRunOf(r)']
                    /\ object'[BackupRunOf(r)'] \/ BackupRunOf(r)' \in cut'
  BY DEF PinnedInv
<1>a. cut \subseteq cut'
  BY CutGrows
<1>b. BackupRunOf(r)' = BackupRunOf(r) /\ BackupRunOf(r) \in Runs
  <2>1. UNCHANGED dto
    BY SystemSteps, SubmissionsFixed, CleanupKeepsRows DEF RestoreMoves
  <2>2. QED  BY <2>1, RunOfRequest DEF SystemTypeOK, BackupRunOf
<1>1. CASE Active(r) \/ Pinning(r)
  BY <1>1, <1>a, <1>b, PinStep DEF PinnedInv
<1>2. CASE ~Active(r) /\ ~Pinning(r)
  <2>1. CASE RestoreMoves
    <3>0. CASE UNCHANGED <<retentionVars, crashes>>
      <4>1. [Next]_reconciliationVars
        BY <2>1 DEF RestoreMoves
      <4>2. ~Active(r)'
        <5>1. ~PinInserts(r)
          BY <1>2 DEF PinInserts, Pinning
        <5>2. QED
          BY <1>2, <4>1, <5>1, StepKinds, RowsKept DEF SystemTypeOK, RestoreInv
      <4>3. ~ \E p \in Procs : Crash(p)
        BY <3>0, CatalogAssumption DEF Crash, ProcessDies, SystemTypeOK, TypeOK,
           CatalogTypeOK
      <4>4. CallTakes(r)
        <5>1. (\E c \in Requests : CallTakes(c) \/ CallLetsGo(c)) \/ LocksKept
          BY <4>1, <4>3, RestoreLocks DEF SystemTypeOK
        <5>2. QED  BY <1>2, <4>2, <5>1 DEF CallTakes, CallLetsGo, LocksKept
      <4>5. path[BackupRunOf(r)] /\ ~BetweenHalves(BackupRunOf(r))
        BY <4>4, CatalogAssumption DEF CallTakes, Restorable, LockFree, BetweenHalves,
           HolderInv, Removing
      <4>6. object[BackupRunOf(r)] \/ BackupRunOf(r) \in cut
        BY <1>b, <4>5 DEF DanglingInv
      <4>7. QED  BY <1>a, <1>b, <4>1, <4>5, <4>6, ObjectsKept
    <3>1. ASSUME NEW p \in Procs, SystemCrash(p)
          PROVE  FALSE
      BY <1>2, <3>1, CrashPinsNothing DEF SystemTypeOK, SystemCrash
    <3>2. QED  BY <2>1, <3>0, <3>1 DEF RestoreMoves
  <2>2. CASE \E k \in Cleanups : CleanupMoves(k)
    BY <1>2, <2>2, CleanupKeepsRows DEF Active, Pinning, restoreVars
  <2>3. QED  BY <2>1, <2>2, SystemSteps
<1>3. QED  BY <1>1, <1>2

LEMMA PinnedInvariant == SystemSpec => []PinnedInv
<1>1. SystemInit => PinnedInv
  BY DEF SystemInit, Init, CatalogInit, RestoreInit, PinnedInv, Active,
     Pinning, ACTIVE_RESTORE_STATUSES
<1>2. SystemTypeOK /\ RestoreInv /\ HolderInv /\ SparesInv /\ DanglingInv
        /\ PinnedInv /\ [SystemNext]_systemVars => PinnedInv'
  BY PinnedStep
<1>3. QED
  BY <1>1, <1>2, SystemTypeCorrect, RestoreInvariant, HolderInvariant,
     SparesInvariant, DanglingInvariant, PTL DEF SystemSpec

\* The dump of every active restore is in the object store, unless the removal of
\* that dump was once cut off before its commit: the claim of the code's comment,
\* refuted by nothing else.
THEOREM PinnedDumpIsThere ==
  SystemSpec => [](\A r \in Requests :
                     Active(r) => object[BackupRunOf(r)] \/ BackupRunOf(r) \in cut)
<1>1. PinnedInv => \A r \in Requests :
                     Active(r) => object[BackupRunOf(r)] \/ BackupRunOf(r) \in cut
  BY DEF PinnedInv
<1>2. QED  BY <1>1, PinnedInvariant, PTL

----------------------------------------------------------------------------
(***************************************************************************)
(* The anchor.  A cleanup removes what was expired when it started, never  *)
(* its own anchor; but two cleanups of one job may have picked different   *)
(* anchors, and nothing keeps one from removing the other's.  Apart means  *)
(* that cleanups under way at one time are those of different jobs.        *)
(***************************************************************************)
Busy(k) == cleanup[k].step # "idle"

CleanupsApart ==
  \A k, l \in Cleanups :
    k # l /\ Busy(k) /\ Busy(l) => JobOf[cleanup[k].anchor] # JobOf[cleanup[l].anchor]

AnchorInv ==
  \A k \in Cleanups : Busy(k) =>
    /\ cleanup[k].anchor \in Runs
    /\ cleanup[k].anchor \notin cleanup[k].todo
    /\ \A b \in cleanup[k].todo : JobOf[b] = JobOf[cleanup[k].anchor]
    /\ Removing(k) => cleanup[k].run \in cleanup[k].todo
    /\ cleanup[k].step # "probe" => object[cleanup[k].anchor]

LEMMA AnchorCleanup ==
  ASSUME SystemTypeOK, CleanupsApart, AnchorInv, NEW k \in Cleanups, CleanupMoves(k)
  PROVE  AnchorInv'
<1>0. /\ CleanupKind(k) /\ Others(k)
      /\ cleanup[k] \in CleanupStates
      /\ object \in [Runs -> BOOLEAN]
  BY CleanupKinds DEF SystemTypeOK, CleanupKind, RetentionTypeOK, CleanupStates, TypeOK,
     CatalogTypeOK
<1>1. UNCHANGED object \/ CleanupRemoves(k)
  BY <1>0 DEF CleanupKind, CleanupStarts, CleanupMovesOn, CleanupTakes, CleanupLetsGo
<1>2. CleanupRemoves(k) =>
        /\ cleanup[k].run \in cleanup[k].todo /\ Busy(k)
        /\ object' = [object EXCEPT ![cleanup[k].run] = FALSE]
  BY DEF CleanupRemoves, AnchorInv, Busy, Removing
<1>3. ASSUME NEW l \in Cleanups, Busy(l), object[cleanup[l].anchor]
      PROVE  object'[cleanup[l].anchor]
  <2>1. CASE UNCHANGED object
    BY <1>3, <2>1
  <2>2. CASE CleanupRemoves(k)
    <3>1. cleanup[l].anchor # cleanup[k].run
      BY <1>2, <1>3, <2>2 DEF AnchorInv, CleanupsApart
    <3>2. cleanup[l].anchor \in Runs
      BY <1>3 DEF AnchorInv
    <3>3. QED  BY <1>0, <1>2, <1>3, <2>2, <3>1, <3>2
  <2>3. QED  BY <1>1, <2>1, <2>2
<1> DEFINE Holds(l) ==
      /\ cleanup'[l].anchor \in Runs
      /\ cleanup'[l].anchor \notin cleanup'[l].todo
      /\ \A b \in cleanup'[l].todo : JobOf[b] = JobOf[cleanup'[l].anchor]
      /\ cleanup'[l].step \in {"removing", "removed"} =>
           cleanup'[l].run \in cleanup'[l].todo
      /\ cleanup'[l].step # "probe" => object'[cleanup'[l].anchor]
<1>4. ASSUME NEW l \in Cleanups, cleanup'[l].step # "idle"
      PROVE  Holds(l)
  <2>1. CASE l # k
    <3>1. cleanup'[l] = cleanup[l] /\ Busy(l)
      BY <1>0, <1>4, <2>1 DEF Others, Busy
    <3>2. QED  BY <1>3, <3>1 DEF AnchorInv, Removing
  <2>2. CASE l = k /\ CleanupStarts(k)
    <3> PICK p \in Procs, j \in Jobs :
          /\ NewestVerified(j) \in Anchors(j)
          /\ cleanup'[k] = [proc |-> p, step |-> "probe", anchor |-> NewestVerified(j),
                            todo |-> {b \in Expired(j, NewestVerified(j)) : ~Verifying(b)},
                            run |-> None]
      BY <2>2 DEF CleanupStarts
    <3> DEFINE a == NewestVerified(j)
    <3>1. a \in RunsOf(j)
      BY DEF Anchors
    <3>2. cleanup'[k].anchor = a /\ cleanup'[k].step = "probe"
      OBVIOUS
    <3>3. cleanup'[k].todo \subseteq RunsOf(j) \ {a}
      BY DEF Expired
    <3>4. QED  BY <2>2, <3>1, <3>2, <3>3 DEF RunsOf
  <2>3. CASE l = k /\ (CleanupMovesOn(k) \/ CleanupLetsGo(k))
    <3>1. /\ cleanup'[k].step = "loop"
          /\ cleanup'[k].todo \subseteq cleanup[k].todo
          /\ cleanup'[k].anchor = cleanup[k].anchor
      BY <1>4, <2>3 DEF CleanupMovesOn, CleanupLetsGo, ListShrinks, NoCleanup
    <3>2. Busy(k)
      BY <2>3 DEF CleanupMovesOn, CleanupLetsGo, Busy, Removing
    <3>3. object[cleanup[k].anchor]
      <4>1. cleanup'[k] # NoCleanup
        BY <3>1 DEF NoCleanup
      <4>2. QED
        BY <2>3, <3>2, <4>1 DEF CleanupMovesOn, CleanupLetsGo, Removing, AnchorInv
    <3>4. object'[cleanup[k].anchor]
      BY <1>3, <3>2, <3>3
    <3>5. QED  BY <2>3, <3>1, <3>2, <3>4 DEF AnchorInv
  <2>4. CASE l = k /\ \E b \in Runs : CleanupTakes(k, b)
    <3> PICK b \in Runs : CleanupTakes(k, b)  BY <2>4
    <3>1. /\ cleanup'[k].todo = cleanup[k].todo /\ cleanup'[k].anchor = cleanup[k].anchor
          /\ cleanup'[k].run = b /\ b \in cleanup[k].todo
      BY <1>0 DEF CleanupTakes, CleanupStates
    <3>2. Busy(k) /\ object[cleanup[k].anchor] /\ UNCHANGED object
      BY DEF CleanupTakes, Busy, AnchorInv
    <3>3. QED  BY <2>4, <3>1, <3>2 DEF AnchorInv
  <2>5. CASE l = k /\ CleanupRemoves(k)
    <3>1. /\ cleanup'[k].todo = cleanup[k].todo /\ cleanup'[k].anchor = cleanup[k].anchor
          /\ cleanup'[k].run = cleanup[k].run
      BY <1>0, <2>5 DEF CleanupRemoves, CleanupStates
    <3>2. Busy(k) /\ Removing(k) /\ object[cleanup[k].anchor]
      BY <2>5 DEF CleanupRemoves, Busy, Removing, AnchorInv
    <3>3. object'[cleanup[k].anchor]
      BY <1>3, <3>2
    <3>4. QED  BY <2>5, <3>1, <3>2, <3>3 DEF AnchorInv
  <2>6. QED  BY <1>0, <2>1, <2>2, <2>3, <2>4, <2>5 DEF CleanupKind
<1>5. QED  BY <1>4 DEF AnchorInv, Busy, Removing

LEMMA AnchorStep ==
  ASSUME SystemTypeOK, CleanupsApart, AnchorInv, [SystemNext]_systemVars
  PROVE  AnchorInv'
<1>1. CASE RestoreMoves
  <2>1. UNCHANGED object
    BY <1>1, ObjectsKept DEF RestoreMoves
  <2>2. ASSUME NEW k \in Cleanups, cleanup'[k].step # "idle"
        PROVE  cleanup'[k] = cleanup[k] /\ Busy(k)
    BY <1>1, <2>2, RemovalsKept DEF Busy, NoCleanup
  <2>3. QED  BY <2>1, <2>2 DEF AnchorInv, Busy, Removing
<1>2. CASE \E k \in Cleanups : CleanupMoves(k)
  BY <1>2, AnchorCleanup
<1>3. QED  BY <1>1, <1>2, SystemSteps

\* A cleanup removes a dump only while the anchor it proved is in the object store,
\* in every behaviour in which cleanups of one job do not overlap: neither restores,
\* nor recovery, nor faults, nor the cleanups of other jobs endanger it.
THEOREM AnchorOutlivesCleanup == SystemSpec /\ []CleanupsApart => []AnchorRemains
<1>1. SystemInit => AnchorInv
  BY DEF SystemInit, RetentionInit, AnchorInv, Busy, NoCleanup
<1>2. SystemTypeOK /\ CleanupsApart /\ AnchorInv /\ [SystemNext]_systemVars => AnchorInv'
  BY AnchorStep
<1>3. AnchorInv => AnchorRemains
  BY DEF AnchorInv, AnchorRemains, Busy, Removing
<1>4. QED  BY <1>1, <1>2, <1>3, SystemTypeCorrect, PTL DEF SystemSpec

\* So with one cleanup at a time the claim holds outright.
THEOREM OneCleanupKeepsItsAnchor ==
  ASSUME \A k, l \in Cleanups : k = l
  PROVE  SystemSpec => []AnchorRemains
<1>1. CleanupsApart
  BY DEF CleanupsApart
<1>2. []CleanupsApart
  BY <1>1, PTL
<1>3. QED  BY <1>2, AnchorOutlivesCleanup, PTL

----------------------------------------------------------------------------
(***************************************************************************)
(* The store as restores and retention see it.  A call that is about to    *)
(* pin a run found it listed, and the lock keeps it listed; a removal that *)
(* is about to clear the path has made sure that the dump is gone.         *)
(***************************************************************************)
ListedInv ==
  /\ \A c \in Requests : Pinning(c) => path[BackupRunOf(c)]
  /\ \A k \in Cleanups : cleanup[k].step = "removed" => ~object[cleanup[k].run]

LEMMA ObjectsOnlyGo ==
  ASSUME SystemTypeOK, [SystemNext]_systemVars, NEW b \in Runs, ~object[b]
  PROVE  ~object'[b]
<1>0. object \in [Runs -> BOOLEAN]
  BY DEF SystemTypeOK, TypeOK, CatalogTypeOK
<1>1. CASE RestoreMoves
  BY <1>1, ObjectsKept DEF RestoreMoves
<1>2. ASSUME NEW k \in Cleanups, CleanupMoves(k)
      PROVE  ~object'[b]
  <2>1. UNCHANGED object \/ \E a : object' = [object EXCEPT ![a] = FALSE]
    BY <1>2, CleanupKinds DEF SystemTypeOK, CleanupKind, CleanupStarts, CleanupMovesOn,
       CleanupTakes, CleanupRemoves, CleanupLetsGo
  <2>2. QED  BY <1>0, <2>1
<1>3. QED  BY <1>1, <1>2, SystemSteps

LEMMA ListedStep ==
  ASSUME SystemTypeOK, HolderInv, SparesInv, ListedInv, [SystemNext]_systemVars
  PROVE  ListedInv'
<1>0. \A c \in Requests : BackupRunOf(c)' = BackupRunOf(c) /\ BackupRunOf(c) \in Runs
  <2>1. UNCHANGED dto
    BY SystemSteps, SubmissionsFixed, CleanupKeepsRows DEF RestoreMoves
  <2>2. QED  BY <2>1, RunOfRequest DEF SystemTypeOK, BackupRunOf
<1>1. ASSUME NEW c \in Requests, Pinning(c)'
      PROVE  path'[BackupRunOf(c)]
  <2>1. CASE Pinning(c)
    BY <2>1, PinStep DEF ListedInv
  <2>2. CASE ~Pinning(c)
    <3>1. CASE RestoreMoves
      <4>1. ~ \E p \in Procs : Crash(p)
        BY <1>1, <2>2 DEF Crash, RestoreForgets, Pinning, CallOpen
      <4>2. CallTakes(c)
        <5>1. (\E d \in Requests : CallTakes(d) \/ CallLetsGo(d)) \/ LocksKept
          BY <3>1, <4>1, RestoreLocks DEF RestoreMoves, SystemTypeOK
        <5>2. QED  BY <1>1, <2>2, <5>1 DEF CallTakes, CallLetsGo, LocksKept
      <4>3. QED
        BY <3>1, <4>2, ObjectsKept DEF RestoreMoves, CallTakes, Restorable
    <3>2. CASE \E k \in Cleanups : CleanupMoves(k)
      BY <1>1, <2>2, <3>2, CleanupKeepsRows DEF Pinning, restoreVars
    <3>3. QED  BY <3>1, <3>2, SystemSteps
  <2>3. QED  BY <2>1, <2>2
<1>2. ASSUME NEW l \in Cleanups, cleanup'[l].step = "removed"
      PROVE  ~object'[cleanup'[l].run]
  <2>0. ASSUME cleanup'[l] = cleanup[l]  PROVE ~object'[cleanup'[l].run]
    BY <1>2, <2>0, ObjectsOnlyGo DEF ListedInv, HolderInv, Removing
  <2>1. CASE RestoreMoves
    BY <1>2, <2>0, <2>1, RemovalsKept DEF Removing
  <2>2. ASSUME NEW k \in Cleanups, CleanupMoves(k)
        PROVE  ~object'[cleanup'[l].run]
    <3>1. /\ CleanupKind(k) /\ Others(k)
          /\ cleanup[k] \in CleanupStates
          /\ object \in [Runs -> BOOLEAN]
      BY <2>2, CleanupKinds DEF SystemTypeOK, CleanupKind, RetentionTypeOK, CleanupStates,
         TypeOK, CatalogTypeOK
    <3>2. CASE l # k
      BY <2>0, <3>1, <3>2 DEF Others
    <3>3. CASE l = k
      <4>1. ~CleanupStarts(k) /\ ~ListShrinks(k)
        <5>1. CleanupStarts(k) => cleanup'[k].step = "probe"
          BY DEF CleanupStarts
        <5>2. ListShrinks(k) => cleanup'[k].step \in {"idle", "loop"}
          BY DEF ListShrinks, NoCleanup
        <5>3. QED  BY <1>2, <3>3, <5>1, <5>2
      <4>2. ~ \E b \in Runs : CleanupTakes(k, b)
        BY <1>2, <3>1, <3>3 DEF CleanupTakes, CleanupStates
      <4>3. CleanupRemoves(k)
        BY <3>1, <4>1, <4>2 DEF CleanupKind, CleanupMovesOn, CleanupLetsGo
      <4>4. cleanup'[k].run = cleanup[k].run /\ cleanup[k].run \in Runs
        BY <3>1, <4>3 DEF CleanupRemoves, CleanupStates, HolderInv, Removing
      <4>5. QED  BY <3>1, <3>3, <4>3, <4>4 DEF CleanupRemoves
    <3>4. QED  BY <3>2, <3>3
  <2>3. QED  BY <2>1, <2>2, SystemSteps
<1>3. QED  BY <1>0, <1>1, <1>2 DEF ListedInv

LEMMA ListedInvariant == SystemSpec => []ListedInv
<1>1. SystemInit => ListedInv
  BY DEF SystemInit, Init, RestoreInit, RetentionInit, ListedInv, Pinning, NoCleanup
<1>2. SystemTypeOK /\ HolderInv /\ SparesInv /\ ListedInv /\ [SystemNext]_systemVars
        => ListedInv'
  BY ListedStep
<1>3. QED
  BY <1>1, <1>2, SystemTypeCorrect, HolderInvariant, SparesInvariant, PTL DEF SystemSpec

RunsAsked == [r \in Requests |-> BackupRunOf(r)]
Pins == {r \in Requests : Active(r)}
Listed == {b \in Runs : path[b]}
StoredOnes == {b \in Runs : object[b]}

LEMMA StoreInits == SystemInit => Store!StoreInit
<1> SUFFICES ASSUME SystemInit  PROVE Store!StoreInit
  OBVIOUS
<1>1. RunsAsked \in [Requests -> Runs]
  BY SystemTypeInit, RunOfRequest DEF SystemTypeOK, RunsAsked
<1>2. Pins = {}
  BY DEF SystemInit, Init, CatalogInit, Pins, Active, ACTIVE_RESTORE_STATUSES
<1>3. Listed = Runs /\ StoredOnes = Runs
  BY DEF SystemInit, Init, CatalogInit, Listed, StoredOnes
<1>4. QED
  BY <1>1, <1>2, <1>3 DEF Store!StoreInit, RunsAsked, Pins, Listed, StoredOnes

StoreStutters == UNCHANGED <<RunsAsked, Pins, Listed, StoredOnes>>

\* A step of restore or recovery pins or releases at most one request.
LEMMA StoreRestore ==
  ASSUME SystemTypeOK, RestoreInv, ListedInv, RestoreMoves
  PROVE  Store!StoreNext \/ StoreStutters
<1>1. UNCHANGED <<RunsAsked, Listed, StoredOnes>>
  BY SubmissionsFixed, ObjectsKept DEF RestoreMoves, RunsAsked, Listed, StoredOnes,
     BackupRunOf
<1>2. StepKind /\ TypeOK
  BY StepKinds DEF RestoreMoves, SystemTypeOK, RestoreInv
<1>3. status \in [Requests -> RestoreStatus \cup {"absent"}]
  BY <1>2 DEF TypeOK, CatalogTypeOK
<1> USE DEF ACTIVE_RESTORE_STATUSES
<1>4. CASE UNCHANGED Pins
  BY <1>1, <1>4 DEF StoreStutters
<1>5. CASE UNCHANGED status
  BY <1>4, <1>5 DEF Pins, Active
<1>6. CASE \E p \in Procs, r \in Requests : Claims(p, r)
  <2> PICK p \in Procs, r \in Requests : Claims(p, r)  BY <1>6
  <2>1. status[r] = "pending" /\ status' = [status EXCEPT ![r] = "running"]
    BY DEF Claims, Claimable, claimForExecution
  <2>2. UNCHANGED Pins
    BY <1>3, <2>1 DEF Pins, Active
  <2>3. QED  BY <1>4, <2>2
<1>7. CASE \E r \in Requests : PinInserts(r)
  <2> PICK r \in Requests : PinInserts(r)  BY <1>7
  <2>1. status[r] = "absent" /\ status' = [status EXCEPT ![r] = "pending"]
    BY DEF PinInserts, RestoreInv, RowInv, Stored
  <2>2. r \notin Pins /\ Pins' = Pins \cup {r}
    BY <1>3, <2>1 DEF Pins, Active
  <2>3. RunsAsked[r] \in Listed
    BY <1>2, RunOfRequest DEF PinInserts, ListedInv, Pinning, RunsAsked, Listed
  <2>4. Store!Pin(r)
    BY <1>1, <2>2, <2>3 DEF Store!Pin, RunsAsked, Pins, Listed, StoredOnes
  <2>5. QED  BY <2>4 DEF Store!StoreNext
<1>8. CASE SomeSettles
  <2> PICK r \in Requests, s \in TERMINAL_RESTORE_STATUSES,
           why \in Errors \cup {None} : Settles(r, s, why)
    BY <1>8 DEF SomeSettles
  <2>1. Active(r) /\ status' = [status EXCEPT ![r] = s]
    BY DEF Settles
  <2>2. r \in Pins /\ Pins' = Pins \ {r}
    BY <1>3, <2>1 DEF Pins, Active, TERMINAL_RESTORE_STATUSES
  <2>3. Store!Release(r)
    BY <1>1, <2>2 DEF Store!Release, RunsAsked, Pins, Listed, StoredOnes
  <2>4. QED  BY <2>3 DEF Store!StoreNext
<1>9. QED
  BY <1>2, <1>5, <1>6, <1>7, <1>8 DEF StepKind, Quiet, PgRestoreCommits, catalogVars

\* A step of a cleanup removes one dump, or takes one run off the list.
LEMMA StoreCleanup ==
  ASSUME SystemTypeOK, HolderInv, SparesInv, ListedInv, NEW k \in Cleanups, CleanupMoves(k)
  PROVE  Store!StoreNext \/ StoreStutters
<1>0. /\ CleanupKind(k)
      /\ path \in [Runs -> BOOLEAN] /\ object \in [Runs -> BOOLEAN]
  BY CleanupKinds DEF SystemTypeOK, TypeOK, CatalogTypeOK
<1>1. UNCHANGED <<RunsAsked, Pins>>
  BY CleanupKeepsRows DEF RunsAsked, Pins, Active, BackupRunOf
<1>2. CASE UNCHANGED <<path, object>>
  BY <1>1, <1>2 DEF StoreStutters, Listed, StoredOnes
<1> DEFINE b == cleanup[k].run
<1>3. Removing(k) => b \in Runs /\ ~Store!Pinned(b)
  BY DEF HolderInv, SparesInv, Referenced, ActiveRestoresOf, Store!Pinned
<1>4. CASE CleanupRemoves(k)
  <2>1. Removing(k) /\ object' = [object EXCEPT ![b] = FALSE] /\ UNCHANGED path
    BY <1>4 DEF CleanupRemoves, Removing
  <2>2. StoredOnes' = StoredOnes \ {b} /\ UNCHANGED Listed
    BY <1>0, <2>1 DEF StoredOnes, Listed
  <2>3. CASE b \in StoredOnes
    <3> PICK a \in Runs : a = b
      BY <1>3, <2>1
    <3>1. Store!Remove(a)
      BY <1>1, <1>3, <2>1, <2>2, <2>3 DEF Store!Remove, RunsAsked, Pins, Listed, StoredOnes
    <3>2. QED  BY <3>1 DEF Store!StoreNext
  <2>4. CASE b \notin StoredOnes
    BY <1>1, <2>2, <2>4 DEF StoreStutters
  <2>5. QED  BY <2>3, <2>4
<1>5. CASE CleanupLetsGo(k)
  <2>1. CASE UNCHANGED path
    BY <1>2, <1>5, <2>1 DEF CleanupLetsGo
  <2>2. CASE path' # path
    <3>1. /\ Removing(k) /\ cleanup[k].step = "removed"
          /\ path' = [path EXCEPT ![b] = FALSE] /\ UNCHANGED object
      BY <1>5, <2>2 DEF CleanupLetsGo
    <3>2. Listed' = Listed \ {b} /\ UNCHANGED StoredOnes
      BY <1>0, <3>1 DEF StoredOnes, Listed
    <3>3. b \notin StoredOnes
      BY <3>1 DEF ListedInv, StoredOnes
    <3>4. CASE b \in Listed
      <4> PICK a \in Runs : a = b
        BY <1>3, <3>1
      <4>1. Store!Unlist(a)
        BY <1>1, <1>3, <3>1, <3>2, <3>3, <3>4 DEF Store!Unlist, RunsAsked, Pins, Listed,
           StoredOnes
      <4>2. QED  BY <4>1 DEF Store!StoreNext
    <3>5. CASE b \notin Listed
      BY <1>1, <3>2, <3>5 DEF StoreStutters
    <3>6. QED  BY <3>4, <3>5
  <2>3. QED  BY <2>1, <2>2
<1>6. QED
  BY <1>0, <1>2, <1>4, <1>5 DEF CleanupKind, CleanupStarts, CleanupMovesOn, CleanupTakes

\* Restores, recovery and cleanups implement the store with atomic pins and removals.
THEOREM StoreIsAsPromised == SystemSpec => ImplementsPinnedStore
<1>1. SystemTypeOK /\ RestoreInv /\ HolderInv /\ SparesInv /\ ListedInv
        /\ [SystemNext]_systemVars
        => [Store!StoreNext]_<<RunsAsked, Pins, Listed, StoredOnes>>
  BY StoreRestore, StoreCleanup, SystemSteps DEF StoreStutters
<1>2. QED
  BY <1>1, StoreInits, SystemTypeCorrect, RestoreInvariant, HolderInvariant,
     SparesInvariant, ListedInvariant, PTL
  DEF SystemSpec, ImplementsPinnedStore, Store!StoreSpec, Store!storeVars, RunsAsked,
      Pins, Listed, StoredOnes
=============================================================================
