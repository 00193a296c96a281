---------------------------- MODULE ControlMoves ----------------------------
(***************************************************************************)
(* What a step of the composed system is to each of its components: one of *)
(* the component's own operations, or nothing.  The proofs about a         *)
(* component rest on these lemmas, and never look at the others.           *)
(***************************************************************************)
EXTENDS ControlPlane, TLAPS

DeploymentMove ==
  \/ \E p \in Procs :
       \/ \E next \in Phases : BootGoesTo(p, next)
       \/ \E why \in Exits : ProcessEnds(p, why)
       \/ CreateApp(p)
  \/ UNCHANGED deploymentVars

JobsMove ==
  \/ \E c \in Calls, p \in Procs, j \in Jobs :
       \/ \E dto \in Dtos : create(c, p, j, dto) \/ update(c, p, j, dto)
       \/ remove(c, p, j)
  \/ \E p \in Procs : ensureJob(p) \/ CallsForget(p)
  \/ \E c \in Savers : CallStep(c) \/ CallFails(c)
  \/ UNCHANGED jobsVars

runVars == <<run, dump, exec, triggered, applied, spoiled>>

Executing ==
  \E b \in Runs :
    \/ \E p \in Procs, j \in Jobs, t \in {"manual", "scheduler"} : executeJob(b, p, j, t)
    \/ ExecutionStep(b) \/ ExecutionThrows(b) \/ DiscardUnconfirmed(b)

BackupMove ==
  \/ Executing
  \/ \E p \in Procs : BackupsForget(p)
  \/ UNCHANGED runVars

Restoring ==
  \E t \in Targets :
    \/ LegacyRestore(t) \/ RestoreEnds(t)
    \/ \E p \in Procs : AcceptRestore(p, t)

SchemaMove ==
  \/ \E p \in Procs :
       \/ align(p) \/ verifyRestoreSerialization(p) \/ VerifyFails(p)
       \/ ReadinessForgets(p)
  \/ Restoring
  \/ UNCHANGED schemaVars

JwksMove ==
  \/ \E v \in Tokens, p \in Procs, k \in Kids : verifyAuthToken(v, p, k)
  \/ \E v \in Tokens : Resume(v)
  \/ \E p \in Procs :
       AuthAnswers(p) \/ CacheAges(p) \/ FetchDone(p) \/ FetchFails(p) \/ JwksForgets(p)
  \/ \E k \in Kids : Publish(k)
  \/ UNCHANGED jwksVars

----------------------------------------------------------------------------
\* The disjuncts of ControlNext, as cases of a proof.
BootCase == \E p \in Procs : BootStep(p) \/ BootDegraded(p) \/ BootFails(p) \/ Boots(p)
CrashCase == \E p \in Procs : Crashes(p)
JobCase ==
  \/ \E c \in Calls : RequestEdit(c)
  \/ \E c \in Savers : Saves(c) \/ SaveFails(c)
RunCase ==
  \E b \in Runs : TriggerManual(b) \/ CronFires(b) \/ Executes(b) \/ ExecutionFails(b)
RestoreCase == \E t \in Targets : RestoreTraffic(t)
TokenCase ==
  \/ \E p \in Procs : KeyStep(p) \/ FetchEnds(p)
  \/ \E v \in Tokens : TokenArrives(v) \/ TokenResumes(v)
  \/ KeysRotate

\* Every step of the system is one of these, or a stutter.
LEMMA ControlCases ==
  ASSUME [ControlNext]_controlVars
  PROVE  \/ BootCase \/ CrashCase \/ JobCase \/ RunCase \/ RestoreCase \/ TokenCase
         \/ UNCHANGED controlVars
BY DEF ControlNext, BootCase, CrashCase, JobCase, RunCase, RestoreCase, TokenCase

\* A step of the system as the boot of its processes sees it.
LEMMA DeploymentMoves ==
  ASSUME [ControlNext]_controlVars
  PROVE  DeploymentMove
<1>1. CASE BootCase
  BY <1>1 DEF BootCase, BootStep, BootSchema, BootBootstrap, BootBootstrapped,
       BootBootstrapThrows, BootFinds, BootRegisters, BootDegraded, BootFails, Boots, Forget,
       align, verifyRestoreSerialization, VerifyFails, Verify, DeploymentMove, Phases, Exits
<1>2. CASE CrashCase
  BY <1>2 DEF CrashCase, Crashes, Forget, DeploymentMove, Exits
<1>3. CASE JobCase
  BY <1>3 DEF JobCase, RequestEdit, Saves, SaveFails, DeploymentMove
<1>4. CASE RunCase
  BY <1>4 DEF RunCase, TriggerManual, CronFires, Executes, ExecutionFails, DeploymentMove
<1>5. CASE RestoreCase
  BY <1>5 DEF RestoreCase, RestoreTraffic, DeploymentMove
<1>6. CASE TokenCase
  BY <1>6 DEF TokenCase, KeyStep, FetchEnds, TokenArrives, TokenResumes, KeysRotate,
       DeploymentMove
<1>7. CASE UNCHANGED controlVars
  BY <1>7 DEF controlVars, DeploymentMove
<1> QED BY <1>1, <1>2, <1>3, <1>4, <1>5, <1>6, <1>7, ControlCases

\* A step of the system as the jobs see it.
LEMMA JobsMoves ==
  ASSUME [ControlNext]_controlVars
  PROVE  JobsMove
<1>1. CASE BootCase
  BY <1>1 DEF BootCase, BootStep, BootSchema, BootBootstrap, BootBootstrapped,
       BootBootstrapThrows, BootFinds, BootRegisters, BootDegraded, BootFails, Boots, Forget, JobsMove
<1>2. CASE CrashCase
  BY <1>2 DEF CrashCase, Crashes, Forget, JobsMove
<1>3. CASE JobCase
  BY <1>3 DEF JobCase, RequestEdit, Saves, SaveFails, JobsMove
<1>4. CASE RunCase
  <2>1. UNCHANGED jobsVars
    BY <1>4 DEF RunCase, TriggerManual, CronFires, Executes, ExecutionFails, executeJob,
         ExecutionStep, ExecutionThrows, DiscardUnconfirmed, RecordTrigger, BuildEnv, RejectEnv,
         UploadWrites, UploadSucceeds, UploadFails, DiscardPartialObject, SaveOutcome,
         TouchJob, ApplyRetention
  <2> QED BY <2>1 DEF JobsMove
<1>5. CASE RestoreCase
  BY <1>5 DEF RestoreCase, RestoreTraffic, JobsMove
<1>6. CASE TokenCase
  BY <1>6 DEF TokenCase, KeyStep, FetchEnds, TokenArrives, TokenResumes, KeysRotate, JobsMove
<1>7. CASE UNCHANGED controlVars
  BY <1>7 DEF controlVars, JobsMove
<1> QED BY <1>1, <1>2, <1>3, <1>4, <1>5, <1>6, <1>7, ControlCases

\* A step of the system as the executions of backups see it.
LEMMA BackupMoves ==
  ASSUME [ControlNext]_controlVars
  PROVE  BackupMove
<1>1. CASE BootCase
  BY <1>1 DEF BootCase, BootStep, BootSchema, BootBootstrap, BootBootstrapped,
       BootBootstrapThrows, BootFinds, BootRegisters, BootDegraded, BootFails, Boots, Forget,
       BackupMove, backupVars, runVars
<1>2. CASE CrashCase
  BY <1>2 DEF CrashCase, Crashes, Forget, BackupMove
<1>3. CASE JobCase
  BY <1>3 DEF JobCase, RequestEdit, Saves, SaveFails, BackupMove, backupVars, runVars
<1>4. CASE RunCase
  BY <1>4 DEF RunCase, TriggerManual, CronFires, Executes, ExecutionFails, BackupMove, Executing
<1>5. CASE RestoreCase
  BY <1>5 DEF RestoreCase, RestoreTraffic, BackupMove, backupVars, runVars
<1>6. CASE TokenCase
  BY <1>6 DEF TokenCase, KeyStep, FetchEnds, TokenArrives, TokenResumes, KeysRotate,
       BackupMove, backupVars, runVars
<1>7. CASE UNCHANGED controlVars
  BY <1>7 DEF controlVars, BackupMove, backupVars, runVars
<1> QED BY <1>1, <1>2, <1>3, <1>4, <1>5, <1>6, <1>7, ControlCases

\* A step of the system as the readiness of the schema sees it.
LEMMA SchemaMoves ==
  ASSUME [ControlNext]_controlVars
  PROVE  SchemaMove
<1>1. CASE BootCase
  BY <1>1 DEF BootCase, BootStep, BootSchema, BootBootstrap, BootBootstrapped,
       BootBootstrapThrows, BootFinds, BootRegisters, BootDegraded, BootFails, Boots, Forget, SchemaMove
<1>2. CASE CrashCase
  BY <1>2 DEF CrashCase, Crashes, Forget, SchemaMove
<1>3. CASE JobCase
  BY <1>3 DEF JobCase, RequestEdit, Saves, SaveFails, SchemaMove
<1>4. CASE RunCase
  BY <1>4 DEF RunCase, TriggerManual, CronFires, Executes, ExecutionFails, SchemaMove
<1>5. CASE RestoreCase
  BY <1>5 DEF RestoreCase, RestoreTraffic, SchemaMove, Restoring
<1>6. CASE TokenCase
  BY <1>6 DEF TokenCase, KeyStep, FetchEnds, TokenArrives, TokenResumes, KeysRotate, SchemaMove
<1>7. CASE UNCHANGED controlVars
  BY <1>7 DEF controlVars, SchemaMove
<1> QED BY <1>1, <1>2, <1>3, <1>4, <1>5, <1>6, <1>7, ControlCases

\* A step of the system as the key caches see it.
LEMMA JwksMoves ==
  ASSUME [ControlNext]_controlVars
  PROVE  JwksMove
<1>1. CASE BootCase
  BY <1>1 DEF BootCase, BootStep, BootSchema, BootBootstrap, BootBootstrapped,
       BootBootstrapThrows, BootFinds, BootRegisters, BootDegraded, BootFails, Boots, Forget, JwksMove
<1>2. CASE CrashCase
  BY <1>2 DEF CrashCase, Crashes, Forget, JwksMove
<1>3. CASE JobCase
  BY <1>3 DEF JobCase, RequestEdit, Saves, SaveFails, JwksMove
<1>4. CASE RunCase
  BY <1>4 DEF RunCase, TriggerManual, CronFires, Executes, ExecutionFails, JwksMove
<1>5. CASE RestoreCase
  BY <1>5 DEF RestoreCase, RestoreTraffic, JwksMove
<1>6. CASE TokenCase
  BY <1>6 DEF TokenCase, KeyStep, FetchEnds, TokenArrives, TokenResumes, KeysRotate, JwksMove
<1>7. CASE UNCHANGED controlVars
  BY <1>7 DEF controlVars, JwksMove
<1> QED BY <1>1, <1>2, <1>3, <1>4, <1>5, <1>6, <1>7, ControlCases
=============================================================================
