---------------------------- MODULE ControlPlane ----------------------------
(***************************************************************************)
(* The processes of the service around the restore path: they boot         *)
(* (schema readiness, the nightly bootstrap, the cron jobs), serve the     *)
(* jobs API, run backups by hand and by cron, and verify tokens.           *)
(*                                                                         *)
(* The behaviours are bounded by what the environment does: each of the    *)
(* Loads says with which rows and flags the system starts, and how many    *)
(* boots, edits, backups, faults and so on happen to it.                   *)
(***************************************************************************)
EXTENDS BackupService, SchemaReadiness, JwksCache

CONSTANT Loads

\* A row as a sequence of edits that were not torn leaves it.
LegalRow(row) ==
  /\ row \in Row
  /\ IF Low(row.retention) THEN Approved(row) ELSE row.actor = None /\ row.reason = None
  /\ CronAgrees(row)

Events == {"boots", "edits", "backups", "restores", "tokens", "publishes",
           "faults", "crashes"}

ASSUME LoadsAssumption ==
  \A load \in Loads :
    /\ load.left \in [Events -> Nat]
    /\ load.env \in Environments
    /\ load.job \in [Jobs -> Row \cup {None}]
    /\ \A j \in Jobs : load.job[j] # None => LegalRow(load.job[j])
    /\ load.active \in [Targets -> Nat]

VARIABLES
  left,   \* left[k]: how many more events of kind k may happen
  found,  \* found[p]: the crons of the jobs findEnabled gave to the boot of p
  edited  \* edited[p]: jobs that requests stored during the boot of p, since the
          \* bootstrap's save read its row and until findEnabled (history)

bootVars == <<found, edited>>

controlVars ==
  <<deploymentVars, jobsVars, backupVars, schemaVars, jwksVars, left, bootVars>>

Spend(k) == left[k] > 0 /\ left' = [left EXCEPT ![k] = @ - 1]

\* Ids are interchangeable: a new call, run or token takes any unused one.
NewCall(c) == call[c] = NoCall /\ c = CHOOSE d \in Calls : call[d] = NoCall
NewRun(b) == run[b] = NoRun /\ b = CHOOSE d \in Runs : run[d] = NoRun
NewToken(v) == check[v] = NoCheck /\ v = CHOOSE w \in Tokens : check[w] = NoCheck

\* The boot of p is between the bootstrap's read of its row and findEnabled.
LooksForJobs(p) ==
  phase[p] = "ensured" \/ (phase[p] = "ensuring" /\ call[p].stage # "save")

TrackEdits(c) ==
  edited' = [p \in Procs |->
               IF c \in Calls /\ LooksForJobs(p)
               THEN edited[p] \cup {j \in Jobs : job'[j] # job[j]} ELSE edited[p]]

----------------------------------------------------------------------------
\* What p had in memory is gone, whatever it was doing.
Forget(p, why) ==
  /\ ProcessEnds(p, why)
  /\ CallsForget(p)
  /\ BackupsForget(p)
  /\ ReadinessForgets(p)
  /\ JwksForgets(p)
  /\ found' = [found EXCEPT ![p] = NoCrons]
  /\ edited' = [edited EXCEPT ![p] = {}]

\* main.ts up to listen.
BootSchema(p) ==
  /\ align(p) \/ verifyRestoreSerialization(p)
  /\ UNCHANGED <<jobsVars, backupVars, jwksVars, left, bootVars>>

BootDegraded(p) ==
  /\ VerifyFails(p)
  /\ Spend("faults")
  /\ UNCHANGED <<jobsVars, backupVars, jwksVars, bootVars>>

\* onModuleInit of BackupService: ensureDefaultNightlyJob ...
BootBootstrap(p) ==
  /\ phase[p] = "verified"
  /\ IF env.nightly
     THEN ensureJob(p) /\ BootGoesTo(p, "ensuring")
     ELSE BootGoesTo(p, "ensured") /\ UNCHANGED jobsVars
  /\ UNCHANGED <<backupVars, schemaVars, jwksVars, left, bootVars>>

BootBootstrapped(p) ==
  /\ phase[p] = "ensuring"
  /\ call[p].stage = "done"
  /\ BootGoesTo(p, "ensured")
  /\ UNCHANGED <<jobsVars, backupVars, schemaVars, jwksVars, left, bootVars>>

\* Its save failed, and ends the boot.
BootBootstrapThrows(p) ==
  /\ phase[p] = "ensuring"
  /\ call[p].stage = "failed"
  /\ Forget(p, "error")
  /\ UNCHANGED left

\* ... findEnabled ...
BootFinds(p) ==
  /\ phase[p] = "ensured"
  /\ BootGoesTo(p, "found")
  /\ found' = [found EXCEPT ![p] = findEnabled]
  /\ UNCHANGED <<jobsVars, backupVars, schemaVars, jwksVars, left, edited>>

\* ... then registerCron for each of them.  An expression the cron library does not
\* take ends the boot.
BootRegisters(p) ==
  /\ phase[p] = "found"
  /\ IF \A j \in Jobs : found[p][j] # None => Parsable(found[p][j])
     THEN /\ BootGoesTo(p, "serving")
          /\ cron' = [cron EXCEPT ![p] = found[p]]
          /\ found' = [found EXCEPT ![p] = NoCrons]
          /\ UNCHANGED <<jobsVars, run, dump, exec, triggered, applied, spoiled,
                         schemaVars, jwksVars, left, edited>>
     ELSE Forget(p, "cron") /\ UNCHANGED left

BootStep(p) ==
  \/ BootSchema(p)
  \/ BootBootstrap(p) \/ BootBootstrapped(p) \/ BootBootstrapThrows(p)
  \/ BootFinds(p) \/ BootRegisters(p)

\* A query of the boot fails; one of save is a SaveFails.
BootFails(p) ==
  /\ phase[p] \in {"created", "verified", "ensured"}
  /\ Forget(p, "error")
  /\ Spend("faults")

Boots(p) ==
  /\ CreateApp(p)
  /\ Spend("boots")
  /\ UNCHANGED <<jobsVars, backupVars, schemaVars, jwksVars, bootVars>>

\* A process dies, or the pod is replaced in a rollout.
Crashes(p) ==
  /\ Forget(p, "crash")
  /\ Spend("crashes")

----------------------------------------------------------------------------
\* A request to the jobs API.
RequestEdit(c) ==
  /\ NewCall(c)
  /\ \E p \in Procs, j \in Jobs :
       /\ Serving(p)
       /\ \/ \E dto \in Dtos : create(c, p, j, dto) \/ update(c, p, j, dto)
          \/ remove(c, p, j)
  /\ Spend("edits")
  /\ UNCHANGED <<deploymentVars, backupVars, schemaVars, jwksVars, bootVars>>

Saves(c) ==
  /\ CallStep(c)
  /\ TrackEdits(c)
  /\ UNCHANGED <<deploymentVars, backupVars, schemaVars, jwksVars, left, found>>

SaveFails(c) ==
  /\ CallFails(c)
  /\ Spend("faults")
  /\ UNCHANGED <<deploymentVars, backupVars, schemaVars, jwksVars, bootVars>>

\* triggerManual, and the callback of a cron.
TriggerManual(b) ==
  /\ NewRun(b)
  /\ \E p \in Procs, j \in Jobs : Serving(p) /\ executeJob(b, p, j, "manual")
  /\ Spend("backups")
  /\ UNCHANGED <<deploymentVars, schemaVars, jwksVars, bootVars>>

CronFires(b) ==
  /\ NewRun(b)
  /\ \E p \in Procs, j \in Jobs :
       Serving(p) /\ cron[p][j] # None /\ executeJob(b, p, j, "scheduler")
  /\ Spend("backups")
  /\ UNCHANGED <<deploymentVars, schemaVars, jwksVars, bootVars>>

Executes(b) ==
  /\ ExecutionStep(b)
  /\ UNCHANGED <<deploymentVars, schemaVars, jwksVars, left, bootVars>>

ExecutionFails(b) ==
  /\ ExecutionThrows(b) \/ DiscardUnconfirmed(b)
  /\ Spend("faults")
  /\ UNCHANGED <<deploymentVars, schemaVars, jwksVars, bootVars>>

\* Restores come, from this release and an older one, and end.
RestoreTraffic(t) ==
  /\ \/ (LegacyRestore(t) \/ \E p \in Procs : AcceptRestore(p, t)) /\ Spend("restores")
     \/ RestoreEnds(t) /\ UNCHANGED left
  /\ UNCHANGED <<deploymentVars, jobsVars, backupVars, jwksVars, bootVars>>

\* Tokens come and wait for keys.
TokenArrives(v) ==
  /\ NewToken(v)
  /\ \E p \in Procs, k \in Kids : Serving(p) /\ verifyAuthToken(v, p, k)
  /\ Spend("tokens")
  /\ UNCHANGED <<deploymentVars, jobsVars, backupVars, schemaVars, bootVars>>

KeyStep(p) ==
  /\ AuthAnswers(p) \/ CacheAges(p)
  /\ UNCHANGED <<deploymentVars, jobsVars, backupVars, schemaVars, left, bootVars>>

FetchEnds(p) ==
  /\ FetchDone(p) \/ FetchFails(p)
  /\ UNCHANGED <<deploymentVars, jobsVars, backupVars, schemaVars, left, bootVars>>

TokenResumes(v) ==
  /\ Resume(v)
  /\ UNCHANGED <<deploymentVars, jobsVars, backupVars, schemaVars, left, bootVars>>

KeysRotate ==
  /\ \E k \in Kids : Publish(k)
  /\ Spend("publishes")
  /\ UNCHANGED <<deploymentVars, jobsVars, backupVars, schemaVars, bootVars>>

ControlNext ==
  \/ \E p \in Procs : \/ BootStep(p) \/ BootDegraded(p) \/ BootFails(p)
                      \/ Boots(p) \/ Crashes(p)
                      \/ KeyStep(p) \/ FetchEnds(p)
  \/ \E c \in Calls : RequestEdit(c)
  \/ \E c \in Savers : Saves(c) \/ SaveFails(c)
  \/ \E b \in Runs : \/ TriggerManual(b) \/ CronFires(b)
                     \/ Executes(b) \/ ExecutionFails(b)
  \/ \E t \in Targets : RestoreTraffic(t)
  \/ \E v \in Tokens : TokenArrives(v) \/ TokenResumes(v)
  \/ KeysRotate

ControlInit ==
  /\ \E load \in Loads :
       /\ left = load.left
       /\ env = load.env
       /\ job = load.job
       /\ active = load.active
  /\ DeploymentInit
  /\ JobsInit
  /\ BackupInit
  /\ SchemaInit
  /\ JwksInit
  /\ found = [p \in Procs |-> NoCrons]
  /\ edited = [p \in Procs |-> {}]

ControlSpec == ControlInit /\ [][ControlNext]_controlVars

----------------------------------------------------------------------------
\* Node runs every callback, the statements of the database, wal-g and pg_dump
\* return, and a fetch ends by its timeout at the latest; auth need not answer.
ControlFairness ==
  /\ \A p \in Procs : WF_controlVars(BootStep(p)) /\ WF_controlVars(FetchEnds(p))
  /\ \A c \in Savers : WF_controlVars(Saves(c))
  /\ \A b \in Runs : WF_controlVars(Executes(b))
  /\ \A v \in Tokens : WF_controlVars(TokenResumes(v))

FairControlSpec == ControlSpec /\ ControlFairness

ControlTypeOK ==
  /\ DeploymentTypeOK
  /\ JobsTypeOK
  /\ BackupTypeOK
  /\ SchemaTypeOK
  /\ JwksTypeOK
  /\ left \in [Events -> Nat]
  /\ found \in [Procs -> [Jobs -> Crons \cup {None}]]
  /\ edited \in [Procs -> SUBSET Jobs]

\* "Losing the index ... must not remove the service": a process that starts gets
\* to serve in the end, degraded or not, unless a fault, the strict flag, or a
\* stored cron expression that does not parse ends its boot.
EveryBootServes ==
  \A p \in Procs :
    phase[p] = "created" ~>
      \/ Serving(p)
      \/ exit[p] \in {"crash", "error", "cron"}
      \/ exit[p] = "strict" /\ env.strict

\* "Ensure Backups creates and schedules a default nightly ... job": a process that
\* serves runs the nightly job by the configured cron, whatever an owner made of its
\* row before, a restart or an overlapping rollout included; only a request that
\* stored the row while that process looked for its jobs can keep it from doing so.
NightlyIsScheduled ==
  \A p \in Procs : Serving(p) /\ env.nightly /\ Nightly \notin edited[p]
                    => cron[p][Nightly] = NightlyCron

\* "Schedule disabled.": the scheduler starts no run of a job that is disabled.
DisabledNeverFires ==
  [][\A b \in Runs : At(b, "idle") /\ exec'[b].step # "idle" /\ run'[b].trigger = "scheduler"
       => job[run'[b].job].enabled]_controlVars
=============================================================================
