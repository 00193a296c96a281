---------------------------- MODULE BackupService ----------------------------
(***************************************************************************)
(* executeJob of BackupService, from the running row to the catalogued     *)
(* run, and the cron jobs each process registered when it started.         *)
(*                                                                         *)
(* An execution works on the job it read at its start.  Nothing keeps two  *)
(* executions of a job apart, and none is taken up again after a crash.    *)
(* The upload is the piped pair of pg_dump and wal-g, of which module      *)
(* PipedPair shows that exit code 0 means a whole transfer.                *)
(***************************************************************************)
EXTENDS JobsService

CONSTANT Runs  \* ids of backup_runs

VARIABLES
  run,        \* run[b]: the row b of backup_runs, or NoRun
  dump,       \* dump[b]: what the object store holds at b's deterministic key
  exec,       \* exec[b]: the execution that writes run b
  triggered,  \* runs with an audit event MANUAL_BACKUP_TRIGGERED
  applied,    \* applied[b]: the job retention.cleanup was called with, or None
  spoiled,    \* runs a crash, an error or an unconfirmed removal hit (history)
  cron        \* cron[p][j]: the expression p runs job j by, or None

backupVars == <<run, dump, exec, triggered, applied, spoiled, cron>>

NoRun == [status |-> "absent", path |-> FALSE, verification |-> "pending",
          trigger |-> "none", job |-> None]
NoExec == [proc |-> None, step |-> "idle", job |-> None, outcome |-> "none"]

At(b, step) == exec[b].step = step
GoTo(b, step) == exec' = [exec EXCEPT ![b].step = step]
ExecEnds(b) == exec' = [exec EXCEPT ![b] = NoExec]
Spoil(b) == spoiled' = spoiled \cup {b}

----------------------------------------------------------------------------
\* executeJob: the job is read, whether it is enabled or not, and the row saved.
executeJob(b, p, j, trigger) ==
  /\ run[b] = NoRun
  /\ job[j] # None
  /\ run' = [run EXCEPT ![b] =
               [NoRun EXCEPT !.status = "running", !.trigger = trigger, !.job = j]]
  /\ exec' = [exec EXCEPT ![b] =
                [proc |-> p, step |-> IF trigger = "manual" THEN "audit" ELSE "build",
                 job |-> job[j], outcome |-> "none"]]
  /\ UNCHANGED <<jobsVars, dump, triggered, applied, spoiled, cron>>

\* MUTANT: the event is recorded without waiting for it.
RecordTriggerUnawaited(b) ==
  /\ At(b, "audit")
  /\ GoTo(b, "build")
  /\ \/ triggered' = triggered \cup {b}
     \/ UNCHANGED triggered
  /\ UNCHANGED <<jobsVars, run, dump, applied, spoiled, cron>>

RecordTrigger(b) ==
  /\ At(b, "audit")
  /\ GoTo(b, "build")
  /\ triggered' = triggered \cup {b}
  /\ UNCHANGED <<jobsVars, run, dump, applied, spoiled, cron>>

\* buildEnv and the object's name, from the target the job was read with.
BuildEnv(b) ==
  /\ At(b, "build")
  /\ GoTo(b, "push")
  /\ UNCHANGED <<jobsVars, run, dump, triggered, applied, spoiled, cron>>

\* They throw: no process is started.
RejectEnv(b) ==
  /\ At(b, "build")
  /\ exec' = [exec EXCEPT ![b].step = "save", ![b].outcome = "failed"]
  /\ UNCHANGED <<jobsVars, run, dump, triggered, applied, spoiled, cron>>

----------------------------------------------------------------------------
\* backupPush.  wal-g creates the object and completes it while it reads.
UploadWrites(b) ==
  /\ At(b, "push")
  /\ \/ dump[b] = "none" /\ dump' = [dump EXCEPT ![b] = "partial"]
     \/ dump[b] = "partial" /\ dump' = [dump EXCEPT ![b] = "whole"]
  /\ UNCHANGED <<jobsVars, run, exec, triggered, applied, spoiled, cron>>

\* MUTANT: the exit code of wal-g alone decides.
PairSucceededConsumerOnly(b) == dump[b] # "none"

\* The pair exits with 0 only after a whole transfer.
PairSucceeded(b) == dump[b] = "whole"

UploadSucceeds(b) ==
  /\ At(b, "push")
  /\ PairSucceeded(b)
  /\ exec' = [exec EXCEPT ![b].step = "save", ![b].outcome = "success"]
  /\ UNCHANGED <<jobsVars, run, dump, triggered, applied, spoiled, cron>>

\* Any other result, whatever wal-g left behind.
UploadFails(b) ==
  /\ At(b, "push")
  /\ GoTo(b, "discard")
  /\ UNCHANGED <<jobsVars, run, dump, triggered, applied, spoiled, cron>>

\* MUTANT: the result of a failed pair is returned as it is.
DiscardPartialObjectSkipped(b) ==
  /\ At(b, "discard")
  /\ exec' = [exec EXCEPT ![b].step = "save", ![b].outcome = "failed"]
  /\ UNCHANGED <<jobsVars, run, dump, triggered, applied, spoiled, cron>>

\* discardPartialObject: the key of a failed run is removed.
DiscardPartialObject(b) ==
  /\ At(b, "discard")
  /\ dump' = [dump EXCEPT ![b] = "none"]
  /\ exec' = [exec EXCEPT ![b].step = "save", ![b].outcome = "failed"]
  /\ UNCHANGED <<jobsVars, run, triggered, applied, spoiled, cron>>

\* The removal is "unconfirmed"; the run fails all the same.
DiscardUnconfirmed(b) ==
  /\ At(b, "discard")
  /\ Spoil(b)
  /\ exec' = [exec EXCEPT ![b].step = "save", ![b].outcome = "failed"]
  /\ UNCHANGED <<jobsVars, run, dump, triggered, applied, cron>>

----------------------------------------------------------------------------
\* The row an outcome makes of a run: success records the path and leaves the
\* verification pending, failure marks it skipped.
Outcome(row, outcome) ==
  [row EXCEPT !.status = outcome,
              !.path = (outcome = "success"),
              !.verification = IF outcome = "success" THEN "pending" ELSE "skipped"]

\* MUTANT: only successes are saved.
SaveOutcomeOfSuccess(b) ==
  /\ At(b, "save")
  /\ run' = IF exec[b].outcome = "success"
            THEN [run EXCEPT ![b] = Outcome(@, "success")] ELSE run
  /\ IF exec[b].outcome = "success" THEN GoTo(b, "touch") ELSE ExecEnds(b)
  /\ UNCHANGED <<jobsVars, dump, triggered, applied, spoiled, cron>>

\* runRepo.save(run) at each of its three places; notifications never throw.
SaveOutcome(b) ==
  /\ At(b, "save")
  /\ run' = [run EXCEPT ![b] = Outcome(@, exec[b].outcome)]
  /\ IF exec[b].outcome = "success" THEN GoTo(b, "touch") ELSE ExecEnds(b)
  /\ UNCHANGED <<jobsVars, dump, triggered, applied, spoiled, cron>>

\* updateLastRunAt sets a column the model leaves out.
TouchJob(b) ==
  /\ At(b, "touch")
  /\ GoTo(b, "cleanup")
  /\ UNCHANGED <<jobsVars, run, dump, triggered, applied, spoiled, cron>>

\* retention.cleanup is called with the job as it was read at the start.
ApplyRetention(b) ==
  /\ At(b, "cleanup")
  /\ applied' = [applied EXCEPT ![b] = exec[b].job]
  /\ ExecEnds(b)
  /\ UNCHANGED <<jobsVars, run, dump, triggered, spoiled, cron>>

\* The audit event, the save or the touch fails: executeJob throws, and the row
\* stays as it is.
ExecutionThrows(b) ==
  /\ exec[b].step \in {"audit", "save", "touch"}
  /\ ExecEnds(b)
  /\ Spoil(b)
  /\ UNCHANGED <<jobsVars, run, dump, triggered, applied, cron>>

ExecutionStep(b) ==
  \/ RecordTrigger(b)
  \/ BuildEnv(b) \/ RejectEnv(b)
  \/ UploadWrites(b) \/ UploadSucceeds(b) \/ UploadFails(b)
  \/ DiscardPartialObject(b)
  \/ SaveOutcome(b) \/ TouchJob(b) \/ ApplyRetention(b)

----------------------------------------------------------------------------
NoCrons == [j \in Jobs |-> None]

\* findEnabled of JobsService, by the crons its rows hold.
findEnabled ==
  [j \in Jobs |-> IF job[j] # None /\ job[j].enabled THEN job[j].cron ELSE None]

\* The process is gone, its children and crons with it.
BackupsForget(p) ==
  /\ exec' = [b \in Runs |-> IF exec[b].proc = p THEN NoExec ELSE exec[b]]
  /\ spoiled' = spoiled \cup {b \in Runs : exec[b].proc = p}
  /\ cron' = [cron EXCEPT ![p] = NoCrons]
  /\ UNCHANGED <<run, dump, triggered, applied>>

BackupInit ==
  /\ run = [b \in Runs |-> NoRun]
  /\ dump = [b \in Runs |-> "none"]
  /\ exec = [b \in Runs |-> NoExec]
  /\ triggered = {}
  /\ applied = [b \in Runs |-> None]
  /\ spoiled = {}
  /\ cron = [p \in Procs |-> NoCrons]

----------------------------------------------------------------------------
RunRow == [status : {"absent", "running", "success", "failed"}, path : BOOLEAN,
           verification : {"pending", "skipped"},
           trigger : {"none", "manual", "scheduler"}, job : Jobs \cup {None}]

ExecSteps ==
  {"idle", "audit", "build", "push", "discard", "save", "touch", "cleanup"}

BackupTypeOK ==
  /\ run \in [Runs -> RunRow]
  /\ dump \in [Runs -> {"none", "partial", "whole"}]
  /\ exec \in [Runs -> [proc : Procs \cup {None}, step : ExecSteps,
                        job : Row \cup {None},
                        outcome : {"none", "success", "failed"}]]
  /\ triggered \subseteq Runs
  /\ applied \in [Runs -> Row \cup {None}]
  /\ spoiled \subseteq Runs
  /\ cron \in [Procs -> [Jobs -> Crons \cup {None}]]

\* A path in the catalog means a restorable dump in the object store: what
\* restores, and the initial catalog of RestoreService, rely on.
CataloguedIsWhole ==
  \A b \in Runs : run[b].path => dump[b] = "whole" /\ run[b].status = "success"

\* No manual backup moves a byte before its trigger is in the audit trail.
ManualUploadAudited ==
  \A b \in Runs : run[b].trigger = "manual" /\ dump[b] # "none" => b \in triggered

\* "That key belongs to this failed run alone": once its execution is over, an
\* uncatalogued object is left only by a crash, an error or an unconfirmed removal.
OrphanOnlyByFault ==
  \A b \in Runs : dump[b] # "none" /\ ~run[b].path /\ At(b, "idle") => b \in spoiled

\* A run does not stay 'running' for ever, unless a crash or an error hit it.
EveryRunSettles ==
  \A b \in Runs : run[b].status = "running" ~>
                    run[b].status \in {"success", "failed"} \/ b \in spoiled

\* What an execution does to a run is a step of its abstract life.
LifeOf(b) == CASE run[b].status = "running" -> "open"
               [] run[b].status = "success" -> "sealed"
               [] OTHER -> run[b].status

RunLife == INSTANCE BackupRunLife
  WITH life <- [b \in Runs |-> LifeOf(b)],
       whole <- {b \in Runs : dump[b] = "whole"}

ImplementsRunLife == RunLife!LifeSpec
=============================================================================
