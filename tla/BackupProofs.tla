----------------------------- MODULE BackupProofs -----------------------------
(***************************************************************************)
(* Proofs about the runs of backups, whatever executions, crashes and      *)
(* errors interleave: what the catalog names is whole in the object store, *)
(* a manual upload is audited, and an execution implements the abstract    *)
(* life of a run; and about the boot, that every process that serves runs  *)
(* the nightly job.                                                        *)
(***************************************************************************)
EXTENDS JobsProofs, ReadinessProofs

ExecRecord == [proc : Procs \cup {None}, step : ExecSteps, job : Row \cup {None},
               outcome : {"none", "success", "failed"}]

RunsTypeOK ==
  /\ run \in [Runs -> RunRow]
  /\ dump \in [Runs -> {"none", "partial", "whole"}]
  /\ exec \in [Runs -> ExecRecord]
  /\ triggered \subseteq Runs
  /\ applied \in [Runs -> Row \cup {None}]
  /\ spoiled \subseteq Runs

\* Where an execution is, and what it has done to its row and its object by then.
StepAgrees(b) ==
  /\ exec[b].step \in {"audit", "build", "push", "discard", "save"}
       => run[b].status = "running" /\ ~run[b].path
  /\ exec[b].step \in {"audit", "build"} => dump[b] = "none"
  /\ exec[b].step = "save"
       => \/ exec[b].outcome = "success" /\ dump[b] = "whole"
          \/ exec[b].outcome = "failed" /\ (dump[b] = "none" \/ b \in spoiled)
  /\ exec[b].step \in {"touch", "cleanup"} => run[b].path

\* What a row says of its object and of the audit trail, with an execution or without.
RowAgrees(b) ==
  /\ run[b].path => dump[b] = "whole" /\ run[b].status = "success"
  /\ run[b].status = "absent"
       => dump[b] = "none" /\ exec[b].step = "idle" /\ applied[b] = None
  /\ run[b].trigger = "manual"
       /\ (dump[b] # "none" \/ exec[b].step \in {"build", "push", "discard"})
       => b \in triggered
  /\ exec[b].step = "idle" /\ dump[b] # "none" /\ ~run[b].path => b \in spoiled

\* An execution works on a row.
JobAgrees(b) == exec[b].step # "idle" => exec[b].job \in Row

RunAgrees(b) == StepAgrees(b) /\ RowAgrees(b) /\ JobAgrees(b)

BackupInv == RunsTypeOK /\ \A b \in Runs : RunAgrees(b)

LEMMA BackupInvInit == ControlInit => BackupInv
<1> SUFFICES ASSUME ControlInit PROVE BackupInv
  OBVIOUS
<1>1. /\ run = [b \in Runs |-> NoRun]
      /\ dump = [b \in Runs |-> "none"]
      /\ exec = [b \in Runs |-> NoExec]
      /\ triggered = {} /\ spoiled = {}
      /\ applied = [b \in Runs |-> None]
  BY DEF ControlInit, BackupInit
<1>2. NoRun \in RunRow /\ NoExec \in ExecRecord
  BY DEF NoRun, RunRow, NoExec, ExecRecord, ExecSteps
<1>3. RunsTypeOK
  BY <1>1, <1>2 DEF RunsTypeOK
<1>4. ASSUME NEW b \in Runs PROVE RunAgrees(b)
  <2>1. run[b] = NoRun /\ dump[b] = "none" /\ exec[b] = NoExec /\ applied[b] = None
    BY <1>1
  <2> QED BY <2>1 DEF RunAgrees, StepAgrees, RowAgrees, JobAgrees, NoRun, NoExec
<1> QED BY <1>3, <1>4 DEF BackupInv

\* A step that leaves the run b alone, whatever it adds to the histories.
LEMMA OthersAgree ==
  ASSUME NEW b \in Runs, RunAgrees(b),
         triggered \subseteq triggered', spoiled \subseteq spoiled',
         run'[b] = run[b], dump'[b] = dump[b], exec'[b] = exec[b], applied'[b] = applied[b]
  PROVE  RunAgrees(b)'
BY DEF RunAgrees, StepAgrees, RowAgrees, JobAgrees

\* The step of one execution, for the run it writes.
LEMMA ExecutionKeeps ==
  ASSUME BackupInv, RunsTypeOK', NEW b \in Runs,
         triggered \subseteq triggered', spoiled \subseteq spoiled',
         \A a \in Runs : a # b => /\ run'[a] = run[a] /\ dump'[a] = dump[a]
                                  /\ exec'[a] = exec[a] /\ applied'[a] = applied[a],
         RunAgrees(b)'
  PROVE  BackupInv'
<1>1. ASSUME NEW a \in Runs PROVE RunAgrees(a)'
  <2>1. CASE a = b
    BY <2>1
  <2>2. CASE a # b
    BY <2>2, OthersAgree DEF BackupInv
  <2> QED BY <2>1, <2>2
<1> QED BY <1>1 DEF BackupInv

----------------------------------------------------------------------------
\* What a step does to the record of the execution b.
LEMMA ExecutionGoes ==
  ASSUME RunsTypeOK, NEW b \in Runs, NEW s \in ExecSteps, GoTo(b, s)
  PROVE  /\ exec' \in [Runs -> ExecRecord]
         /\ exec'[b].step = s /\ exec'[b].outcome = exec[b].outcome
         /\ exec'[b].job = exec[b].job
         /\ \A a \in Runs : a # b => exec'[a] = exec[a]
<1> DEFINE x == [exec[b] EXCEPT !.step = s]
<1>1. exec' = [exec EXCEPT ![b] = x]
  BY DEF GoTo
<1>2. /\ x \in ExecRecord /\ x.step = s /\ x.outcome = exec[b].outcome
      /\ x.job = exec[b].job
  BY DEF RunsTypeOK, ExecRecord
<1> HIDE DEF x
<1> QED BY <1>1, <1>2 DEF RunsTypeOK

LEMMA ExecutionDecides ==
  ASSUME RunsTypeOK, NEW b \in Runs, NEW o \in {"success", "failed"},
         exec' = [exec EXCEPT ![b].step = "save", ![b].outcome = o]
  PROVE  /\ exec' \in [Runs -> ExecRecord]
         /\ exec'[b].step = "save" /\ exec'[b].outcome = o /\ exec'[b].job = exec[b].job
         /\ \A a \in Runs : a # b => exec'[a] = exec[a]
<1> DEFINE x == [exec[b] EXCEPT !.step = "save", !.outcome = o]
<1>1. exec' = [exec EXCEPT ![b] = x]
  OBVIOUS
<1>2. x \in ExecRecord /\ x.step = "save" /\ x.outcome = o /\ x.job = exec[b].job
  BY DEF RunsTypeOK, ExecRecord, ExecSteps
<1> HIDE DEF x
<1> QED BY <1>1, <1>2 DEF RunsTypeOK

LEMMA ExecutionIsOver ==
  ASSUME RunsTypeOK, NEW b \in Runs, ExecEnds(b)
  PROVE  /\ exec' \in [Runs -> ExecRecord] /\ exec'[b].step = "idle"
         /\ \A a \in Runs : a # b => exec'[a] = exec[a]
<1>1. NoExec \in ExecRecord /\ NoExec.step = "idle"
  BY DEF NoExec, ExecRecord, ExecSteps
<1> QED BY <1>1 DEF ExecEnds, RunsTypeOK

\* A run is opened, with the job as the execution reads it.
LEMMA OpensKeeps ==
  ASSUME BackupInv, JobsInv, NEW b \in Runs, NEW p \in Procs, NEW j \in Jobs,
         NEW t \in {"manual", "scheduler"}, executeJob(b, p, j, t)
  PROVE  BackupInv'
<1> DEFINE r == [NoRun EXCEPT !.status = "running", !.trigger = t, !.job = j]
           s == IF t = "manual" THEN "audit" ELSE "build"
           x == [proc |-> p, step |-> s, job |-> job[j], outcome |-> "none"]
<1>1. RunsTypeOK /\ RunAgrees(b) /\ run[b] = NoRun
  BY DEF BackupInv, executeJob
<1>2. job[j] \in Row
  BY DEF JobsInv, JobsTypeOK, executeJob
<1>3. r \in RunRow /\ r.status = "running" /\ r.path = FALSE /\ r.trigger = t /\ r.job = j
  BY DEF NoRun, RunRow
<1>4. x \in ExecRecord /\ x.step = s /\ x.job = job[j]
  BY <1>2 DEF ExecRecord, ExecSteps
<1>5. run' = [run EXCEPT ![b] = r] /\ exec' = [exec EXCEPT ![b] = x]
  BY DEF executeJob
<1>6. UNCHANGED <<jobsVars, dump, triggered, applied, spoiled>>
  BY DEF executeJob
<1>7. dump[b] = "none" /\ applied[b] = None
  BY <1>1 DEF RunAgrees, RowAgrees, NoRun
<1> HIDE DEF r, x
<1>8. RunsTypeOK' /\ run'[b] = r /\ exec'[b] = x
      /\ \A a \in Runs : a # b => run'[a] = run[a] /\ exec'[a] = exec[a]
  BY <1>1, <1>3, <1>4, <1>5, <1>6 DEF RunsTypeOK
<1>9. RunAgrees(b)'
  BY <1>2, <1>3, <1>4, <1>6, <1>7, <1>8
     DEF RunAgrees, StepAgrees, RowAgrees, JobAgrees
<1> QED BY <1>6, <1>8, <1>9, ExecutionKeeps

\* The steps up to the result of the upload.
LEMMA UploadKeeps ==
  ASSUME BackupInv, NEW b \in Runs,
         \/ RecordTrigger(b) \/ BuildEnv(b) \/ RejectEnv(b)
         \/ UploadWrites(b) \/ UploadSucceeds(b) \/ UploadFails(b)
         \/ DiscardPartialObject(b) \/ DiscardUnconfirmed(b)
  PROVE  BackupInv'
<1>0. RunsTypeOK /\ RunAgrees(b)
  BY DEF BackupInv
<1> USE DEF RunAgrees, StepAgrees, RowAgrees, JobAgrees, jobsVars, At
<1>1. CASE RecordTrigger(b)
  <2>1. GoTo(b, "build") /\ UNCHANGED <<run, dump, applied, spoiled>>
    BY <1>1 DEF RecordTrigger
  <2>2. RunsTypeOK'
    BY <1>0, <1>1, <2>1, ExecutionGoes DEF RecordTrigger, RunsTypeOK, ExecSteps
  <2>3. /\ exec'[b].step = "build" /\ exec'[b].job = exec[b].job
        /\ \A a \in Runs : a # b => exec'[a] = exec[a]
    BY <1>0, <2>1, ExecutionGoes DEF ExecSteps
  <2>4. RunAgrees(b)' /\ triggered \subseteq triggered'
    BY <1>0, <1>1, <2>1, <2>2, <2>3 DEF RecordTrigger
  <2> QED BY <2>1, <2>2, <2>3, <2>4, ExecutionKeeps
<1>2. CASE BuildEnv(b)
  <2>1. GoTo(b, "push") /\ UNCHANGED <<run, dump, triggered, applied, spoiled>>
    BY <1>2 DEF BuildEnv
  <2>2. RunsTypeOK'
    BY <1>0, <2>1, ExecutionGoes DEF RunsTypeOK, ExecSteps
  <2>3. /\ exec'[b].step = "push" /\ exec'[b].job = exec[b].job
        /\ \A a \in Runs : a # b => exec'[a] = exec[a]
    BY <1>0, <2>1, ExecutionGoes DEF ExecSteps
  <2>4. RunAgrees(b)'
    BY <1>0, <1>2, <2>1, <2>2, <2>3 DEF BuildEnv
  <2> QED BY <2>1, <2>2, <2>3, <2>4, ExecutionKeeps
<1>3. CASE RejectEnv(b)
  <2>1. UNCHANGED <<run, dump, triggered, applied, spoiled>>
    BY <1>3 DEF RejectEnv
  <2>2. RunsTypeOK'
    BY <1>0, <1>3, <2>1, ExecutionDecides DEF RejectEnv, RunsTypeOK
  <2>3. /\ exec'[b].step = "save" /\ exec'[b].outcome = "failed" /\ exec'[b].job = exec[b].job
        /\ \A a \in Runs : a # b => exec'[a] = exec[a]
    BY <1>0, <1>3, ExecutionDecides DEF RejectEnv
  <2>4. RunAgrees(b)'
    BY <1>0, <1>3, <2>1, <2>2, <2>3 DEF RejectEnv
  <2> QED BY <2>1, <2>2, <2>3, <2>4, ExecutionKeeps
<1>4. CASE UploadWrites(b)
  <2>1. UNCHANGED <<run, exec, triggered, applied, spoiled>>
    BY <1>4 DEF UploadWrites
  <2>2. RunsTypeOK' /\ \A a \in Runs : a # b => dump'[a] = dump[a]
    BY <1>0, <1>4, <2>1 DEF UploadWrites, RunsTypeOK
  <2> QED BY <1>0, <1>4, <2>1, <2>2, ExecutionKeeps DEF UploadWrites
<1>5. CASE UploadSucceeds(b)
  <2>1. UNCHANGED <<run, dump, triggered, applied, spoiled>>
    BY <1>5 DEF UploadSucceeds
  <2>2. RunsTypeOK'
    BY <1>0, <1>5, <2>1, ExecutionDecides DEF UploadSucceeds, RunsTypeOK
  <2>3. /\ exec'[b].step = "save" /\ exec'[b].outcome = "success" /\ exec'[b].job = exec[b].job
        /\ \A a \in Runs : a # b => exec'[a] = exec[a]
    BY <1>0, <1>5, ExecutionDecides DEF UploadSucceeds
  <2>4. RunAgrees(b)'
    BY <1>0, <1>5, <2>1, <2>2, <2>3 DEF UploadSucceeds, PairSucceeded
  <2> QED BY <1>0, <2>1, <2>2, <2>3, <2>4, ExecutionKeeps
<1>6. CASE UploadFails(b)
  <2>1. GoTo(b, "discard") /\ UNCHANGED <<run, dump, triggered, applied, spoiled>>
    BY <1>6 DEF UploadFails
  <2>2. RunsTypeOK'
    BY <1>0, <2>1, ExecutionGoes DEF RunsTypeOK, ExecSteps
  <2>3. /\ exec'[b].step = "discard" /\ exec'[b].job = exec[b].job
        /\ \A a \in Runs : a # b => exec'[a] = exec[a]
    BY <1>0, <2>1, ExecutionGoes DEF ExecSteps
  <2>4. RunAgrees(b)'
    BY <1>0, <1>6, <2>1, <2>2, <2>3 DEF UploadFails
  <2> QED BY <2>1, <2>2, <2>3, <2>4, ExecutionKeeps
<1>7. CASE DiscardPartialObject(b)
  <2>1. UNCHANGED <<run, triggered, applied, spoiled>>
    BY <1>7 DEF DiscardPartialObject
  <2>2. RunsTypeOK' /\ dump'[b] = "none" /\ \A a \in Runs : a # b => dump'[a] = dump[a]
    BY <1>0, <1>7, <2>1, ExecutionDecides DEF DiscardPartialObject, RunsTypeOK
  <2>3. /\ exec'[b].step = "save" /\ exec'[b].outcome = "failed" /\ exec'[b].job = exec[b].job
        /\ \A a \in Runs : a # b => exec'[a] = exec[a]
    BY <1>0, <1>7, ExecutionDecides DEF DiscardPartialObject
  <2>4. RunAgrees(b)'
    BY <1>0, <1>7, <2>1, <2>2, <2>3 DEF DiscardPartialObject
  <2> QED BY <1>0, <2>1, <2>2, <2>3, <2>4, ExecutionKeeps
<1>8. CASE DiscardUnconfirmed(b)
  <2>1. UNCHANGED <<run, dump, triggered, applied>> /\ spoiled' = spoiled \cup {b}
    BY <1>8 DEF DiscardUnconfirmed, Spoil
  <2>2. RunsTypeOK'
    BY <1>0, <1>8, <2>1, ExecutionDecides DEF DiscardUnconfirmed, RunsTypeOK
  <2>3. /\ exec'[b].step = "save" /\ exec'[b].outcome = "failed" /\ exec'[b].job = exec[b].job
        /\ \A a \in Runs : a # b => exec'[a] = exec[a]
    BY <1>0, <1>8, ExecutionDecides DEF DiscardUnconfirmed
  <2>4. RunAgrees(b)'
    BY <1>0, <1>8, <2>1, <2>2, <2>3 DEF DiscardUnconfirmed
  <2> QED BY <1>0, <2>1, <2>2, <2>3, <2>4, ExecutionKeeps
<1> QED BY <1>1, <1>2, <1>3, <1>4, <1>5, <1>6, <1>7, <1>8

\* The outcome is saved.
LEMMA SaveKeeps ==
  ASSUME BackupInv, NEW b \in Runs, SaveOutcome(b)
  PROVE  BackupInv'
<1> DEFINE o == exec[b].outcome
           r == Outcome(run[b], o)
<1>0. /\ RunsTypeOK /\ RunAgrees(b) /\ exec[b].step = "save"
      /\ UNCHANGED <<dump, triggered, applied, spoiled>>
  BY DEF BackupInv, SaveOutcome, At, jobsVars
<1>1. /\ \/ o = "success" /\ dump[b] = "whole"
         \/ o = "failed" /\ (dump[b] = "none" \/ b \in spoiled)
      /\ run[b].status = "running"
  BY <1>0 DEF RunAgrees, StepAgrees
<1>2. /\ r \in RunRow /\ r.status = o /\ (r.path <=> o = "success")
      /\ r.trigger = run[b].trigger /\ r.job = run[b].job
  BY <1>0, <1>1 DEF Outcome, RunsTypeOK, RunRow
<1>3. run' = [run EXCEPT ![b] = r]
  BY DEF SaveOutcome
<1> HIDE DEF r, o
<1>4. run' \in [Runs -> RunRow] /\ run'[b] = r /\ \A a \in Runs : a # b => run'[a] = run[a]
  BY <1>0, <1>2, <1>3 DEF RunsTypeOK
<1>5. CASE o = "success"
  <2>1. GoTo(b, "touch")
    BY <1>5 DEF SaveOutcome, o
  <2>2. RunsTypeOK'
    BY <1>0, <1>4, <2>1, ExecutionGoes DEF RunsTypeOK, ExecSteps
  <2>3. /\ exec'[b].step = "touch" /\ exec'[b].job = exec[b].job
        /\ \A a \in Runs : a # b => exec'[a] = exec[a]
    BY <1>0, <2>1, ExecutionGoes DEF ExecSteps
  <2>4. RunAgrees(b)'
    BY <1>0, <1>1, <1>2, <1>4, <1>5, <2>3
       DEF RunAgrees, StepAgrees, RowAgrees, JobAgrees
  <2> QED BY <1>0, <1>4, <2>2, <2>3, <2>4, ExecutionKeeps
<1>6. CASE o = "failed"
  <2>1. ExecEnds(b)
    BY <1>6 DEF SaveOutcome, o
  <2>2. RunsTypeOK'
    BY <1>0, <1>4, <2>1, ExecutionIsOver DEF RunsTypeOK
  <2>3. exec'[b].step = "idle" /\ \A a \in Runs : a # b => exec'[a] = exec[a]
    BY <1>0, <2>1, ExecutionIsOver
  <2>4. RunAgrees(b)'
    BY <1>0, <1>1, <1>2, <1>4, <1>6, <2>3
       DEF RunAgrees, StepAgrees, RowAgrees, JobAgrees
  <2> QED BY <1>0, <1>4, <2>2, <2>3, <2>4, ExecutionKeeps
<1> QED BY <1>1, <1>5, <1>6

\* The job is touched, the retention applied, or the execution throws.
LEMMA EndKeeps ==
  ASSUME BackupInv, NEW b \in Runs,
         TouchJob(b) \/ ApplyRetention(b) \/ ExecutionThrows(b)
  PROVE  BackupInv'
<1>0. RunsTypeOK /\ RunAgrees(b)
  BY DEF BackupInv
<1>1. CASE TouchJob(b)
  <2>1. /\ GoTo(b, "cleanup") /\ exec[b].step = "touch"
        /\ UNCHANGED <<run, dump, triggered, applied, spoiled>>
    BY <1>1 DEF TouchJob, At, jobsVars
  <2>2. RunsTypeOK'
    BY <1>0, <2>1, ExecutionGoes DEF RunsTypeOK, ExecSteps
  <2>3. /\ exec'[b].step = "cleanup" /\ exec'[b].job = exec[b].job
        /\ \A a \in Runs : a # b => exec'[a] = exec[a]
    BY <1>0, <2>1, ExecutionGoes DEF ExecSteps
  <2>4. RunAgrees(b)'
    BY <1>0, <2>1, <2>3 DEF RunAgrees, StepAgrees, RowAgrees, JobAgrees
  <2> QED BY <1>0, <2>1, <2>2, <2>3, <2>4, ExecutionKeeps
<1>2. CASE ApplyRetention(b)
  <2>1. /\ ExecEnds(b) /\ exec[b].step = "cleanup"
        /\ applied' = [applied EXCEPT ![b] = exec[b].job]
        /\ UNCHANGED <<run, dump, triggered, spoiled>>
    BY <1>2 DEF ApplyRetention, At, jobsVars
  <2>2. run[b].path /\ run[b].status = "success"
    BY <1>0, <2>1 DEF RunAgrees, StepAgrees, RowAgrees
  <2>3. exec[b].job \in Row
    BY <1>0, <2>1 DEF RunAgrees, JobAgrees
  <2>4. exec'[b].step = "idle" /\ \A a \in Runs : a # b => exec'[a] = exec[a]
    BY <1>0, <2>1, ExecutionIsOver
  <2>5. RunsTypeOK' /\ applied'[b] = exec[b].job
        /\ \A a \in Runs : a # b => applied'[a] = applied[a]
    BY <1>0, <2>1, <2>3, ExecutionIsOver DEF RunsTypeOK
  <2>6. RunAgrees(b)'
    BY <1>0, <2>1, <2>2, <2>4, <2>5
       DEF RunAgrees, StepAgrees, RowAgrees, JobAgrees
  <2> QED BY <1>0, <2>1, <2>4, <2>5, <2>6, ExecutionKeeps
<1>3. CASE ExecutionThrows(b)
  <2>1. /\ ExecEnds(b) /\ exec[b].step # "idle" /\ spoiled' = spoiled \cup {b}
        /\ UNCHANGED <<run, dump, triggered, applied>>
    BY <1>3 DEF ExecutionThrows, Spoil, jobsVars
  <2>2. exec'[b].step = "idle" /\ \A a \in Runs : a # b => exec'[a] = exec[a]
    BY <1>0, <2>1, ExecutionIsOver
  <2>3. RunsTypeOK'
    BY <1>0, <2>1, ExecutionIsOver DEF RunsTypeOK
  <2>4. RunAgrees(b)'
    BY <1>0, <2>1, <2>2 DEF RunAgrees, StepAgrees, RowAgrees, JobAgrees
  <2> QED BY <1>0, <2>1, <2>2, <2>3, <2>4, ExecutionKeeps
<1> QED BY <1>1, <1>2, <1>3

\* The executions of a process end with it, and their runs are spoiled.
LEMMA BackupsForgetKeeps ==
  ASSUME BackupInv, NEW p \in Procs, BackupsForget(p)
  PROVE  BackupInv'
<1>0. /\ RunsTypeOK
      /\ exec' = [b \in Runs |-> IF exec[b].proc = p THEN NoExec ELSE exec[b]]
      /\ spoiled' = spoiled \cup {b \in Runs : exec[b].proc = p}
      /\ UNCHANGED <<run, dump, triggered, applied>>
  BY DEF BackupInv, BackupsForget
<1>1. NoExec \in ExecRecord /\ NoExec.step = "idle"
  BY DEF NoExec, ExecRecord, ExecSteps
<1>2. RunsTypeOK'
  BY <1>0, <1>1 DEF RunsTypeOK
<1>3. ASSUME NEW b \in Runs PROVE RunAgrees(b)'
  <2>0. RunAgrees(b)
    BY DEF BackupInv
  <2>1. CASE exec[b].proc = p
    <3>1. exec'[b].step = "idle" /\ b \in spoiled'
      BY <1>0, <1>1, <2>1
    <3> QED BY <1>0, <2>0, <3>1 DEF RunAgrees, StepAgrees, RowAgrees, JobAgrees
  <2>2. CASE exec[b].proc # p
    BY <1>0, <2>0, <2>2, OthersAgree
  <2> QED BY <2>1, <2>2
<1> QED BY <1>2, <1>3 DEF BackupInv

LEMMA BackupInvStep ==
  ASSUME BackupInv, JobsInv, [ControlNext]_controlVars
  PROVE  BackupInv'
<1>1. BackupMove
  BY BackupMoves
<1>2. CASE Executing
  BY <1>2, OpensKeeps, UploadKeeps, SaveKeeps, EndKeeps DEF Executing, ExecutionStep
<1>3. CASE \E p \in Procs : BackupsForget(p)
  BY <1>3, BackupsForgetKeeps
<1>4. CASE UNCHANGED runVars
  <2>1. UNCHANGED <<run, dump, exec, triggered, applied, spoiled>>
    BY <1>4 DEF runVars
  <2>2. ASSUME NEW b \in Runs PROVE RunAgrees(b)'
    BY <2>1, OthersAgree DEF BackupInv
  <2> QED BY <2>1, <2>2 DEF BackupInv, RunsTypeOK
<1> QED BY <1>1, <1>2, <1>3, <1>4 DEF BackupMove

LEMMA BackupInvAlways == ControlSpec => [](BackupInv /\ JobsInv)
<1>1. ControlInit => BackupInv /\ JobsInv
  BY BackupInvInit, JobsInvInit
<1>2. BackupInv /\ JobsInv /\ [ControlNext]_controlVars => (BackupInv /\ JobsInv)'
  BY BackupInvStep, JobsInvStep
<1> QED BY <1>1, <1>2, PTL DEF ControlSpec

----------------------------------------------------------------------------
\* A path in the catalog names a whole dump, whatever crashes and errors hit the
\* executions.
THEOREM CatalogIsWhole == ControlSpec => []CataloguedIsWhole
<1>1. BackupInv => CataloguedIsWhole
  BY DEF BackupInv, RunAgrees, RowAgrees, CataloguedIsWhole
<1> QED BY <1>1, BackupInvAlways, PTL

\* No byte of a manual backup is stored before its trigger is audited.
THEOREM ManualIsAudited == ControlSpec => []ManualUploadAudited
<1>1. BackupInv => ManualUploadAudited
  BY DEF BackupInv, RunAgrees, RowAgrees, ManualUploadAudited
<1> QED BY <1>1, BackupInvAlways, PTL

\* An object without a path is left only by a crash, an error or an unconfirmed removal.
THEOREM OrphansAreFaults == ControlSpec => []OrphanOnlyByFault
<1>1. BackupInv => OrphanOnlyByFault
  BY DEF BackupInv, RunAgrees, RowAgrees, OrphanOnlyByFault, At
<1> QED BY <1>1, BackupInvAlways, PTL

----------------------------------------------------------------------------
\* The refinement: the steps of an execution, as steps of the life of its run.
life == [b \in Runs |-> LifeOf(b)]
whole == {b \in Runs : dump[b] = "whole"}

\* A run whose row stays as it is lives as before.
LEMMA SameRowSameLife ==
  ASSUME NEW b \in Runs, run'[b] = run[b]
  PROVE  LifeOf(b)' = LifeOf(b)
BY DEF LifeOf

LEMMA LifeInits == ControlInit => RunLife!LifeInit
BY DEF ControlInit, BackupInit, RunLife!LifeInit, LifeOf, NoRun

LEMMA ExecutionRefines ==
  ASSUME BackupInv, BackupInv', NEW b \in Runs,
         \/ \E p \in Procs, j \in Jobs, t \in {"manual", "scheduler"} : executeJob(b, p, j, t)
         \/ ExecutionStep(b) \/ ExecutionThrows(b) \/ DiscardUnconfirmed(b)
  PROVE  RunLife!LifeNext \/ UNCHANGED <<life, whole>>
<1>0. RunsTypeOK /\ RunAgrees(b)
  BY DEF BackupInv
<1>1. CASE \E p \in Procs, j \in Jobs, t \in {"manual", "scheduler"} : executeJob(b, p, j, t)
  <2>1. /\ run[b].status = "absent" /\ run'[b].status = "running" /\ dump' = dump
        /\ \A a \in Runs : a # b => run'[a] = run[a]
    <3>1. PICK p \in Procs, j \in Jobs, t \in {"manual", "scheduler"} : executeJob(b, p, j, t)
      BY <1>1
    <3> DEFINE r == [NoRun EXCEPT !.status = "running", !.trigger = t, !.job = j]
    <3>2. r.status = "running" /\ NoRun.status = "absent"
      BY DEF NoRun
    <3>3. run[b] = NoRun /\ run' = [run EXCEPT ![b] = r] /\ dump' = dump
      BY <3>1 DEF executeJob
    <3> HIDE DEF r
    <3> QED BY <1>0, <3>2, <3>3 DEF RunsTypeOK
  <2>2. /\ LifeOf(b) = "absent" /\ LifeOf(b)' = "open"
        /\ \A a \in Runs : a # b => LifeOf(a)' = LifeOf(a)
    BY <2>1, SameRowSameLife DEF LifeOf
  <2>3. life' = [life EXCEPT ![b] = "open"] /\ whole' = whole /\ life[b] = "absent"
    BY <2>1, <2>2 DEF life, whole
  <2>4. RunLife!Open(b)
    BY <2>3 DEF RunLife!Open, life, whole
  <2> QED BY <2>4 DEF RunLife!LifeNext
<1>2. CASE UploadWrites(b)
  <2>1. run' = run /\ run[b].status = "running"
    BY <1>0, <1>2 DEF UploadWrites, RunAgrees, StepAgrees, At
  <2>2. life' = life /\ life[b] = "open"
    BY <2>1 DEF life, LifeOf
  <2>3. whole' = whole \/ whole' = whole \cup {b}
    BY <1>0, <1>2 DEF UploadWrites, RunsTypeOK, whole
  <2>4. CASE whole' = whole
    BY <2>2, <2>4
  <2>5. CASE whole' = whole \cup {b}
    <3>1. RunLife!Store(b)
      BY <2>2, <2>5 DEF RunLife!Store, life, whole
    <3> QED BY <3>1 DEF RunLife!LifeNext
  <2> QED BY <2>3, <2>4, <2>5
<1>3. CASE DiscardPartialObject(b)
  <2>1. run' = run /\ run[b].status = "running"
    BY <1>0, <1>3 DEF DiscardPartialObject, RunAgrees, StepAgrees, At
  <2>2. life' = life /\ life[b] = "open"
    BY <2>1 DEF life, LifeOf
  <2>3. whole' = whole \ {b}
    BY <1>0, <1>3 DEF DiscardPartialObject, RunsTypeOK, whole
  <2>4. RunLife!Discard(b)
    BY <2>2, <2>3 DEF RunLife!Discard, life, whole
  <2> QED BY <2>4 DEF RunLife!LifeNext
<1>4. CASE SaveOutcome(b)
  <2>1. /\ run[b].status = "running" /\ dump' = dump
        /\ \/ exec[b].outcome = "success" /\ dump[b] = "whole"
           \/ exec[b].outcome = "failed"
        /\ \A a \in Runs : a # b => run'[a] = run[a]
        /\ run'[b].status = exec[b].outcome
    BY <1>0, <1>4 DEF SaveOutcome, RunAgrees, StepAgrees, At, RunsTypeOK, RunRow, Outcome
  <2>2. whole' = whole /\ \A a \in Runs : a # b => LifeOf(a)' = LifeOf(a)
    BY <2>1, SameRowSameLife DEF whole
  <2>3. CASE exec[b].outcome = "success" /\ dump[b] = "whole"
    <3>1. LifeOf(b) = "open" /\ LifeOf(b)' = "sealed"
      BY <2>1, <2>3 DEF LifeOf
    <3>2. life' = [life EXCEPT ![b] = "sealed"] /\ life[b] = "open" /\ b \in whole
      BY <2>2, <2>3, <3>1 DEF life, whole
    <3>3. RunLife!Seal(b)
      BY <2>2, <3>2 DEF RunLife!Seal, life, whole
    <3> QED BY <3>3 DEF RunLife!LifeNext
  <2>4. CASE exec[b].outcome = "failed"
    <3>1. LifeOf(b) = "open" /\ LifeOf(b)' = "failed"
      BY <2>1, <2>4 DEF LifeOf
    <3>2. life' = [life EXCEPT ![b] = "failed"] /\ life[b] = "open"
      BY <2>2, <3>1 DEF life
    <3>3. RunLife!Fail(b)
      BY <2>2, <3>2 DEF RunLife!Fail, life, whole
    <3> QED BY <3>3 DEF RunLife!LifeNext
  <2> QED BY <2>1, <2>3, <2>4
<1>5. CASE run' = run /\ dump' = dump
  BY <1>5 DEF life, whole, LifeOf
<1>6. ASSUME \/ RecordTrigger(b) \/ BuildEnv(b) \/ RejectEnv(b)
             \/ UploadSucceeds(b) \/ UploadFails(b) \/ TouchJob(b) \/ ApplyRetention(b)
             \/ ExecutionThrows(b) \/ DiscardUnconfirmed(b)
      PROVE  run' = run /\ dump' = dump
  BY <1>6 DEF RecordTrigger, BuildEnv, RejectEnv, UploadSucceeds, UploadFails, TouchJob,
       ApplyRetention, ExecutionThrows, DiscardUnconfirmed
<1> QED BY <1>1, <1>2, <1>3, <1>4, <1>5, <1>6 DEF ExecutionStep

LEMMA LifeStep ==
  ASSUME BackupInv, BackupInv', [ControlNext]_controlVars
  PROVE  RunLife!LifeNext \/ UNCHANGED <<life, whole>>
<1>1. BackupMove
  BY BackupMoves
<1>2. CASE Executing
  BY <1>2, ExecutionRefines DEF Executing
<1>3. CASE run' = run /\ dump' = dump
  BY <1>3 DEF life, whole, LifeOf
<1> QED BY <1>1, <1>2, <1>3 DEF BackupMove, BackupsForget, runVars

\* An execution, whatever happens to it, lives the abstract life of a run: it is
\* sealed only while its dump is whole, and keeps it then.
THEOREM RunsLiveAsPromised == ControlSpec => ImplementsRunLife
<1>1. ControlInit => RunLife!LifeInit
  BY LifeInits
<1>2. BackupInv /\ BackupInv' /\ [ControlNext]_controlVars
        => RunLife!LifeNext \/ UNCHANGED <<life, whole>>
  BY LifeStep
<1>3. ControlSpec => []BackupInv
  BY BackupInvAlways, PTL
<1> QED BY <1>1, <1>2, <1>3, PTL
       DEF ControlSpec, ImplementsRunLife, RunLife!LifeSpec, life, whole

----------------------------------------------------------------------------
\* The crons of the processes and of their boots, and the rows edited meanwhile.
CronTypeOK ==
  /\ cron \in [Procs -> [Jobs -> Crons \cup {None}]]
  /\ found \in [Procs -> [Jobs -> Crons \cup {None}]]
  /\ edited \in [Procs -> SUBSET Jobs]

\* What a bootstrap is about to write switches the nightly job on, by its cron.
EnsureTargets(p) ==
  /\ call[p].stage \in {"save", "write"} =>
       /\ call[p].kind = "ensure" /\ call[p].job = Nightly
       /\ call[p].entity.enabled = TRUE /\ call[p].entity.cron = NightlyCron
  /\ call[p].stage # "audit"

\* What the bootstrap of p will leave alone is as it should be, what it has written
\* stays so until findEnabled, and what findEnabled gave is what is registered.
NightlyStands(p) ==
  /\ phase[p] = "ensuring" /\ call[p].stage = "write" /\ call[p].base # None =>
       /\ call[p].base.enabled = TRUE => job[Nightly].enabled = TRUE
       /\ call[p].base.cron = NightlyCron => job[Nightly].cron = NightlyCron
  /\ phase[p] = "ensured" \/ (phase[p] = "ensuring" /\ call[p].stage = "done") =>
       /\ job[Nightly] # None
       /\ job[Nightly].enabled = TRUE /\ job[Nightly].cron = NightlyCron
  /\ phase[p] = "found" => found[p][Nightly] = NightlyCron
  /\ phase[p] = "serving" => cron[p][Nightly] = NightlyCron

NightlyInv ==
  /\ CronTypeOK
  /\ \A p \in Procs : EnsureTargets(p)
  /\ \A p \in Procs : env.nightly /\ Nightly \notin edited[p] => NightlyStands(p)

PhaseTo(p, next) == phase' = [phase EXCEPT ![p] = next] /\ env' = env

Advances(p) ==
  /\ \/ \E next \in {"down", "created", "aligned", "verified"} : PhaseTo(p, next)
     \/ ~env.nightly /\ PhaseTo(p, "ensured")
     \/ phase[p] = "ensuring" /\ call[p].stage = "done" /\ PhaseTo(p, "ensured")
  /\ UNCHANGED <<job, call, cron, found, edited>>

Ensures(p) ==
  /\ ensureJob(p) /\ PhaseTo(p, "ensuring")
  /\ UNCHANGED <<cron, found, edited>>

Finds(p) ==
  /\ phase[p] = "ensured" /\ PhaseTo(p, "found")
  /\ found' = [found EXCEPT ![p] = findEnabled]
  /\ UNCHANGED <<job, call, cron, edited>>

Registers(p) ==
  /\ phase[p] = "found" /\ PhaseTo(p, "serving")
  /\ cron' = [cron EXCEPT ![p] = found[p]]
  /\ found' = [found EXCEPT ![p] = NoCrons]
  /\ UNCHANGED <<job, call, edited>>

Withdraws(p) ==
  /\ PhaseTo(p, "down") /\ CallsForget(p)
  /\ cron' = [cron EXCEPT ![p] = NoCrons]
  /\ found' = [found EXCEPT ![p] = NoCrons]
  /\ edited' = [edited EXCEPT ![p] = {}]

Edits ==
  /\ UNCHANGED <<env, phase, cron, found>>
  /\ \/ \E c \in Savers : CallStep(c) /\ TrackEdits(c)
     \/ \E c \in Savers : CallFails(c) /\ edited' = edited
     \/ UNCHANGED <<job, edited>> /\ \A p \in Procs : call'[p] = call[p]

CronMove ==
  \/ \E p \in Procs : Advances(p) \/ Ensures(p) \/ Finds(p) \/ Registers(p) \/ Withdraws(p)
  \/ Edits

\* A request to the API opens a call that is no bootstrap.
LEMMA RequestIsNoBootstrap ==
  ASSUME JobsTypeOK, NEW c \in Calls, RequestEdit(c)
  PROVE  job' = job /\ \A p \in Procs : call'[p] = call[p]
<1>1. PICK q \in Procs, j \in Jobs :
        \/ \E dto \in Dtos : create(c, q, j, dto) \/ update(c, q, j, dto)
        \/ remove(c, q, j)
  BY DEF RequestEdit
<1>2. job' = job
  BY <1>1 DEF create, update, remove
<1>3. \A p \in Procs : p # c /\ p \in DOMAIN call
  BY CallsAssumption DEF JobsTypeOK, Savers
<1>4. \A p \in Procs : call'[p] = call[p]
  BY <1>1, <1>3 DEF create, update, remove, Begin, Reject
<1> QED BY <1>2, <1>4

\* A step of the system as the crons see it.
LEMMA CronMoves ==
  ASSUME JobsTypeOK, [ControlNext]_controlVars
  PROVE  CronMove
<1>1. ASSUME NEW p \in Procs, NEW why \in Exits, Forget(p, why) PROVE Withdraws(p)
  BY <1>1 DEF Forget, ProcessEnds, BackupsForget, Withdraws, PhaseTo
<1>2. CASE BootCase
  <2> USE DEF CronMove, jobsVars, backupVars, bootVars, PhaseTo
  <2>1. PICK p \in Procs : BootStep(p) \/ BootDegraded(p) \/ BootFails(p) \/ Boots(p)
    BY <1>2 DEF BootCase
  <2>2. CASE BootSchema(p) \/ BootDegraded(p)
    <3>1. Advances(p)
      BY <2>2 DEF BootSchema, BootDegraded, align, verifyRestoreSerialization, VerifyFails,
           Verify, BootGoesTo, ProcessEnds, Advances
    <3> QED BY <3>1
  <2>3. CASE BootBootstrap(p) \/ BootBootstrapped(p)
    <3>1. Ensures(p) \/ Advances(p)
      BY <2>3 DEF BootBootstrap, BootBootstrapped, BootGoesTo, Advances, Ensures
    <3> QED BY <3>1
  <2>4. CASE BootFinds(p)
    <3>1. Finds(p)
      BY <2>4 DEF BootFinds, BootGoesTo, Finds
    <3> QED BY <3>1
  <2>5. CASE BootRegisters(p)
    <3>1. Registers(p) \/ Forget(p, "cron")
      BY <2>5 DEF BootRegisters, BootGoesTo, Registers
    <3> QED BY <3>1, <1>1 DEF Exits
  <2>6. CASE BootFails(p) \/ BootBootstrapThrows(p)
    BY <2>6, <1>1 DEF BootFails, BootBootstrapThrows, Exits
  <2>7. CASE Boots(p)
    <3>1. Advances(p)
      BY <2>7 DEF Boots, CreateApp, Advances
    <3> QED BY <3>1
  <2> QED BY <2>1, <2>2, <2>3, <2>4, <2>5, <2>6, <2>7 DEF BootStep
<1>3. CASE CrashCase
  BY <1>1, <1>3 DEF CrashCase, Crashes, Exits, CronMove
<1>4. CASE JobCase
  <2> USE DEF deploymentVars, backupVars, bootVars
  <2>1. CASE \E c \in Calls : RequestEdit(c)
    BY <2>1, RequestIsNoBootstrap DEF RequestEdit, CronMove, Edits
  <2>2. CASE \E c \in Savers : Saves(c)
    BY <2>2 DEF Saves, CronMove, Edits
  <2>3. CASE \E c \in Savers : SaveFails(c)
    BY <2>3 DEF SaveFails, CronMove, Edits
  <2> QED BY <1>4, <2>1, <2>2, <2>3 DEF JobCase
<1>5. UNCHANGED <<env, phase, cron, found, edited, job, call>> => CronMove
  BY DEF CronMove, Edits
<1>6. CASE RunCase
  <2>1. UNCHANGED <<env, phase, cron, found, edited, job, call>>
    BY <1>6 DEF RunCase, TriggerManual, CronFires, Executes, ExecutionFails, executeJob,
         ExecutionStep, ExecutionThrows, DiscardUnconfirmed, RecordTrigger, BuildEnv, RejectEnv,
         UploadWrites, UploadSucceeds, UploadFails, DiscardPartialObject, SaveOutcome,
         TouchJob, ApplyRetention, deploymentVars, jobsVars, bootVars
  <2> QED BY <1>5, <2>1
<1>7. CASE RestoreCase
  BY <1>5, <1>7 DEF RestoreCase, RestoreTraffic, deploymentVars, jobsVars, backupVars, bootVars
<1>8. CASE TokenCase
  BY <1>5, <1>8 DEF TokenCase, KeyStep, FetchEnds, TokenArrives, TokenResumes, KeysRotate,
       deploymentVars, jobsVars, backupVars, bootVars
<1>9. CASE UNCHANGED controlVars
  BY <1>5, <1>9 DEF controlVars, deploymentVars, jobsVars, backupVars, bootVars
<1> QED BY <1>2, <1>3, <1>4, <1>6, <1>7, <1>8, <1>9, ControlCases

\* What a process would register is made of stored crons.
LEMMA FoundIsTyped ==
  ASSUME JobsInv
  PROVE  findEnabled \in [Jobs -> Crons \cup {None}]
<1>1. ASSUME NEW j \in Jobs, job[j] # None PROVE job[j].cron \in Crons
  BY <1>1 DEF JobsInv, JobsTypeOK, Row
<1> QED BY <1>1 DEF findEnabled

LEMMA CronTypeStep ==
  ASSUME CronTypeOK, JobsInv, CronMove
  PROVE  CronTypeOK'
<1>1. NoCrons \in [Jobs -> Crons \cup {None}]
  BY DEF NoCrons
<1>2. ASSUME NEW p \in Procs, Advances(p) \/ Ensures(p) \/ Finds(p) \/ Registers(p) \/ Withdraws(p)
      PROVE  CronTypeOK'
  BY <1>1, <1>2, FoundIsTyped DEF CronTypeOK, Advances, Ensures, Finds, Registers, Withdraws
<1>3. CASE Edits
  BY <1>3 DEF Edits, TrackEdits, CronTypeOK
<1> QED BY <1>2, <1>3 DEF CronMove

\* What the bootstrap makes of any row.
LEMMA EnsuredIsOn ==
  ASSUME NEW row
  PROVE  Ensured(row).enabled = TRUE /\ Ensured(row).cron = NightlyCron
<1> DEFINE in == [policy |-> "custom_cron", cron |-> NightlyCron,
                  hour |-> None, minute |-> None, day |-> None]
<1>1. resolveSchedulePolicy(in) = in
  BY NoneAssumption DEF resolveSchedulePolicy, PolicyOf, Given, Policies
<1> HIDE DEF in
<1>2. Ensured(row).enabled = TRUE /\ Ensured(row).cron = resolveSchedulePolicy(in).cron
  BY DEF Ensured, Columns, ScheduleFields, in
<1> QED BY <1>1, <1>2 DEF in

\* The save of a bootstrap writes the switch and the cron the row should have, or
\* leaves what the row has.
LEMMA EnsureWritesTargets ==
  ASSUME JobsInv, NEW q \in Procs, EnsureTargets(q), SaveWrites(q)
  PROVE  /\ job'[Nightly] # None
         /\ \/ job'[Nightly].enabled = TRUE
            \/ /\ call[q].base # None /\ call[q].base.enabled = TRUE
               /\ job'[Nightly].enabled = job[Nightly].enabled
         /\ \/ job'[Nightly].cron = NightlyCron
            \/ /\ call[q].base # None /\ call[q].base.cron = NightlyCron
               /\ job'[Nightly].cron = job[Nightly].cron
         /\ call'[q].stage = "done"
<1> DEFINE e == call[q].entity
           base == call[q].base
<1>1. /\ q \in Savers /\ call[q] \in CallRecord /\ CallLegal(q) /\ JobsTypeOK
      /\ Nightly \in Jobs
  BY NightlyAssumption DEF Savers, JobsInv, JobsTypeOK, CallRecord
<1>2. /\ call[q].stage = "write" /\ call[q].kind = "ensure" /\ call[q].job = Nightly
      /\ e.enabled = TRUE /\ e.cron = NightlyCron /\ e \in Row
  BY <1>1 DEF EnsureTargets, SaveWrites, CallLegal, Busy, CallOpenStages
<1>3. job' = [job EXCEPT ![Nightly] = Saved(q)]
  BY <1>2 DEF SaveWrites
<1>4. job'[Nightly] = Saved(q)
  BY <1>1, <1>3 DEF JobsTypeOK
<1>5. job'[Nightly] # None
  <2>1. JobsInv'
    BY <1>1, SaveWritesKeeps
  <2>2. Saved(q) \in Row
    <3>1. CASE base = None
      BY <1>2, <3>1 DEF Saved
    <3>2. CASE base # None
      <4>1. job[Nightly] \in Row
        BY <1>1, <1>2, <3>2 DEF CallLegal
      <4>2. Saved(q) = [f \in Columns |-> IF e[f] = base[f] THEN job[Nightly][f] ELSE e[f]]
        BY <1>2, <3>2 DEF Saved
      <4> QED BY <1>2, <4>1, <4>2 DEF Row, Columns, ScheduleFields, ApprovalFields
    <3> QED BY <3>1, <3>2
  <2> QED BY <1>4, <2>2, RowAssumption
<1>6. ~AuditDue(q)
  BY <1>2 DEF AuditDue
<1>7. call'[q].stage = "done"
  <2>1. call' = [call EXCEPT ![q].base = None, ![q].stage = "done"]
    BY <1>6 DEF SaveWrites
  <2> QED BY <1>1, <2>1 DEF JobsTypeOK, CallRecord
<1>8. CASE base = None
  BY <1>2, <1>4, <1>5, <1>7, <1>8 DEF Saved
<1>9. CASE base # None
  <2>1. Saved(q) = [f \in Columns |-> IF e[f] = base[f] THEN job[Nightly][f] ELSE e[f]]
    BY <1>2, <1>9 DEF Saved
  <2>2. /\ Saved(q).enabled = IF e.enabled = base.enabled THEN job[Nightly].enabled ELSE e.enabled
        /\ Saved(q).cron = IF e.cron = base.cron THEN job[Nightly].cron ELSE e.cron
    BY <2>1 DEF Columns, ScheduleFields
  <2> QED BY <1>2, <1>4, <1>5, <1>7, <1>9, <2>2
<1> QED BY <1>8, <1>9

\* A step of the boot of one process, or its end.
LEMMA BootKeepsNightly ==
  ASSUME NightlyInv, JobsInv, DeploymentTypeOK, NEW p \in Procs,
         Advances(p) \/ Ensures(p) \/ Finds(p) \/ Registers(p) \/ Withdraws(p)
  PROVE  NightlyInv'
<1>0. /\ phase \in [Procs -> Phases] /\ CronTypeOK /\ JobsTypeOK
      /\ \A q \in Procs : q \in Savers /\ call[q] \in CallRecord
  BY DEF NightlyInv, DeploymentTypeOK, JobsInv, JobsTypeOK, CallRecord, Savers
<1>1. CronTypeOK'
  BY <1>0, CronTypeStep DEF CronMove
<1>2. /\ env' = env /\ job' = job
      /\ \A q \in Procs : q # p => /\ phase'[q] = phase[q] /\ cron'[q] = cron[q]
                                   /\ found'[q] = found[q] /\ edited'[q] = edited[q]
  BY <1>0 DEF CronTypeOK, Advances, Ensures, Finds, Registers, Withdraws, PhaseTo, ensureJob,
       CallsForget
<1>3. ASSUME NEW q \in Procs
      PROVE  \/ call'[q] = call[q]
             \/ call'[q].stage \in {"lost", "unrecorded"}
             \/ q = p /\ Ensures(p)
  <2>1. CASE Advances(p) \/ Finds(p) \/ Registers(p)
    BY <2>1 DEF Advances, Finds, Registers
  <2>2. CASE Ensures(p)
    <3>1. CASE q = p
      BY <2>2, <3>1
    <3>2. CASE q # p
      <4>1. q \in DOMAIN call
        BY <1>0 DEF JobsTypeOK
      <4>2. call'[q] = call[q]
        BY <2>2, <3>2, <4>1 DEF Ensures, ensureJob, Begin
      <4> QED BY <4>2
    <3> QED BY <3>1, <3>2
  <2>3. CASE Withdraws(p)
    <3> DEFINE s == StageAfter(q, "lost")
    <3>1. call'[q] = IF call[q].proc = p /\ Busy(q)
                     THEN [call[q] EXCEPT !.stage = s, !.base = None] ELSE call[q]
      BY <1>0, <2>3 DEF Withdraws, CallsForget
    <3>2. s \in {"lost", "unrecorded"}
      BY DEF StageAfter
    <3> HIDE DEF s
    <3> QED BY <1>0, <3>1, <3>2 DEF CallRecord
  <2> QED BY <2>1, <2>2, <2>3
<1>4. ASSUME Ensures(p)
      PROVE  EnsureTargets(p)' /\ call'[p].base = None /\ call'[p].stage \in {"save", "write"}
             /\ phase'[p] = "ensuring"
  <2>0. phase'[p] = "ensuring"
    BY <1>0, <1>4 DEF Ensures, PhaseTo
  <2>1. CASE job[Nightly] = None
    <3> DEFINE k == [proc |-> p, kind |-> "ensure", job |-> Nightly, stage |-> "write",
                     entity |-> Ensured(Unset), previous |-> None, base |-> None]
    <3>1. call'[p] = k
      BY <1>0, <1>4, <2>1 DEF Ensures, ensureJob, Begin, JobsTypeOK
    <3>2. k.entity.enabled = TRUE /\ k.entity.cron = NightlyCron
      BY EnsuredIsOn
    <3>3. /\ k.kind = "ensure" /\ k.job = Nightly /\ k.stage = "write" /\ k.base = None
      OBVIOUS
    <3> HIDE DEF k
    <3> QED BY <2>0, <3>1, <3>2, <3>3 DEF EnsureTargets
  <2>2. CASE job[Nightly] # None
    <3> DEFINE k == [proc |-> p, kind |-> "ensure", job |-> Nightly, stage |-> "save",
                     entity |-> Ensured(job[Nightly]), previous |-> job[Nightly].retention,
                     base |-> None]
    <3>1. call'[p] = k
      BY <1>0, <1>4, <2>2 DEF Ensures, ensureJob, Begin, JobsTypeOK
    <3>2. k.entity.enabled = TRUE /\ k.entity.cron = NightlyCron
      BY EnsuredIsOn
    <3>3. /\ k.kind = "ensure" /\ k.job = Nightly /\ k.stage = "save" /\ k.base = None
      OBVIOUS
    <3> HIDE DEF k
    <3> QED BY <2>0, <3>1, <3>2, <3>3 DEF EnsureTargets
  <2> QED BY <2>1, <2>2
<1>5. ASSUME NEW q \in Procs PROVE EnsureTargets(q)'
  <2>1. EnsureTargets(q)
    BY DEF NightlyInv
  <2> QED BY <1>3, <1>4, <2>1 DEF EnsureTargets
<1>6. ASSUME NEW q \in Procs, env'.nightly, Nightly \notin edited'[q] PROVE NightlyStands(q)'
  <2>1. CASE q # p
    <3>1. NightlyStands(q)
      BY <1>2, <1>6, <2>1 DEF NightlyInv
    <3> QED BY <1>2, <1>3, <2>1, <3>1 DEF NightlyStands
  <2>2. CASE q = p
    <3>1. CASE Withdraws(p)
      <4>1. phase'[p] = "down"
        BY <1>0, <3>1 DEF Withdraws, PhaseTo
      <4> QED BY <2>2, <4>1 DEF NightlyStands
    <3>2. CASE Ensures(p)
      BY <1>4, <2>2, <3>2 DEF NightlyStands
    <3>3. ASSUME edited' = edited PROVE NightlyStands(p)
      BY <1>2, <1>6, <2>2, <3>3 DEF NightlyInv
    <3>4. CASE Advances(p)
      <4>1. /\ \/ phase'[p] \in {"down", "created", "aligned", "verified"}
               \/ phase[p] = "ensuring" /\ call[p].stage = "done" /\ phase'[p] = "ensured"
            /\ UNCHANGED <<job, call, cron, found, edited>>
        BY <1>0, <1>2, <1>6, <3>4 DEF Advances, PhaseTo
      <4> QED BY <2>2, <3>3, <4>1 DEF NightlyStands
    <3>5. CASE Finds(p)
      <4>1. /\ phase[p] = "ensured" /\ phase'[p] = "found" /\ found'[p] = findEnabled
            /\ edited' = edited
        BY <1>0, <3>5 DEF Finds, PhaseTo, CronTypeOK
      <4>2. findEnabled[Nightly] = NightlyCron
        BY <3>3, <4>1, NightlyAssumption DEF NightlyStands, findEnabled
      <4> QED BY <2>2, <4>1, <4>2 DEF NightlyStands
    <3>6. CASE Registers(p)
      <4>1. /\ phase[p] = "found" /\ phase'[p] = "serving" /\ cron'[p] = found[p]
            /\ edited' = edited
        BY <1>0, <3>6 DEF Registers, PhaseTo, CronTypeOK
      <4> QED BY <2>2, <3>3, <4>1 DEF NightlyStands
    <3> QED BY <3>1, <3>2, <3>4, <3>5, <3>6
  <2> QED BY <2>1, <2>2
<1> QED BY <1>1, <1>5, <1>6 DEF NightlyInv

\* The save of one call, as the boots of the processes see it.
LEMMA SaveKeepsNightly ==
  ASSUME NightlyInv, JobsInv, NEW c \in Savers, CallStep(c), TrackEdits(c),
         UNCHANGED <<env, phase, cron, found>>
  PROVE  NightlyInv'
<1>0. /\ CronTypeOK /\ JobsTypeOK /\ Nightly \in Jobs
      /\ \A q \in Procs : q \in Savers /\ call[q] \in CallRecord /\ EnsureTargets(q)
      /\ call[c] \in CallRecord
  BY NightlyAssumption DEF NightlyInv, JobsInv, JobsTypeOK, CallRecord, Savers
<1>1. CronTypeOK'
  BY <1>0, CronTypeStep DEF CronMove, Edits
<1>2. \A d \in Savers : d # c => call'[d] = call[d]
  BY DEF CallStep, SaveReads, SaveWrites, RecordRetention, JobsInv, JobsTypeOK
<1>3. CASE c \in Calls
  <2>1. \A q \in Procs : q # c /\ call'[q] = call[q]
    BY <1>0, <1>2, <1>3, CallsAssumption
  <2>2. \A q \in Procs : EnsureTargets(q)'
    BY <1>0, <2>1 DEF EnsureTargets
  <2>3. ASSUME NEW q \in Procs, env.nightly, Nightly \notin edited'[q]
        PROVE  NightlyStands(q)'
    <3>1. edited'[q] = IF LooksForJobs(q) THEN edited[q] \cup {j \in Jobs : job'[j] # job[j]}
                       ELSE edited[q]
      BY <1>3 DEF TrackEdits
    <3>2. NightlyStands(q)
      BY <2>3, <3>1 DEF NightlyInv
    <3>3. CASE LooksForJobs(q)
      <4>1. job'[Nightly] = job[Nightly]
        BY <1>0, <2>3, <3>1, <3>3
      <4> QED BY <2>1, <3>2, <4>1 DEF NightlyStands
    <3>4. CASE ~LooksForJobs(q)
      BY <2>1, <3>2, <3>4 DEF NightlyStands, LooksForJobs
    <3> QED BY <3>3, <3>4
  <2> QED BY <1>1, <2>2, <2>3 DEF NightlyInv
<1>4. CASE c \in Procs /\ c \notin Calls
  <2>1. \A q \in Procs : edited'[q] = edited[q]
    BY <1>4 DEF TrackEdits
  <2>2. ~RecordRetention(c)
    BY <1>0, <1>4 DEF RecordRetention, EnsureTargets
  <2>3. CASE SaveReads(c)
    <3> DEFINE k == [call[c] EXCEPT !.stage = "write", !.base = job[call[c].job]]
    <3>1. /\ call'[c] = k /\ call[c].stage = "save" /\ job' = job
      BY <1>0, <2>3 DEF SaveReads, JobsTypeOK
    <3>2. /\ k.stage = "write" /\ k.base = job[call[c].job] /\ k.job = call[c].job
          /\ k.kind = call[c].kind /\ k.entity = call[c].entity
      BY <1>0 DEF CallRecord
    <3> HIDE DEF k
    <3>3. ASSUME NEW q \in Procs PROVE EnsureTargets(q)'
      BY <1>0, <1>2, <3>1, <3>2 DEF EnsureTargets
    <3>4. ASSUME NEW q \in Procs, env.nightly, Nightly \notin edited'[q]
          PROVE  NightlyStands(q)'
      <4>1. NightlyStands(q)
        BY <2>1, <3>4 DEF NightlyInv
      <4>2. CASE q = c
        <5>1. call'[q].base = job[Nightly] /\ call'[q].stage = "write"
          BY <1>0, <1>4, <3>1, <3>2, <4>2 DEF EnsureTargets
        <5> QED BY <3>1, <4>1, <5>1 DEF NightlyStands
      <4>3. CASE q # c
        BY <1>0, <1>2, <3>1, <4>1, <4>3 DEF NightlyStands
      <4> QED BY <4>2, <4>3
    <3> QED BY <1>1, <3>3, <3>4 DEF NightlyInv
  <2>4. CASE SaveWrites(c)
    <3>1. /\ job'[Nightly] # None
          /\ \/ job'[Nightly].enabled = TRUE
             \/ /\ call[c].base # None /\ call[c].base.enabled = TRUE
                /\ job'[Nightly].enabled = job[Nightly].enabled
          /\ \/ job'[Nightly].cron = NightlyCron
             \/ /\ call[c].base # None /\ call[c].base.cron = NightlyCron
                /\ job'[Nightly].cron = job[Nightly].cron
          /\ call'[c].stage = "done"
      BY <1>0, <1>4, <2>4, EnsureWritesTargets
    <3>2. call[c].stage = "write"
      BY <2>4 DEF SaveWrites
    <3>3. ASSUME NEW q \in Procs PROVE EnsureTargets(q)'
      BY <1>0, <1>2, <3>1 DEF EnsureTargets
    <3>4. ASSUME NEW q \in Procs, env.nightly, Nightly \notin edited'[q]
          PROVE  NightlyStands(q)'
      <4>1. NightlyStands(q)
        BY <2>1, <3>4 DEF NightlyInv
      <4>2. CASE q = c
        <5>1. phase[q] = "ensuring" =>
                job'[Nightly].enabled = TRUE /\ job'[Nightly].cron = NightlyCron
          BY <3>1, <3>2, <4>1, <4>2 DEF NightlyStands
        <5>2. phase[q] = "ensured" =>
                job'[Nightly].enabled = TRUE /\ job'[Nightly].cron = NightlyCron
          BY <3>1, <4>1 DEF NightlyStands
        <5> QED BY <3>1, <4>1, <4>2, <5>1, <5>2 DEF NightlyStands
      <4>3. CASE q # c
        BY <1>0, <1>2, <3>1, <4>1, <4>3 DEF NightlyStands
      <4> QED BY <4>2, <4>3
    <3> QED BY <1>1, <3>3, <3>4 DEF NightlyInv
  <2> QED BY <2>2, <2>3, <2>4 DEF CallStep
<1> QED BY <1>3, <1>4 DEF Savers

LEMMA NightlyInvStep ==
  ASSUME NightlyInv, JobsInv, DeploymentTypeOK, [ControlNext]_controlVars
  PROVE  NightlyInv'
<1>1. CronMove
  BY CronMoves DEF JobsInv
<1>2. CASE UNCHANGED <<env, phase, cron, found>> /\ \E c \in Savers : CallStep(c) /\ TrackEdits(c)
  BY <1>2, SaveKeepsNightly
<1>3. CASE /\ UNCHANGED <<env, phase, cron, found>>
           /\ \E c \in Savers : CallFails(c) /\ edited' = edited
  <2>1. PICK c \in Savers : CallFails(c) /\ edited' = edited
    BY <1>3
  <2> DEFINE s == StageAfter(c, "failed")
  <2>2. /\ call' = [call EXCEPT ![c].stage = s, ![c].base = None]
        /\ s \in {"failed", "unrecorded"} /\ job' = job /\ call \in [Savers -> CallRecord]
    BY <2>1 DEF CallFails, StageAfter, JobsInv, JobsTypeOK, CallRecord
  <2> HIDE DEF s
  <2>3. \A q \in Procs : call'[q] = call[q] \/ call'[q].stage \in {"failed", "unrecorded"}
    BY <2>2 DEF CallRecord, Savers
  <2>4. CronTypeOK'
    BY <1>3, <2>1 DEF NightlyInv, CronTypeOK
  <2>5. \A q \in Procs : EnsureTargets(q)'
    BY <2>3 DEF NightlyInv, EnsureTargets
  <2>6. \A q \in Procs : NightlyStands(q) => NightlyStands(q)'
    BY <1>3, <2>2, <2>3 DEF NightlyStands
  <2> QED BY <1>3, <2>1, <2>4, <2>5, <2>6 DEF NightlyInv
<1>4. CASE /\ UNCHANGED <<env, phase, cron, found, job, edited>>
           /\ \A p \in Procs : call'[p] = call[p]
  BY <1>4 DEF NightlyInv, CronTypeOK, EnsureTargets, NightlyStands
<1>5. CASE \E p \in Procs :
             Advances(p) \/ Ensures(p) \/ Finds(p) \/ Registers(p) \/ Withdraws(p)
  BY <1>5, BootKeepsNightly
<1> QED BY <1>1, <1>2, <1>3, <1>4, <1>5 DEF CronMove, Edits

LEMMA NightlyInvInit == ControlInit => NightlyInv
<1> SUFFICES ASSUME ControlInit PROVE NightlyInv
  OBVIOUS
<1>1. /\ phase = [p \in Procs |-> "down"] /\ call = [c \in Savers |-> NoCall]
      /\ cron = [p \in Procs |-> NoCrons] /\ found = [p \in Procs |-> NoCrons]
      /\ edited = [p \in Procs |-> {}]
  BY DEF ControlInit, DeploymentInit, JobsInit, BackupInit
<1>2. CronTypeOK
  BY <1>1 DEF CronTypeOK, NoCrons
<1>3. \A p \in Procs : EnsureTargets(p) /\ NightlyStands(p)
  BY <1>1 DEF EnsureTargets, NightlyStands, NoCall, Savers
<1> QED BY <1>2, <1>3 DEF NightlyInv

\* Where the bootstrap is on, a process that serves runs the nightly job by the
\* configured cron, whatever owners, restarts, overlapping boots and older saves made
\* of the row, unless a request stored it while that process looked for its jobs.
THEOREM NightlyRuns == ControlSpec => []NightlyIsScheduled
<1>1. JobsInv /\ DeploymentTypeOK /\ NightlyInv /\ [ControlNext]_controlVars => NightlyInv'
  BY NightlyInvStep
<1>2. ControlSpec => []JobsInv
  BY JobsInvAlways
<1>3. ControlSpec => []DeploymentTypeOK
  BY BootTypeCorrect
<1>4. NightlyInv => NightlyIsScheduled
  BY DEF NightlyInv, NightlyStands, NightlyIsScheduled, Serving
<1> QED BY <1>1, <1>2, <1>3, <1>4, NightlyInvInit, PTL DEF ControlSpec

----------------------------------------------------------------------------
\* Every step spends one event, or none.
LEMMA LeftMoves ==
  ASSUME [ControlNext]_controlVars
  PROVE  (\E k \in Events : Spend(k)) \/ UNCHANGED left
<1> USE DEF Events
<1>1. CASE BootCase
  BY <1>1 DEF BootCase, BootStep, BootSchema, BootBootstrap, BootBootstrapped,
       BootBootstrapThrows, BootFinds, BootRegisters, BootDegraded, BootFails, Boots
<1>2. CASE CrashCase
  BY <1>2 DEF CrashCase, Crashes
<1>3. CASE JobCase
  BY <1>3 DEF JobCase, RequestEdit, Saves, SaveFails
<1>4. CASE RunCase
  BY <1>4 DEF RunCase, TriggerManual, CronFires, Executes, ExecutionFails
<1>5. CASE RestoreCase
  BY <1>5 DEF RestoreCase, RestoreTraffic
<1>6. CASE TokenCase
  BY <1>6 DEF TokenCase, KeyStep, FetchEnds, TokenArrives, TokenResumes, KeysRotate
<1>7. CASE UNCHANGED controlVars
  BY <1>7 DEF controlVars
<1> QED BY <1>1, <1>2, <1>3, <1>4, <1>5, <1>6, <1>7, ControlCases

\* Every variable of the composed system is always well typed.
THEOREM ControlTypeCorrect == ControlSpec => []ControlTypeOK
<1> DEFINE LeftOK == left \in [Events -> Nat]
<1>1. ControlInit => LeftOK
  BY LoadsAssumption DEF ControlInit
<1>2. LeftOK /\ [ControlNext]_controlVars => LeftOK'
  <2> SUFFICES ASSUME LeftOK, [ControlNext]_controlVars PROVE LeftOK'
    OBVIOUS
  <2>1. CASE \E k \in Events : Spend(k)
    <3>1. PICK k \in Events : left[k] > 0 /\ left' = [left EXCEPT ![k] = left[k] - 1]
      BY <2>1 DEF Spend
    <3> QED BY <3>1
  <2> QED BY <2>1, LeftMoves
<1>3. JobsInv /\ DeploymentTypeOK /\ NightlyInv /\ [ControlNext]_controlVars => NightlyInv'
  BY NightlyInvStep
<1>4. SchemaInv /\ [ControlNext]_controlVars => SchemaInv'
  BY SchemaInvStep
<1>5. KeyInv /\ [ControlNext]_controlVars => KeyInv'
  BY KeyInvStep
<1>6. /\ DeploymentTypeOK /\ JobsInv /\ BackupInv /\ NightlyInv /\ SchemaInv /\ KeyInv /\ LeftOK
        => ControlTypeOK
  BY DEF JobsInv, BackupInv, RunsTypeOK, ExecRecord, NightlyInv, CronTypeOK, SchemaInv, KeyInv,
     ControlTypeOK, BackupTypeOK
<1> HIDE DEF LeftOK
<1> QED BY <1>1, <1>2, <1>3, <1>4, <1>5, <1>6, BootTypeCorrect, BackupInvAlways, NightlyInvInit,
           SchemaInvInit, KeyInvInit, PTL DEF ControlSpec
=============================================================================
