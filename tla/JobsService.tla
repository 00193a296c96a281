----------------------------- MODULE JobsService -----------------------------
(***************************************************************************)
(* The rows of backup_jobs: create, update and remove of JobsService, and  *)
(* ensureJob of the nightly bootstrap, which writes the same rows.         *)
(*                                                                         *)
(* Each of them reads a row (findOne), computes an entity, and hands it to *)
(* TypeORM's save.  save reads the row once more and updates only the      *)
(* columns in which the entity differs from what it just read; other calls *)
(* may write between any two of these steps.  The audit event follows in a *)
(* statement of its own.                                                   *)
(***************************************************************************)
EXTENDS SchedulePolicy

CONSTANTS
  Jobs,         \* ids of backup_jobs
  Nightly,      \* the row the nightly bootstrap takes for its own
  NightlyCron,  \* BACKUP_SCHEDULE_DB
  NightlyCount, \* BACKUP_RETENTION_FULL_COUNT
  Calls,        \* requests to the jobs API
  Dtos,         \* the bodies of those requests; a field left out is None
  Null,         \* a field that was sent as null
  Counts,       \* values of retention_full_count
  Approvers,    \* retention_approval_actor
  Reasons       \* retention_approval_reason, of twelve characters or more

MIN_SAFE_FULL_BACKUPS == 3
DEFAULT_RETENTION_FULL_COUNT == 7

ASSUME NightlyAssumption ==
  Nightly \in Jobs /\ NightlyCron \in Crons /\ NightlyCount \in Counts

ASSUME CountsAssumption ==
  Counts \subseteq Nat \ {0} /\ DEFAULT_RETENTION_FULL_COUNT \in Counts

ASSUME CallsAssumption == Calls \cap Procs = {}

ASSUME NullAssumption == Null # None

Missing == {None, Null}

\* What the validation of request bodies lets through: any field may be left out or
\* be null, and a cron may be any text; an empty one is a null.
Body == [retention : Counts \cup Missing, enabled : BOOLEAN \cup Missing,
         actor : Approvers \cup Missing, reason : Reasons \cup Missing,
         policy : Policies \cup Missing, cron : Seq(CronFields) \cup Missing,
         hour : 0..23 \cup Missing, minute : 0..59 \cup Missing,
         day : 0..6 \cup Missing]

ASSUME DtosAssumption == Dtos \subseteq Body

ApprovalFields == {"actor", "reason"}
Columns == ScheduleFields \cup ApprovalFields \cup {"retention", "enabled"}

VARIABLES
  job,    \* job[j]: the row j of backup_jobs, or None
  call,   \* call[c]: a request, or the bootstrap of a process
  trail,  \* the audit events about retention
  torn,   \* jobs whose row one save overwrote in part (history)
  raised  \* jobs whose approval outlived the bootstrap (history)

jobsVars == <<job, call, trail, torn, raised>>

\* A process p in the place of a call is its bootstrap.
Savers == Calls \cup Procs

NoCall == [proc |-> None, kind |-> "none", job |-> None, stage |-> "idle",
           entity |-> None, previous |-> None, base |-> None]

CallOpenStages == {"save", "write", "audit"}
Busy(c) == call[c].stage \in CallOpenStages

Low(n) == n < MIN_SAFE_FULL_BACKUPS

Approved(row) == row.actor # None /\ row.reason # None

\* MUTANT: an approval is asked for only when no count was stored yet.
requireLowRetentionApprovalSkipped(row) == TRUE

requireLowRetentionApproval(row) == Low(row.retention) => Approved(row)

----------------------------------------------------------------------------
\* A field of the body over the stored one.  A null clears a field of the schedule,
\* and is as good as nothing for the count, the switch and the approval.
Overlay(dto, row, f) ==
  IF dto[f] \notin Missing THEN dto[f]
  ELSE IF dto[f] = Null /\ f \in ScheduleFields THEN None ELSE row[f]

ScheduleInput(row, dto) == [f \in ScheduleFields |-> Overlay(dto, row, f)]

\* MUTANT: a count of three or more does not clear the approval.
ApprovalAfterKept(row, dto, n, f) == Overlay(dto, row, f)

\* The approval sent, else the stored one; none for a safe count.
ApprovalAfter(row, dto, n, f) == IF Low(n) THEN Overlay(dto, row, f) ELSE None

\* Object.assign(job, dto, schedule) and the approval fields of update.
Edited(row, dto) ==
  [f \in Columns |->
     CASE f \in ScheduleFields -> resolveSchedulePolicy(ScheduleInput(row, dto))[f]
       [] f \in ApprovalFields ->
            ApprovalAfter(row, dto, Overlay(dto, row, "retention"), f)
       [] OTHER -> Overlay(dto, row, f)]

Acceptable(row, dto) ==
  /\ Resolvable(ScheduleInput(row, dto))
  /\ requireLowRetentionApproval(
       [f \in Columns |-> Overlay(dto, row, f)])

\* update hands a null for the count or the switch on to the database, which has
\* them NOT NULL: the save fails as a whole.
Storable(dto) == dto.retention # Null /\ dto.enabled # Null

\* What create takes for the fields a body leaves out.
Unset == [f \in Columns |->
            CASE f = "retention" -> DEFAULT_RETENTION_FULL_COUNT
              [] f = "enabled" -> TRUE
              [] OTHER -> None]

Begin(c, p, kind, j, stage, entity, previous) ==
  call' = [call EXCEPT ![c] =
    [proc |-> p, kind |-> kind, job |-> j, stage |-> stage,
     entity |-> entity, previous |-> previous, base |-> None]]

Reject(c, p, kind, j) == Begin(c, p, kind, j, "rejected", None, None)

\* create: the row gets a new id, so save inserts without reading.
create(c, p, j, dto) ==
  /\ call[c].stage = "idle"
  /\ job[j] = None
  /\ j # Nightly
  /\ \A d \in Calls : call[d].job # j
  /\ IF Acceptable(Unset, dto)
     THEN Begin(c, p, "create", j, "write", Edited(Unset, dto), None)
     ELSE Reject(c, p, "create", j)
  /\ UNCHANGED <<job, trail, torn, raised>>

\* update: findOne, the checks, and the entity to save.
update(c, p, j, dto) ==
  /\ call[c].stage = "idle"
  /\ job[j] # None
  /\ IF Acceptable(job[j], dto) /\ Storable(dto)
     THEN Begin(c, p, "update", j, "save", Edited(job[j], dto), job[j].retention)
     ELSE Reject(c, p, "update", j)
  /\ UNCHANGED <<job, trail, torn, raised>>

\* remove: a job is disabled, never deleted.
remove(c, p, j) ==
  /\ call[c].stage = "idle"
  /\ job[j] # None
  /\ Begin(c, p, "remove", j, "save", [job[j] EXCEPT !.enabled = FALSE],
           job[j].retention)
  /\ UNCHANGED <<job, trail, torn, raised>>

----------------------------------------------------------------------------
\* MUTANT: the bootstrap leaves its row disabled if an owner disabled it.
EnsuredKeepsSwitch(row) ==
  LET s == resolveSchedulePolicy(
             [policy |-> "custom_cron", cron |-> NightlyCron,
              hour |-> None, minute |-> None, day |-> None])
  IN  [f \in Columns |->
         CASE f \in ScheduleFields -> s[f]
           [] f = "retention" -> DEFAULT_RETENTION_FULL_COUNT
           [] OTHER -> row[f]]

\* ensureJob: the bootstrap overwrites schedule, count and switch of its row and
\* leaves the approval alone.
Ensured(row) ==
  LET s == resolveSchedulePolicy(
             [policy |-> "custom_cron", cron |-> NightlyCron,
              hour |-> None, minute |-> None, day |-> None])
      n == IF NightlyCount > DEFAULT_RETENTION_FULL_COUNT
           THEN NightlyCount ELSE DEFAULT_RETENTION_FULL_COUNT
  IN  [f \in Columns |->
         CASE f \in ScheduleFields -> s[f]
           [] f = "retention" -> n
           [] f = "enabled" -> TRUE
           [] OTHER -> row[f]]

ensureJob(p) ==
  /\ ~Busy(p)
  /\ IF job[Nightly] = None
     THEN /\ Begin(p, p, "ensure", Nightly, "write", Ensured(Unset), None)
          /\ UNCHANGED raised
     ELSE /\ Begin(p, p, "ensure", Nightly, "save", Ensured(job[Nightly]),
                   job[Nightly].retention)
          /\ raised' = IF Approved(job[Nightly]) THEN raised \cup {Nightly} ELSE raised
  /\ UNCHANGED <<job, trail, torn>>

----------------------------------------------------------------------------
\* repo.save, first half: the row is read again by its id.
SaveReads(c) ==
  /\ call[c].stage = "save"
  /\ call' = [call EXCEPT ![c].stage = "write", ![c].base = job[call[c].job]]
  /\ UNCHANGED <<job, trail, torn, raised>>

\* repo.save, second half: the changed columns are written over whatever the row
\* holds by now.
Saved(c) ==
  LET e == call[c].entity
      base == call[c].base
      row == job[call[c].job]
  IN  IF base = None THEN e
      ELSE [f \in Columns |-> IF e[f] = base[f] THEN row[f] ELSE e[f]]

\* MUTANT: only a change of the count is audited.
AuditDueOnChange(c) == call[c].kind = "update" /\ call[c].entity.retention # call[c].previous

\* Only create and update record, if the count changed or is low.
AuditDue(c) ==
  LET n == call[c].entity.retention
  IN  \/ call[c].kind \in {"create", "update"} /\ Low(n)
      \/ call[c].kind = "update" /\ n # call[c].previous

SaveWrites(c) ==
  LET j == call[c].job
  IN  /\ call[c].stage = "write"
      /\ job' = [job EXCEPT ![j] = Saved(c)]
      /\ torn' = IF call[c].base = None \/ job[j] = call[c].base
                 THEN torn ELSE torn \cup {j}
      /\ call' = [call EXCEPT ![c].base = None,
                              ![c].stage = IF AuditDue(c) THEN "audit" ELSE "done"]
      /\ UNCHANGED <<trail, raised>>

\* audit.record: which action, and the count it tells of.
EventOf(c) ==
  LET n == call[c].entity.retention
  IN  [job |-> call[c].job, count |-> n,
       action |-> IF Low(n) THEN "retention_approval" ELSE "retention_policy_update"]

RecordRetention(c) ==
  /\ call[c].stage = "audit"
  /\ trail' = trail \cup {EventOf(c)}
  /\ call' = [call EXCEPT ![c].stage = "done"]
  /\ UNCHANGED <<job, torn, raised>>

\* A request that ends before its event was recorded, and one that ends earlier.
StageAfter(c, end) == IF call[c].stage = "audit" THEN "unrecorded" ELSE end

\* A statement fails.  What an earlier statement wrote stays.
CallFails(c) ==
  /\ Busy(c)
  /\ call' = [call EXCEPT ![c].stage = StageAfter(c, "failed"), ![c].base = None]
  /\ UNCHANGED <<job, trail, torn, raised>>

CallStep(c) == SaveReads(c) \/ SaveWrites(c) \/ RecordRetention(c)

\* The calls a process served are lost with it.
CallsForget(p) ==
  /\ call' = [c \in Savers |->
                IF call[c].proc = p /\ Busy(c)
                THEN [call[c] EXCEPT !.stage = StageAfter(c, "lost"), !.base = None]
                ELSE call[c]]
  /\ UNCHANGED <<job, trail, torn, raised>>

\* The rows that are stored, and the events of their low counts.
JobsInit ==
  /\ call = [c \in Savers |-> NoCall]
  /\ trail = {[job |-> j, count |-> job[j].retention, action |-> "retention_approval"] :
                j \in {i \in Jobs : job[i] # None /\ Low(job[i].retention)}}
  /\ torn = {}
  /\ raised = {}

----------------------------------------------------------------------------
Row == [retention : Counts, enabled : BOOLEAN,
        actor : Approvers \cup {None}, reason : Reasons \cup {None},
        policy : Policies, cron : Crons,
        hour : 0..23 \cup {None}, minute : 0..59 \cup {None}, day : 0..6 \cup {None}]

ASSUME RowAssumption == None \notin Row

CallStages ==
  {"idle", "rejected", "done", "failed", "lost", "unrecorded"} \cup CallOpenStages
CallKinds == {"none", "create", "update", "remove", "ensure"}
RetentionActions == {"retention_approval", "retention_policy_update"}

JobsTypeOK ==
  /\ job \in [Jobs -> Row \cup {None}]
  /\ call \in [Savers -> [proc : Procs \cup {None}, kind : CallKinds,
                          job : Jobs \cup {None}, stage : CallStages,
                          entity : Row \cup {None}, previous : Counts \cup {None},
                          base : Row \cup {None}]]
  /\ trail \subseteq [job : Jobs, count : Counts, action : RetentionActions]
  /\ torn \subseteq Jobs
  /\ raised \subseteq Jobs

\* "Retention below three full backups requires explicit owner approval
\* metadata": whatever calls and bootstraps overlap, a low count carries its
\* approval, unless two saves of the row overlapped between read and write.
LowCountApproved ==
  \A j \in Jobs : job[j] # None /\ Low(job[j].retention) /\ j \notin torn
                    => Approved(job[j])

\* An approval does not outlive the low count it was given for, so that it cannot
\* approve a later one unseen; only the bootstrap, and a torn save, let it.
ApprovalEndsWithLowCount ==
  \A j \in Jobs : job[j] # None /\ ~Low(job[j].retention) /\ j \notin torn \cup raised
                    => job[j].actor = None /\ job[j].reason = None

\* "Schedule policy fields normalize to the existing schedule_cron execution
\* path": the cron that is executed fires when the policy shown to the operator
\* says, after any sequence of edits that were not torn.
CronFollowsPolicy ==
  \A j \in Jobs : job[j] # None /\ j \notin torn => CronAgrees(job[j])

\* The event of a low count n of job j is in the trail, is about to be recorded by
\* the request that stored it, or was lost when that request failed or died there.
Owed(j, n) ==
  \/ [job |-> j, count |-> n, action |-> "retention_approval"] \in trail
  \/ \E c \in Calls : /\ call[c].stage \in {"audit", "unrecorded"}
                      /\ call[c].job = j /\ call[c].entity.retention = n

\* "Risk-changing operations must record": no low count is stored, by whatever
\* overlapping, stale or torn saves, without the event of a request that asked for
\* it; the event is missing only where recording it is still to come or has failed.
LowCountAudited ==
  \A j \in Jobs : job[j] # None /\ Low(job[j].retention) => Owed(j, job[j].retention)
=============================================================================
