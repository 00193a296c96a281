------------------------------ MODULE JobsProofs ------------------------------
(***************************************************************************)
(* Proofs about the rows of backup_jobs, whatever calls, bootstraps and    *)
(* restarts overlap: they are well typed, a low count is approved and has  *)
(* its event, an approval ends with it, and the cron follows the policy.   *)
(***************************************************************************)
EXTENDS ControlMoves, SequenceTheorems

Input == [policy : Policies \cup {None}, cron : Seq(CronFields) \cup {None},
          hour : 0..23 \cup {None}, minute : 0..59 \cup {None}, day : 0..6 \cup {None}]

Schedule == [policy : Policies, cron : Crons,
             hour : 0..23 \cup {None}, minute : 0..59 \cup {None}, day : 0..6 \cup {None}]

\* What resolveSchedulePolicy returns is a schedule whose cron fires when its
\* policy says.
LEMMA ResolvedAgrees ==
  ASSUME NEW in \in Input, Resolvable(in)
  PROVE  resolveSchedulePolicy(in) \in Schedule /\ CronAgrees(resolveSchedulePolicy(in))
<1> DEFINE s == resolveSchedulePolicy(in)
           m == MinuteOf(in)
           h == HourOf(in)
           d == DayOf(in)
<1>0. m \in 0..59 /\ h \in 0..23 \cup {h} /\ d \in 0..6 \cup {d}
  BY DEF Resolvable
<1>1. CASE PolicyOf(in) = "hourly"
  <2>1. s = [policy |-> "hourly", cron |-> <<m, Star, Star, Star, Star>>,
             hour |-> None, minute |-> m, day |-> None]
    BY <1>1 DEF resolveSchedulePolicy
  <2> QED BY <2>1, <1>0, StarAssumption, MomentsAssumption DEF Schedule, Policies, Crons, CronFields, CronAgrees, Fires, Meant
<1>2. CASE PolicyOf(in) = "daily"
  <2>1. s = [policy |-> "daily", cron |-> <<m, h, Star, Star, Star>>,
             hour |-> h, minute |-> m, day |-> None]
    BY <1>2 DEF resolveSchedulePolicy
  <2>2. h \in 0..23
    BY <1>2 DEF Resolvable
  <2> QED BY <2>1, <2>2, <1>0, StarAssumption, MomentsAssumption DEF Schedule, Policies, Crons, CronFields, CronAgrees, Fires, Meant
<1>3. CASE PolicyOf(in) = "weekly"
  <2>1. s = [policy |-> "weekly", cron |-> <<m, h, Star, Star, d>>,
             hour |-> h, minute |-> m, day |-> d]
    BY <1>3 DEF resolveSchedulePolicy
  <2>2. h \in 0..23 /\ d \in 0..6
    BY <1>3 DEF Resolvable
  <2> QED BY <2>1, <2>2, <1>0, StarAssumption, MomentsAssumption DEF Schedule, Policies, Crons, CronFields, CronAgrees, Fires, Meant
<1>4. CASE PolicyOf(in) = "custom_cron"
  <2>1. s = [in EXCEPT !.policy = "custom_cron"]
    BY <1>4 DEF resolveSchedulePolicy
  <2>2. in.cron \in Seq(CronFields) /\ Len(in.cron) = 5
    BY <1>4 DEF Resolvable, Input, validateCronExpression
  <2>3. in.cron \in Crons
    BY <2>2, LenProperties DEF Crons
  <2> QED BY <2>1, <2>3 DEF Input, Schedule, Policies, CronAgrees
<1> QED BY <1>1, <1>2, <1>3, <1>4 DEF Resolvable, Policies

----------------------------------------------------------------------------
\* What update and create overlay a body on: a row, or the defaults of create.
Overlaid == [retention : Counts, enabled : BOOLEAN,
             actor : Approvers \cup {None}, reason : Reasons \cup {None},
             policy : Policies \cup {None}, cron : Seq(CronFields) \cup {None},
             hour : 0..23 \cup {None}, minute : 0..59 \cup {None},
             day : 0..6 \cup {None}]

LEMMA RowsAreOverlaid == Row \subseteq Overlaid
<1>1. Crons \subseteq Seq(CronFields)
  <2>1. ASSUME NEW s \in Crons PROVE s \in Seq(CronFields)
    BY <2>1, SeqDef DEF Crons
  <2> QED BY <2>1
<1> QED BY <1>1 DEF Row, Overlaid

LEMMA UnsetIsOverlaid == Unset \in Overlaid
BY CountsAssumption DEF Unset, Overlaid, Columns, ScheduleFields, ApprovalFields

\* An edit makes a legal row of whatever it is applied to.
LEMMA EditedIsLegal ==
  ASSUME NEW row \in Overlaid, NEW dto \in Dtos, Acceptable(row, dto)
  PROVE  LegalRow(Edited(row, dto))
<1> DEFINE in == ScheduleInput(row, dto)
           s == resolveSchedulePolicy(in)
           e == Edited(row, dto)
           n == Overlay(dto, row, "retention")
<1>1. dto \in Body
  BY DtosAssumption
<1>2. in \in Input
  <2>1. /\ Overlay(dto, row, "policy") \in Policies \cup {None}
        /\ Overlay(dto, row, "cron") \in Seq(CronFields) \cup {None}
        /\ Overlay(dto, row, "hour") \in 0..23 \cup {None}
        /\ Overlay(dto, row, "minute") \in 0..59 \cup {None}
        /\ Overlay(dto, row, "day") \in 0..6 \cup {None}
    BY <1>1 DEF Overlay, Missing, Body, Overlaid
  <2>2. in = [f \in ScheduleFields |-> Overlay(dto, row, f)]
    BY DEF ScheduleInput
  <2> HIDE DEF in
  <2> QED BY <2>1, <2>2 DEF ScheduleFields, Input
<1>3. s \in Schedule /\ CronAgrees(s)
  BY <1>2, ResolvedAgrees DEF Acceptable
<1>4. n \in Counts /\ Overlay(dto, row, "enabled") \in BOOLEAN
  BY <1>1 DEF Overlay, Missing, ScheduleFields, Body, Overlaid
<1>5. \A f \in ApprovalFields :
        ApprovalAfter(row, dto, n, f) = IF Low(n) THEN Overlay(dto, row, f) ELSE None
  BY DEF ApprovalAfter
<1>6. /\ Overlay(dto, row, "actor") \in Approvers \cup {None}
      /\ Overlay(dto, row, "reason") \in Reasons \cup {None}
  BY <1>1 DEF Overlay, Missing, ScheduleFields, Body, Overlaid
<1>7. /\ e = [f \in Columns |-> e[f]]
      /\ e.retention = n /\ e.enabled = Overlay(dto, row, "enabled")
      /\ e.actor = ApprovalAfter(row, dto, n, "actor")
      /\ e.reason = ApprovalAfter(row, dto, n, "reason")
      /\ e.policy = s.policy /\ e.cron = s.cron /\ e.hour = s.hour
      /\ e.minute = s.minute /\ e.day = s.day
  BY DEF Edited, Columns, ScheduleFields, ApprovalFields
<1> HIDE DEF e, s, in, n
<1>8. e \in Row
  BY <1>3, <1>4, <1>5, <1>6, <1>7
     DEF Row, Schedule, Columns, ScheduleFields, ApprovalFields
<1>9. IF Low(e.retention) THEN Approved(e) ELSE e.actor = None /\ e.reason = None
  <2>1. Low(n) => Overlay(dto, row, "actor") # None /\ Overlay(dto, row, "reason") # None
    BY DEF Acceptable, requireLowRetentionApproval, Approved, n, Columns, ApprovalFields
  <2> QED BY <2>1, <1>5, <1>7 DEF Approved, ApprovalFields
<1>10. CronAgrees(e)
  BY <1>3, <1>7 DEF CronAgrees, Meant
<1> QED BY <1>8, <1>9, <1>10 DEF LegalRow, e

\* The bootstrap makes of a row one with a safe count, whose approval is the old one.
LEMMA EnsuredIsSafe ==
  ASSUME NEW row \in Overlaid
  PROVE  /\ Ensured(row) \in Row
         /\ ~Low(Ensured(row).retention)
         /\ Ensured(row).actor = row.actor /\ Ensured(row).reason = row.reason
         /\ CronAgrees(Ensured(row))
<1> DEFINE in == [policy |-> "custom_cron", cron |-> NightlyCron,
                  hour |-> None, minute |-> None, day |-> None]
           s == resolveSchedulePolicy(in)
           e == Ensured(row)
           n == IF NightlyCount > DEFAULT_RETENTION_FULL_COUNT
                THEN NightlyCount ELSE DEFAULT_RETENTION_FULL_COUNT
<1>1. s = in
  BY NoneAssumption DEF resolveSchedulePolicy, PolicyOf, Given, Policies
<1>2. n \in Counts /\ ~Low(n)
  BY NightlyAssumption, CountsAssumption
     DEF Low, MIN_SAFE_FULL_BACKUPS, DEFAULT_RETENTION_FULL_COUNT
<1>3. /\ e = [f \in Columns |-> e[f]]
      /\ e.retention = n /\ e.enabled = TRUE
      /\ e.actor = row.actor /\ e.reason = row.reason
      /\ e.policy = s.policy /\ e.cron = s.cron /\ e.hour = s.hour
      /\ e.minute = s.minute /\ e.day = s.day
  BY DEF Ensured, Columns, ScheduleFields, ApprovalFields
<1> HIDE DEF e, s, n
<1>4. e \in Row
  BY <1>1, <1>2, <1>3, NightlyAssumption
     DEF Row, Overlaid, Columns, ScheduleFields, ApprovalFields, Policies
<1> QED BY <1>1, <1>2, <1>3, <1>4 DEF CronAgrees, e

----------------------------------------------------------------------------
CallRecord == [proc : Procs \cup {None}, kind : CallKinds, job : Jobs \cup {None},
               stage : CallStages, entity : Row \cup {None},
               previous : Counts \cup {None}, base : Row \cup {None}]

\* A row is legal, but for what a torn save or a kept approval did to it.
LegalUnless(row, tornHere, raisedHere) ==
  /\ row \in Row
  /\ ~tornHere => CronAgrees(row) /\ (Low(row.retention) => Approved(row))
  /\ ~tornHere /\ ~raisedHere /\ ~Low(row.retention)
       => row.actor = None /\ row.reason = None

RowLegal(j) == job[j] # None => LegalUnless(job[j], j \in torn, j \in raised)

\* The entity of an open call is as legal as the row it is for, and a call that
\* will overwrite a row, or compares with one, has one to do it to.
CallLegal(c) ==
  /\ Busy(c) => call[c].job \in Jobs /\ call[c].entity \in Row
  /\ call[c].stage \in {"save", "write"} =>
       LegalUnless(call[c].entity, call[c].job \in torn, call[c].job \in raised)
  /\ call[c].stage = "save" \/ call[c].base # None =>
       call[c].job \in Jobs /\ job[call[c].job] \in Row

\* A low count that a call is about to store is one it will record, or one whose
\* event is owed already.
CountOwed(c) ==
  call[c].stage \in {"save", "write"} /\ Low(call[c].entity.retention) =>
    \/ c \in Calls /\ call[c].kind \in {"create", "update"}
    \/ Owed(call[c].job, call[c].entity.retention)

JobsInv ==
  /\ JobsTypeOK
  /\ \A j \in Jobs : RowLegal(j)
  /\ \A c \in Savers : CallLegal(c)
  /\ \A c \in Savers : CountOwed(c)
  /\ LowCountAudited

LEMMA LegalRowIsLegal ==
  ASSUME NEW row, LegalRow(row), NEW t, NEW r
  PROVE  LegalUnless(row, t, r)
BY DEF LegalRow, LegalUnless

LEMMA JobsInvInit == ControlInit => JobsInv
<1> SUFFICES ASSUME ControlInit PROVE JobsInv
  OBVIOUS
<1>1. PICK load \in Loads : job = load.job
  BY DEF ControlInit
<1>2. job \in [Jobs -> Row \cup {None}] /\ \A j \in Jobs : job[j] # None => LegalRow(job[j])
  BY <1>1, LoadsAssumption
<1>3. /\ call = [c \in Savers |-> NoCall]
      /\ trail = {[job |-> j, count |-> job[j].retention, action |-> "retention_approval"] :
                    j \in {i \in Jobs : job[i] # None /\ Low(job[i].retention)}}
      /\ torn = {} /\ raised = {}
  BY DEF ControlInit, JobsInit
<1>4. NoCall \in CallRecord
  BY DEF NoCall, CallRecord, CallKinds, CallStages
<1>5. JobsTypeOK
  <2>1. ASSUME NEW j \in Jobs, job[j] # None PROVE job[j].retention \in Counts
    BY <1>2, <2>1 DEF Row
  <2> QED BY <1>2, <1>3, <1>4, <2>1 DEF JobsTypeOK, CallRecord, RetentionActions
<1>6. \A j \in Jobs : RowLegal(j)
  BY <1>2, LegalRowIsLegal DEF RowLegal
<1>7. \A c \in Savers : CallLegal(c)
  BY <1>3 DEF CallLegal, NoCall, Busy, CallOpenStages
<1>8. \A c \in Savers : CountOwed(c)
  BY <1>3 DEF CountOwed, NoCall
<1>9. LowCountAudited
  BY <1>3 DEF LowCountAudited, Owed
<1> QED BY <1>5, <1>6, <1>7, <1>8, <1>9 DEF JobsInv

----------------------------------------------------------------------------
\* What other calls see of a step: rows stay rows, and excuses are never taken back.
CallsKept ==
  /\ torn \subseteq torn' /\ raised \subseteq raised'
  /\ \A j \in Jobs : job[j] \in Row => job'[j] \in Row

LEMMA OthersStayLegal ==
  ASSUME CallsKept, NEW c \in Savers, CallLegal(c), call'[c] = call[c]
  PROVE  CallLegal(c)'
<1> DEFINE k == call[c]
<1>1. /\ Busy(c)' => k.job \in Jobs /\ k.entity \in Row
      /\ k.stage = "save" \/ k.base # None => k.job \in Jobs /\ job'[k.job] \in Row
  BY DEF CallLegal, CallsKept, Busy
<1>2. k.stage \in {"save", "write"} =>
        LegalUnless(k.entity, k.job \in torn', k.job \in raised')
  BY DEF CallLegal, CallsKept, LegalUnless
<1> QED BY <1>1, <1>2 DEF CallLegal

\* A call that owes an event goes on owing it, or has recorded it.
StillOwes(c) ==
  call[c].stage \in {"audit", "unrecorded"} =>
    \/ /\ call'[c].stage \in {"audit", "unrecorded"}
       /\ call'[c].job = call[c].job /\ call'[c].entity = call[c].entity
    \/ Low(call[c].entity.retention) =>
         [job |-> call[c].job, count |-> call[c].entity.retention,
          action |-> "retention_approval"] \in trail'

LEMMA OwedStays ==
  ASSUME trail \subseteq trail', \A c \in Calls : StillOwes(c),
         NEW j, NEW n, Low(n), Owed(j, n)
  PROVE  Owed(j, n)'
BY DEF Owed, StillOwes

\* An unchanged row, or an unchanged call, is as well recorded as before.
LEMMA OthersStayOwed ==
  ASSUME JobsInv, trail \subseteq trail', \A c \in Calls : StillOwes(c)
  PROVE  /\ \A c \in Savers : call'[c] = call[c] => CountOwed(c)'
         /\ job' = job => LowCountAudited'
<1>1. ASSUME NEW c \in Savers, call'[c] = call[c] PROVE CountOwed(c)'
  <2>1. CountOwed(c)
    BY DEF JobsInv
  <2> QED BY <1>1, <2>1, OwedStays DEF CountOwed, Low
<1>2. ASSUME job' = job PROVE LowCountAudited'
  <2>1. LowCountAudited
    BY DEF JobsInv
  <2> QED BY <1>2, <2>1, OwedStays DEF LowCountAudited, Low
<1> QED BY <1>1, <1>2

\* A call, or the bootstrap, opens with an entity that is legal for its row.
LEMMA BeginKeeps ==
  ASSUME JobsInv, NEW c \in Savers, NEW p \in Procs, NEW kind \in CallKinds, NEW j \in Jobs,
         NEW stage \in {"save", "write", "rejected"}, NEW entity \in Row \cup {None},
         NEW previous \in Counts \cup {None},
         Begin(c, p, kind, j, stage, entity, previous),
         UNCHANGED <<job, trail, torn>>, raised' \subseteq Jobs, raised \subseteq raised',
         stage # "rejected" => LegalUnless(entity, j \in torn, j \in raised'),
         stage = "save" => job[j] \in Row,
         c \in Calls => call[c].stage = "idle",
         stage # "rejected" /\ Low(entity.retention) =>
           (c \in Calls /\ kind \in {"create", "update"}) \/ Owed(j, entity.retention)
  PROVE  JobsInv'
<1> DEFINE k == [proc |-> p, kind |-> kind, job |-> j, stage |-> stage,
                 entity |-> entity, previous |-> previous, base |-> None]
<1>0. JobsTypeOK
  BY DEF JobsInv
<1>1. call' = [call EXCEPT ![c] = k]
  BY DEF Begin
<1>2. k \in CallRecord
  BY DEF CallRecord, CallStages, CallOpenStages
<1> HIDE DEF k
<1>3. JobsTypeOK'
  BY <1>0, <1>1, <1>2 DEF JobsTypeOK, CallRecord
<1>4. call'[c] = k /\ \A d \in Savers : d # c => call'[d] = call[d]
  BY <1>0, <1>1 DEF JobsTypeOK
<1>5. ASSUME NEW i \in Jobs PROVE RowLegal(i)'
  <2>1. RowLegal(i)
    BY DEF JobsInv
  <2> QED BY <2>1 DEF RowLegal, LegalUnless
<1>6. ASSUME NEW d \in Savers PROVE CallLegal(d)'
  <2>1. CASE d = c
    BY <2>1, <1>4 DEF CallLegal, k, LegalUnless, Busy, CallOpenStages
  <2>2. CASE d # c
    BY <2>2, <1>4, OthersStayLegal DEF CallsKept, JobsInv
  <2> QED BY <2>1, <2>2
<1>7. \A d \in Calls : StillOwes(d)
  BY <1>4 DEF StillOwes, Savers
<1>8. ASSUME NEW d \in Savers PROVE CountOwed(d)'
  <2>1. CASE d = c
    <3>1. Low(entity.retention) /\ Owed(j, entity.retention) => Owed(j, entity.retention)'
      BY <1>7, OwedStays
    <3> QED BY <2>1, <3>1, <1>4 DEF CountOwed, k, Low
  <2>2. CASE d # c
    BY <2>2, <1>4, <1>7, OthersStayOwed
  <2> QED BY <2>1, <2>2
<1>9. LowCountAudited'
  BY <1>7, OthersStayOwed
<1> QED BY <1>3, <1>5, <1>6, <1>8, <1>9 DEF JobsInv

\* The three requests of the API, accepted or rejected.
LEMMA RequestKeeps ==
  ASSUME JobsInv, NEW c \in Calls, NEW p \in Procs, NEW j \in Jobs,
         \/ \E dto \in Dtos : create(c, p, j, dto) \/ update(c, p, j, dto)
         \/ remove(c, p, j)
  PROVE  JobsInv'
<1>0. /\ c \in Savers /\ raised \subseteq Jobs /\ job[j] \in Row \cup {None}
      /\ RowLegal(j) /\ {"create", "update", "remove"} \subseteq CallKinds
  BY DEF Savers, JobsInv, JobsTypeOK, CallKinds
<1>1. ASSUME NEW kind \in {"create", "update"}, Reject(c, p, kind, j),
             call[c].stage = "idle", UNCHANGED <<job, trail, torn, raised>>
      PROVE  JobsInv'
  BY <1>0, <1>1, BeginKeeps DEF Reject
<1>2. ASSUME NEW dto \in Dtos, create(c, p, j, dto) PROVE JobsInv'
  <2>1. CASE Acceptable(Unset, dto)
    <3>1. LegalRow(Edited(Unset, dto))
      BY <2>1, EditedIsLegal, UnsetIsOverlaid
    <3>2. Edited(Unset, dto) \in Row /\ LegalUnless(Edited(Unset, dto), j \in torn, j \in raised)
      BY <3>1, LegalRowIsLegal DEF LegalRow
    <3> QED BY <1>2, <2>1, <3>2, <1>0, BeginKeeps DEF create
  <2> QED BY <2>1, <1>1, <1>2 DEF create
<1>3. ASSUME NEW dto \in Dtos, update(c, p, j, dto) PROVE JobsInv'
  <2>0. job[j] \in Row /\ job[j].retention \in Counts
    BY <1>0, <1>3 DEF update, Row
  <2>1. CASE Acceptable(job[j], dto) /\ Storable(dto)
    <3>1. LegalRow(Edited(job[j], dto))
      BY <2>0, <2>1, EditedIsLegal, RowsAreOverlaid
    <3>2. /\ Edited(job[j], dto) \in Row
          /\ LegalUnless(Edited(job[j], dto), j \in torn, j \in raised)
      BY <3>1, LegalRowIsLegal DEF LegalRow
    <3> QED BY <1>3, <2>0, <2>1, <3>2, <1>0, BeginKeeps DEF update
  <2> QED BY <2>1, <1>1, <1>3 DEF update
<1>4. ASSUME remove(c, p, j) PROVE JobsInv'
  <2> DEFINE e == [job[j] EXCEPT !.enabled = FALSE]
  <2>0. job[j] \in Row /\ job[j].retention \in Counts
    BY <1>0, <1>4 DEF remove, Row
  <2>1. LegalUnless(job[j], j \in torn, j \in raised)
    BY <1>0, <1>4 DEF RowLegal, remove
  <2>2. /\ e \in Row /\ e.retention = job[j].retention
        /\ e.actor = job[j].actor /\ e.reason = job[j].reason
        /\ e.policy = job[j].policy /\ e.cron = job[j].cron /\ e.hour = job[j].hour
        /\ e.minute = job[j].minute /\ e.day = job[j].day
    BY <2>0 DEF Row
  <2>3. Begin(c, p, "remove", j, "save", e, job[j].retention)
    BY <1>4 DEF remove
  <2> HIDE DEF e
  <2>4. LegalUnless(e, j \in torn, j \in raised)
    BY <2>1, <2>2 DEF LegalUnless, CronAgrees, Meant, Approved
  <2>5. Low(e.retention) => Owed(j, e.retention)
    BY <1>4, <2>2 DEF remove, JobsInv, LowCountAudited
  <2> QED BY <1>4, <2>0, <2>2, <2>3, <2>4, <2>5, <1>0, BeginKeeps DEF remove
<1> QED BY <1>2, <1>3, <1>4

\* The bootstrap, whether its row exists or not.
LEMMA EnsureKeeps ==
  ASSUME JobsInv, NEW p \in Procs, ensureJob(p)
  PROVE  JobsInv'
<1> DEFINE j == Nightly
<1>0. /\ p \in Savers /\ raised \subseteq Jobs /\ j \in Jobs /\ job[j] \in Row \cup {None}
      /\ RowLegal(j) /\ "ensure" \in CallKinds /\ p \notin Calls
  BY NightlyAssumption, CallsAssumption DEF Savers, JobsInv, JobsTypeOK, CallKinds
<1>1. CASE job[j] = None
  <2>1. /\ Ensured(Unset) \in Row /\ ~Low(Ensured(Unset).retention)
        /\ Ensured(Unset).actor = None /\ Ensured(Unset).reason = None
        /\ CronAgrees(Ensured(Unset))
    BY EnsuredIsSafe, UnsetIsOverlaid DEF Unset, Columns, ApprovalFields
  <2>2. LegalUnless(Ensured(Unset), j \in torn, j \in raised)
    BY <2>1 DEF LegalUnless
  <2> QED BY <1>0, <1>1, <2>1, <2>2, BeginKeeps DEF ensureJob
<1>2. CASE job[j] # None
  <2> DEFINE e == Ensured(job[j])
  <2>1. job[j] \in Row /\ job[j].retention \in Counts
    BY <1>0, <1>2 DEF Row
  <2>2. /\ e \in Row /\ ~Low(e.retention)
        /\ e.actor = job[j].actor /\ e.reason = job[j].reason
        /\ CronAgrees(e)
    BY <2>1, EnsuredIsSafe, RowsAreOverlaid
  <2> HIDE DEF e
  <2>3. LegalUnless(job[j], j \in torn, j \in raised)
    BY <1>0, <1>2 DEF RowLegal
  <2>4. /\ raised \subseteq raised' /\ raised' \subseteq Jobs
        /\ Approved(job[j]) => j \in raised'
        /\ Begin(p, p, "ensure", j, "save", e, job[j].retention)
        /\ UNCHANGED <<job, trail, torn>>
    BY <1>0, <1>2 DEF ensureJob, e
  <2>5. LegalUnless(e, j \in torn, j \in raised')
    BY <2>2, <2>3, <2>4 DEF LegalUnless
  <2> QED BY <1>0, <2>1, <2>2, <2>4, <2>5, BeginKeeps
<1> QED BY <1>1, <1>2

\* A call goes on with its record changed in stage and base only; what it did to
\* its own row is legal.
LEMMA CallGoesOn ==
  ASSUME JobsInv, NEW c \in Savers, NEW k \in CallRecord,
         call' = [call EXCEPT ![c] = k],
         CallsKept, torn' \subseteq Jobs, raised' = raised,
         job' \in [Jobs -> Row \cup {None}],
         trail' \subseteq [job : Jobs, count : Counts, action : RetentionActions],
         trail \subseteq trail',
         \A j \in Jobs : RowLegal(j)', CallLegal(c)',
         StillOwes(c), CountOwed(c)', LowCountAudited'
  PROVE  JobsInv'
<1>0. JobsTypeOK
  BY DEF JobsInv
<1>1. JobsTypeOK'
  BY <1>0 DEF JobsTypeOK, CallRecord
<1>2. call'[c] = k /\ \A d \in Savers : d # c => call'[d] = call[d]
  BY <1>0 DEF JobsTypeOK
<1>3. ASSUME NEW d \in Savers PROVE CallLegal(d)'
  BY <1>2, <1>3, OthersStayLegal DEF JobsInv
<1>4. \A d \in Calls : StillOwes(d)
  BY <1>2 DEF StillOwes, Savers
<1>5. ASSUME NEW d \in Savers PROVE CountOwed(d)'
  BY <1>2, <1>4, <1>5, OthersStayOwed
<1> QED BY <1>1, <1>3, <1>5 DEF JobsInv

\* What is owed does not change while one call goes on.
LEMMA OneCallStillOwed ==
  ASSUME JobsInv, NEW c \in Savers, NEW k \in CallRecord,
         call' = [call EXCEPT ![c] = k], trail \subseteq trail', StillOwes(c),
         NEW j, NEW n, Low(n), Owed(j, n)
  PROVE  Owed(j, n)'
<1>1. \A d \in Calls : StillOwes(d)
  BY DEF StillOwes, Savers, JobsInv, JobsTypeOK
<1> QED BY <1>1, OwedStays

LEMMA OneCallSameRows ==
  ASSUME JobsInv, NEW c \in Savers, NEW k \in CallRecord,
         call' = [call EXCEPT ![c] = k], trail \subseteq trail', StillOwes(c), job' = job
  PROVE  LowCountAudited'
BY OneCallStillOwed DEF LowCountAudited, JobsInv, Low

LEMMA SaveReadsKeeps ==
  ASSUME JobsInv, NEW c \in Savers, SaveReads(c)
  PROVE  JobsInv'
<1> DEFINE k == [call[c] EXCEPT !.stage = "write", !.base = job[call[c].job]]
<1>1. call[c] \in CallRecord /\ CallLegal(c) /\ JobsTypeOK
  BY DEF JobsInv, JobsTypeOK, CallRecord
<1>2. job[call[c].job] \in Row /\ call[c].stage = "save"
  BY <1>1 DEF SaveReads, CallLegal
<1>3. k \in CallRecord /\ call' = [call EXCEPT ![c] = k]
  BY <1>1, <1>2 DEF SaveReads, CallRecord, CallStages, CallOpenStages
<1>4. CallLegal(c)'
  <2>1. call'[c] = k /\ job' = job /\ torn' = torn /\ raised' = raised
    BY <1>1, <1>3 DEF JobsTypeOK, SaveReads
  <2>2. /\ k.stage = "write" /\ k.job = call[c].job /\ k.entity = call[c].entity
    BY <1>1 DEF CallRecord
  <2> QED BY <2>1, <2>2, <1>1, <1>2 DEF CallLegal, Busy, CallOpenStages
<1>5. /\ k.job = call[c].job /\ k.entity = call[c].entity /\ k.kind = call[c].kind
      /\ call'[c] = k
  BY <1>1, <1>3 DEF CallRecord, JobsTypeOK
<1> HIDE DEF k
<1>6. \A j \in Jobs : RowLegal(j)'
  BY DEF SaveReads, RowLegal, JobsInv
<1>7. StillOwes(c) /\ trail \subseteq trail' /\ job' = job
  BY <1>2 DEF StillOwes, SaveReads
<1>8. LowCountAudited'
  BY <1>3, <1>7, OneCallSameRows
<1>9. CountOwed(c)'
  <2>1. CountOwed(c)
    BY DEF JobsInv
  <2> QED BY <1>2, <1>3, <1>5, <1>7, <2>1, OneCallStillOwed DEF CountOwed, Low
<1> QED BY <1>1, <1>3, <1>4, <1>6, <1>7, <1>8, <1>9, CallGoesOn
       DEF SaveReads, CallsKept, JobsTypeOK, JobsInv

\* A save writes a row, and a legal one unless the row moved under it.
LEMMA SaveWritesKeeps ==
  ASSUME JobsInv, NEW c \in Savers, SaveWrites(c)
  PROVE  JobsInv'
<1> DEFINE i == call[c].job
           e == call[c].entity
           base == call[c].base
           stage == IF AuditDue(c) THEN "audit" ELSE "done"
           k == [call[c] EXCEPT !.base = None, !.stage = stage]
<1>1. call[c] \in CallRecord /\ CallLegal(c) /\ JobsTypeOK /\ call[c].stage = "write"
  BY DEF JobsInv, JobsTypeOK, CallRecord, SaveWrites
<1>2. i \in Jobs /\ e \in Row /\ LegalUnless(e, i \in torn, i \in raised)
  BY <1>1 DEF CallLegal, Busy, CallOpenStages
<1>3. k \in CallRecord /\ call' = [call EXCEPT ![c] = k]
  <2>1. stage \in CallStages
    BY DEF CallStages, CallOpenStages
  <2>2. call' = [call EXCEPT ![c].base = None, ![c].stage = stage]
    BY DEF SaveWrites
  <2> HIDE DEF stage
  <2> QED BY <1>1, <2>1, <2>2 DEF CallRecord, JobsTypeOK
<1>4. Saved(c) \in Row
  <2>1. CASE base = None
    BY <2>1, <1>2 DEF Saved
  <2>2. CASE base # None
    <3>1. job[i] \in Row
      BY <1>1, <2>2 DEF CallLegal
    <3>2. Saved(c) = [f \in Columns |-> IF e[f] = base[f] THEN job[i][f] ELSE e[f]]
      BY <2>2 DEF Saved
    <3> QED BY <3>1, <3>2, <1>2 DEF Row, Columns, ScheduleFields, ApprovalFields
  <2> QED BY <2>1, <2>2
<1>5. base = None \/ job[i] = base => Saved(c) = e
  <2>1. CASE base = None
    BY <2>1 DEF Saved
  <2>2. CASE base # None /\ job[i] = base
    <3>1. Saved(c) = [f \in Columns |-> e[f]]
      BY <2>2 DEF Saved
    <3>2. e = [f \in Columns |-> e[f]]
      BY <1>2 DEF Row, Columns, ScheduleFields, ApprovalFields
    <3> QED BY <3>1, <3>2
  <2> QED BY <2>1, <2>2
<1>6. /\ job' = [job EXCEPT ![i] = Saved(c)]
      /\ torn' = IF base = None \/ job[i] = base THEN torn ELSE torn \cup {i}
      /\ trail' = trail /\ raised' = raised
  BY DEF SaveWrites
<1>7. job' \in [Jobs -> Row \cup {None}] /\ CallsKept /\ torn' \subseteq Jobs
  BY <1>1, <1>2, <1>4, <1>6 DEF JobsTypeOK, CallsKept
<1>8. ASSUME NEW j \in Jobs PROVE RowLegal(j)'
  <2>1. CASE j = i
    <3>1. job'[i] = Saved(c)
      BY <1>1, <1>2, <1>6 DEF JobsTypeOK
    <3>2. CASE base = None \/ job[i] = base
      BY <2>1, <3>1, <3>2, <1>2, <1>5, <1>6 DEF RowLegal
    <3>3. CASE ~(base = None \/ job[i] = base)
      BY <2>1, <3>1, <3>3, <1>4, <1>6 DEF RowLegal, LegalUnless
    <3> QED BY <3>2, <3>3
  <2>2. CASE j # i
    <3>1. job'[j] = job[j] /\ (j \in torn' <=> j \in torn) /\ raised' = raised
      BY <2>2, <1>1, <1>6 DEF JobsTypeOK
    <3> QED BY <3>1 DEF RowLegal, LegalUnless, JobsInv
  <2> QED BY <2>1, <2>2
<1>9. /\ call'[c] = k /\ k.job = i /\ k.entity = e /\ k.base = None /\ k.stage = stage
      /\ k.kind = call[c].kind /\ k.previous = call[c].previous
  BY <1>1, <1>3 DEF CallRecord, JobsTypeOK
<1>10. CallLegal(c)'
  BY <1>9, <1>2 DEF CallLegal
<1>11. CountOwed(c)'
  BY <1>9 DEF CountOwed
<1>12. StillOwes(c)
  BY <1>1 DEF StillOwes
<1>13. AuditDue(c) => k.stage = "audit"
  BY <1>9
<1> HIDE DEF k, stage
<1>14. ASSUME NEW j \in Jobs, NEW n, job'[j] # None, job'[j].retention = n, Low(n)
       PROVE  Owed(j, n)'
  <2>1. Owed(j, n) => Owed(j, n)'
    BY <1>3, <1>6, <1>12, <1>14, OneCallStillOwed
  <2>2. job[j] # None /\ job[j].retention = n => Owed(j, n)
    BY <1>14 DEF JobsInv, LowCountAudited
  <2>3. ASSUME j = i, e.retention = n PROVE Owed(j, n)'
    <3>1. CountOwed(c)
      BY DEF JobsInv
    <3>2. \/ c \in Calls /\ call[c].kind \in {"create", "update"}
          \/ Owed(i, e.retention)
      BY <1>1, <1>14, <2>3, <3>1 DEF CountOwed
    <3>3. CASE c \in Calls /\ call[c].kind \in {"create", "update"}
      <4>1. AuditDue(c)
        BY <1>14, <2>3, <3>3 DEF AuditDue
      <4> QED BY <1>9, <1>13, <2>3, <3>3, <4>1 DEF Owed
    <3>4. CASE Owed(i, e.retention)
      BY <2>1, <2>3, <3>4
    <3> QED BY <3>2, <3>3, <3>4
  <2>4. CASE j # i
    <3>1. job'[j] = job[j]
      BY <1>1, <1>6, <2>4 DEF JobsTypeOK
    <3> QED BY <1>14, <2>1, <2>2, <3>1
  <2>5. CASE j = i
    <3>1. job'[j] = Saved(c)
      BY <1>1, <1>2, <1>6, <2>5 DEF JobsTypeOK
    <3>2. CASE base = None
      BY <1>14, <2>3, <2>5, <3>1, <3>2 DEF Saved
    <3>3. CASE base # None
      <4>1. job[j] \in Row /\ job[j] # None
        BY <1>1, <2>5, <3>3, RowAssumption DEF CallLegal
      <4>2. Saved(c) = [f \in Columns |-> IF e[f] = base[f] THEN job[i][f] ELSE e[f]]
        BY <3>3 DEF Saved
      <4>3. Saved(c).retention \in {e.retention, job[i].retention}
        BY <4>2 DEF Columns
      <4> QED BY <1>14, <2>1, <2>2, <2>3, <2>5, <3>1, <4>1, <4>3
    <3> QED BY <3>2, <3>3
  <2> QED BY <2>4, <2>5
<1>16. LowCountAudited'
  BY <1>14 DEF LowCountAudited, Owed
<1> QED BY <1>1, <1>3, <1>6, <1>7, <1>8, <1>10, <1>11, <1>12, <1>16, CallGoesOn DEF JobsTypeOK

LEMMA RecordKeeps ==
  ASSUME JobsInv, NEW c \in Savers, RecordRetention(c)
  PROVE  JobsInv'
<1> DEFINE k == [call[c] EXCEPT !.stage = "done"]
           ev == EventOf(c)
<1>1. call[c] \in CallRecord /\ CallLegal(c) /\ JobsTypeOK /\ call[c].stage = "audit"
  BY DEF JobsInv, JobsTypeOK, CallRecord, RecordRetention
<1>2. k \in CallRecord /\ call' = [call EXCEPT ![c] = k]
  BY <1>1 DEF CallRecord, CallStages, RecordRetention
<1>3. call[c].job \in Jobs /\ call[c].entity \in Row /\ call[c].entity.retention \in Counts
  BY <1>1 DEF CallLegal, Busy, CallOpenStages, Row
<1>4. /\ ev \in [job : Jobs, count : Counts, action : RetentionActions]
      /\ ev.job = call[c].job /\ ev.count = call[c].entity.retention
      /\ ev.action = "retention_approval" <=> Low(call[c].entity.retention)
  BY <1>3 DEF EventOf, RetentionActions
<1>10. Low(call[c].entity.retention) =>
         ev = [job |-> call[c].job, count |-> call[c].entity.retention,
               action |-> "retention_approval"]
  BY DEF EventOf
<1>5. trail' = trail \cup {ev} /\ UNCHANGED <<job, torn, raised>>
  BY DEF RecordRetention
<1>6. /\ call'[c] = k /\ k.stage = "done" /\ k.job = call[c].job /\ k.entity = call[c].entity
      /\ k.base = call[c].base
  BY <1>1, <1>2 DEF CallRecord, JobsTypeOK
<1> HIDE DEF k, ev
<1>7. CallLegal(c)'
  BY <1>1, <1>5, <1>6 DEF CallLegal, Busy, CallOpenStages
<1>8. StillOwes(c) /\ CountOwed(c)'
  BY <1>5, <1>6, <1>10 DEF StillOwes, CountOwed
<1>9. \A j \in Jobs : RowLegal(j)'
  BY <1>5 DEF RowLegal, JobsInv
<1>11. LowCountAudited'
  BY <1>2, <1>5, <1>8, OneCallSameRows
<1> QED BY <1>1, <1>2, <1>4, <1>5, <1>7, <1>8, <1>9, <1>11, CallGoesOn DEF JobsTypeOK, CallsKept

LEMMA CallFailsKeeps ==
  ASSUME JobsInv, NEW c \in Savers, CallFails(c)
  PROVE  JobsInv'
<1> DEFINE s == StageAfter(c, "failed")
           k == [call[c] EXCEPT !.stage = s, !.base = None]
<1>1. call[c] \in CallRecord /\ JobsTypeOK /\ Busy(c)
  BY DEF JobsInv, JobsTypeOK, CallRecord, CallFails
<1>2. /\ s \in {"failed", "unrecorded"} /\ s \in CallStages
      /\ call[c].stage = "audit" => s = "unrecorded"
  BY DEF StageAfter, CallStages
<1> HIDE DEF s
<1>3. k \in CallRecord /\ call' = [call EXCEPT ![c] = k]
  BY <1>1, <1>2 DEF CallRecord, CallFails, s
<1>4. /\ call'[c] = k /\ k.stage = s /\ k.base = None
      /\ k.job = call[c].job /\ k.entity = call[c].entity
      /\ UNCHANGED <<job, trail, torn, raised>>
  BY <1>1, <1>3 DEF CallRecord, JobsTypeOK, CallFails
<1> HIDE DEF k
<1>5. CallLegal(c)' /\ CountOwed(c)' /\ StillOwes(c)
  BY <1>1, <1>2, <1>4 DEF CallLegal, CountOwed, StillOwes, Busy, CallOpenStages
<1>6. LowCountAudited'
  BY <1>3, <1>4, <1>5, OneCallSameRows
<1>7. \A j \in Jobs : RowLegal(j)'
  BY <1>4 DEF RowLegal, JobsInv
<1> QED BY <1>1, <1>3, <1>4, <1>5, <1>6, <1>7, CallGoesOn DEF JobsTypeOK, CallsKept

\* A call that is lost with its process overwrites nothing, and goes on owing the
\* event it was about to record.
LEMMA ForgetKeeps ==
  ASSUME JobsInv, NEW p \in Procs, CallsForget(p)
  PROVE  JobsInv'
<1>0. JobsTypeOK
  BY DEF JobsInv
<1>1. UNCHANGED <<job, trail, torn, raised>>
  BY DEF CallsForget
<1>2. ASSUME NEW c \in Savers
      PROVE  \/ call'[c] = call[c]
             \/ /\ call'[c] \in CallRecord /\ call'[c].base = None
                /\ call'[c].stage \in {"lost", "unrecorded"}
                /\ call'[c].job = call[c].job /\ call'[c].entity = call[c].entity
                /\ call[c].stage = "audit" => call'[c].stage = "unrecorded"
                /\ Busy(c)
  <2> DEFINE s == StageAfter(c, "lost")
  <2>1. call[c] \in CallRecord
    BY <1>0 DEF JobsTypeOK, CallRecord
  <2>2. call'[c] = IF call[c].proc = p /\ Busy(c)
                   THEN [call[c] EXCEPT !.stage = s, !.base = None] ELSE call[c]
    BY DEF CallsForget
  <2>3. /\ s \in {"lost", "unrecorded"} /\ s \in CallStages
        /\ call[c].stage = "audit" => s = "unrecorded"
    BY DEF StageAfter, CallStages
  <2> HIDE DEF s
  <2> QED BY <2>1, <2>2, <2>3 DEF CallRecord
<1>3. JobsTypeOK'
  <2>1. call' = [c \in Savers |-> call'[c]]
    BY DEF CallsForget
  <2>2. \A c \in Savers : call'[c] \in CallRecord
    BY <1>0, <1>2 DEF JobsTypeOK, CallRecord
  <2>3. call' \in [Savers -> CallRecord]
    BY <2>1, <2>2
  <2> QED BY <1>0, <1>1, <2>3 DEF JobsTypeOK, CallRecord
<1>4. ASSUME NEW c \in Savers PROVE CallLegal(c)'
  <2>1. CASE call'[c] = call[c]
    BY <1>1, <2>1, OthersStayLegal DEF CallsKept, JobsInv
  <2>2. CASE call'[c].stage \in {"lost", "unrecorded"} /\ call'[c].base = None
    BY <2>2 DEF CallLegal, Busy, CallOpenStages
  <2> QED BY <2>1, <2>2, <1>2
<1>5. \A c \in Calls : StillOwes(c)
  BY <1>2 DEF StillOwes, Savers, Busy, CallOpenStages
<1>7. ASSUME NEW c \in Savers PROVE CountOwed(c)'
  <2>1. CASE call'[c] = call[c]
    BY <1>1, <1>5, <2>1, OthersStayOwed
  <2>2. CASE call'[c].stage \in {"lost", "unrecorded"}
    BY <2>2 DEF CountOwed
  <2> QED BY <2>1, <2>2, <1>2
<1>8. LowCountAudited'
  BY <1>1, <1>5, OthersStayOwed
<1>6. \A j \in Jobs : RowLegal(j)'
  BY <1>1 DEF RowLegal, JobsInv
<1> QED BY <1>3, <1>4, <1>6, <1>7, <1>8 DEF JobsInv

----------------------------------------------------------------------------
LEMMA JobsInvStep ==
  ASSUME JobsInv, [ControlNext]_controlVars
  PROVE  JobsInv'
<1>1. JobsMove
  BY JobsMoves
<1>2. CASE UNCHANGED jobsVars
  <2>1. CallsKept /\ call' = call
    BY <1>2 DEF jobsVars, CallsKept
  <2>2. JobsTypeOK'
    BY <1>2 DEF JobsInv, JobsTypeOK, jobsVars
  <2>3. \A c \in Savers : CallLegal(c)'
    BY <2>1, OthersStayLegal DEF JobsInv
  <2>4. (\A j \in Jobs : RowLegal(j)') /\ (\A c \in Savers : CountOwed(c)') /\ LowCountAudited'
    BY <1>2 DEF JobsInv, jobsVars, RowLegal, CountOwed, LowCountAudited, Owed
  <2> QED BY <2>2, <2>3, <2>4 DEF JobsInv
<1>3. ASSUME NEW c \in Savers, CallStep(c) \/ CallFails(c) PROVE JobsInv'
  BY <1>3, SaveReadsKeeps, SaveWritesKeeps, RecordKeeps, CallFailsKeeps DEF CallStep
<1>4. ASSUME NEW p \in Procs, ensureJob(p) \/ CallsForget(p) PROVE JobsInv'
  BY <1>4, EnsureKeeps, ForgetKeeps
<1> QED BY <1>1, <1>2, <1>3, <1>4, RequestKeeps DEF JobsMove

LEMMA JobsInvAlways == ControlSpec => []JobsInv
<1>1. ControlInit => JobsInv
  BY JobsInvInit
<1>2. JobsInv /\ [ControlNext]_controlVars => JobsInv'
  BY JobsInvStep
<1> QED BY <1>1, <1>2, PTL DEF ControlSpec

\* The rows, the calls and the audit trail are always well typed.
THEOREM JobsTypeCorrect == ControlSpec => []JobsTypeOK
<1>1. JobsInv => JobsTypeOK
  BY DEF JobsInv
<1> QED BY <1>1, JobsInvAlways, PTL

\* A retention below three full backups is an approved one, whatever requests,
\* bootstraps and restarts overlap, unless two saves of the row did.
THEOREM LowCountIsApproved == ControlSpec => []LowCountApproved
<1>1. JobsInv => LowCountApproved
  BY DEF JobsInv, RowLegal, LegalUnless, LowCountApproved
<1> QED BY <1>1, JobsInvAlways, PTL

\* An approval is gone from a row once its count is safe: only the bootstrap and
\* overlapping saves can keep one for a later low count.
THEOREM ApprovalEnds == ControlSpec => []ApprovalEndsWithLowCount
<1>1. JobsInv => ApprovalEndsWithLowCount
  BY DEF JobsInv, RowLegal, LegalUnless, ApprovalEndsWithLowCount
<1> QED BY <1>1, JobsInvAlways, PTL

\* The stored cron fires exactly when the stored policy says.
THEOREM CronIsThePolicy == ControlSpec => []CronFollowsPolicy
<1>1. JobsInv => CronFollowsPolicy
  BY DEF JobsInv, RowLegal, LegalUnless, CronFollowsPolicy
<1> QED BY <1>1, JobsInvAlways, PTL

\* However requests overlap, save over one another, fail or die, no low count is
\* stored whose event is neither in the trail nor owed by the request that stored it.
THEOREM LowCountsAreAudited == ControlSpec => []LowCountAudited
<1>1. JobsInv => LowCountAudited
  BY DEF JobsInv
<1> QED BY <1>1, JobsInvAlways, PTL
=============================================================================
