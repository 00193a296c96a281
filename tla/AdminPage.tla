------------------------------ MODULE AdminPage ------------------------------
(***************************************************************************)
(* The jobs page of the admin client (app.js), in front of the service,    *)
(* where env says that a browser has it open.                              *)
(*                                                                         *)
(* loadPage runs at the start, every 30 seconds, at a click and after an   *)
(* action, without regard for one that is still under way: answers may     *)
(* come late and be rendered in any order.  The buttons of a row ask for   *)
(* what the row showed when it was rendered.                               *)
(***************************************************************************)
EXTENDS ControlPlane

CONSTANTS
  Reloads,   \* runs of loadPage that may overlap
  MaxMisses  \* how many loads may fail while a process serves

ASSUME MissesAssumption == MaxMisses \in Nat

VARIABLES
  missed,  \* how many did
  reload,  \* reload[x]: a run of loadPage, and the rows it will render
  table    \* table[j]: what jobs-table shows of job j

pageVars == <<missed, reload, table>>
adminVars == <<controlVars, pageVars>>

\* MUTANT: the cells of a row are swapped.
BadgeSwapped(row) == IF row = None THEN "none" ELSE row.policy

\* The badge and the button of a row.
Badge(row) == IF row = None THEN "none" ELSE IF row.enabled THEN "enabled" ELSE "disabled"

\* renderJobs, of the rows as they are.
Rendered == [j \in Jobs |-> Badge(job[j])]

\* renderEmptyStates.
Empty == [j \in Jobs |-> "empty"]

NoReload == [stage |-> "idle", rows |-> Empty]

\* PATCH /jobs/:id with the one field the button is about.
ToggleBody(enabled) == [f \in Columns |-> IF f = "enabled" THEN enabled ELSE None]

\* What the form sends: a count and a cron, and an approval just for a low count.
FormBody(dto) ==
  /\ dto.retention \notin Missing /\ dto.cron \notin Missing
  /\ IF Low(dto.retention) THEN Approved(dto) ELSE dto.actor = None /\ dto.reason = None
  /\ \A f \in {"policy", "hour", "minute", "day", "enabled"} : dto[f] = None

ASSUME TogglesAssumption == {ToggleBody(TRUE), ToggleBody(FALSE)} \subseteq Dtos

----------------------------------------------------------------------------
NewReload(x) == reload[x] = NoReload /\ x = CHOOSE y \in Reloads : reload[y] = NoReload

\* MUTANT: the page is loaded once.
loadPageOnce(x) ==
  /\ env.watched /\ table = Empty
  /\ NewReload(x)
  /\ reload' = [reload EXCEPT ![x].stage = "asked"]
  /\ UNCHANGED <<controlVars, missed, table>>

loadPage(x) ==
  /\ env.watched
  /\ NewReload(x)
  /\ reload' = [reload EXCEPT ![x].stage = "asked"]
  /\ UNCHANGED <<controlVars, missed, table>>

\* GET /jobs, answered by a process that serves.
JobsRead(x) ==
  /\ reload[x].stage = "asked"
  /\ \E p \in Procs : Serving(p)
  /\ reload' = [reload EXCEPT ![x] = [stage |-> "read", rows |-> Rendered]]
  /\ UNCHANGED <<controlVars, missed, table>>

ReadThrows(x) ==
  /\ reload[x].stage = "asked"
  /\ reload' = [reload EXCEPT ![x] = [stage |-> "read", rows |-> Empty]]
  /\ UNCHANGED <<controlVars, table>>

\* No process is there to answer.
ReadRefused(x) ==
  /\ ReadThrows(x)
  /\ \A p \in Procs : ~Serving(p)
  /\ UNCHANGED missed

\* A request fails, and with it the load: any but GET /destinations.
ReadFails(x) ==
  /\ ReadThrows(x)
  /\ missed < MaxMisses
  /\ missed' = missed + 1

\* store is replaced and rendered, whatever was rendered before.
Render(x) ==
  /\ reload[x].stage = "read"
  /\ table' = reload[x].rows
  /\ reload' = [reload EXCEPT ![x] = NoReload]
  /\ UNCHANGED <<controlVars, missed>>

----------------------------------------------------------------------------
\* A request of the page to some process.
Asks(c, p) ==
  /\ env.watched
  /\ NewCall(c)
  /\ Serving(p)
  /\ Spend("edits")
  /\ UNCHANGED <<deploymentVars, backupVars, schemaVars, jwksVars, bootVars, pageVars>>

\* "Disable" or "Enable", as the row was rendered.
ToggleJob(j) ==
  /\ table[j] \in {"enabled", "disabled"}
  /\ \E c \in Calls, p \in Procs :
       Asks(c, p) /\ update(c, p, j, ToggleBody(table[j] = "disabled"))

\* The form for a new schedule.
createJob(j) ==
  \E c \in Calls, p \in Procs, dto \in Dtos :
    FormBody(dto) /\ Asks(c, p) /\ create(c, p, j, dto)

\* "Run", on a row that is shown, enabled or not.
RunJob(b, j) ==
  /\ env.watched
  /\ table[j] \in {"enabled", "disabled"}
  /\ NewRun(b)
  /\ \E p \in Procs : Serving(p) /\ executeJob(b, p, j, "manual")
  /\ Spend("backups")
  /\ UNCHANGED <<deploymentVars, schemaVars, jwksVars, bootVars, pageVars>>

ReloadStep(x) == JobsRead(x) \/ ReadRefused(x) \/ Render(x)

PageNext ==
  \/ \E x \in Reloads : loadPage(x) \/ ReloadStep(x) \/ ReadFails(x)
  \/ \E j \in Jobs :
       \/ ToggleJob(j) \/ createJob(j)
       \/ \E b \in Runs : RunJob(b, j)

AdminNext == PageNext \/ (ControlNext /\ UNCHANGED pageVars)

AdminInit ==
  /\ ControlInit
  /\ missed = 0
  /\ reload = [x \in Reloads |-> NoReload]
  /\ table = Empty

AdminSpec == AdminInit /\ [][AdminNext]_adminVars

\* The browser fires its interval and every request is answered or refused.
FairAdminSpec ==
  /\ AdminSpec
  /\ ControlFairness
  /\ \A x \in Reloads : WF_adminVars(loadPage(x)) /\ WF_adminVars(ReloadStep(x))

----------------------------------------------------------------------------
Badges == {"none", "enabled", "disabled", "empty"}

PageTypeOK ==
  /\ missed \in 0..MaxMisses
  /\ reload \in [Reloads -> [stage : {"idle", "asked", "read"}, rows : [Jobs -> Badges]]]
  /\ table \in [Jobs -> Badges]

\* However late answers come, and whichever is rendered last, an open page comes to
\* show the rows as they are stored, or that nobody answers.
PageCatchesUp ==
  <>[](env.watched => table = IF \E p \in Procs : Serving(p) THEN Rendered ELSE Empty)
=============================================================================
