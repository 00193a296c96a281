----------------------------- MODULE AdminProofs -----------------------------
(***************************************************************************)
(* Proofs about the jobs page: to the service it is one more client, so    *)
(* that what is proved of the service holds with the page in front of it.  *)
(***************************************************************************)
EXTENDS AdminPage, TLAPS

\* A button or the form sends a request that the service takes from any client.
LEMMA AskingIsARequest ==
  ASSUME NEW c \in Calls, NEW p \in Procs, NEW j \in Jobs, NEW dto \in Dtos,
         Asks(c, p), create(c, p, j, dto) \/ update(c, p, j, dto)
  PROVE  ControlNext
<1>1. RequestEdit(c)
  BY DEF Asks, RequestEdit
<1> QED
  BY <1>1 DEF ControlNext

\* What the page does is nothing to the service, or a request it serves anyhow.
LEMMA PageSteps ==
  ASSUME AdminNext
  PROVE  [ControlNext]_controlVars
<1>1. ASSUME NEW x \in Reloads, loadPage(x) \/ ReloadStep(x) \/ ReadFails(x)
      PROVE  UNCHANGED controlVars
  BY <1>1 DEF loadPage, ReloadStep, JobsRead, ReadRefused, ReadFails, ReadThrows, Render
<1>2. ASSUME NEW j \in Jobs, ToggleJob(j)
      PROVE  ControlNext
  <2>1. PICK c \in Calls, p \in Procs :
          Asks(c, p) /\ update(c, p, j, ToggleBody(table[j] = "disabled"))
    BY <1>2 DEF ToggleJob
  <2>2. ToggleBody(table[j] = "disabled") \in Dtos
    <3>1. CASE table[j] = "disabled"
      BY <3>1, <1>2, TogglesAssumption DEF ToggleBody
    <3>2. CASE table[j] # "disabled"
      BY <3>2, <1>2, TogglesAssumption DEF ToggleBody
    <3> QED BY <3>1, <3>2
  <2> QED BY <2>1, <2>2, AskingIsARequest
<1>3. ASSUME NEW j \in Jobs, createJob(j)
      PROVE  ControlNext
  BY <1>3, AskingIsARequest DEF createJob
<1>4. ASSUME NEW j \in Jobs, NEW b \in Runs, RunJob(b, j)
      PROVE  ControlNext
  <2>1. TriggerManual(b)
    BY <1>4 DEF RunJob, TriggerManual
  <2> QED BY <2>1 DEF ControlNext
<1> QED
  BY <1>1, <1>2, <1>3, <1>4 DEF AdminNext, PageNext

\* Whatever a browser on the jobs page does, the service behaves as ControlSpec
\* says: the page asks for nothing that another client could not ask for.
THEOREM PageIsAClient == AdminSpec => ControlSpec
<1>1. AdminInit => ControlInit
  BY DEF AdminInit
<1>2. [AdminNext]_adminVars => [ControlNext]_controlVars
  BY PageSteps DEF adminVars
<1> QED
  BY <1>1, <1>2, PTL DEF AdminSpec, ControlSpec

----------------------------------------------------------------------------
LEMMA RenderedIsTyped == Rendered \in [Jobs -> Badges] /\ Empty \in [Jobs -> Badges]
BY DEF Rendered, Empty, Badge, Badges

\* The page shows badges for the jobs there are, and misses no more than it may.
THEOREM PageTypeCorrect == AdminSpec => []PageTypeOK
<1>1. AdminInit => PageTypeOK
  BY RenderedIsTyped, MissesAssumption DEF AdminInit, PageTypeOK, NoReload
<1>2. PageTypeOK /\ [AdminNext]_adminVars => PageTypeOK'
  <2> SUFFICES ASSUME PageTypeOK, [AdminNext]_adminVars
               PROVE  PageTypeOK'
    OBVIOUS
  <2> USE MissesAssumption, RenderedIsTyped DEF PageTypeOK
  <2>1. CASE UNCHANGED pageVars
    BY <2>1 DEF pageVars
  <2>2. ASSUME NEW x \in Reloads, loadPage(x)
        PROVE  PageTypeOK'
    BY <2>2 DEF loadPage
  <2>3. ASSUME NEW x \in Reloads, JobsRead(x)
        PROVE  PageTypeOK'
    BY <2>3 DEF JobsRead
  <2>4. ASSUME NEW x \in Reloads, ReadRefused(x)
        PROVE  PageTypeOK'
    BY <2>4 DEF ReadRefused, ReadThrows
  <2>5. ASSUME NEW x \in Reloads, ReadFails(x)
        PROVE  PageTypeOK'
    BY <2>5 DEF ReadFails, ReadThrows
  <2>6. ASSUME NEW x \in Reloads, Render(x)
        PROVE  PageTypeOK'
    BY <2>6 DEF Render, NoReload
  <2>7. ASSUME NEW j \in Jobs,
               ToggleJob(j) \/ createJob(j) \/ \E b \in Runs : RunJob(b, j)
        PROVE  UNCHANGED pageVars
    BY <2>7 DEF ToggleJob, createJob, RunJob, Asks
  <2> QED
    BY <2>1, <2>2, <2>3, <2>4, <2>5, <2>6, <2>7
    DEF adminVars, AdminNext, PageNext, ReloadStep
<1> QED
  BY <1>1, <1>2, PTL DEF AdminSpec
=============================================================================
