--------------------------- MODULE ReadinessProofs ---------------------------
(***************************************************************************)
(* Proofs about the boot of a process: what it knows of the restore        *)
(* indexes, and the keys it verifies tokens with.                          *)
(***************************************************************************)
EXTENDS ControlMoves

\* The boot keeps to its phases.
THEOREM BootTypeCorrect == ControlSpec => []DeploymentTypeOK
<1>1. ControlInit => DeploymentTypeOK
  BY LoadsAssumption DEF ControlInit, DeploymentInit, DeploymentTypeOK, Phases, Exits
<1>2. DeploymentTypeOK /\ [ControlNext]_controlVars => DeploymentTypeOK'
  <2> SUFFICES ASSUME DeploymentTypeOK, [ControlNext]_controlVars PROVE DeploymentTypeOK'
    OBVIOUS
  <2>1. DeploymentMove
    BY DeploymentMoves
  <2>2. CASE UNCHANGED deploymentVars
    BY <2>2 DEF DeploymentTypeOK, deploymentVars
  <2>3. CASE \E p \in Procs : CreateApp(p)
    BY <2>3 DEF CreateApp, DeploymentTypeOK, Phases, Exits
  <2>4. CASE \E p \in Procs, next \in Phases : BootGoesTo(p, next)
    BY <2>4 DEF BootGoesTo, DeploymentTypeOK
  <2>5. CASE \E p \in Procs, why \in Exits : ProcessEnds(p, why)
    BY <2>5 DEF ProcessEnds, DeploymentTypeOK, Phases
  <2> QED BY <2>1, <2>2, <2>3, <2>4, <2>5 DEF DeploymentMove
<1> QED BY <1>1, <1>2, PTL DEF ControlSpec

----------------------------------------------------------------------------
\* The invariant behind the gate of restores: an installed index enforces, on the
\* rows of every release, and only what was installed is believed.
IndexEnforces == index => \A t \in Targets : active[t] <= 1

ReadyIsObserved == \A p \in Procs : ready[p] => index /\ keyIndex

SchemaInv == SchemaTypeOK /\ IndexEnforces /\ ReadyIsObserved

LEMMA SchemaInvInit == ControlInit => SchemaInv
BY LoadsAssumption
   DEF ControlInit, SchemaInit, SchemaInv, SchemaTypeOK, IndexEnforces, ReadyIsObserved

LEMMA SchemaInvStep ==
  ASSUME SchemaInv, [ControlNext]_controlVars
  PROVE  SchemaInv'
<1> USE DEF SchemaInv, SchemaTypeOK, IndexEnforces, ReadyIsObserved
<1>1. ASSUME NEW p \in Procs, align(p)
      PROVE  SchemaInv'
  <2>1. CASE ~env.apply
    BY <1>1, <2>1 DEF align
  <2>2. CASE env.apply
    <3>1. keyIndex' /\ (index => index') /\ UNCHANGED <<active, ready>>
      BY <1>1, <2>2 DEF align
    <3>2. index' \in BOOLEAN /\ keyIndex' \in BOOLEAN
      BY <1>1, <2>2, Zenon DEF align
    <3>3. ASSUME index', NEW t \in Targets
          PROVE  active'[t] <= 1
      <4>1. CASE index
        BY <4>1, <3>1
      <4>2. CASE ~index
        <5>1. Duplicates = {}
          BY <1>1, <2>2, <3>3, <4>2 DEF align
        <5> QED BY <5>1, <3>1 DEF Duplicates
      <4> QED BY <4>1, <4>2
    <3> QED BY <3>1, <3>2, <3>3
  <2> QED BY <2>1, <2>2
<1>2. ASSUME NEW p \in Procs, NEW observed \in BOOLEAN, Verify(p, observed),
             observed => index /\ keyIndex
      PROVE  SchemaInv'
  <2>1. ready' = [ready EXCEPT ![p] = observed] /\ UNCHANGED <<index, keyIndex, active>>
    BY <1>2 DEF Verify
  <2>2. ready' \in [Procs -> BOOLEAN]
    BY <2>1
  <2>3. ASSUME NEW q \in Procs, ready'[q]
        PROVE  index /\ keyIndex
    BY <2>1, <2>3, <1>2
  <2> QED BY <2>1, <2>2, <2>3
<1>6. CASE \E p \in Procs : verifyRestoreSerialization(p) \/ VerifyFails(p)
  <2>1. (index /\ keyIndex) \in BOOLEAN
    OBVIOUS
  <2> QED BY <1>2, <1>6, <2>1, Zenon DEF verifyRestoreSerialization, VerifyFails, Observed
<1>3. CASE \E p \in Procs : ReadinessForgets(p)
  BY <1>3 DEF ReadinessForgets
<1>4. CASE Restoring
  BY <1>4 DEF Restoring, LegacyRestore, AcceptRestore, InsertActive, RestoreEnds
<1>5. CASE UNCHANGED schemaVars
  BY <1>5 DEF schemaVars
<1> HIDE DEF SchemaInv
<1> QED BY <1>1, <1>3, <1>4, <1>5, <1>6, SchemaMoves DEF SchemaMove

\* While a process accepts restores both indexes enforce and no target has two
\* active requests, for any number of processes, targets and older releases.
THEOREM ReadinessIsProof == ControlSpec => []ReadySerializes
<1>1. SchemaInv => ReadySerializes
  BY DEF SchemaInv, IndexEnforces, ReadyIsObserved, ReadySerializes
<1> QED BY <1>1, SchemaInvInit, SchemaInvStep, PTL DEF ControlSpec

----------------------------------------------------------------------------
\* The invariant behind the refusal of tokens: who waits has a process and a key,
\* and who goes on after a fetch that succeeded finds the cache it filled still fresh.
WaitersHaveProcs ==
  \A v \in Tokens : check[v].stage \in CheckPending =>
                      check[v].proc \in Procs /\ check[v].kid \in Kids

WokenIsFresh ==
  \A v \in Tokens :
    check[v].stage = "secondOver" /\ check[v].excuse = "none" => age[check[v].proc] = "fresh"

KeyInv == JwksTypeOK /\ WaitersHaveProcs /\ WokenIsFresh /\ RotationIsFound

LEMMA KeyInvInit == ControlInit => KeyInv
<1>1. {CHOOSE k \in Kids : TRUE} \subseteq Kids
  BY KidsAssumption
<1> QED
  BY <1>1 DEF ControlInit, JwksInit, KeyInv, JwksTypeOK, WaitersHaveProcs, WokenIsFresh,
       RotationIsFound, NoFetch, NoCheck, CheckPending, Waiting, FetchOver, CheckOver

\* A step that sets one check of a process.
LEMMA KeyInvOneCheck ==
  ASSUME KeyInv, NEW v \in Tokens, NEW p \in Procs, NEW k \in Kids,
         NEW stage \in {"first", "second", "accepted", "refused"},
         NEW excuse \in {"none", "fresh", "outage"},
         stage = "refused" => excuse # "none",
         check' = [check EXCEPT ![v] =
                     [proc |-> p, kid |-> k, stage |-> stage, excuse |-> excuse]],
         fetch' \in [Procs -> [stage : {"none", "asked", "answered"}, keys : SUBSET Kids]],
         UNCHANGED <<published, cache, age>>
  PROVE  KeyInv'
BY DEF KeyInv, JwksTypeOK, WaitersHaveProcs, WokenIsFresh, RotationIsFound,
     CheckPending, CheckOver, Waiting, FetchOver

LEMMA KeyInvAwait ==
  ASSUME KeyInv, NEW v \in Tokens, NEW p \in Procs, NEW k \in Kids,
         NEW stage \in {"first", "second"}, AwaitRefresh(v, p, k, stage)
  PROVE  KeyInv'
<1>1. fetch' \in [Procs -> [stage : {"none", "asked", "answered"}, keys : SUBSET Kids]]
  BY DEF AwaitRefresh, KeyInv, JwksTypeOK
<1> QED BY <1>1, KeyInvOneCheck DEF AwaitRefresh

LEMMA KeyInvDecided ==
  ASSUME KeyInv, NEW v \in Tokens, NEW p \in Procs, NEW k \in Kids,
         NEW excuse \in {"none", "fresh", "outage"},
         excuse = "none" => k \in cache[p] \/ age[p] = "fresh",
         check' = [check EXCEPT ![v] = Decided(p, k, excuse)],
         UNCHANGED <<published, cache, age, fetch>>
  PROVE  KeyInv'
<1>1. fetch' \in [Procs -> [stage : {"none", "asked", "answered"}, keys : SUBSET Kids]]
  BY DEF KeyInv, JwksTypeOK
<1>2. CASE k \in cache[p]
  BY <1>1, <1>2, KeyInvOneCheck DEF Decided
<1>3. CASE k \notin cache[p] /\ age[p] = "fresh"
  BY <1>1, <1>3, KeyInvOneCheck DEF Decided
<1>4. CASE k \notin cache[p] /\ age[p] # "fresh"
  BY <1>1, <1>4, KeyInvOneCheck DEF Decided
<1> QED BY <1>2, <1>3, <1>4

LEMMA KeyInvLookUp ==
  ASSUME KeyInv, NEW v \in Tokens, NEW p \in Procs, NEW k \in Kids,
         NEW excuse \in {"none", "fresh", "outage"}, LookUp(v, p, k, excuse)
  PROVE  KeyInv'
<1>1. CASE RefetchUnknown(p, k)
  BY <1>1, KeyInvAwait DEF LookUp
<1>2. CASE ~RefetchUnknown(p, k)
  BY <1>2, KeyInvDecided DEF LookUp, RefetchUnknown
<1> QED BY <1>1, <1>2

\* The end of a fetch leaves each check as it is, or wakes it.
LEMMA WakeMoves ==
  ASSUME KeyInv, NEW p \in Procs, NEW excuse \in {"none", "outage"}, Wake(p, excuse)
  PROVE  /\ check' = [v \in Tokens |-> check'[v]]
         /\ \A v \in Tokens :
              \/ check'[v] = check[v]
              \/ /\ check[v].proc = p /\ check[v].kid \in Kids
                 /\ \E stage \in FetchOver :
                      check'[v] = [proc |-> p, kid |-> check[v].kid,
                                   stage |-> stage, excuse |-> excuse]
<1>1. check' = [v \in Tokens |-> check'[v]]
  BY DEF Wake
<1>2. ASSUME NEW v \in Tokens, check[v].proc = p, check[v].stage \in Waiting
      PROVE  /\ check[v].kid \in Kids
             /\ \E stage \in FetchOver :
                  check'[v] = [proc |-> p, kid |-> check[v].kid,
                               stage |-> stage, excuse |-> excuse]
  <2> DEFINE stage == IF check[v].stage = "first" THEN "firstOver" ELSE "secondOver"
  <2>1. check'[v] = [check[v] EXCEPT !.stage = stage, !.excuse = excuse]
    BY <1>2 DEF Wake
  <2>2. check[v] \in [proc : Procs \cup {None}, kid : Kids \cup {None},
                      stage : CheckPending \cup CheckOver \cup {"idle"},
                      excuse : {"none", "fresh", "outage"}]
    BY DEF KeyInv, JwksTypeOK
  <2>3. check'[v] = [proc |-> p, kid |-> check[v].kid, stage |-> stage, excuse |-> excuse]
    BY <2>1, <2>2, <1>2
  <2>4. check[v].kid \in Kids
    BY <1>2 DEF KeyInv, WaitersHaveProcs, CheckPending
  <2> QED BY <2>3, <2>4 DEF FetchOver
<1>3. ASSUME NEW v \in Tokens, check[v].proc # p \/ check[v].stage \notin Waiting
      PROVE  check'[v] = check[v]
  BY <1>3 DEF Wake
<1> QED BY <1>1, <1>2, <1>3

LEMMA KeyInvWake ==
  ASSUME KeyInv, NEW p \in Procs, NEW excuse \in {"none", "outage"}, Wake(p, excuse),
         cache' \in [Procs -> SUBSET Kids],
         fetch' = [fetch EXCEPT ![p] = NoFetch],
         age' = IF excuse = "none" THEN [age EXCEPT ![p] = "fresh"] ELSE age,
         UNCHANGED published
  PROVE  KeyInv'
<1> DEFINE Check == [proc : Procs \cup {None}, kid : Kids \cup {None},
                     stage : CheckPending \cup CheckOver \cup {"idle"},
                     excuse : {"none", "fresh", "outage"}]
      Woken(v) == /\ check[v].proc = p /\ check[v].kid \in Kids
                  /\ \E stage \in FetchOver :
                       check'[v] = [proc |-> p, kid |-> check[v].kid,
                                    stage |-> stage, excuse |-> excuse]
<1>1. /\ check' = [v \in Tokens |-> check'[v]]
      /\ \A v \in Tokens : check'[v] = check[v] \/ Woken(v)
  BY WakeMoves
<1> HIDE DEF Woken
<1>2. ASSUME NEW v \in Tokens
      PROVE  /\ check'[v] \in Check
             /\ check'[v].stage \in CheckPending =>
                  check'[v].proc \in Procs /\ check'[v].kid \in Kids
             /\ check'[v].stage = "refused" => check'[v].excuse # "none"
             /\ check'[v].stage = "secondOver" /\ check'[v].excuse = "none"
                  => age'[check'[v].proc] = "fresh"
  <2>1. CASE check'[v] = check[v]
    <3>1. check[v].stage = "secondOver" => check[v].proc \in Procs
      BY DEF KeyInv, WaitersHaveProcs, CheckPending, FetchOver
    <3> QED
      BY <2>1, <3>1 DEF KeyInv, JwksTypeOK, WaitersHaveProcs, WokenIsFresh, RotationIsFound
  <2>2. CASE Woken(v)
    <3>1. PICK stage \in FetchOver :
            check'[v] = [proc |-> p, kid |-> check[v].kid, stage |-> stage, excuse |-> excuse]
      BY <2>2 DEF Woken
    <3>2. check[v].kid \in Kids
      BY <2>2 DEF Woken
    <3>3. age'[p] = "fresh" \/ excuse # "none"
      BY DEF KeyInv, JwksTypeOK
    <3> QED BY <3>1, <3>2, <3>3 DEF CheckPending, FetchOver
  <2> QED BY <1>1, <2>1, <2>2
<1>3. JwksTypeOK'
  <2>1. check' \in [Tokens -> Check]
    BY <1>1, <1>2
  <2> QED BY <2>1 DEF KeyInv, JwksTypeOK, NoFetch
<1>4. WaitersHaveProcs' /\ WokenIsFresh' /\ RotationIsFound'
  BY <1>2 DEF WaitersHaveProcs, WokenIsFresh, RotationIsFound
<1> QED BY <1>3, <1>4 DEF KeyInv

LEMMA KeyInvStep ==
  ASSUME KeyInv, [ControlNext]_controlVars
  PROVE  KeyInv'
<1>1. ASSUME NEW v \in Tokens, NEW p \in Procs, NEW k \in Kids, verifyAuthToken(v, p, k)
      PROVE  KeyInv'
  BY <1>1, KeyInvAwait, KeyInvLookUp DEF verifyAuthToken
<1>2. ASSUME NEW v \in Tokens, Resume(v)
      PROVE  KeyInv'
  <2> DEFINE p == check[v].proc
             k == check[v].kid
  <2>1. /\ p \in Procs /\ k \in Kids
        /\ check[v].excuse \in {"none", "fresh", "outage"}
    BY <1>2 DEF Resume, KeyInv, JwksTypeOK, WaitersHaveProcs, CheckPending, Waiting, FetchOver
  <2> QED BY <1>2, <2>1, KeyInvLookUp, KeyInvDecided DEF Resume, KeyInv, WokenIsFresh
<1>3. CASE \E p \in Procs : AuthAnswers(p)
  BY <1>3 DEF AuthAnswers, KeyInv, JwksTypeOK, WaitersHaveProcs, WokenIsFresh, RotationIsFound
<1>4. CASE \E p \in Procs : CacheAges(p)
  BY <1>4 DEF CacheAges, KeyInv, JwksTypeOK, WaitersHaveProcs, WokenIsFresh, RotationIsFound,
       FetchOver
<1>5. ASSUME NEW p \in Procs, FetchDone(p)
      PROVE  KeyInv'
  BY <1>5, KeyInvWake DEF FetchDone, KeyInv, JwksTypeOK
<1>6. ASSUME NEW p \in Procs, FetchFails(p)
      PROVE  KeyInv'
  BY <1>6, KeyInvWake DEF FetchFails, KeyInv, JwksTypeOK
<1>7. CASE \E p \in Procs : JwksForgets(p)
  BY <1>7 DEF JwksForgets, NoFetch, KeyInv, JwksTypeOK, WaitersHaveProcs, WokenIsFresh,
       RotationIsFound, CheckPending, CheckOver, Waiting, FetchOver
<1>8. CASE \E k \in Kids : Publish(k)
  BY <1>8 DEF Publish, KeyInv, JwksTypeOK, WaitersHaveProcs, WokenIsFresh, RotationIsFound
<1>9. CASE UNCHANGED jwksVars
  BY <1>9 DEF jwksVars, KeyInv, JwksTypeOK, WaitersHaveProcs, WokenIsFresh, RotationIsFound
<1> QED BY <1>1, <1>2, <1>3, <1>4, <1>5, <1>6, <1>7, <1>8, <1>9, JwksMoves DEF JwksMove

\* A token of a published key is refused only within five seconds of a fetch, or
\* when the fetch it waited for failed: for any number of processes, keys, tokens
\* and rotations.
THEOREM RotationNeedsNoRedeploy == ControlSpec => []RotationIsFound
<1>1. KeyInv => RotationIsFound
  BY DEF KeyInv
<1> QED BY <1>1, KeyInvInit, KeyInvStep, PTL DEF ControlSpec
=============================================================================
