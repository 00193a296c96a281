--------------------------- MODULE SchemaReadiness ---------------------------
(***************************************************************************)
(* SchemaReadinessService: the two unique indexes that serialize restores, *)
(* installed at boot where the rows allow it, and what each process knows  *)
(* of them.  RestoreService takes the outcome as given; here it comes      *)
(* about, next to processes of an older release that know no gate.         *)
(*                                                                         *)
(* Of restore_requests only the number of active rows per target is kept.  *)
(***************************************************************************)
EXTENDS Deployment

CONSTANT Targets

VARIABLES
  index,     \* the unique index of active requests per target is installed
  keyIndex,  \* the unique index of idempotency keys is installed
  active,    \* active[t]: requests for t that are pending or running
  ready      \* ready[p]: restoreSerialization.ready of process p

schemaVars == <<index, keyIndex, active, ready>>

Duplicates == {t \in Targets : active[t] > 1}

\* buildSchemaReadinessSql, one transaction.  Its ALTER TABLE locks
\* restore_requests until the commit, so the test for duplicates stays true.
align(p) ==
  /\ phase[p] = "created"
  /\ IF env.apply
     THEN /\ keyIndex' = TRUE
          /\ index' = (index \/ Duplicates = {})
     ELSE UNCHANGED <<index, keyIndex>>
  /\ BootGoesTo(p, "aligned")
  /\ UNCHANGED <<active, ready>>

\* MUTANT: that the statements ran is taken for the index itself.
ObservedAssumed == env.apply \/ (index /\ keyIndex)

\* buildRestoreSerializationCheckSql.
Observed == index /\ keyIndex

\* MUTANT: a degraded process never starts.
MayStartReadyOnly(observed) == observed

MayStart(observed) == observed \/ ~env.strict

\* verifyRestoreSerialization, with what the query told.
Verify(p, observed) ==
  /\ phase[p] = "aligned"
  /\ ready' = [ready EXCEPT ![p] = observed]
  /\ IF MayStart(observed) THEN BootGoesTo(p, "verified") ELSE ProcessEnds(p, "strict")
  /\ UNCHANGED <<index, keyIndex, active>>

verifyRestoreSerialization(p) == Verify(p, Observed)

\* The query fails: nothing is proved, and the process is degraded.
VerifyFails(p) == Verify(p, FALSE)

ReadinessForgets(p) ==
  /\ ready' = [ready EXCEPT ![p] = FALSE]
  /\ UNCHANGED <<index, keyIndex, active>>

----------------------------------------------------------------------------
\* An insert of an active row, as far as the unique index lets it.
InsertActive(t) ==
  /\ index => active[t] = 0
  /\ active' = [active EXCEPT ![t] = @ + 1]
  /\ UNCHANGED <<index, keyIndex, ready>>

\* A request that passed assertRestoreSerializationReady.
AcceptRestore(p, t) == Serving(p) /\ ready[p] /\ InsertActive(t)

\* A request of an older release.
LegacyRestore(t) == InsertActive(t)

RestoreEnds(t) ==
  /\ active[t] > 0
  /\ active' = [active EXCEPT ![t] = @ - 1]
  /\ UNCHANGED <<index, keyIndex, ready>>

SchemaInit ==
  /\ index = FALSE
  /\ keyIndex = FALSE
  /\ ready = [p \in Procs |-> FALSE]

----------------------------------------------------------------------------
SchemaTypeOK ==
  /\ index \in BOOLEAN
  /\ keyIndex \in BOOLEAN
  /\ active \in [Targets -> Nat]
  /\ ready \in [Procs -> BOOLEAN]

\* "Its presence - not the fact that the statement ran - is the only proof that
\* concurrent destructive restores are impossible": while any process accepts
\* restores, both indexes enforce and no target has two active requests, whatever
\* an older release does next to it.
ReadySerializes ==
  \A p \in Procs : ready[p] =>
    /\ index /\ keyIndex
    /\ \A t \in Targets : active[t] <= 1
=============================================================================
