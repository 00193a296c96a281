---------------------------- MODULE BackupSystem ----------------------------
(***************************************************************************)
(* Restore, its reconciliation and retention over one catalog and one      *)
(* object store.  The three never call each other: what they share is the  *)
(* rows, the runs' locks and the objects, and the process they die with.   *)
(***************************************************************************)
EXTENDS RestoreReconciliation, Retention

systemVars == <<catalogVars, restoreVars, sweep, retentionVars>>

SystemInit == Init /\ RetentionInit

SystemCrash(p) == Crash(p) /\ CleanupsForget(p)

SystemNext ==
  \/ RestoreStep /\ UNCHANGED <<sweep, retentionVars>>
  \/ ReconcilerStep /\ UNCHANGED retentionVars
  \/ (\E k \in Cleanups : CleanupStep(k)) /\ UNCHANGED <<restoreVars, sweep>>
  \/ \E p \in Procs : SystemCrash(p)
  \/ \E p \in Procs : Restart(p) /\ UNCHANGED retentionVars

SystemSpec == SystemInit /\ [][SystemNext]_systemVars

----------------------------------------------------------------------------
SystemTypeOK == TypeOK /\ RetentionTypeOK

\* "While it is pending or running it holds the backup object against retention":
\* no step of any cleanup, however old its rows, removes the object of an active
\* restore or clears its path.
PinHonoured ==
  [][\A r \in Requests : Active(r) =>
       /\ object'[BackupRunOf(r)] = object[BackupRunOf(r)]
       /\ path'[BackupRunOf(r)] = path[BackupRunOf(r)]]_systemVars

Store ==
  INSTANCE PinnedStore WITH
    run <- [r \in Requests |-> BackupRunOf(r)],
    pins <- {r \in Requests : Active(r)},
    listed <- {b \in Runs : path[b]},
    stored <- {b \in Runs : object[b]}

\* With its atomic removals and pins this is how restores and cleanups look to each
\* other, whatever they overlap with and wherever they fail.
ImplementsPinnedStore == Store!StoreSpec

\* "A restore either sees the pin honoured or sees no path at all": a request is
\* only ever active over a run whose dump is still in the object store.
PinnedObjectPresent ==
  \A r \in Requests : Active(r) => object[BackupRunOf(r)]

\* The same, as far as the code can keep it: a path that is left without its
\* object, for a restore to pin, is the path of a run whose own removal was cut off
\* before its commit, by a crash or an error.  No fault of another run's removal,
\* of a restore or of a sweep leaves one, and no overlap of theirs does.
DanglingOnlyByFault ==
  \A b \in Runs : path[b] /\ ~object[b] /\ LockFree(b) => b \in cut

\* "Deletion is only ever safe while a backup that is known to still be in object
\* storage remains": whenever a cleanup removes a dump, its anchor is there.
AnchorRemains ==
  \A k \in Cleanups : cleanup[k].step \in {"removing", "removed"} =>
    /\ cleanup[k].anchor # cleanup[k].run
    /\ object[cleanup[k].anchor]
=============================================================================
