----------------------------- MODULE PinnedStore -----------------------------
(***************************************************************************)
(* What restores and retention promise each other about the dumps, without *)
(* calls, locks, cleanups, processes or failures.  An active restore pins  *)
(* its run.  A dump goes only while nothing pins it, and stays gone; a run *)
(* is taken off the list only once its dump is gone, and no restore of it  *)
(* begins from then on.                                                    *)
(*                                                                         *)
(* It is not promised that what is listed is stored: the list may lag      *)
(* behind, for as long as a cleanup that failed is not repeated.           *)
(***************************************************************************)
CONSTANTS Runs, Requests

VARIABLES
  run,     \* run[r]: the run that request r restores
  pins,    \* the active requests
  listed,  \* runs a restore may be asked for
  stored   \* runs whose dump is in the object store

storeVars == <<run, pins, listed, stored>>

Pinned(b) == \E r \in pins : run[r] = b

Pin(r) ==
  /\ r \notin pins
  /\ run[r] \in listed
  /\ pins' = pins \cup {r}
  /\ UNCHANGED <<run, listed, stored>>

Release(r) ==
  /\ r \in pins
  /\ pins' = pins \ {r}
  /\ UNCHANGED <<run, listed, stored>>

Remove(b) ==
  /\ b \in stored
  /\ ~Pinned(b)
  /\ stored' = stored \ {b}
  /\ UNCHANGED <<run, pins, listed>>

Unlist(b) ==
  /\ b \in listed \ stored
  /\ ~Pinned(b)
  /\ listed' = listed \ {b}
  /\ UNCHANGED <<run, pins, stored>>

StoreInit ==
  /\ run \in [Requests -> Runs]
  /\ pins = {}
  /\ listed = Runs
  /\ stored = Runs

StoreNext ==
  \/ \E r \in Requests : Pin(r) \/ Release(r)
  \/ \E b \in Runs : Remove(b) \/ Unlist(b)

StoreSpec == StoreInit /\ [][StoreNext]_storeVars
=============================================================================
