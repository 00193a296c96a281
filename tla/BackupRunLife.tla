---------------------------- MODULE BackupRunLife ----------------------------
(***************************************************************************)
(* What the catalog promises about a backup run, without jobs, processes,  *)
(* audit events or failures: a run is opened, its dump may become whole in *)
(* the object store, and it is sealed as restorable only while it is.  A   *)
(* run that failed is never sealed, and a sealed run keeps its dump.       *)
(***************************************************************************)
CONSTANT Runs

VARIABLES
  life,  \* life[b]: "absent", "open", "sealed" or "failed"
  whole  \* runs whose dump is whole in the object store

Open(b) ==
  /\ life[b] = "absent"
  /\ life' = [life EXCEPT ![b] = "open"]
  /\ UNCHANGED whole

Store(b) ==
  /\ life[b] = "open"
  /\ whole' = whole \cup {b}
  /\ UNCHANGED life

Discard(b) ==
  /\ life[b] = "open"
  /\ whole' = whole \ {b}
  /\ UNCHANGED life

Seal(b) ==
  /\ life[b] = "open"
  /\ b \in whole
  /\ life' = [life EXCEPT ![b] = "sealed"]
  /\ UNCHANGED whole

Fail(b) ==
  /\ life[b] = "open"
  /\ life' = [life EXCEPT ![b] = "failed"]
  /\ UNCHANGED whole

LifeInit == life = [b \in Runs |-> "absent"] /\ whole = {}

LifeNext ==
  \E b \in Runs : Open(b) \/ Store(b) \/ Discard(b) \/ Seal(b) \/ Fail(b)

LifeSpec == LifeInit /\ [][LifeNext]_<<life, whole>>
=============================================================================
