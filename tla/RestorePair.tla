----------------------------- MODULE RestorePair -----------------------------
(***************************************************************************)
(* What RestoreService relies on when it awaits restoreFromObject: the     *)
(* pg_restore may commit, the call reports success only after that, and it *)
(* may report failure before or after it.  RestoreService has the same     *)
(* steps as its stages "executing", "committed" and "failing".             *)
(***************************************************************************)
VARIABLE outcome

Commits == outcome = "running" /\ outcome' = "committed"
Succeeds == outcome = "committed" /\ outcome' = "succeeded"
Fails == outcome \in {"running", "committed"} /\ outcome' = "failed"

Init == outcome = "running"
Next == Commits \/ Succeeds \/ Fails
Spec == Init /\ [][Next]_outcome
=============================================================================
