------------------------------ MODULE MCSystem ------------------------------
(* Small instances of BackupSystem. *)
EXTENDS BackupSystem, TLC

CONSTANTS b1, b2, b3, j1, t1, a1

MCTargetOf == [j \in {j1} |-> t1]
MCJobOf == [b \in Runs |-> j1]

\* b3 is the newest run.
MCStartedAt == [b \in Runs |-> CASE b = b1 -> 1 [] b = b2 -> 2 [] OTHER -> 3]
MCRetainCount == [j \in {j1} |-> 1]

\* Any run may be restored.
MCSubmissions == {[run |-> b, actor |-> a1, key |-> None] : b \in Runs}

AnyCall == Permutations(Requests)
=============================================================================
