------------------------------ MODULE MCRestore ------------------------------
(* Small instances of RestoreReconciliation. *)
EXTENDS RestoreReconciliation, TLC

CONSTANTS b1, b2, j1, t1, a1, a2, k1

MCTargetOf == [j \in {j1} |-> t1]
MCJobOf == [b \in Runs |-> j1]

Submit(b, a, k) == [run |-> b, actor |-> a, key |-> k]

\* Two runs of one target, a key reused by another actor and for another run,
\* and a submission without a key.
RacingSubmissions ==
  {Submit(b1, a1, k1), Submit(b1, a2, k1), Submit(b2, a1, k1), Submit(b2, a1, None)}

\* Unrelated submissions for one target.
TwoSubmissions == {Submit(b1, a1, None), Submit(b2, a1, None)}

AnyCall == Permutations(Requests)
AnyCallOrRun == AnyCall \cup Permutations(Runs)
AnyOfThree == AnyCallOrRun \cup Permutations(Procs)
=============================================================================
