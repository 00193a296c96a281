----------------------------- MODULE RestoreLife -----------------------------
(***************************************************************************)
(* What the service promises about restore requests, without calls, keys,  *)
(* processes, locks, sweeps, crashes or retries.  A target has one slot,   *)
(* which a request holds from its acceptance to its outcome.  A request    *)
(* begins at most once, takes effect at most once and only after it began, *)
(* and completes only after it took effect.  An outcome is final.          *)
(*                                                                         *)
(* Nothing is promised of the effect of a request that failed: it may come *)
(* after the failure was written, or not at all.                           *)
(***************************************************************************)
CONSTANTS Requests, Targets

VARIABLES
  life,     \* life[r]: "absent", "pending", "running", "completed" or "failed"
  target,   \* target[r]: the target request r restores
  begun,    \* requests that began
  restored  \* requests that took effect on their target

lifeVars == <<life, target, begun, restored>>

Holders(t) == {r \in Requests : life[r] \in {"pending", "running"} /\ target[r] = t}

Becomes(r, state) == life' = [life EXCEPT ![r] = state]

Accept(r) ==
  /\ life[r] = "absent"
  /\ Holders(target[r]) = {}
  /\ Becomes(r, "pending")
  /\ UNCHANGED <<target, begun, restored>>

Begin(r) ==
  /\ life[r] = "pending"
  /\ r \notin begun
  /\ Becomes(r, "running")
  /\ begun' = begun \cup {r}
  /\ UNCHANGED <<target, restored>>

TakeEffect(r) ==
  /\ r \in begun \ restored
  /\ restored' = restored \cup {r}
  /\ UNCHANGED <<life, target, begun>>

Complete(r) ==
  /\ life[r] = "running"
  /\ r \in restored
  /\ Becomes(r, "completed")
  /\ UNCHANGED <<target, begun, restored>>

Fail(r) ==
  /\ life[r] \in {"pending", "running"}
  /\ Becomes(r, "failed")
  /\ UNCHANGED <<target, begun, restored>>

LifeInit ==
  /\ life = [r \in Requests |-> "absent"]
  /\ target \in [Requests -> Targets]
  /\ begun = {}
  /\ restored = {}

LifeNext ==
  \E r \in Requests : Accept(r) \/ Begin(r) \/ TakeEffect(r) \/ Complete(r) \/ Fail(r)

LifeSpec == LifeInit /\ [][LifeNext]_lifeVars
=============================================================================
