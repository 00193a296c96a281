------------------------------ MODULE JwksCache ------------------------------
(***************************************************************************)
(* jwt-verifier.ts: the public keys a process caches, the one fetch that   *)
(* all requests needing one wait for, and the lookup of a token's key.     *)
(*                                                                         *)
(* Every guarded request passes here before its handler.  The tokens of    *)
(* the model are well formed, signed by a key that auth has published and  *)
(* carry a sufficient role.  Time is the age of the cache: fresh for five  *)
(* seconds, then warm, and stale past its TTL.                             *)
(***************************************************************************)
EXTENDS Deployment

CONSTANTS
  Kids,   \* key ids auth may publish
  Tokens  \* requests that carry a token

ASSUME KidsAssumption == Kids # {}

VARIABLES
  published,  \* the keys auth serves
  cache,      \* cache[p]: cachedKeys
  age,        \* age[p]: the age of cachedAt
  fetch,      \* fetch[p]: inFlight, and what was served if it was answered
  check       \* check[v]: the verification of token v

jwksVars == <<published, cache, age, fetch, check>>

NoFetch == [stage |-> "none", keys |-> {}]
NoCheck == [proc |-> None, kid |-> None, stage |-> "idle", excuse |-> "none"]

Waiting == {"first", "second"}
FetchOver == {"firstOver", "secondOver"}

\* A decision on token v by process p.  A refusal remembers whether the cache
\* was fresh or the fetch had failed (history).
Decided(p, k, excuse) ==
  [proc |-> p, kid |-> k,
   stage |-> IF k \in cache[p] THEN "accepted" ELSE "refused",
   excuse |-> IF k \in cache[p] THEN "none"
              ELSE IF age[p] = "fresh" THEN "fresh" ELSE excuse]

\* refreshJwks: join the fetch in flight, or start one.
AwaitRefresh(v, p, k, stage) ==
  /\ check' = [check EXCEPT ![v] =
                 [proc |-> p, kid |-> k, stage |-> stage, excuse |-> "none"]]
  /\ fetch' = IF fetch[p] = NoFetch
              THEN [fetch EXCEPT ![p] = [stage |-> "asked", keys |-> {}]] ELSE fetch
  /\ UNCHANGED <<published, cache, age>>

\* MUTANT: an unknown kid is never looked up again.
RefetchUnknownNever(p, k) == FALSE

\* "Unknown kid with a warm cache means the key set probably rotated."
RefetchUnknown(p, k) == k \notin cache[p] /\ age[p] # "fresh"

\* The second half of publicKeyFor, and the verdict.
LookUp(v, p, k, excuse) ==
  IF RefetchUnknown(p, k)
  THEN AwaitRefresh(v, p, k, "second")
  ELSE /\ check' = [check EXCEPT ![v] = Decided(p, k, excuse)]
       /\ UNCHANGED <<published, cache, age, fetch>>

\* verifyAuthToken of a token signed with a key that is published.
verifyAuthToken(v, p, k) ==
  /\ check[v] = NoCheck
  /\ k \in published
  /\ IF cache[p] = {} \/ age[p] = "stale"
     THEN AwaitRefresh(v, p, k, "first")
     ELSE LookUp(v, p, k, "none")

\* A request whose fetch is over goes on.
Resume(v) ==
  LET p == check[v].proc
      k == check[v].kid
  IN  \/ check[v].stage = "firstOver" /\ LookUp(v, p, k, check[v].excuse)
      \/ /\ check[v].stage = "secondOver"
         /\ check' = [check EXCEPT ![v] = Decided(p, k, check[v].excuse)]
         /\ UNCHANGED <<published, cache, age, fetch>>

\* Those that wait for p's fetch.
Wake(p, excuse) ==
  check' = [v \in Tokens |->
              IF check[v].proc # p \/ check[v].stage \notin Waiting THEN check[v]
              ELSE [check[v] EXCEPT
                      !.stage = IF @ = "first" THEN "firstOver" ELSE "secondOver",
                      !.excuse = excuse]]

\* auth answers with the keys of that moment; the answer is on its way.
AuthAnswers(p) ==
  /\ fetch[p].stage = "asked"
  /\ fetch' = [fetch EXCEPT ![p] = [stage |-> "answered", keys |-> published]]
  /\ UNCHANGED <<published, cache, age, check>>

FetchDone(p) ==
  /\ fetch[p].stage = "answered"
  /\ cache' = [cache EXCEPT ![p] = fetch[p].keys]
  /\ age' = [age EXCEPT ![p] = "fresh"]
  /\ fetch' = [fetch EXCEPT ![p] = NoFetch]
  /\ Wake(p, "none")
  /\ UNCHANGED published

\* MUTANT: without a timeout, a fetch that is not answered stays in flight.
FetchFailsNever(p) == FALSE /\ UNCHANGED jwksVars

\* The three seconds are over, or the answer is an error: the old keys stay.
FetchFails(p) ==
  /\ fetch[p] # NoFetch
  /\ fetch' = [fetch EXCEPT ![p] = NoFetch]
  /\ Wake(p, "outage")
  /\ UNCHANGED <<published, cache, age>>

\* auth rotates: one more key is served.  Old keys stay for the old tokens.
Publish(k) ==
  /\ k \notin published
  /\ published' = published \cup {k}
  /\ UNCHANGED <<cache, age, fetch, check>>

\* Seconds pass.  A request whose fetch is over goes on in the same turn of the
\* event loop, before them.
CacheAges(p) ==
  /\ age[p] # "stale"
  /\ \A v \in Tokens : check[v].proc = p => check[v].stage \notin FetchOver
  /\ age' = [age EXCEPT ![p] = IF @ = "fresh" THEN "warm" ELSE "stale"]
  /\ UNCHANGED <<published, cache, fetch, check>>

JwksForgets(p) ==
  /\ cache' = [cache EXCEPT ![p] = {}]
  /\ age' = [age EXCEPT ![p] = "stale"]
  /\ fetch' = [fetch EXCEPT ![p] = NoFetch]
  /\ check' = [v \in Tokens |->
                 IF check[v].proc = p /\ check[v].stage \notin {"accepted", "refused"}
                 THEN [check[v] EXCEPT !.stage = "lost"] ELSE check[v]]
  /\ UNCHANGED published

JwksInit ==
  /\ published = {CHOOSE k \in Kids : TRUE}
  /\ cache = [p \in Procs |-> {}]
  /\ age = [p \in Procs |-> "stale"]
  /\ fetch = [p \in Procs |-> NoFetch]
  /\ check = [v \in Tokens |-> NoCheck]

----------------------------------------------------------------------------
CheckPending == Waiting \cup FetchOver
CheckOver == {"accepted", "refused", "lost"}

JwksTypeOK ==
  /\ published \subseteq Kids
  /\ cache \in [Procs -> SUBSET Kids]
  /\ age \in [Procs -> {"fresh", "warm", "stale"}]
  /\ fetch \in [Procs -> [stage : {"none", "asked", "answered"}, keys : SUBSET Kids]]
  /\ check \in [Tokens -> [proc : Procs \cup {None}, kid : Kids \cup {None},
                           stage : CheckPending \cup CheckOver \cup {"idle"},
                           excuse : {"none", "fresh", "outage"}]]

\* "A miss on an unknown kid refetches once so key rotation does not need a
\* redeploy": a token of a published key is refused only within five seconds of a
\* fetch, or when the fetch it waited for failed.
RotationIsFound ==
  \A v \in Tokens : check[v].stage = "refused" => check[v].excuse # "none"

\* A request never waits for ever for keys: a fetch that auth does not answer
\* times out, and frees the next one.
EveryTokenDecided ==
  \A v \in Tokens : check[v].stage \in CheckPending ~> check[v].stage \in CheckOver
=============================================================================
