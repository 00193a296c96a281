------------------------------ MODULE PipedPair ------------------------------
(***************************************************************************)
(* WalgWrapperService.runPipedPair: a producer's stdout is streamed into a *)
(* consumer's stdin, pg_dump into wal-g for a backup and wal-g into        *)
(* pg_restore for a restore.  The promise it returns settles after three   *)
(* callbacks: the stream's and the close of either child, in any order.    *)
(*                                                                         *)
(* The children and the pipe are the environment.  A producer exits with 0 *)
(* only after it wrote everything; a consumer only after it saw the end of *)
(* its input and its work took effect.  Either may fail, hang, or ignore   *)
(* SIGTERM, and a broken pipe looks to the consumer like the end.          *)
(***************************************************************************)

VARIABLES
  child,          \* child[x]: "running", "zero", "error" or "unspawned"
  took,           \* the upload or the pg_restore has taken effect
  signal,         \* signal[x]: "none", "term" (its timer runs) or "kill"
  stream,         \* "flowing", "ended" or "broken"
  streamDone,     \* the callback of pipeline has run
  streamFailure,
  done,           \* done[x]: producerDone, consumerDone
  code,           \* code[x]: the exit code is "zero" or "error"
  closed,         \* closed[x]: the close event of x has been handled
  result          \* "none", or the exit code the promise was resolved with

pairVars ==
  <<child, took, signal, stream, streamDone, streamFailure, done, code, closed, result>>

Children == {"producer", "consumer"}
Other(x) == IF x = "producer" THEN "consumer" ELSE "producer"

Gone(x) == child[x] # "running"

----------------------------------------------------------------------------
(* The environment. *)

ProducerExits(how) ==
  /\ child["producer"] = "running"
  /\ how = "zero" => signal["producer"] # "kill"
  /\ child' = [child EXCEPT !["producer"] = how]
  /\ UNCHANGED <<took, signal, stream, streamDone, streamFailure, done, code, closed, result>>

ConsumerTakesEffect ==
  /\ child["consumer"] = "running"
  /\ stream # "flowing"
  /\ ~took
  /\ took' = TRUE
  /\ UNCHANGED <<child, signal, stream, streamDone, streamFailure, done, code, closed, result>>

ConsumerExits(how) ==
  /\ child["consumer"] = "running"
  /\ how = "zero" => took /\ signal["consumer"] # "kill"
  /\ child' = [child EXCEPT !["consumer"] = how]
  /\ UNCHANGED <<took, signal, stream, streamDone, streamFailure, done, code, closed, result>>

\* The producer has closed its stdout, by its exit or some time before it, and all
\* it wrote is in the consumer's stdin, which is then closed.
StreamEnds ==
  /\ stream = "flowing"
  /\ stream' = "ended"
  /\ UNCHANGED <<child, took, signal, streamDone, streamFailure, done, code, closed, result>>

StreamBreaks ==
  /\ stream = "flowing"
  /\ stream' = "broken"
  /\ UNCHANGED <<child, took, signal, streamDone, streamFailure, done, code, closed, result>>

----------------------------------------------------------------------------
(* The callbacks. *)

\* terminate each child of X that is not done: SIGTERM, and the timer of SIGKILL.
Terminate(X) ==
  signal' = [x \in Children |->
               IF x \in X /\ ~done'[x] /\ signal[x] = "none" THEN "term" ELSE signal[x]]

\* MUTANT: the failure of the stream is not counted.
ExitCodeWithoutStream ==
  IF code'["producer"] = "zero" /\ code'["consumer"] = "zero" THEN "zero" ELSE "error"

\* MUTANT: the exit code of the consumer is not counted.
ExitCodeOfProducer ==
  IF ~streamFailure' /\ code'["producer"] = "zero" THEN "zero" ELSE "error"

ExitCode ==
  IF ~streamFailure' /\ code'["producer"] = "zero" /\ code'["consumer"] = "zero"
  THEN "zero" ELSE "error"

\* MUTANT: a failure is reported without waiting for the children.
SettledEarly == streamDone' /\ (streamFailure' \/ \A x \in Children : done'[x])

Settled == streamDone' /\ \A x \in Children : done'[x]

\* finish, the last call of every callback.
finish == result' = IF result = "none" /\ Settled THEN ExitCode ELSE result

PipelineCallback ==
  /\ stream # "flowing"
  /\ ~streamDone
  /\ streamDone' = TRUE
  /\ streamFailure' = (stream = "broken")
  /\ UNCHANGED <<child, took, stream, done, code, closed>>
  /\ Terminate(IF stream = "broken" THEN Children ELSE {})
  /\ finish

\* The error event of a child that could not be spawned.  Node also emits one when
\* a signal cannot be sent; a process may always signal a child of its own.
ErrorEvent(x) ==
  /\ child[x] = "unspawned"
  /\ ~done[x]
  /\ done' = [done EXCEPT ![x] = TRUE]
  /\ code' = [code EXCEPT ![x] = "error"]
  /\ UNCHANGED <<child, took, stream, streamDone, streamFailure, closed>>
  /\ Terminate({Other(x)})
  /\ finish

\* MUTANT: the exit code is kept as the event carries it.
ExitCodeRaw(c) == c

\* code ?? 1
ExitCodeOf(c) == IF c = "zero" THEN "zero" ELSE "error"

\* The close event: x has exited and its streams are closed, and the producer's
\* stdout only closes once it was read to the end or destroyed.
CloseEvent(x) ==
  /\ Gone(x)
  /\ child[x] = "unspawned" => done[x]
  /\ x = "producer" => stream # "flowing"
  /\ ~closed[x]
  /\ closed' = [closed EXCEPT ![x] = TRUE]
  /\ done' = [done EXCEPT ![x] = TRUE]
  /\ code' = [code EXCEPT ![x] = ExitCodeOf(child[x])]
  /\ UNCHANGED <<child, took, stream, streamDone, streamFailure>>
  /\ Terminate(IF child[x] = "zero" THEN {} ELSE {Other(x)})
  /\ finish

\* MUTANT: SIGTERM is not followed by SIGKILL.
EscalateNever(x) == FALSE /\ UNCHANGED pairVars

\* The timer of terminate, unless finish has cleared it.
Escalate(x) ==
  /\ signal[x] = "term"
  /\ result = "none"
  /\ signal' = [signal EXCEPT ![x] = "kill"]
  /\ UNCHANGED <<child, took, stream, streamDone, streamFailure, done, code, closed, result>>

----------------------------------------------------------------------------
Init ==
  /\ child \in [Children -> {"running", "unspawned"}]
  /\ took = FALSE
  /\ signal = [x \in Children |-> "none"]
  /\ stream = "flowing"
  /\ streamDone = FALSE
  /\ streamFailure = FALSE
  /\ done = [x \in Children |-> FALSE]
  /\ code = [x \in Children |-> "error"]
  /\ closed = [x \in Children |-> FALSE]
  /\ result = "none"

Next ==
  \/ \E how \in {"zero", "error"} : ProducerExits(how) \/ ConsumerExits(how)
  \/ ConsumerTakesEffect
  \/ StreamEnds
  \/ StreamBreaks
  \/ PipelineCallback
  \/ \E x \in Children : ErrorEvent(x) \/ CloseEvent(x) \/ Escalate(x)

Spec == Init /\ [][Next]_pairVars

----------------------------------------------------------------------------
TypeOK ==
  /\ child \in [Children -> {"running", "zero", "error", "unspawned"}]
  /\ took \in BOOLEAN
  /\ signal \in [Children -> {"none", "term", "kill"}]
  /\ stream \in {"flowing", "ended", "broken"}
  /\ streamDone \in BOOLEAN
  /\ streamFailure \in BOOLEAN
  /\ done \in [Children -> BOOLEAN]
  /\ code \in [Children -> {"zero", "error"}]
  /\ closed \in [Children -> BOOLEAN]
  /\ result \in {"none", "zero", "error"}

\* "A truncated transfer can never report success": the producer wrote everything,
\* the pipe delivered it, and the consumer's work took effect.
SuccessIsWhole ==
  result = "zero" =>
    /\ child["producer"] = "zero" /\ child["consumer"] = "zero"
    /\ stream = "ended"
    /\ took

\* When the caller goes on, to record an outcome or to discard a partial object,
\* neither child is still writing to the target or to the object store.
NoChildOutlivesResult ==
  result # "none" => \A x \in Children : Gone(x)

\* runPipedPair as RestoreService sees it.
Outcome ==
  IF result = "zero" THEN "succeeded"
  ELSE IF result = "error" THEN "failed"
  ELSE IF took THEN "committed" ELSE "running"

Pair == INSTANCE RestorePair WITH outcome <- Outcome

\* Success is reported only after the effect, failure before or after it, and an
\* effect never appears once the outcome was reported.
ImplementsRestorePair == Pair!Spec

\* Callbacks and timers run, a killed child dies, and the pipe closes when an end
\* of it is gone.  A child left alone may hang for ever.
Fairness ==
  /\ WF_pairVars(PipelineCallback)
  /\ \A x \in Children :
       /\ WF_pairVars(ErrorEvent(x))
       /\ WF_pairVars(child[x] # "unspawned" /\ CloseEvent(x))
       /\ WF_pairVars(Escalate(x))
  /\ WF_pairVars(signal["producer"] = "kill" /\ ProducerExits("error"))
  /\ WF_pairVars(signal["consumer"] = "kill" /\ ConsumerExits("error"))
  /\ WF_pairVars(Gone("consumer") /\ StreamBreaks)

FairSpec == Spec /\ Fairness

\* A pair one of whose parts has failed is over in the end, although a child may
\* hang or ignore SIGTERM: the backup or the restore that waits for it goes on.
FailureResolves ==
  (streamFailure \/ \E x \in Children : done[x] /\ code[x] = "error")
    ~> result # "none"
=============================================================================
