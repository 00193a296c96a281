--------------------------- MODULE PipedPairProofs ---------------------------
(***************************************************************************)
(* Proofs about PipedPair: it is well typed, success stands for a whole    *)
(* transfer, no child outlives the result, and it implements RestorePair.  *)
(***************************************************************************)
EXTENDS PipedPair, TLAPS

\* A child counts as done only once it is gone, and an exit code of 0 was read
\* from a child that exited with 0, after its work took effect.
DoneIsGone ==
  \A x \in Children :
    /\ done[x] => Gone(x)
    /\ code[x] = "zero" => child[x] = "zero"

EffectPrecedesExit == child["consumer"] = "zero" => took

\* What the callback of the stream says is what became of the stream.
StreamObserved ==
  streamDone => stream # "flowing" /\ (~streamFailure => stream = "ended")

\* The result was computed once all three callbacks had run.
ResultIsSettled ==
  /\ result # "none" => streamDone /\ \A x \in Children : done[x]
  /\ result = "zero" =>
       ~streamFailure /\ code["producer"] = "zero" /\ code["consumer"] = "zero"

IInv == TypeOK /\ DoneIsGone /\ EffectPrecedesExit /\ StreamObserved /\ ResultIsSettled

\* The inductive invariant holds initially.
LEMMA InitIInv == Init => IInv
BY DEF Init, IInv, TypeOK, DoneIsGone, EffectPrecedesExit, StreamObserved,
       ResultIsSettled, Children, Gone

\* Every callback and every step of the environment preserves it.
LEMMA NextIInv == IInv /\ [Next]_pairVars => IInv'
<1> SUFFICES ASSUME IInv, [Next]_pairVars PROVE IInv'
  OBVIOUS
<1> USE DEF IInv, TypeOK, DoneIsGone, EffectPrecedesExit, StreamObserved,
            ResultIsSettled, Children, Gone
<1>1. ASSUME NEW how \in {"zero", "error"}, ProducerExits(how) PROVE IInv'
  BY <1>1 DEF ProducerExits
<1>2. ASSUME NEW how \in {"zero", "error"}, ConsumerExits(how) PROVE IInv'
  BY <1>2 DEF ConsumerExits
<1>3. CASE ConsumerTakesEffect
  BY <1>3 DEF ConsumerTakesEffect
<1>4. CASE StreamEnds
  BY <1>4 DEF StreamEnds
<1>5. CASE StreamBreaks
  BY <1>5 DEF StreamBreaks
<1>6. CASE PipelineCallback
  BY <1>6 DEF PipelineCallback, Terminate, finish, Settled, ExitCode
<1>7. ASSUME NEW x \in Children, ErrorEvent(x) PROVE IInv'
  BY <1>7 DEF ErrorEvent, Terminate, finish, Settled, ExitCode, Other
<1>8. ASSUME NEW x \in Children, CloseEvent(x) PROVE IInv'
  BY <1>8 DEF CloseEvent, ExitCodeOf, Terminate, finish, Settled, ExitCode, Other
<1>9. ASSUME NEW x \in Children, Escalate(x) PROVE IInv'
  BY <1>9 DEF Escalate
<1>10. CASE UNCHANGED pairVars
  BY <1>10 DEF pairVars
<1> QED
  BY <1>1, <1>2, <1>3, <1>4, <1>5, <1>6, <1>7, <1>8, <1>9, <1>10 DEF Next

\* The inductive invariant holds in every reachable state.
THEOREM Invariant == Spec => []IInv
BY InitIInv, NextIInv, PTL DEF Spec

\* Every reachable state of a pair is well typed.
THEOREM PairTypeCorrect == Spec => []TypeOK
<1>1. IInv => TypeOK
  BY DEF IInv
<1> QED
  BY Invariant, <1>1, PTL

\* A truncated transfer never reports success.
THEOREM NoTruncatedSuccess == Spec => []SuccessIsWhole
<1>1. IInv => SuccessIsWhole
  BY DEF IInv, TypeOK, DoneIsGone, EffectPrecedesExit, StreamObserved,
         ResultIsSettled, SuccessIsWhole, Children
<1> QED
  BY Invariant, <1>1, PTL

\* Neither child runs once the promise is settled.
THEOREM ChildrenAreGone == Spec => []NoChildOutlivesResult
<1>1. IInv => NoChildOutlivesResult
  BY DEF IInv, DoneIsGone, ResultIsSettled, NoChildOutlivesResult
<1> QED
  BY Invariant, <1>1, PTL

\* runPipedPair implements the pair RestoreService awaits.
THEOREM PairRefinement == Spec => ImplementsRestorePair
<1>1. Init => Pair!Init
  BY DEF Init, Pair!Init, Outcome
<1>2. IInv /\ IInv' /\ [Next]_pairVars => [Pair!Next]_Outcome
  <2> SUFFICES ASSUME IInv, IInv', [Next]_pairVars PROVE [Pair!Next]_Outcome
    OBVIOUS
  <2> USE DEF Outcome
  <2>1. ASSUME UNCHANGED <<took, result>> PROVE [Pair!Next]_Outcome
    BY <2>1
  <2>2. CASE ConsumerTakesEffect
    <3>1. result = "none" /\ result' = "none" /\ ~took /\ took'
      BY <2>2 DEF ConsumerTakesEffect, IInv, DoneIsGone, ResultIsSettled, Children, Gone, TypeOK
    <3> QED
      BY <3>1 DEF Pair!Next, Pair!Commits
  <2>3. ASSUME UNCHANGED took, finish PROVE [Pair!Next]_Outcome
    <3>1. CASE result' = result
      BY <2>1, <2>3, <3>1
    <3>2. CASE result' # result
      <4>1. result = "none" /\ result' \in {"zero", "error"}
        BY <2>3, <3>2 DEF finish, ExitCode
      <4>2. result' = "zero" => took
        BY <2>3 DEF IInv, DoneIsGone, EffectPrecedesExit, ResultIsSettled, Children
      <4> QED
        BY <2>3, <4>1, <4>2 DEF Pair!Next, Pair!Succeeds, Pair!Fails
    <3> QED
      BY <3>1, <3>2
  <2> QED
    BY <2>1, <2>2, <2>3
    DEF Next, pairVars, ProducerExits, ConsumerExits, StreamEnds, StreamBreaks,
        PipelineCallback, ErrorEvent, CloseEvent, Escalate
<1> QED
  BY Invariant, <1>1, <1>2, PTL DEF Spec, ImplementsRestorePair, Pair!Spec
=============================================================================
