SPECIFICATION FairSpec
INVARIANTS
  TypeOK
  SuccessIsWhole
  NoChildOutlivesResult
PROPERTIES
  ImplementsRestorePair
  FailureResolves
CHECK_DEADLOCK FALSE
