\* Two children under a cap of one; two calls in flight; one child is resumed,
\* once; the event loop is fair.
CONSTANTS
  Child = {c1, c2}
  Call = {k1, k2}
  MaxParallel = 1
  MaxTurns = 2
  MaxResumed = 1
SPECIFICATION FairSpec
\* A parent turn that is over, with every child at rest, does nothing more.
CHECK_DEADLOCK FALSE
INVARIANTS
  TypeOK
  ParallelCap
  AwaitedTurnIsReported
  DelegateHasOutcome
  KilledIsNotResumable
  SeedIsLastCleanTurn
PROPERTIES
  RefinesSlotPool
  ClosedChildEnds
  CancelledDelegationEnds
  ShutdownEnds
