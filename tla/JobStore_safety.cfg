CONSTANTS
  JobId = {j1, j2}
  NoJob = NoJob
  Key = {k1}
  NoKey = NoKey
  Worker = {w1, w2}
  NoWorker = NoWorker
  Enqueuer = {e1, e2}
  Priority <- MCPriority
  MaxAttempts <- MCMaxAttempts
  BackoffBase = 2
  BackoffCap = 3
  TicksPerSecond = 2
  TextPlace <- WholeAfterHalf
  MaxTime = 1
  Faults <- AnyFault
SPECIFICATION Spec
SYMMETRY Symmetry
INVARIANTS
  HeldIsCurrent
  AttemptsBounded
  DeadForCause
  OneLiveRowPerKey
  EnqueueNeverErrs
PROPERTIES
  NeverASecondEarly
  ImplementsLedger
