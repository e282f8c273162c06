CONSTANTS
  a1 = a1
  a2 = a2
  a3 = a3
  a4 = a4
  Artifact = {a1, a2, a3, a4}
  NoArtifact = NoArtifact
  Worker = {w1, w2}
  Facts <- MCFacts
  ClassOf <- MCClassOf
  EventDay <- MCEventDay
  MaxAttempts = 2
  Unlucky = {a1, a2}
CHECK_DEADLOCK FALSE
SPECIFICATION Spec
SYMMETRY Symmetry
INVARIANTS
  ThreadsSpanTheirMembers
  ClusteredWhenSucceeded
  JoinedForAReason
  AlikeShareAThread
