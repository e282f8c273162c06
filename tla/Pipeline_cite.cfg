CONSTANTS
  a0 = a0
  a1 = a1
  a2 = a2
  march = march
  april = april
  may = may
  blank = blank
  bytes = bytes
  Artifact = {a1, a2}
  NoArtifact = NoArtifact
  Worker = {w1, w2}
  Text <- MCText
  NoText = NoText
  Blank = {blank}
  ContentHash <- MCContentHash
  Extracted <- MCFirstVaries
  ClassOf <- MCClassOf
  FactType <- MCFactType
  normalize <- MCNormalize
  NoTitle = NoTitle
  TitleOf <- MCTitleOf
  RuleMatches <- MCRuleMatches
  ModelAnswers <- MCModelAnswers
  IgnoreReasonerErrors = TRUE
  MaxAttempts = 2
  DuplicateLimit = 1
  MatchLimit = 1
  ConflictLimit = 1
  Faults <- SqlFault
  Flaky = {a1}
CHECK_DEADLOCK FALSE
SPECIFICATION Spec
SYMMETRY Symmetry
INVARIANTS
  RelationsCite
