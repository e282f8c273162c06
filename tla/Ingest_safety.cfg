CONSTANTS
  Path = {p1}
  Types = {"pdf", "text"}
  Providers = {"docling", "local"}
  ForceOCR = FALSE
  Content = {A, B}
  NoFile = NoFile
  Torn = Torn
  Undecodable = {A, B}
  MaxEdits = 1
  HandlerErrors <- AnyError
  Echoes <- ToolsEcho
  JobId = {j1, j2}
  NoJob = NoJob
  NoKey = NoKey
  Worker = {w1, w2}
  NoWorker = NoWorker
  Enqueuer = {e1}
  MaxAttempts <- MCTwoAttempts
  Faults <- AnyFault
SPECIFICATION Spec
SYMMETRY Symmetry
INVARIANTS
  RawBytesFirst
  OneWorkerPerArtifact
  WatchRowMatchesJob
  EarlyDeathHasCause
PROPERTIES
  ImplementsArchive
