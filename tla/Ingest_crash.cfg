CONSTANTS
  Path = {p1}
  Types = {"pdf"}
  Providers = {"docling", "local"}
  ForceOCR = FALSE
  Content = {A, B}
  NoFile = NoFile
  Torn = Torn
  Undecodable = {B}
  MaxEdits = 0
  HandlerErrors <- NoError
  Echoes <- ToolsEcho
  JobId = {j1, j2}
  NoJob = NoJob
  NoKey = NoKey
  Worker = {w1}
  NoWorker = NoWorker
  Enqueuer = {e1}
  MaxAttempts <- MCTwoAttempts
  Faults <- StopFault
SPECIFICATION FairSpec
PROPERTIES
  FilesLeftAloneAreIngested
