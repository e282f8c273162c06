CONSTANTS
  Path = {p1}
  Types = {"pdf", "text", "other"}
  Providers = {"docling", "local"}
  ForceOCR = FALSE
  Content = {A, B}
  NoFile = NoFile
  Torn = Torn
  Undecodable = {B}
  MaxEdits = 1
  HandlerErrors <- NoError
  Echoes <- ToolsEcho
  JobId = {j1, j2}
  NoJob = NoJob
  NoKey = NoKey
  Worker = {w1, w2}
  NoWorker = NoWorker
  Enqueuer = {e1}
  MaxAttempts <- MCThreeAttempts
  Faults <- NoFault
SPECIFICATION FairSpec
PROPERTIES
  FilesLeftAloneAreIngested
  EveryJobSettles
