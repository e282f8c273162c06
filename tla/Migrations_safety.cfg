CONSTANTS
  Process = {p1, p2}
  NoProcess = NoProcess
  Release = {2, 3}
  Repeatable = {2}
  MaxFaults = 2
SPECIFICATION FairSpec
INVARIANTS
  InOrderAndOnce
  ServesWhatItNeeds
PROPERTIES
  AllServe
CHECK_DEADLOCK FALSE
