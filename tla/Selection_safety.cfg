CONSTANTS
  Profile <- MCProfile
  Lengths = {0, 2, 5, 8, 9}
  Day = {1, 2}
  MaxRows = 3
  Limit = 2
  Budget = 9
  CandidateCharLimit = 8
  Least = 4
  Mark = 2
  Note = 1
  MaxBlanks = 1
  Substantial = 3
CHECK_DEADLOCK FALSE
SPECIFICATION SelectSpec
INVARIANTS
  WithinBudget
  BestAreChosen
  AllChosenWhenTheyFit
