SPECIFICATION PreparationSpec
CONSTANTS
  Tasks <- MCTasks
  Values <- MCValues
  None = "none"
  Parses <- MCParses
  Denoted <- MCDenoted
INVARIANTS PreparationTypeOK PreparedExact
CHECK_DEADLOCK FALSE
