SPECIFICATION Spec
CHECK_DEADLOCK FALSE
CONSTANTS
  v1 = v1  v2 = v2  c1 = c1  c2 = c2
  legacy = legacy  defaults = defaults
  Absent = Absent  Failed = Failed  NoJob = NoJob
  Validators = {v1, v2}
  Callers = {c1, c2}
  Schemas = {legacy}
  Legacy = {legacy}
  Broken = {}
  OptionsOf <- MCOptions
  UsedSites = {"request", "response", "parameter", "document30", "document31", "strict"}
  Evicting = TRUE
SYMMETRY MCCallerSymmetry
INVARIANTS TypeOK BodiesTransparent EntriesFaithful
