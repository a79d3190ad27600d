SPECIFICATION Spec
CHECK_DEADLOCK FALSE
CONSTANTS
  v1 = v1  v2 = v2  c1 = c1  c2 = c2
  legacy = legacy  defaults = defaults
  Absent = Absent  Failed = Failed  NoJob = NoJob
  Validators = {v1}
  Callers = {c1}
  Schemas = {legacy}
  Legacy = {legacy}
  Broken = {}
  OptionsOf <- MCOptions
  UsedSites = {"parameter"}
  Evicting = FALSE
INVARIANT ParametersTransparent
