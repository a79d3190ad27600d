SPECIFICATION Spec
CONSTANTS
  Schemas <- MCSchemas
  Schema <- MCSchema
  None = None
  Conforms <- MCConforms
  Parses <- MCParses
  Int64 <- MCInt64
  Json <- MCJson
  Tasks <- MCTasks
  Names <- MCNames
  HeaderOf <- MCHeaderOf
INVARIANTS TypeOK RequiredSent AcceptedConforms OrderFree
CHECK_DEADLOCK FALSE
