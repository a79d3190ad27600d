SPECIFICATION Spec
CONSTANTS
  Schemas <- MCSchemas
  Schema <- MCSchema
  Accepted <- MCAccepted
  Names <- MCNames
  ItemName <- MCItemName
  None = "none"
  Tasks <- MCTasks
  MaxDepth = 2
INVARIANTS TypeOK WalkComplete WalkedOnce FindingsExact
CHECK_DEADLOCK FALSE
