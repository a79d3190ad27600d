SPECIFICATION Spec
CHECK_DEADLOCK FALSE
CONSTANTS
  None = None
  Names <- MCNames
  SchemeOf <- MCSchemeOf
  OperationSecurities <- MCOperationSecurities
  DocumentSecurities <- MCDocumentSecurities
  Credentials <- MCCredentials
INVARIANTS TypeOK VerdictExact RefusalExplained CallsExact
