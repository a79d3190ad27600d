SPECIFICATION Spec
CONSTANTS
  None = None
  Empty = ""
  Null = "null"
  Contents <- MCContents
  Json = {"good", "bad", "null"}
  Accepted = {"good"}
  ToJson <- MCToJson
  Contracts <- MCContracts
  Codes = {"200", "204", "500"}
  RangeOf <- MCRangeOf
  Types <- MCTypes
  Stripped <- MCStripped
  JsonTypes = {"json", "json;v=1"}
  Convertible = {"xml", "form"}
  Headers = {"H", "I"}
  StrictMode = TRUE
INVARIANTS TypeOK ValidatedIsForwarded AcceptedConforms
PROPERTY VerdictStable
