SPECIFICATION Spec
CONSTANTS
  None = None
  Empty = ""
  Contents <- MCContents
  Rest <- MCRest
  Json = {"good", "bad"}
  Accepted = {"good"}
  ToJson <- MCToJson
  Operations <- MCOperations
  MediaTypes <- MCMediaTypes
  JsonTypes <- MCJsonTypes
  Convertible <- MCConvertible
INVARIANTS TypeOK ValidatedIsForwarded NeverStale VerdictConforms
PROPERTY VerdictStable
