SPECIFICATION LookupSpec
CONSTANTS
  Params = {"{x}", "{y}", "{n}"}
  Composite = {"k{x}"}
  None = None
  Accepts <- MCAccepts
  Documents <- MCDocuments
  Paths <- MCDensePaths
  Verbs = {"GET", "POST", "HEAD"}
INVARIANTS LookupTypeOK TreeFindsMostLiteral TreeAgreesWithRegex RegexPrefersLiterals
