SPECIFICATION Spec
CONSTANTS
  Callers = {"c1", "c2"}
  PathParams <- MCPathParams
  Capacity = 4
  OpParams <- MCOpParams
  Methods = {"GET", "PUT", "HEAD"}
  Unset = Unset
INVARIANTS TypeOK SeesItsParams KeepsItsParams
