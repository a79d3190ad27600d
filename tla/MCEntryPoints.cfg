SPECIFICATION BothSpec
CONSTANTS
  ParamValidators = {"cookie", "header", "query"}
  Main = "main"
  Collector = "collector"
  Params = "params"
  Listener = "listener"
  Body = "body"
  Router = "router"
  Response = "response"
  e1 = e1  e2 = e2  e3 = e3  e4 = e4  e5 = e5  e6 = e6  e7 = e7  e8 = e8  e9 = e9
  ErrorsOf <- MCErrorsOf
  Key <- MCKey
  Order <- MCOrder
INVARIANTS TypeOK JoinExact NoGoroutineLeft EntriesAgree
PROPERTIES NoWriteAfterHandover Terminates RefinesRequestValidation
