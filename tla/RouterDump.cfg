SPECIFICATION Spec
CONSTANTS
  Text = {"/", "dump", "att", "entries", "1", "2", "?"}
  Var = {"{x}", "{y}"}
  Pattern <- Inner
  Url <- Urls
  Query <- Plain
  Method = {"get"}
  Body = {"dynamic"}
  MaxHandlers = 2
INVARIANTS HandlersRespond
