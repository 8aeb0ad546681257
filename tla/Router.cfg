SPECIFICATION Spec
CONSTANTS
  Text = {"/", "dump", "att", "entries", "1", "2", "?"}
  Var = {"{x}", "{y}"}
  Pattern <- Inner
  Url <- Urls
  Query <- Queries
  Method = {"get", "put", "post", "head"}
  Body = {"any", "dynamic"}
  MaxHandlers = 2
INVARIANTS TypeOK RunsForItsKey ParamsRebuildPath InstanceFound
