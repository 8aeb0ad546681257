SPECIFICATION Spec
CONSTANTS
  Char = {"a", "b", "c", "*"}
  Key <- Keys
  Target <- Targets
  MaxRoutes = 3
  Star = "*"
INVARIANTS AnsweredByConfig RefusedIfBroken
