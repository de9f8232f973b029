\* Two requests race on the shared node.fn field of the routing tree.
CONSTANTS
  r1 = r1
  r2 = r2
  Reqs <- MCReqs
  Routes <- MCDispatchRoutes
  Methods <- MCDispatchMethods
  Patterns = {}
  MaxRoutes = 3
  MaxFindSteps = 30
  ParamValues <- MCDispatchParamValues
  WildRests <- MCDispatchWildRests
SPECIFICATION Spec
INVARIANT DispatchIsolated
CHECK_DEADLOCK FALSE
