\* Server.mws shares its array with a Group, and a later append(s.mws, ...) overwrites the group's middleware.
CONSTANTS
  m1 = m1
  m2 = m2
  g1 = g1
  MWs <- MCMWs
  Kind <- MCKind
  Groups <- MCGroups
  MaxOps <- MCMaxOps
SPECIFICATION Spec
INVARIANT RouteMiddlewares
CHECK_DEADLOCK FALSE
