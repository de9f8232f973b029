\* Lookups never panic or loop, and static routes are always found, for
\* every order of up to three registrations.
CONSTANTS
  Methods <- MCMethods
  Patterns <- MCPatterns
  MaxRoutes <- MCMaxRoutes
  MaxFindSteps <- MCMaxFindSteps
  ParamValues <- MCParamValues
  WildRests <- MCWildRests
SPECIFICATION Spec
INVARIANT FindTotal
INVARIANT StaticRoutesFound
\* Registration stops at MaxRoutes; the router is then only read.
CHECK_DEADLOCK FALSE
