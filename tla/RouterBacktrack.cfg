\* Router correctness over every literal expansion, the empty wildcard
\* remainder included: a wildcard's intermediate node holds a nil handler
\* for the method, and find stops there.
CONSTANTS
  Methods <- MCMethods
  Patterns <- MCPatterns
  MaxRoutes <- MCMaxRoutes
  MaxFindSteps <- MCMaxFindSteps
  ParamValues <- MCParamValues
  WildRests <- MCWildRests
SPECIFICATION Spec
INVARIANT RouterCorrect
\* Registration stops at MaxRoutes; the router is then only read.
CHECK_DEADLOCK FALSE
