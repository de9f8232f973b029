CONSTANTS
  m1 = m1
  m2 = m2
  g1 = g1
  MWs <- MCMWs
  Kind <- MCKind
  Groups <- MCGroups
  MaxOps <- MCMaxOps
SPECIFICATION Spec
INVARIANT OnionOrder
INVARIANT ClientChainOnion
CHECK_DEADLOCK FALSE
