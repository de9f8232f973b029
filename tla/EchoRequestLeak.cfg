\* A handler the breaker timed out writes through c.Response() after the pool
\* has handed c to the next request, whose client receives what it wrote.
CONSTANTS
  r1 = r1
  r2 = r2
  c1 = c1
  c2 = c2
  Reqs <- MCReqs
  Ctxs <- MCCtxs
  Routes <- MCRoutes
  Encs <- MCEncs
  Codes <- MCCodes
  MaxCalls <- MCMaxCalls
  HandlerCalls <- MCHandlerCalls
SPECIFICATION Spec
INVARIANT ResponsesIsolated
\* Both requests are answered (or the process crashed); no step follows.
CHECK_DEADLOCK FALSE
