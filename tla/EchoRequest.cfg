\* Requests through recovery, ratelimit and breaker links: the serving
\* goroutines own their Contexts and every request is answered.
CONSTANTS
  r1 = r1
  r2 = r2
  c1 = c1
  c2 = c2
  Reqs <- MCReqs
  Ctxs <- MCCtxs
  Routes <- MCRoutes
  Encs <- MCEncs
  Codes <- MCCodes
  MaxCalls <- MCMaxCalls
  HandlerCalls <- MCHandlerCalls
SPECIFICATION FairSpec
PROPERTY RequestsFinish
\* Both requests are answered (or the process crashed); no step follows.
CHECK_DEADLOCK FALSE
