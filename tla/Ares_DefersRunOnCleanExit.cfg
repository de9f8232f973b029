\* Main returns from app.wg.Wait while shutdown is still draining, so the
\* process ends before the App.Defer functions run.
CONSTANTS
  c1 = c1
  c2 = c2
  w1 = w1
  kService = kService
  kNode = kNode
  kInfo = kInfo
  Conns <- MCConns
  Workers <- MCWorkers
  RegKeys <- MCRegKeys
  MaxSignals <- MCMaxSignals
SPECIFICATION Spec
INVARIANT DefersRunOnCleanExit
CHECK_DEADLOCK FALSE
