\* The lifecycle under fair goroutine scheduling and clients that close
\* their connections: every handled signal ends the process.
CONSTANTS
  c1 = c1
  c2 = c2
  w1 = w1
  kService = kService
  kNode = kNode
  kInfo = kInfo
  Conns <- MCConns
  Workers <- MCWorkers
  RegKeys <- MCRegKeys
  MaxSignals <- MCMaxSignals
SPECIFICATION FairSpec
INVARIANT TypeOK
PROPERTY SignalEndsProcess
 
\* The process ends (os.Exit or main returning); no step follows.
CHECK_DEADLOCK FALSE
