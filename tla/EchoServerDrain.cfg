\* The Listener and GracefulStop against the Connection Tracker's contract:
\* GracefulStop returns while a connection AcceptTCP has handed over is not
\* yet counted by wg.Add(1).
CONSTANTS
  c1 = c1
  c2 = c2
  c3 = c3
  Conns <- MCConns
SPECIFICATION Spec
PROPERTY ImplementsConnTracker
CHECK_DEADLOCK FALSE
