\* Requests, the watch goroutine and the send loop of the metric plugin.
CONSTANTS
  r1 = r1
  r2 = r2
  Reqs <- MCReqs
  RouteKey <- MCRouteKey
  Gauges <- MCGauges
  QueueCap <- MCQueueCap
  MaxTicks <- MCMaxTicks
SPECIFICATION Spec
INVARIANT SamplesAccounted
PROPERTY GatewayNeverStale
PROPERTY RequestsFinish
CHECK_DEADLOCK FALSE
