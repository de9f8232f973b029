---------------------------- MODULE MetricPlugin ----------------------------
(***************************************************************************)
(* The metric plugin (plugin/metric): request goroutines record a sample  *)
(* per request in Metric.update under mu.Lock; the watch goroutine, every *)
(* tick, holds mu.RLock while it ranges over the histograms and for each  *)
(* one calls AddCollector once per gauge (a send on the pusher's metrics  *)
(* channel, of capacity MaxMetricNum) and then Clear; sendLoop receives    *)
(* from the channel and PUTs each gauge to the push gateway, dropping it   *)
(* on an error.                                                            *)
(*                                                                         *)
(* A histogram is its sample count; a gauge carries its key, its name, the *)
(* tick that collected it and, for "tps", the count (the percentiles are   *)
(* the same samples seen another way and carry no number here).            *)
(***************************************************************************)
EXTENDS Integers, Sequences, SequencesExt

CONSTANTS
  Reqs,         \* request goroutines, each through the metric link once
  RouteKey,     \* RouteKey[r]: nameFn(method + pattern path) of request r
  Gauges,       \* the gauges collect pushes per histogram, in order
  QueueCap,     \* capacity of the metrics channel (MaxMetricNum)
  MaxTicks      \* bound on ticks of watch's ticker

(* Echo's link updates the route's key, then "http".                       *)
Keys == {RouteKey[r] : r \in Reqs} \cup {"http"}

VARIABLES
  rpc,          \* rpc[r]: "upd1", "upd2" (the two updates) or "done"
  hist,         \* m.histograms: DOMAIN the keys created, value the count
  wpc,          \* watch: "start", "idle", "range", "send", "clear"
  wkeys,        \* the keys the current range has still to visit
  wk,           \* the key being collected
  wsent,        \* the number of wk's gauges sent
  wcount,       \* the count the "tps" gauge of wk read
  ticks,        \* ticks received
  queue,        \* the metrics channel
  spc,          \* spc[i]: sendLoop i, "off", "recv" or "push"
  held,         \* held[i]: the gauge sendLoop i received
  gateway,      \* gateway[job]: the last gauge the push gateway accepted
  updates,      \* updates[k]: samples recorded for k so far
  collected     \* collected[k]: samples of k pushed as "tps" and cleared

vars == <<rpc, hist, wpc, wkeys, wk, wsent, wcount, ticks, queue, spc,
          held, gateway, updates, collected>>

Jobs == Keys \X Range(Gauges)
NoGauge == [tick |-> 0, val |-> 0]
NoItem == [job |-> <<"http", "none">>, tick |-> 0, val |-> 0]

(* The states in which watch holds m.mu.RLock.                             *)
ReadLocked == {"range", "send", "clear"}

HistCount(k) == IF k \in DOMAIN hist THEN hist[k] ELSE 0

-----------------------------------------------------------------------------
(* Mutant: a pusher from NewPrometheusPusher, whose constructor already    *)
(* starts a send loop before Start starts another.                         *)
SendLoopsTwice == 2

(* The send loops the pusher has: watch's m.pusher.Start() starts one;     *)
(* PrometheusPusherWithAddr, the only way to set the pusher, starts none.  *)
SendLoops == 1

Loops == 1 .. 2

(* New: empty histograms, go m.watch().                                    *)
Init ==
  /\ rpc = [r \in Reqs |-> "upd1"]
  /\ hist = <<>>
  /\ wpc = "start"
  /\ wkeys = {}
  /\ wk = "http"
  /\ wsent = 0
  /\ wcount = 0
  /\ ticks = 0
  /\ queue = <<>>
  /\ spc = [i \in Loops |-> "off"]
  /\ held = [i \in Loops |-> NoItem]
  /\ gateway = [j \in Jobs |-> NoGauge]
  /\ updates = [k \in Keys |-> 0]
  /\ collected = [k \in Keys |-> 0]

(* The key request r updates at its current step.                          *)
UpdKey(r) == IF rpc[r] = "upd1" THEN RouteKey[r] ELSE "http"

(* The body of update: create the histogram if absent, Update it, set its *)
(* labels (which no property reads).                                       *)
Record(r) ==
  /\ rpc[r] \in {"upd1", "upd2"}
  /\ LET k == UpdKey(r) IN
       /\ hist' = [x \in DOMAIN hist \cup {k} |->
                     IF x = k THEN HistCount(k) + 1 ELSE hist[x]]
       /\ updates' = [updates EXCEPT ![k] = @ + 1]
  /\ rpc' = [rpc EXCEPT ![r] = IF @ = "upd1" THEN "upd2" ELSE "done"]
  /\ UNCHANGED <<wpc, wkeys, wk, wsent, wcount, ticks, queue, spc, held,
                 gateway, collected>>

(* Mutant: update without m.mu.Lock.                                       *)
UpdateUnlocked(r) == Record(r)

(* update: m.mu.Lock() waits while watch holds the read lock.              *)
Update(r) == wpc \notin ReadLocked /\ Record(r)

(* watch: m.pusher.Start() runs go m.sendLoop().                           *)
Start ==
  /\ wpc = "start"
  /\ wpc' = "idle"
  /\ spc' = [i \in Loops |-> IF i <= SendLoops THEN "recv" ELSE "off"]
  /\ UNCHANGED <<rpc, hist, wkeys, wk, wsent, wcount, ticks, queue, held,
                 gateway, updates, collected>>

(* A tick: m.mu.RLock() (no update holds the lock between steps), then    *)
(* range over m.histograms.                                                *)
Tick ==
  /\ wpc = "idle"
  /\ ticks < MaxTicks
  /\ ticks' = ticks + 1
  /\ wkeys' = DOMAIN hist
  /\ wpc' = "range"
  /\ UNCHANGED <<rpc, hist, wk, wsent, wcount, queue, spc, held, gateway,
                 updates, collected>>

(* The range visits the keys in no set order, then m.mu.RUnlock().         *)
RangeNext ==
  /\ wpc = "range"
  /\ IF wkeys = {}
       THEN /\ wpc' = "idle"
            /\ UNCHANGED <<wkeys, wk>>
       ELSE \E k \in wkeys :
              /\ wk' = k
              /\ wkeys' = wkeys \ {k}
              /\ wpc' = "send"
  /\ wsent' = 0
  /\ UNCHANGED <<rpc, hist, wcount, ticks, queue, spc, held, gateway,
                 updates, collected>>

(* The gauge collect sends next for wk, valued from the histogram now.     *)
NextGauge ==
  LET g == Gauges[wsent + 1] IN
  [job |-> <<wk, g>>, tick |-> ticks,
   val |-> IF g = "tps" THEN hist[wk] ELSE 0]

(* collect's AddCollector for one gauge: m.metrics <- ..., which blocks    *)
(* while the channel is full.                                              *)
AddCollector ==
  /\ wpc = "send"
  /\ Len(queue) < QueueCap
  /\ queue' = Append(queue, NextGauge)
  /\ wcount' = IF Gauges[wsent + 1] = "tps" THEN hist[wk] ELSE wcount
  /\ wsent' = wsent + 1
  /\ wpc' = IF wsent + 1 = Len(Gauges) THEN "clear" ELSE "send"
  /\ UNCHANGED <<rpc, hist, wkeys, wk, ticks, spc, held, gateway, updates,
                 collected>>

(* collect: histogram.Clear().                                             *)
ClearHist ==
  /\ wpc = "clear"
  /\ hist' = [hist EXCEPT ![wk] = 0]
  /\ collected' = [collected EXCEPT ![wk] = @ + wcount]
  /\ wpc' = "range"
  /\ UNCHANGED <<rpc, wkeys, wk, wsent, wcount, ticks, queue, spc, held,
                 gateway, updates>>

(* sendLoop: for c := range m.metrics.                                     *)
Recv(i) ==
  /\ spc[i] = "recv"
  /\ queue # <<>>
  /\ spc' = [spc EXCEPT ![i] = "push"]
  /\ held' = [held EXCEPT ![i] = Head(queue)]
  /\ queue' = Tail(queue)
  /\ UNCHANGED <<rpc, hist, wpc, wkeys, wk, wsent, wcount, ticks, gateway,
                 updates, collected>>

(* Mutant: sendLoop returning on the first failed PUT.                     *)
PushStopsOnError(i) ==
  /\ spc[i] = "push"
  /\ \/ /\ gateway' = [gateway EXCEPT ![held[i].job] =
                         [tick |-> held[i].tick, val |-> held[i].val]]
        /\ spc' = [spc EXCEPT ![i] = "recv"]
     \/ /\ spc' = [spc EXCEPT ![i] = "off"]
        /\ UNCHANGED gateway
  /\ UNCHANGED <<rpc, hist, wpc, wkeys, wk, wsent, wcount, ticks, queue,
                 held, updates, collected>>

(* sendToAgent: the PUT replaces the job's gauge at the gateway, or fails *)
(* (an error, a status other than 202) and the gauge is logged and lost.  *)
Push(i) ==
  /\ spc[i] = "push"
  /\ \/ gateway' = [gateway EXCEPT ![held[i].job] =
                      [tick |-> held[i].tick, val |-> held[i].val]]
     \/ UNCHANGED gateway
  /\ spc' = [spc EXCEPT ![i] = "recv"]
  /\ UNCHANGED <<rpc, hist, wpc, wkeys, wk, wsent, wcount, ticks, queue,
                 held, updates, collected>>

Next ==
  \/ \E r \in Reqs : Update(r)
  \/ Start \/ Tick \/ RangeNext \/ AddCollector \/ ClearHist
  \/ \E i \in Loops : Recv(i) \/ Push(i)

(* The Go runtime schedules every goroutine; sync.Mutex hands the lock to *)
(* a waiter that has starved; the ticker keeps ticking; the gateway        *)
(* answers every PUT (http.DefaultClient has no timeout, so this is an    *)
(* assumption about the agent).                                            *)
Fairness ==
  /\ \A r \in Reqs : WF_vars(Update(r))
  /\ WF_vars(Start) /\ WF_vars(Tick) /\ WF_vars(RangeNext)
  /\ WF_vars(AddCollector) /\ WF_vars(ClearHist)
  /\ \A i \in Loops : WF_vars(Recv(i)) /\ WF_vars(Push(i))

Spec == Init /\ [][Next]_vars /\ Fairness

-----------------------------------------------------------------------------
(* No sample is lost between update and the gateway's tps: every sample   *)
(* recorded for a key is still in its histogram or was counted in a "tps" *)
(* gauge before collect cleared the histogram (the read lock watch holds  *)
(* from the count to Clear keeps update out).                              *)
SamplesAccounted == \A k \in Keys : updates[k] = HistCount(k) + collected[k]

(* The push gateway never goes back to an older gauge of a job: a PUT     *)
(* never replaces a gauge collected at a later tick (one send loop takes   *)
(* the channel in order).                                                  *)
GatewayNeverStale ==
  [][\A j \in Jobs : gateway'[j].tick >= gateway[j].tick]_vars

(* Every request through the metric link returns: watch, blocked on a full *)
(* channel while it holds the read lock, is released by the send loop.    *)
RequestsFinish == \A r \in Reqs : <>(rpc[r] = "done")

=============================================================================
