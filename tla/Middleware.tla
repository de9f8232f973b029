----------------------------- MODULE Middleware -----------------------------
(***************************************************************************)
(* Middleware registration and chain building of the echo server          *)
(* (server/echo/server.go, group.go) and the client interceptor chains    *)
(* (client/chiwoo/chain.go), and what a request through a chain of the   *)
(* plugin links (plugin/logger, metric, ratelimit, recovery, breaker)     *)
(* returns to ServeHTTP.                                                   *)
(*                                                                         *)
(* Server.mws and Group.ms are Go slices: a backing array, a length and a *)
(* capacity. append(s, xs...) writes into s's array when the capacity     *)
(* allows and allocates a larger one otherwise, so two slices can share   *)
(* an array, and an append to one overwrites elements the other still     *)
(* uses. The backing arrays are the heap; a slice is [arr, len, cap].     *)
(* Server.add wraps the handler in the middlewares in reverse order and   *)
(* stores it in the router; the route keeps the middlewares it was given. *)
(***************************************************************************)
EXTENDS Integers, Sequences, SequencesExt

CONSTANTS
  MWs,            \* middleware values
  Kind,           \* Kind[m]: the plugin whose Func m is (LinkKinds)
  Groups,         \* groups that Server.Group may create
  MaxOps          \* bound on registration calls

(* "wrap": logger and metric, err = next(c), their code, return err;     *)
(* "limit": ratelimit with an empty bucket, return c.String(429, ...);      *)
(* "recovery": defer a recover that logs; return next(c);                  *)
(* "breaker": hystrix.Do(label, next, fallback); return nil.               *)
LinkKinds == {"wrap", "limit", "recovery", "breaker"}

ASSUME Kind \in [MWs -> LinkKinds]

(* An unset element of a backing array; the terminal handler (the route's  *)
(* HandlerFunc) and the event of its running; a group not yet created.    *)
Zero == "zero"
Terminal == [link |-> "T"]
TerminalRuns == <<"run", "T">>
NoGroup == [arr |-> 0, len |-> 0, cap |-> 0]

(* The variadic middleware lists of one call: none or one middleware.     *)
Args == {<<>>} \cup {<<m>> : m \in MWs}

VARIABLES
  heap,         \* heap[a]: backing array a, of its capacity's length
  mws,          \* Server.mws
  gms,          \* gms[g]: Group g's ms, or NoGroup before Server.Group
  routes,       \* registered routes: [h, ms, want]
  sLog,         \* the middlewares Use has added, in order
  gLog,         \* gLog[g]: the middlewares meant for group g
  ops           \* registration calls made

vars == <<heap, mws, gms, routes, sLog, gLog, ops>>

-----------------------------------------------------------------------------
(* growslice for small slices: double the capacity, or take the needed    *)
(* length if that is more; 16-byte interface elements fill the allocator's *)
(* size classes exactly, so no rounding up.                                *)
NewCap(c, need) == IF need > 2 * c THEN need ELSE 2 * c

(* append(s, xs...): in place if it fits, else a copy into a new array.   *)
GoAppend(h, s, xs) ==
  LET n == s.len + Len(xs) IN
  IF n <= s.cap
    THEN [heap |-> [h EXCEPT ![s.arr] =
                     [k \in 1 .. s.cap |->
                        IF k > s.len /\ k <= n THEN xs[k - s.len] ELSE @[k]]],
          slice |-> [s EXCEPT !.len = n]]
    ELSE LET c == NewCap(s.cap, n) IN
         [heap |-> Append(h, [k \in 1 .. c |->
                                IF k <= s.len THEN h[s.arr][k]
                                ELSE IF k <= n THEN xs[k - s.len] ELSE Zero]),
          slice |-> [arr |-> Len(h) + 1, len |-> n, cap |-> c]]

(* The elements a slice shows.                                             *)
Elems(h, s) == [k \in 1 .. s.len |-> h[s.arr][k]]

(* Mutant: the loop of Server.add run forwards.                            *)
RECURSIVE WrapForward(_, _, _)
WrapForward(h, ms, i) ==
  IF i > Len(ms) THEN h ELSE WrapForward([link |-> ms[i], next |-> h], ms, i + 1)

(* Server.add: for i := len(ms)-1 down to 0, h = ms[i].Func()(h).         *)
RECURSIVE Wrap(_, _, _)
Wrap(h, ms, i) ==
  IF i < 1 THEN h ELSE Wrap([link |-> ms[i], next |-> h], ms, i - 1)

(* Mutant: Server.add wrapping the first middleware first.                *)
BuildForward(h, ms) == WrapForward(h, ms, 1)

Build(h, ms) == Wrap(h, ms, Len(ms))

(* What a link returns when next returned r. "panic": a panic unwinding;   *)
(* "crash": a panic in hystrix's run goroutine, which nothing recovers and *)
(* which ends the process. Recovery's deferred function logs the panic    *)
(* but does not set the error it returns (c.Error(err) is commented out),  *)
(* so the request returns nil; Breaker returns nil whatever next did.      *)
LinkReturns(k, r) ==
  CASE r = "crash"   -> "crash"
    [] k = "wrap"     -> r
    [] k = "limit"    -> "ok"
    [] k = "recovery" -> IF r = "panic" THEN "ok" ELSE r
    [] k = "breaker"  -> IF r = "panic" THEN "crash" ELSE "ok"

(* A link's code after next runs unless a panic unwinds through it; the   *)
(* deferred function of Recovery runs in any case.                        *)
RunsPost(k, r) == r \in {"ok", "err"} \/ (k = "recovery" /\ r = "panic")

(* Calling a composed handler whose terminal handler ends with outcome o  *)
(* ("ok", "err" or "panic"): each link runs its code before next, calls   *)
(* next unless it short-circuits, and runs its code after. The result is  *)
(* the sequence of events and what the outermost link returns.            *)
RECURSIVE Invoke(_, _)
Invoke(h, o) ==
  IF h = Terminal THEN [ev |-> <<TerminalRuns>>, res |-> o]
  ELSE LET k == Kind[h.link]
           in == IF k = "limit" THEN [ev |-> <<>>, res |-> "ok"]
                 ELSE Invoke(h.next, o)
       IN [ev  |-> <<<<"pre", h.link>>>> \o in.ev
                   \o (IF RunsPost(k, in.res) THEN <<<<"post", h.link>>>> ELSE <<>>),
           res |-> LinkReturns(k, in.res)]

(* UnaryClientInterceptorChain (and the stream one, the same loop): at     *)
(* each call, chain = invoker, then for i from the last interceptor down  *)
(* to the first, chain = build(interceptors[i], chain).                    *)
RECURSIVE ClientBuild(_, _, _)
ClientBuild(chain, ics, i) ==
  IF i < 1 THEN chain
  ELSE ClientBuild([link |-> ics[i], next |-> chain], ics, i - 1)

(* Mutant: the loop starting one interceptor short of the last.           *)
UnaryClientChainSkipLast(ics) == ClientBuild(Terminal, ics, Len(ics) - 1)

UnaryClientInterceptorChain(ics) == ClientBuild(Terminal, ics, Len(ics))

-----------------------------------------------------------------------------
(* NewServer: mws is make([]Middleware, 0), an array of capacity 0.        *)
Init ==
  /\ heap = << <<>> >>
  /\ mws = [arr |-> 1, len |-> 0, cap |-> 0]
  /\ gms = [g \in Groups |-> NoGroup]
  /\ routes = <<>>
  /\ sLog = <<>>
  /\ gLog = [g \in Groups |-> <<>>]
  /\ ops = 0

(* Server.add with the given middleware slice: wrap, register the route.  *)
AddRoute(hp, s, want) ==
  [h |-> Build(Terminal, Elems(hp, s)), ms |-> Elems(hp, s), want |-> want]

(* Server.Use: s.mws = append(s.mws, ms...).                               *)
Use(ms) ==
  /\ ops < MaxOps
  /\ LET r == GoAppend(heap, mws, ms) IN
       /\ heap' = r.heap
       /\ mws' = r.slice
  /\ sLog' = sLog \o ms
  /\ ops' = ops + 1
  /\ UNCHANGED <<gms, routes, gLog>>

(* Server.Group: the group's ms is append(s.mws, ms...).                   *)
Group(g, ms) ==
  /\ ops < MaxOps
  /\ gms[g] = NoGroup
  /\ LET r == GoAppend(heap, mws, ms) IN
       /\ heap' = r.heap
       /\ gms' = [gms EXCEPT ![g] = r.slice]
  /\ gLog' = [gLog EXCEPT ![g] = sLog \o ms]
  /\ ops' = ops + 1
  /\ UNCHANGED <<mws, routes, sLog>>

(* Group.Use: g.ms = append(g.ms, ms...).                                  *)
GroupUse(g, ms) ==
  /\ ops < MaxOps
  /\ gms[g] # NoGroup
  /\ LET r == GoAppend(heap, gms[g], ms) IN
       /\ heap' = r.heap
       /\ gms' = [gms EXCEPT ![g] = r.slice]
  /\ gLog' = [gLog EXCEPT ![g] = @ \o ms]
  /\ ops' = ops + 1
  /\ UNCHANGED <<mws, routes, sLog>>

(* Server.GET, POST, PUT, HEAD, OPTIONS, PATCH, DELETE:                    *)
(* s.add(method, path, handler, append(s.mws, ms...)...).                  *)
Verb(ms) ==
  /\ ops < MaxOps
  /\ LET r == GoAppend(heap, mws, ms) IN
       /\ heap' = r.heap
       /\ routes' = Append(routes, AddRoute(r.heap, r.slice, sLog \o ms))
  /\ ops' = ops + 1
  /\ UNCHANGED <<mws, gms, sLog, gLog>>

(* Group.GET ... GRPCProxy: s.add(method, g.path+path, handler,            *)
(* append(g.ms, ms...)...); the trailing-slash trim only changes the path. *)
GroupVerb(g, ms) ==
  /\ ops < MaxOps
  /\ gms[g] # NoGroup
  /\ LET r == GoAppend(heap, gms[g], ms) IN
       /\ heap' = r.heap
       /\ routes' = Append(routes, AddRoute(r.heap, r.slice, gLog[g] \o ms))
  /\ ops' = ops + 1
  /\ UNCHANGED <<mws, gms, sLog, gLog>>

(* Server.Handle: four s.add calls (GET, PUT, POST, DELETE) with the       *)
(* caller's ms only; WS and GRPCProxy* are one such call each.             *)
Handle(ms) ==
  /\ ops < MaxOps
  /\ LET r == [h |-> Build(Terminal, ms), ms |-> ms, want |-> ms] IN
       routes' = routes \o <<r, r, r, r>>
  /\ ops' = ops + 1
  /\ UNCHANGED <<heap, mws, gms, sLog, gLog>>

(* Server.Static: s.add(GET, prefix+"/:path", ..., s.mws...).              *)
Static ==
  /\ ops < MaxOps
  /\ routes' = Append(routes, AddRoute(heap, mws, sLog))
  /\ ops' = ops + 1
  /\ UNCHANGED <<heap, mws, gms, sLog, gLog>>

Next ==
  \/ \E ms \in Args :
       \/ Use(ms) \/ Verb(ms) \/ Handle(ms)
       \/ \E g \in Groups : Group(g, ms) \/ GroupUse(g, ms) \/ GroupVerb(g, ms)
  \/ Static

Spec == Init /\ [][Next]_vars

-----------------------------------------------------------------------------
(* The events of one request through links ls and the terminal handler,   *)
(* as spec.md 4.2 states them: pre-logic in registration order up to the *)
(* first link that short-circuits, the terminal only if none does, then   *)
(* post-logic in reverse.                                                  *)
OnionEvents(ls) ==
  LET k == SelectInSeq(ls, LAMBDA m : Kind[m] = "limit")
      ran == IF k = 0 THEN ls ELSE SubSeq(ls, 1, k)
  IN [i \in 1 .. Len(ran) |-> <<"pre", ran[i]>>]
     \o (IF k = 0 THEN <<TerminalRuns>> ELSE <<>>)
     \o [i \in 1 .. Len(ran) |-> <<"post", ran[Len(ran) + 1 - i]>>]

(* Onion order (Server.add): every registered route runs the middlewares  *)
(* it was registered with, the first outermost.                            *)
OnionOrder == \A r \in ToSet(routes) : Invoke(r.h, "ok").ev = OnionEvents(r.ms)

(* The same law for the client interceptor chain (chiwoo chain.go), built *)
(* over each middleware list that registration has produced.              *)
ClientChainOnion ==
  \A r \in ToSet(routes) :
    Invoke(UnaryClientInterceptorChain(r.ms), "ok").ev = OnionEvents(r.ms)

(* Every route gets the middlewares its registration names: those Use had *)
(* added when Server.GET (or Group) was called, then the group's and the  *)
(* route's own; no later Use, Group or route registration changes them.   *)
RouteMiddlewares == \A r \in ToSet(routes) : r.ms = r.want

=============================================================================
