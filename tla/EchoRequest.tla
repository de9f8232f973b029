---------------------------- MODULE EchoRequest ----------------------------
(***************************************************************************)
(* Requests through Server.ServeHTTP (server/echo/server.go): a Context   *)
(* from s.pool, reset with a new Response, the route's links around the   *)
(* handler, errHandler when the chain returns an error, Response.Flush,   *)
(* and the deferred pool.Put. The links that change the control or the    *)
(* response are modelled: recovery, ratelimit and breaker (hystrix.Do,    *)
(* whose run function is a goroutine of its own, with a timeout). The      *)
(* handler makes Context calls: deferred writers (String, JSON, XML, HTML  *)
(* set status, data and encoder for Flush), WriteHeader callers (Status,   *)
(* NoContent) and direct writers (JSONBlob). The client's side is the     *)
(* http.ResponseWriter: the first WriteHeader wins, a Write before it      *)
(* sends 200, nothing reaches a response whose ServeHTTP has returned.     *)
(***************************************************************************)
EXTENDS Integers, Sequences, FiniteSets

CONSTANTS
  Reqs,         \* concurrent requests, each on its own connection
  Ctxs,         \* the Context objects s.pool hands out (Get or New)
  Routes,       \* the routes' link chains, outermost link first
  Encs,         \* body encodings of the handler's writers
  Codes,        \* status codes the handler passes
  HandlerCalls, \* HandlerCalls[ch]: the kinds of Context call the handler of
                \* a route with links ch makes
  MaxCalls      \* bound on the Context calls of one handler

ASSUME \A ch \in Routes : Cardinality({i \in DOMAIN ch : ch[i] = "breaker"}) <= 1

VARIABLES
  th,           \* th[<<r, g>>]: goroutine g ("serve" or "run") of request r
  ctxOf,        \* the Context request r's goroutines use
  route,        \* route[r]: the links of the route r matched
  pool,         \* the Contexts in s.pool
  resp,         \* resp[c]: the Response c.response points to
  hdr,          \* hdr[w]: the Content-Type in ResponseWriter w's header map
  wire,         \* wire[w]: what ResponseWriter w has sent to its client
  calls,        \* Context calls request r's handler has made
  crashed       \* a panic no recover caught ended the process

vars == <<th, ctxOf, route, pool, resp, hdr, wire, calls, crashed>>

H(r) == Len(route[r]) + 1    \* the depth of r's handler
HasBreaker(r) == \E i \in DOMAIN route[r] : route[r][i] = "breaker"
Threads == Reqs \X {"serve", "run"}
Serve(r) == <<r, "serve">>
Run(r) == <<r, "run">>
Results == {"ok", "err", "panic"}
NoReq == "none"
ErrStatus == {401, 404, 429, 500}

(* A new Response (newResponse): status 200, not committed, no encoder.  *)
NewResponse(w) ==
  [w |-> w, status |-> 200, committed |-> FALSE, enc |-> "none", from |-> NoReq]

NoWire == [status |-> 0, ctype |-> "none", by |-> NoReq, body |-> <<>>]

(* ServeHTTP of w has returned: the ResponseWriter is finished.           *)
Finished(w) == th[Serve(w)].pc = "done"

(* http.ResponseWriter.WriteHeader: the first call sends the status line  *)
(* and the header map; later calls are superfluous and ignored.           *)
SendHeader(wr, code, ct, src) ==
  IF wr.status = 0
    THEN [wr EXCEPT !.status = code, !.ctype = ct, !.by = src]
    ELSE wr

(* http.ResponseWriter.Write: an implicit WriteHeader(200), then the body. *)
SendBody(wr, e, ct, src) ==
  [SendHeader(wr, 200, ct, src) EXCEPT !.body = Append(@, [enc |-> e, from |-> src])]

(* The wire of w after f, or unchanged when w is finished.               *)
OnWire(w, f) == IF Finished(w) THEN wire ELSE [wire EXCEPT ![w] = f]

-----------------------------------------------------------------------------
(* Response.WriteHeader(code) on c's Response by a goroutine of src:      *)
(* r.status = code; r.ResponseWriter.WriteHeader(code); r.commited = true. *)
WriteHeader(c, code, src) ==
  LET w == resp[c].w IN
  /\ resp' = [resp EXCEPT ![c].status = code, ![c].committed = TRUE]
  /\ wire' = OnWire(w, SendHeader(wire[w], code, hdr[w], src))
  /\ UNCHANGED hdr

(* The deferred writers (String, JSON, XML, HTML): the Content-Type if     *)
(* none is set yet, then SetStatus, SetData, SetEncoder.                   *)
SetResponse(c, e, code, src) ==
  LET w == resp[c].w IN
  /\ hdr' = [hdr EXCEPT ![w] = IF @ = "none" THEN e ELSE @]
  /\ resp' = [resp EXCEPT ![c].status = code, ![c].enc = e, ![c].from = src]
  /\ UNCHANGED wire

(* JSONBlob: the Content-Type if none is set, WriteHeader(code), then     *)
(* c.response.Write(bs), which is the ResponseWriter's own Write.          *)
WriteBlob(c, e, code, src) ==
  LET w == resp[c].w
      ct == IF hdr[w] = "none" THEN e ELSE hdr[w]
  IN
  /\ hdr' = [hdr EXCEPT ![w] = ct]
  /\ resp' = [resp EXCEPT ![c].status = code, ![c].committed = TRUE]
  /\ wire' = OnWire(w, SendBody(SendHeader(wire[w], code, ct, src), e, ct, src))

(* Response.Flush: WriteHeader(r.status) unless committed, then the       *)
(* encoder writes r.data.                                                  *)
FlushResponse(c) ==
  LET rs == resp[c]
      w == rs.w
      hd == IF rs.committed THEN wire[w]
            ELSE SendHeader(wire[w], rs.status, hdr[w], rs.from)
  IN
  wire' = OnWire(w, IF rs.enc = "none" THEN hd
                    ELSE SendBody(hd, rs.enc, hdr[w], rs.from))

(* The Content-Type of w after a "set it if none is set" for e.           *)
CType(w, e) == IF hdr[w] = "none" THEN e ELSE hdr[w]

(* ProtoJSON (and ProtoError, which calls it): Header().Set(Content-Type) *)
(* whatever was set before, WriteHeader(code), then the marshalled body is *)
(* written.                                                                *)
WriteForced(c, e, code, src) ==
  LET w == resp[c].w IN
  /\ hdr' = [hdr EXCEPT ![w] = e]
  /\ resp' = [resp EXCEPT ![c].status = code, ![c].committed = TRUE]
  /\ wire' = OnWire(w, SendBody(SendHeader(wire[w], code, e, src), e, e, src))

(* Attachment: the Content-Type by the name's extension, WriteHeader(200), *)
(* io.Copy of the content.                                                 *)
Attachment(c, e, src) == WriteForced(c, e, 200, src)

(* Redirect: a code outside 300..307 returns ErrInvalidRedirectCode and    *)
(* writes nothing (no step); otherwise Location is set, WriteHeader(code). *)
Redirect(c, code, src) ==
  /\ code \in 300 .. 307
  /\ WriteHeader(c, code, src)

(* ServeContent (and File, once the file is open): a request whose        *)
(* If-Modified-Since is not older than the content gets Content-Type and   *)
(* Content-Length deleted and NoContent(304); otherwise the Content-Type   *)
(* is set by extension, WriteHeader(200) and the content is copied.        *)
ServeContent(c, e, src) ==
  LET w == resp[c].w IN
  \/ /\ hdr' = [hdr EXCEPT ![w] = "none"]
     /\ resp' = [resp EXCEPT ![c].status = 304, ![c].committed = TRUE]
     /\ wire' = OnWire(w, SendHeader(wire[w], 304, "none", src))
  \/ WriteForced(c, e, 200, src)

(* defaultGRPCProxyWrapper's handler: a Bind failure is ProtoError(400); *)
(* a failed Invoke, a result that is not two values, a second value that *)
(* is not an error, or an invalid response is ProtoError(500); the proxied *)
(* function's own error is ProtoError(200, e); otherwise ProtoJSON(200).   *)
(* Every exit is one ProtoJSON.                                            *)
GRPCProxy(c, e, src) == \E code \in {200, 400, 500} : WriteForced(c, e, code, src)

(* defaultWSWrapper: websocket's ServeHTTP on c.Response().ResponseWriter  *)
(* hijacks the connection and writes the handshake's status line, 101 or  *)
(* 400, on it. The Response is not marked committed and Flush's later      *)
(* WriteHeader is lost on the hijacked connection.                         *)
WebSocket(c, src) ==
  LET w == resp[c].w IN
  /\ \E code \in {101, 400} : wire' = OnWire(w, SendHeader(wire[w], code, hdr[w], src))
  /\ UNCHANGED <<resp, hdr>>

(* The renderers of render.go that a caller can pass to Context.Render    *)
(* (stringRender is unexported and its callers are commented out).        *)
RenderKinds == {"json", "xml", "msgpack", "protobuf", "template"}

(* Context.Render(code, r) with a renderer of kind k writing a body of    *)
(* encoding e, the Content-Type being ct: json, xml and msgpack call       *)
(* WriteHeader(code) and then encode into the Response; protobuf only      *)
(* calls WriteHeader; the template sets text/html, calls WriteHeader and   *)
(* executes into the Response.                                             *)
Render(c, k, e, ct, code, src) ==
  LET w == resp[c].w
      h == IF k = "template" THEN "html" ELSE ct
  IN
  /\ hdr' = [hdr EXCEPT ![w] = h]
  /\ resp' = [resp EXCEPT ![c].status = code, ![c].committed = TRUE]
  /\ wire' = OnWire(w, CASE k = "protobuf" -> SendHeader(wire[w], code, h, src)
                         [] OTHER -> SendBody(SendHeader(wire[w], code, h, src), e, h, src))

(* MsgPack and Protobuf: the Content-Type if none is set, then Render.     *)
RenderTyped(c, k, e, code, src) == Render(c, k, e, CType(resp[c].w, e), code, src)

-----------------------------------------------------------------------------
Init ==
  /\ th = [t \in Threads |-> [pc |-> IF t[2] = "serve" THEN "start" ELSE "idle",
                               d |-> 0, res |-> "ok"]]
  /\ ctxOf = [r \in Reqs |-> NoReq]
  /\ route = [r \in Reqs |-> <<>>]
  /\ pool = Ctxs
  /\ resp = [c \in Ctxs |-> NewResponse(NoReq)]
  /\ hdr = [w \in Reqs |-> "none"]
  /\ wire = [w \in Reqs |-> NoWire]
  /\ calls = [r \in Reqs |-> 0]
  /\ crashed = FALSE

(* c.reset: c.response = newResponse(w).                                   *)
ResetResponse(c, r) == NewResponse(r)

(* ServeHTTP: s.pool.Get(), c.reset, s.router.find. A route runs its      *)
(* chain; no route runs notFoundHandler, c.String(404, ...), and returns.  *)
Start(r) ==
  /\ ~crashed /\ th[Serve(r)].pc = "start"
  /\ \E c \in pool, found \in BOOLEAN, ch \in Routes :
       /\ pool' = pool \ {c}
       /\ ctxOf' = [ctxOf EXCEPT ![r] = c]
       /\ IF found
            THEN /\ resp' = [resp EXCEPT ![c] = ResetResponse(c, r)]
                 /\ route' = [route EXCEPT ![r] = ch]
                 /\ th' = [th EXCEPT ![Serve(r)] = [pc |-> "in", d |-> 1, res |-> "ok"]]
                 /\ UNCHANGED hdr
            ELSE /\ resp' = [resp EXCEPT ![c] = [ResetResponse(c, r) EXCEPT
                                !.status = 404, !.enc = "text", !.from = r]]
                 /\ hdr' = [hdr EXCEPT ![r] = IF @ = "none" THEN "text" ELSE @]
                 /\ th' = [th EXCEPT ![Serve(r)].pc = "flush"]
                 /\ UNCHANGED route
  /\ UNCHANGED <<wire, calls, crashed>>

(* Leaving link d (or the handler) with result x.                         *)
Out(t, d, x) == [th EXCEPT ![t] = [pc |-> "out", d |-> d, res |-> x]]

(* Entering link d of the serving goroutine t. recovery defers its       *)
(* recover and calls next.                                                 *)
RecoveryIn(t) ==
  /\ th' = [th EXCEPT ![t].d = @ + 1]
  /\ UNCHANGED <<resp, hdr, wire>>

(* A guard link either calls next or answers without it. What it can do: *)
(* "next"; "string429", c.String(429, ...), a deferred write, then nil;   *)
(* "status401", c.Status(401), a WriteHeader, then nil; "nil", a return   *)
(* of nil that writes only header fields; "error", an error returned to   *)
(* the links outside and to errHandler.                                   *)
GuardActs == {"next", "string429", "status401", "nil", "error"}

(* plugin/ratelimit: TakeMaxDuration finds no token in time.               *)
RateLimit == {"next", "string429"}

(* mw.Throttle: the same token bucket check.                               *)
Throttle == {"next", "string429"}

(* mw.Auth: the user's check fails and the link calls c.Status(401).      *)
Auth == {"next", "status401"}

(* mw.BasicAuth: next, always.                                             *)
BasicAuth == {"next"}

(* mw.PMS: IsPermit fails and the link returns UnPermitted(c), user code   *)
(* returning nil or an error (what it writes is not modelled).            *)
PMS == {"next", "nil", "error"}

(* mw.JWT: no token (an HTTPError 400), or an invalid one (ErrUnauthorized). *)
JWT == {"next", "error"}

(* mw.CSRF: an unsafe method whose token is missing or does not match.    *)
CSRF == {"next", "error"}

(* mw.CORS: a preflight OPTIONS request is answered with header fields.   *)
CORS == {"next", "nil"}

(* mw.Secure: header fields, then next.                                    *)
Secure == {"next"}

(* mw.GZip: gzip.NewWriterLevel fails on an invalid level.                 *)
GZip == {"next", "error"}

(* mw.Session: a Session value stored in the Context, then next.           *)
Session == {"next"}

(* mw.Base: next, always.                                                  *)
Base == {"next"}

(* The guard links by the names routes use.                                 *)
Guards == [n \in {"ratelimit", "throttle", "auth", "basicauth", "pms", "jwt",
                  "csrf", "cors", "secure", "gzip", "session", "base"} |->
             CASE n = "ratelimit" -> RateLimit [] n = "throttle" -> Throttle
               [] n = "auth" -> Auth           [] n = "basicauth" -> BasicAuth
               [] n = "pms" -> PMS             [] n = "jwt" -> JWT
               [] n = "csrf" -> CSRF           [] n = "cors" -> CORS
               [] n = "secure" -> Secure       [] n = "gzip" -> GZip
               [] n = "session" -> Session     [] n = "base" -> Base]

ASSUME /\ \A n \in DOMAIN Guards : Guards[n] \subseteq GuardActs
       /\ \A ch \in Routes : \A i \in DOMAIN ch :
            ch[i] \in {"recovery", "breaker"} \cup DOMAIN Guards

(* Entering guard link d with the acts acts.                               *)
GuardIn(t, acts) ==
  LET c == ctxOf[t[1]]  d == th[t].d IN
  \/ "next" \in acts /\ th' = [th EXCEPT ![t].d = @ + 1] /\ UNCHANGED <<resp, hdr, wire>>
  \/ "string429" \in acts /\ SetResponse(c, "text", 429, t[1]) /\ th' = Out(t, d - 1, "ok")
  \/ "status401" \in acts /\ WriteHeader(c, 401, t[1]) /\ th' = Out(t, d - 1, "ok")
  \/ "nil" \in acts /\ th' = Out(t, d - 1, "ok") /\ UNCHANGED <<resp, hdr, wire>>
  \/ "error" \in acts /\ th' = Out(t, d - 1, "err") /\ UNCHANGED <<resp, hdr, wire>>

(* Mutant: the breaker calling next(c) on the serving goroutine, with no  *)
(* run goroutine and so no timeout.                                        *)
BreakerInInline(t) ==
  \/ WriteHeader(ctxOf[t[1]], 429, t[1]) /\ th' = Out(t, th[t].d - 1, "ok")
  \/ th' = [th EXCEPT ![t].d = @ + 1] /\ UNCHANGED <<resp, hdr, wire>>

(* breaker: hystrix.Do. An open circuit or a full concurrency pool runs   *)
(* the fallback, c.Status(429), and the link returns nil; otherwise next   *)
(* runs on a goroutine of its own and the serving one waits.               *)
BreakerIn(t) ==
  \/ WriteHeader(ctxOf[t[1]], 429, t[1]) /\ th' = Out(t, th[t].d - 1, "ok")
  \/ /\ th' = [th EXCEPT ![t].pc = "wait",
                         ![Run(t[1])] = [pc |-> "in", d |-> th[t].d + 1, res |-> "ok"]]
     /\ UNCHANGED <<resp, hdr, wire>>

LinkIn(t) ==
  /\ ~crashed /\ th[t].pc = "in" /\ th[t].d < H(t[1])
  /\ CASE route[t[1]][th[t].d] = "recovery" -> RecoveryIn(t)
       [] route[t[1]][th[t].d] = "breaker"  -> BreakerIn(t)
       [] OTHER -> GuardIn(t, Guards[route[t[1]][th[t].d]])
  /\ UNCHANGED <<ctxOf, route, pool, calls, crashed>>

(* Returning through link d: recovery turns a panic into nil (its result  *)
(* is not named, so the recovered error is lost); a guard passes next's   *)
(* result on.                                                              *)
LinkOut(t) ==
  LET d == th[t].d  x == th[t].res  ch == route[t[1]] IN
  /\ ~crashed /\ th[t].pc = "out" /\ d >= 1 /\ ch[d] # "breaker"
  /\ th' = Out(t, d - 1, IF ch[d] = "recovery" /\ x = "panic" THEN "ok" ELSE x)
  /\ UNCHANGED <<ctxOf, route, pool, resp, hdr, wire, calls, crashed>>

(* The Context calls a handler can make, by what they do to the Response: *)
(* "deferred" String, Stringf, JSON, XML, HTML; "status" Status and       *)
(* NoContent; "blob" JSONBlob; "proto" ProtoJSON and ProtoError;          *)
(* "attachment"; "redirect"; "serve" File and ServeContent; "render"      *)
(* Render with one of render.go's renderers; "typed" MsgPack, Protobuf;   *)
(* and the handlers the server builds: "grpcproxy" GRPCProxy's, "ws" WS's. *)
CallKinds == {"deferred", "status", "blob", "proto", "attachment", "redirect",
              "serve", "render", "typed", "grpcproxy", "ws"}

ASSUME HandlerCalls \in [Routes -> SUBSET CallKinds]

(* The handler, on whichever goroutine reached it, makes a Context call   *)
(* on c.Response(), read anew at every call.                               *)
Call(t) ==
  LET r == t[1]  c == ctxOf[r] IN
  /\ ~crashed /\ th[t].pc = "in" /\ th[t].d = H(r)
  /\ calls[r] < MaxCalls
  /\ \E k \in HandlerCalls[route[r]], e \in Encs, code \in Codes :
       \/ k = "deferred" /\ SetResponse(c, e, code, r)
       \/ k = "status" /\ WriteHeader(c, code, r)
       \/ k = "blob" /\ WriteBlob(c, e, code, r)
       \/ k = "proto" /\ WriteForced(c, e, code, r)
       \/ k = "attachment" /\ Attachment(c, e, r)
       \/ k = "redirect" /\ \E rc \in Codes \cup {302} : Redirect(c, rc, r)
       \/ k = "serve" /\ ServeContent(c, e, r)
       \/ k = "render" /\ \E rk \in RenderKinds : Render(c, rk, e, hdr[resp[c].w], code, r)
       \/ k = "typed" /\ \E rk \in {"msgpack", "protobuf"} : RenderTyped(c, rk, e, code, r)
       \/ k = "grpcproxy" /\ GRPCProxy(c, e, r)
       \/ k = "ws" /\ WebSocket(c, r)
  /\ calls' = [calls EXCEPT ![r] = @ + 1]
  /\ UNCHANGED <<th, ctxOf, route, pool, crashed>>

(* The handler returns nil or an error, or panics.                         *)
Return(t) ==
  /\ ~crashed /\ th[t].pc = "in" /\ th[t].d = H(t[1])
  /\ \E x \in Results : th' = Out(t, H(t[1]) - 1, x)
  /\ UNCHANGED <<ctxOf, route, pool, resp, hdr, wire, calls, crashed>>

(* The run goroutine returns from next into hystrix. A panic is not       *)
(* recovered there and ends the process. If Do is still waiting, an error *)
(* runs the fallback, c.Status(429); Do returns and the breaker returns   *)
(* nil. After a timeout the result is dropped.                             *)
RunReturns(r) ==
  LET t == Run(r)  d == th[t].d  x == th[t].res  s == th[Serve(r)] IN
  /\ ~crashed /\ th[t].pc = "out" /\ d >= 1 /\ route[r][d] = "breaker"
  /\ IF x = "panic"
       THEN crashed' = TRUE /\ UNCHANGED <<th, resp, hdr, wire>>
       ELSE /\ crashed' = FALSE
            /\ IF s.pc = "wait" /\ x = "err"
                 THEN WriteHeader(ctxOf[r], 429, r)
                 ELSE UNCHANGED <<resp, hdr, wire>>
            /\ th' = [th EXCEPT ![t].pc = "gone",
                                ![Serve(r)] = IF s.pc = "wait"
                                                THEN [pc |-> "out", d |-> d - 1, res |-> "ok"]
                                                ELSE s]
  /\ UNCHANGED <<ctxOf, route, pool, calls>>

(* hystrix's timeout fires while next is still running: the fallback,     *)
(* c.Status(429), and Do returns; the run goroutine goes on with c.       *)
Timeout(r) ==
  LET s == th[Serve(r)] IN
  /\ ~crashed /\ s.pc = "wait"
  /\ WriteHeader(ctxOf[r], 429, r)
  /\ th' = [th EXCEPT ![Serve(r)] = [pc |-> "out", d |-> s.d - 1, res |-> "ok"]]
  /\ UNCHANGED <<ctxOf, route, pool, calls, crashed>>

(* The chain returns to ServeHTTP. An error runs errHandler,              *)
(* c.String(500, ...). A panic leaves ServeHTTP (the deferred Put runs)    *)
(* and net/http's connection goroutine recovers it and closes the         *)
(* connection.                                                             *)
ChainReturn(r) ==
  LET x == th[Serve(r)].res  c == ctxOf[r] IN
  /\ ~crashed /\ th[Serve(r)].pc = "out" /\ th[Serve(r)].d = 0
  /\ pool' = IF x = "panic" THEN pool \cup {c} ELSE pool
  /\ IF x = "err" THEN SetResponse(c, "text", 500, r) ELSE UNCHANGED <<resp, hdr, wire>>
  /\ th' = [th EXCEPT ![Serve(r)].pc = IF x = "panic" THEN "done" ELSE "flush"]
  /\ UNCHANGED <<ctxOf, route, calls, crashed>>

(* c.Response().Flush(), then the deferred s.pool.Put(c); ServeHTTP       *)
(* returns.                                                                *)
Flush(r) ==
  LET c == ctxOf[r] IN
  /\ ~crashed /\ th[Serve(r)].pc = "flush"
  /\ FlushResponse(c)
  /\ pool' = pool \cup {c}
  /\ th' = [th EXCEPT ![Serve(r)].pc = "done"]
  /\ UNCHANGED <<ctxOf, route, resp, hdr, calls, crashed>>

Next ==
  \/ \E r \in Reqs : Start(r) \/ RunReturns(r) \/ Timeout(r) \/ ChainReturn(r)
                     \/ Flush(r)
  \/ \E t \in Threads : LinkIn(t) \/ LinkOut(t) \/ Call(t) \/ Return(t)

(* The Go runtime runs every goroutine of ServeHTTP and hystrix's timer   *)
(* fires. The handler is user code that may never return: no fairness.   *)
Fairness ==
  /\ \A r \in Reqs : /\ WF_vars(Start(r)) /\ WF_vars(RunReturns(r))
                     /\ WF_vars(Timeout(r)) /\ WF_vars(ChainReturn(r))
                     /\ WF_vars(Flush(r))
  /\ \A t \in Threads : WF_vars(LinkIn(t)) /\ WF_vars(LinkOut(t))

Spec == Init /\ [][Next]_vars
FairSpec == Spec /\ Fairness

-----------------------------------------------------------------------------
(* Each client receives only what its own request's goroutines wrote: no  *)
(* status line and no body that another request's handler or links wrote  *)
(* reaches it (spec.md: the per-request Context is owned by the task      *)
(* handling that request). A late handler writes through c.Response(),    *)
(* which the pool may by then have given to another request.              *)
ResponsesIsolated ==
  \A w \in Reqs :
    /\ wire[w].by \in {w, NoReq}
    /\ \A i \in DOMAIN wire[w].body : wire[w].body[i].from = w

(* Every request whose route has the breaker is answered, whether or not *)
(* its handler ever returns (hystrix's timeout ends Do), unless the       *)
(* process has ended. Without the breaker a handler that never returns    *)
(* holds its request forever.                                              *)
RequestsFinish ==
  \A r \in Reqs : [](HasBreaker(r) => <>(Finished(r) \/ crashed))

=============================================================================
