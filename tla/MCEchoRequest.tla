---------------------------- MODULE MCEchoRequest ---------------------------
(* Two concurrent requests and the two Contexts the pool can hold for     *)
(* them. A route either has recovery and breaker links or only ratelimit, *)
(* so that handler errors and panics reach ServeHTTP; a handler makes one  *)
(* Context call of its route's kinds, with a JSON body and status 200.     *)
EXTENDS EchoRequest, TLC

CONSTANTS r1, r2, c1, c2

MCReqs == {r1, r2}

MCCtxs == {c1, c2}

MCRoutes == {<<"recovery", "breaker">>, <<"pms", "auth", "ratelimit">>}

MCEncs == {"json"}

MCCodes == {200}

MCMaxCalls == 1

(* The breaker route's handler writes through the deferred writers, the   *)
(* WriteHeader callers, the blob writers and the renderers; the limit     *)
(* route's through ServeContent, Attachment, Redirect and MsgPack or       *)
(* Protobuf.                                                               *)
MCHandlerCalls ==
  (<<"recovery", "breaker">> :> {"deferred", "status", "blob", "proto", "render", "grpcproxy"})
  @@ (<<"pms", "auth", "ratelimit">> :> {"attachment", "redirect", "serve", "typed", "ws"})

=============================================================================
