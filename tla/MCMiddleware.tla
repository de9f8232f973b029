---------------------------- MODULE MCMiddleware ----------------------------
(* Two middlewares, a logger-like one and a rate limiter that rejects     *)
(* (MCKind), one group, six calls:                                         *)
(* three Use calls leave Server.mws with spare capacity (lengths 1, 2, 3  *)
(* in arrays of capacity 1, 2, 4), the smallest case where later appends  *)
(* can share its array.                                                    *)
EXTENDS Middleware

CONSTANTS m1, m2, g1

MCMWs == {m1, m2}
MCKind == [m \in MCMWs |-> IF m = m1 THEN "wrap" ELSE "limit"]
MCGroups == {g1}
MCMaxOps == 6
=============================================================================
