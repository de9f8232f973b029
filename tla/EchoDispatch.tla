---------------------------- MODULE EchoDispatch ----------------------------
(***************************************************************************)
(* Concurrent requests through Server.ServeHTTP (server/echo/server.go).  *)
(* Router.find stores the handler it selected in the matched node's fn    *)
(* field (router.go, cn.fn = f) and returns the node; ServeHTTP then reads *)
(* node.fn. The tree is shared by every connection goroutine, so between  *)
(* the write and the read another request may store its own handler in    *)
(* the same node. The tree is the one Routes build, registration being    *)
(* over before Serve.                                                      *)
(***************************************************************************)
EXTENDS Integers, Sequences, SequencesExt

CONSTANTS
  Methods, Patterns, MaxRoutes, MaxFindSteps, ParamValues, WildRests,
  Routes,       \* the registrations, <<method, pattern>>, in order
  Reqs          \* concurrent requests

VARIABLES
  req,          \* req[r]: the request's <<method, path>>
  pc,           \* "find", "read" or "done"
  at,           \* the node find returned to request r, 0 for nil
  nodeFn,       \* nodeFn[n]: the fn field of node n
  got           \* the route number whose handler r runs, 0 for not found

vars == <<req, pc, at, nodeFn, got>>

R == INSTANCE Router WITH tree <- <<>>, routes <- Routes

(* The tree after every registration, built in order by Router.add.        *)
Built == FoldLeft(LAMBDA t, i : R!RouterAdd(t, Routes[i][1], Routes[i][2], i),
                  R!NewRouter, [i \in 1 .. Len(Routes) |-> i])

Paths == UNION {R!Expansions(Routes[i][2]) : i \in 1 .. Len(Routes)}

Init ==
  /\ req \in [Reqs -> Methods \X Paths]
  /\ pc = [r \in Reqs |-> "find"]
  /\ at = [r \in Reqs |-> 0]
  /\ nodeFn = [n \in DOMAIN Built |-> R!NilFn]
  /\ got = [r \in Reqs |-> 0]

(* ServeHTTP calls s.router.find: a nil node is not found; otherwise find  *)
(* has written cn.fn.                                                      *)
Find(r) ==
  /\ pc[r] = "find"
  /\ LET f == R!RouterFind(Built, req[r][1], req[r][2]) IN
     IF f.node = 0
       THEN /\ pc' = [pc EXCEPT ![r] = "done"]
            /\ UNCHANGED <<at, nodeFn>>
       ELSE /\ nodeFn' = [nodeFn EXCEPT ![f.node] = f.fn]
            /\ at' = [at EXCEPT ![r] = f.node]
            /\ pc' = [pc EXCEPT ![r] = "read"]
  /\ UNCHANGED <<req, got>>

(* ServeHTTP: node.fn.(HandlerFunc) replaces the not-found handler.        *)
ReadFn(r) ==
  /\ pc[r] = "read"
  /\ got' = [got EXCEPT ![r] = IF nodeFn[at[r]] > 0 THEN nodeFn[at[r]] ELSE 0]
  /\ pc' = [pc EXCEPT ![r] = "done"]
  /\ UNCHANGED <<req, at, nodeFn>>

Next == \E r \in Reqs : Find(r) \/ ReadFn(r)

Spec == Init /\ [][Next]_vars

(* Each request runs the handler the router selects for its own method    *)
(* and path, whatever other requests do at the same time (spec.md: the    *)
(* tree is read-only while serving, concurrent lookups need no locking).  *)
DispatchIsolated ==
  \A r \in Reqs :
    pc[r] = "done" => got[r] = R!Dispatch(Built, req[r][1], req[r][2]).route

=============================================================================
