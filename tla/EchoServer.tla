----------------------------- MODULE EchoServer -----------------------------
(***************************************************************************)
(* The HTTP server facade of server/echo: its wrapped Listener, which      *)
(* counts every accepted connection in a sync.WaitGroup (listener.go),     *)
(* the wrapped Conn whose Close decrements that WaitGroup once, guarded by *)
(* a mutex-protected closed flag (conn.go), and Server.Serve, Stop and     *)
(* GracefulStop (server.go).                                               *)
(*                                                                         *)
(* Actors: the Serve goroutine running http.Serve's accept loop, one       *)
(* goroutine per accepted connection (whoever calls Conn.Close: the        *)
(* net/http connection goroutine, a hijacking handler, or a client hang-up *)
(* surfacing as a close), and the caller of Stop or GracefulStop.          *)
(***************************************************************************)
EXTENDS Integers, FiniteSets

CONSTANTS
  Conns        \* client connections that may reach the listening socket

VARIABLES
  lis,         \* the net.TCPListener: "open" or "closed"
  srv,         \* pc of the Serve goroutine
  running,     \* len(s.running) > 0, what IsRunning reports
  wg,          \* the Listener's sync.WaitGroup counter
  conn,        \* conn[c]: where connection c is
  stop         \* pc of the goroutine calling Stop or GracefulStop

vars == <<lis, srv, running, wg, conn, stop>>

(* Serve goroutine: "idle" before Serve is called, "accept" inside         *)
(* Listener.Accept, "track" between AcceptTCP returning a connection and   *)
(* l.wg.Add(1), "returned" once http.Serve has returned.                   *)
SrvPc == {"idle", "accept", "track", "returned"}

(* A connection is "none" until AcceptTCP returns it, "accepted" while the *)
(* Listener holds it before wg.Add, "open" as a tracked *Conn, "closed"   *)
(* once Conn.Close has set c.closed, "leaked" when Accept dropped it on a  *)
(* keep-alive error without closing it.                                    *)
ConnState == {"none", "accepted", "open", "closed", "leaked"}

(* Stopper: "idle"; "closed" when GracefulStop has closed the listener    *)
(* and is about to call wg.Wait; "asleep" when Wait found the counter      *)
(* non-zero and parked; "woken" when the Done that zeroed the counter has  *)
(* released it; "drained" when GracefulStop has returned; "panicked" when *)
(* Wait, on waking, found the counter raised again and panicked with       *)
(* "WaitGroup is reused before previous Wait has returned"; "stopped"     *)
(* when Stop has returned.                                                 *)
StopPc == {"idle", "closed", "asleep", "woken", "drained", "panicked", "stopped"}

Tracked == {c \in Conns : conn[c] = "open"}

InFlight == {c \in Conns : conn[c] \in {"accepted", "open"}}

Init ==
  /\ lis = "open"
  /\ srv = "idle"
  /\ running = FALSE
  /\ wg = 0
  /\ conn = [c \in Conns |-> "none"]
  /\ stop = "idle"

-----------------------------------------------------------------------------
(* Serve: DumpRouteInfo and the before-serve hooks touch no state modelled *)
(* here; then s.running <- struct{}{} and http.Serve(s.listener, s).       *)
Serve ==
  /\ srv = "idle"
  /\ running' = TRUE
  /\ srv' = "accept"
  /\ UNCHANGED <<lis, wg, conn, stop>>

(* Listener.Accept, first half: AcceptTCP returns connection c.            *)
AcceptTCP(c) ==
  /\ srv = "accept"
  /\ lis = "open"
  /\ conn[c] = "none"
  /\ conn' = [conn EXCEPT ![c] = "accepted"]
  /\ srv' = "track"
  /\ UNCHANGED <<lis, running, wg, stop>>

(* SetKeepAlive or SetKeepAlivePeriod fails: Accept returns nil and the    *)
(* error, and the *TCPConn it accepted is neither counted nor closed.      *)
(* http.Serve retries Accept after a Temporary error, and returns any     *)
(* other: its deferred l.Close() closes the listener, and Serve's deferred *)
(* <-s.running empties the channel.                                        *)
KeepAliveFail ==
  /\ srv = "track"
  /\ \E c \in Conns :
       /\ conn[c] = "accepted"
       /\ conn' = [conn EXCEPT ![c] = "leaked"]
  /\ \/ srv' = "accept" /\ UNCHANGED <<lis, running>>
     \/ srv' = "returned" /\ lis' = "closed" /\ running' = FALSE
  /\ UNCHANGED <<wg, stop>>

(* Listener.Accept, second half: l.wg.Add(1) and the *Conn is returned;    *)
(* http.Serve starts the connection's goroutine and loops to Accept.       *)
Track ==
  /\ srv = "track"
  /\ \E c \in Conns :
       /\ conn[c] = "accepted"
       /\ conn' = [conn EXCEPT ![c] = "open"]
  /\ wg' = wg + 1
  /\ srv' = "accept"
  /\ UNCHANGED <<lis, running, stop>>

(* AcceptTCP fails because the listener was closed: http.Serve returns     *)
(* the error and Serve's deferred <-s.running empties the channel.         *)
ServeReturn ==
  /\ srv = "accept"
  /\ lis = "closed"
  /\ srv' = "returned"
  /\ running' = FALSE
  /\ UNCHANGED <<lis, wg, conn, stop>>

(* Mutant of Conn.Close without the closed-flag check.                     *)
CloseNoFlag(c) ==
  /\ conn[c] \in {"open", "closed"}
  /\ wg' = wg - 1
  /\ conn' = [conn EXCEPT ![c] = "closed"]
  /\ stop' = IF stop = "asleep" /\ wg' = 0 THEN "woken" ELSE stop
  /\ UNCHANGED <<lis, srv, running>>

Close(c) ==
  /\ conn[c] = "open"
  /\ wg' = wg - 1
  /\ conn' = [conn EXCEPT ![c] = "closed"]
  /\ stop' = IF stop = "asleep" /\ wg' = 0 THEN "woken" ELSE stop
  /\ UNCHANGED <<lis, srv, running>>

(* Stop: s.listener.Close() and nothing else.                              *)
Stop ==
  /\ stop = "idle"
  /\ lis' = "closed"
  /\ stop' = "stopped"
  /\ UNCHANGED <<srv, running, wg, conn>>

(* GracefulStop, first statement: s.listener.Close().                      *)
GracefulStopClose ==
  /\ stop = "idle"
  /\ lis' = "closed"
  /\ stop' = "closed"
  /\ UNCHANGED <<srv, running, wg, conn>>

(* GracefulStop, second statement: s.listener.wg.Wait() returns at once   *)
(* if the counter is zero, and parks otherwise.                            *)
WaitCall ==
  /\ stop = "closed"
  /\ stop' = IF wg = 0 THEN "drained" ELSE "asleep"
  /\ UNCHANGED <<lis, srv, running, wg, conn>>

(* The parked Wait resumes: sync.WaitGroup panics if an Add has raised    *)
(* the counter since the Done that woke it.                                *)
WaitResume ==
  /\ stop = "woken"
  /\ stop' = IF wg = 0 THEN "drained" ELSE "panicked"
  /\ UNCHANGED <<lis, srv, running, wg, conn>>

-----------------------------------------------------------------------------
Next ==
  \/ Serve
  \/ \E c \in Conns : AcceptTCP(c)
  \/ Track
  \/ KeepAliveFail
  \/ ServeReturn
  \/ \E c \in Conns : Close(c)
  \/ Stop
  \/ GracefulStopClose
  \/ WaitCall
  \/ WaitResume

(* Clients decide when a connection arrives and, for an idle keep-alive   *)
(* connection, when it closes; the server's goroutines are scheduled by   *)
(* the Go runtime. The liveness runs assume every open connection is       *)
(* eventually closed, by its handler finishing or by the client.           *)
Fairness ==
  /\ WF_vars(Serve)
  /\ WF_vars(Track)
  /\ WF_vars(ServeReturn)
  /\ WF_vars(WaitCall)
  /\ WF_vars(WaitResume)
  /\ \A c \in Conns : WF_vars(Close(c))

Spec == Init /\ [][Next]_vars

FairSpec == Spec /\ Fairness

-----------------------------------------------------------------------------
(* The type invariant. The WaitGroup counter stays within 0 and the number *)
(* of connections: sync.WaitGroup panics on a negative counter.            *)
TypeOK ==
  /\ lis \in {"open", "closed"}
  /\ srv \in SrvPc
  /\ running \in BOOLEAN
  /\ wg \in 0 .. Cardinality(Conns)
  /\ conn \in [Conns -> ConnState]
  /\ stop \in StopPc

(* The refinement mapping onto the Connection Tracker's contract: a       *)
(* connection is outstanding from the moment AcceptTCP hands it to the    *)
(* Listener until its Close, and GracefulStop's wg.Wait is the tracker's  *)
(* Wait, blocked while parked and returned once GracefulStop has.          *)
Finished == {c \in Conns : conn[c] = "closed"}

Waiter ==
  CASE stop \in {"idle", "closed", "stopped"}     -> "idle"
    [] stop \in {"asleep", "woken", "panicked"}   -> "waiting"
    [] stop = "drained"                           -> "returned"

CT == INSTANCE ConnTracker
        WITH outstanding <- InFlight, finished <- Finished,
             listening <- lis, waiter <- Waiter

(* The echo Listener, Conn and GracefulStop implement the Connection      *)
(* Tracker of spec.md 4.3 (listener.go Accept, conn.go Close, server.go   *)
(* GracefulStop): accepting a connection counts it in the same step, and  *)
(* Wait returns only when no accepted connection is outstanding.          *)
ImplementsConnTracker == CT!Spec

(* A GracefulStop that has closed the listener gets out of wg.Wait,       *)
(* provided every connection is eventually closed.                         *)
GracefulStopReturns == stop = "closed" ~> stop \in {"drained", "panicked"}

=============================================================================
