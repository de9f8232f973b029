---------------------------- MODULE ConnTracker -----------------------------
(***************************************************************************)
(* What the Connection Tracker promises (spec.md 4.3, and the drain of    *)
(* 4.4): Accept hands out a connection and counts it in the same atomic   *)
(* step, unless the listener is closed; Close of a counted connection      *)
(* uncounts it once, and a repeated Close does nothing; Wait returns only *)
(* when no accepted connection is still outstanding.                       *)
(*                                                                         *)
(* The outstanding counter is the size of `outstanding`. EchoServer, the  *)
(* model of server/echo's Listener, Conn and GracefulStop, is checked to  *)
(* implement this module under the mapping stated in EchoServer.          *)
(***************************************************************************)
EXTENDS FiniteSets

CONSTANTS
  Conns          \* client connections that may reach the listening socket

VARIABLES
  outstanding,   \* accepted connections not yet closed
  finished,      \* accepted connections that have been closed
  listening,     \* "open", or "closed" once the listener has been closed
  waiter         \* the drain: "idle", "waiting" inside Wait, "returned"

vars == <<outstanding, finished, listening, waiter>>

Init ==
  /\ outstanding = {}
  /\ finished = {}
  /\ listening = "open"
  /\ waiter = "idle"

(* Accept: a new connection arrives and is counted as it is handed out.    *)
Accept(c) ==
  /\ listening = "open"
  /\ c \notin outstanding \cup finished
  /\ outstanding' = outstanding \cup {c}
  /\ UNCHANGED <<finished, listening, waiter>>

(* trackedConn.Close: the first call uncounts the connection; later calls *)
(* are no step at all.                                                     *)
Close(c) ==
  /\ c \in outstanding
  /\ outstanding' = outstanding \ {c}
  /\ finished' = finished \cup {c}
  /\ UNCHANGED <<listening, waiter>>

(* The listener is closed; Accept fails from now on.                       *)
CloseListener ==
  /\ listening = "open"
  /\ listening' = "closed"
  /\ UNCHANGED <<outstanding, finished, waiter>>

(* Wait is called: it returns at once if nothing is outstanding.           *)
Wait ==
  /\ waiter = "idle"
  /\ waiter' = IF outstanding = {} THEN "returned" ELSE "waiting"
  /\ UNCHANGED <<outstanding, finished, listening>>

(* A blocked Wait returns once the counter is back to zero.                *)
WaitReturn ==
  /\ waiter = "waiting"
  /\ outstanding = {}
  /\ waiter' = "returned"
  /\ UNCHANGED <<outstanding, finished, listening>>

Next ==
  \/ \E c \in Conns : Accept(c) \/ Close(c)
  \/ CloseListener
  \/ Wait
  \/ WaitReturn

Spec == Init /\ [][Next]_vars

(* The counter never goes negative and counts each connection once.       *)
TypeOK ==
  /\ outstanding \subseteq Conns
  /\ finished \subseteq Conns
  /\ outstanding \cap finished = {}
  /\ listening \in {"open", "closed"}
  /\ waiter \in {"idle", "waiting", "returned"}

=============================================================================
