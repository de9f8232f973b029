-------------------------------- MODULE Ares --------------------------------
(***************************************************************************)
(* The process lifecycle of ares.App (ares.go, signal_linux.go,            *)
(* register.go) with the two servers of a typical application (the demo's *)
(* main): one echo HTTP server, modelled in detail by EchoServer, and one  *)
(* yell gRPC server, whose grpc-go internals are outside this repository   *)
(* and are abstracted to serving / returned (server/yell/server.go).       *)
(*                                                                         *)
(* Goroutines: main (App.Run -> App.run: start workers, Mux and Serve      *)
(* each server, sleep, check IsRunning, register, wg.Wait, return); the   *)
(* signal goroutine of hookSignals (shutdown or terminate); one Serve      *)
(* goroutine per server; one Run goroutine per worker; the GracefulStop    *)
(* goroutines that shutdown spawns; the echo connection goroutines.        *)
(* The registry is the etcd registry of registry/etcdv3.go: `etcd` is what *)
(* the etcd cluster holds, `data` is r.data, the keys UnregisterAll knows. *)
(***************************************************************************)
EXTENDS Integers, FiniteSets, Sequences

CONSTANTS
  Conns,        \* client connections to the echo server
  Workers,      \* workers added with AddWorker
  RegKeys,      \* the keys RegisterApp writes, in order (services, node, info)
  MaxSignals    \* bound on the signals the OS delivers in one behaviour

ASSUME Len(RegKeys) >= 1
ASSUME MaxSignals \in Nat

VARIABLES
  lis, srv, running, wg, conn, stop,   \* the echo server (EchoServer)
  ySrv,       \* yell Serve goroutine: "idle", "serving", "returned"
  yStop,      \* yell stop call: "idle", "done"
  wrk,        \* wrk[w]: the worker's Run goroutine: "idle", "running", "returned"
  wStop,      \* wStop[w]: Stop or GracefulStop has been called on w
  mainPc,     \* pc of the main goroutine
  started,    \* servers whose Mux has run and whose Serve goroutine exists
  regIdx,     \* index into RegKeys of the key being registered
  sigq,       \* app.sigChan, buffer 1: "empty", "graceful", "immediate"
  sent,       \* signals delivered by the OS so far
  sigPc,      \* pc of the signal goroutine
  policy,     \* the signal class the signal goroutine is handling
  tStopped,   \* servers that terminate has called Stop on
  etcd,       \* registration keys present in etcd
  data,       \* registration keys in r.data
  iter,       \* the keys UnregisterAll's range over r.data has still to visit
  exit,       \* how the process ended, "none" while it runs
  defersRun,  \* the functions registered with App.Defer have run
  termSent    \* history: an immediate-class signal was delivered

echoVars == <<lis, srv, running, wg, conn, stop>>
appVars == <<ySrv, yStop, wrk, wStop, mainPc, started, regIdx, sigq, sent,
             sigPc, policy, tStopped, etcd, data, iter, exit, defersRun,
             termSent>>
vars == <<echoVars, appVars>>

E == INSTANCE EchoServer

ServerNames == {"http", "grpc"}

Keys == {RegKeys[i] : i \in DOMAIN RegKeys}

(* signal_linux.go: SIGHUP, SIGQUIT, SIGSTOP, SIGUSR1 select shutdown;    *)
(* SIGINT, SIGKILL, SIGUSR2, SIGTERM select terminate. SIGSTOP and SIGKILL *)
(* are never delivered to a Go program, so two classes remain.            *)
SignalClass == {"graceful", "immediate"}

ExitKind == {"none", "exit0", "exit1", "fatal", "mainret", "crash"}

MainPc == {"init", "start", "servers", "sleep", "reg_etcd", "reg_data", "wait"}

SigPc == {"recv", "s_unreg", "s_range", "s_stop", "s_defers", "s_exit",
          "t_unreg", "t_range", "t_servers", "t_workers", "t_defers", "t_exit"}

(* The signal goroutine inside UnregisterAll's range.                      *)
Ranging == {"s_range", "t_range"}

(* A write to r.data by the main goroutine. r.mu does not guard           *)
(* UnregisterAll's range, so while the signal goroutine ranges the Go      *)
(* runtime may detect the write and abort the process ("concurrent map    *)
(* iteration and map write"), or the range goes on and visits the keys    *)
(* of one of the sets `after` that are still in r.data.                    *)
MapWriteDuringRange(after) ==
  IF sigPc \in Ranging
    THEN \/ exit' = "crash" /\ UNCHANGED iter
         \/ exit' = exit /\ iter' \in {a \cap data' : a \in after}
    ELSE UNCHANGED <<exit, iter>>

Alive == exit = "none"


Init ==
  /\ E!Init
  /\ ySrv = "idle"
  /\ yStop = "idle"
  /\ wrk = [w \in Workers |-> "idle"]
  /\ wStop = [w \in Workers |-> FALSE]
  /\ mainPc = "init"
  /\ started = {}
  /\ regIdx = 1
  /\ sigq = "empty"
  /\ sent = 0
  /\ sigPc = "recv"
  /\ policy = "none"
  /\ tStopped = {}
  /\ etcd = {}
  /\ data = {}
  /\ iter = {}
  /\ exit = "none"
  /\ defersRun = FALSE
  /\ termSent = FALSE

-----------------------------------------------------------------------------
(* Main goroutine.                                                         *)

(* App.Run after hookSignals: initRegistry and initMetric, then run().     *)
InitRuntime ==
  /\ Alive /\ mainPc = "init"
  /\ mainPc' = "start"
  /\ UNCHANGED <<echoVars, ySrv, yStop, wrk, wStop, started, regIdx, sigq,
                 sent, sigPc, policy, tStopped, etcd, data, iter, exit, defersRun,
                 termSent>>

(* run(): app.running = true, Cron.Start, a Run goroutine per worker.      *)
StartWorkers ==
  /\ Alive /\ mainPc = "start"
  /\ wrk' = [w \in Workers |-> "running"]
  /\ mainPc' = "servers"
  /\ UNCHANGED <<echoVars, ySrv, yStop, wStop, started, regIdx, sigq, sent,
                 sigPc, policy, tStopped, etcd, data, iter, exit, defersRun, termSent>>

(* One iteration of the loop over app.servers (map order): srv.Mux(), then *)
(* app.wg.Add(1) and go srv.Serve().                                       *)
StartServer(s) ==
  /\ Alive /\ mainPc = "servers"
  /\ s \notin started
  /\ started' = started \cup {s}
  /\ mainPc' = IF started' = ServerNames THEN "sleep" ELSE "servers"
  /\ UNCHANGED <<echoVars, ySrv, yStop, wrk, wStop, regIdx, sigq, sent, sigPc,
                 policy, tStopped, etcd, data, iter, exit, defersRun, termSent>>

(* srv.Mux() panics instead (user code: router.add on an invalid path or  *)
(* method, GRPCProxy with a handler that is not a func): run() unwinds and *)
(* Run's deferred recover prints the stack, calls app.unregister(), which *)
(* finds r.data still empty, sleeps and returns; main returns, and the     *)
(* process exits with status 0 while the servers started so far serve.    *)
MuxPanic(s) ==
  /\ Alive /\ mainPc = "servers"
  /\ s \notin started
  /\ exit' = "mainret"
  /\ UNCHANGED <<echoVars, ySrv, yStop, wrk, wStop, mainPc, started, regIdx,
                 sigq, sent, sigPc, policy, tStopped, etcd, data, iter,
                 defersRun, termSent>>

(* After time.Sleep(3s): any server not IsRunning is fatal (Fatalf, then   *)
(* os.Exit(1)); otherwise app.register().                                  *)
CheckRunning ==
  /\ Alive /\ mainPc = "sleep"
  /\ IF running /\ ySrv = "serving"
       THEN /\ mainPc' = "reg_etcd"
            /\ UNCHANGED exit
       ELSE /\ exit' = "fatal"
            /\ UNCHANGED mainPc
  /\ UNCHANGED <<echoVars, ySrv, yStop, wrk, wStop, started, regIdx, sigq,
                 sent, sigPc, policy, tStopped, etcd, data, iter, defersRun, termSent>>

(* etcdRegistry.Register, first half: resolver.Update adds the key in etcd. *)
RegisterEtcd ==
  /\ Alive /\ mainPc = "reg_etcd"
  /\ etcd' = etcd \cup {RegKeys[regIdx]}
  /\ mainPc' = "reg_data"
  /\ UNCHANGED <<echoVars, ySrv, yStop, wrk, wStop, started, regIdx, sigq,
                 sent, sigPc, policy, tStopped, data, iter, exit, defersRun, termSent>>

(* resolver.Update returns an error (the write may still have been        *)
(* applied, as after a timeout): mustRegister panics, RegisterApp's       *)
(* recover calls UnregisterApp, that is UnregisterAll, and returns nil;    *)
(* run() goes on to wg.Wait. UnregisterAll's deletes race the signal      *)
(* goroutine's own range over r.data, and a deleted key is never produced  *)
(* by that range.                                                          *)
RegisterFail ==
  /\ Alive /\ mainPc = "reg_etcd"
  /\ \E applied \in BOOLEAN :
       etcd' = (IF applied THEN etcd \cup {RegKeys[regIdx]} ELSE etcd) \ data
  /\ data' = {}
  /\ mainPc' = "wait"
  /\ MapWriteDuringRange({{}})
  /\ UNCHANGED <<echoVars, ySrv, yStop, wrk, wStop, started, regIdx, sigq,
                 sent, sigPc, policy, tStopped, defersRun, termSent>>

(* etcdRegistry.Register, second half: r.data[key] = val under r.mu; then  *)
(* RegisterApp moves on to the next key, or returns and run() waits.       *)
RegisterData ==
  /\ Alive /\ mainPc = "reg_data"
  /\ data' = data \cup {RegKeys[regIdx]}
  /\ MapWriteDuringRange({iter, iter \cup {RegKeys[regIdx]}})
  /\ IF regIdx = Len(RegKeys)
       THEN /\ mainPc' = "wait"
            /\ UNCHANGED regIdx
       ELSE /\ regIdx' = regIdx + 1
            /\ mainPc' = "reg_etcd"
  /\ UNCHANGED <<echoVars, ySrv, yStop, wrk, wStop, started, sigq, sent,
                 sigPc, policy, tStopped, etcd, defersRun, termSent>>

(* app.wg.Wait() returns once every Serve and worker Run goroutine has     *)
(* ended; run() and Run() return, main returns and the process exits.      *)
MainReturn ==
  /\ Alive /\ mainPc = "wait"
  /\ srv = "returned"
  /\ ySrv = "returned"
  /\ \A w \in Workers : wrk[w] = "returned"
  /\ exit' = "mainret"
  /\ UNCHANGED <<echoVars, ySrv, yStop, wrk, wStop, mainPc, started, regIdx,
                 sigq, sent, sigPc, policy, tStopped, etcd, data, iter, defersRun,
                 termSent>>

-----------------------------------------------------------------------------
(* Server and worker goroutines.                                           *)

EchoServe == Alive /\ "http" \in started /\ E!Serve /\ UNCHANGED appVars

EchoAccept(c) == Alive /\ E!AcceptTCP(c) /\ UNCHANGED appVars

EchoTrack == Alive /\ E!Track /\ UNCHANGED appVars

EchoKeepAliveFail == Alive /\ E!KeepAliveFail /\ UNCHANGED appVars

EchoServeReturn == Alive /\ E!ServeReturn /\ UNCHANGED appVars

EchoClose(c) == Alive /\ E!Close(c) /\ UNCHANGED appVars

(* yell Server.Serve: s.Server = grpc.NewServer(...), register, hooks,     *)
(* s.running <- struct{}{}, then grpc's Serve.                             *)
YellServe ==
  /\ Alive /\ "grpc" \in started /\ ySrv = "idle"
  /\ ySrv' = "serving"
  /\ UNCHANGED <<echoVars, yStop, wrk, wStop, mainPc, started, regIdx, sigq,
                 sent, sigPc, policy, tStopped, etcd, data, iter, exit, defersRun,
                 termSent>>

(* A worker's Run returns once it has been asked to stop; whether and     *)
(* when is up to the worker (the demo's worker never returns).             *)
WorkerReturn(w) ==
  /\ Alive /\ wrk[w] = "running" /\ wStop[w]
  /\ wrk' = [wrk EXCEPT ![w] = "returned"]
  /\ UNCHANGED <<echoVars, ySrv, yStop, wStop, mainPc, started, regIdx, sigq,
                 sent, sigPc, policy, tStopped, etcd, data, iter, exit, defersRun,
                 termSent>>

-----------------------------------------------------------------------------
(* Signals and the signal goroutine.                                       *)

(* The OS delivers a signal; signal.Notify drops it if sigChan is full.    *)
Raise(k) ==
  /\ Alive /\ sent < MaxSignals
  /\ sent' = sent + 1
  /\ sigq' = IF sigq = "empty" THEN k ELSE sigq
  /\ termSent' = (termSent \/ k = "immediate")
  /\ UNCHANGED <<echoVars, ySrv, yStop, wrk, wStop, mainPc, started, regIdx,
                 sigPc, policy, tStopped, etcd, data, iter, exit, defersRun>>

(* sig = <-app.sigChan; time.Sleep(1s); switch on the signal's class.      *)
Receive ==
  /\ Alive /\ sigPc = "recv" /\ sigq # "empty"
  /\ policy' = sigq
  /\ sigq' = "empty"
  /\ sigPc' = IF sigq = "graceful" THEN "s_unreg" ELSE "t_unreg"
  /\ UNCHANGED <<echoVars, ySrv, yStop, wrk, wStop, mainPc, started, regIdx,
                 sent, tStopped, etcd, data, iter, exit, defersRun, termSent>>

(* shutdown(): app.unregister(), then a GracefulStop goroutine per server *)
(* and per worker.                                                         *)
ShutdownUnregister ==
  /\ Alive /\ sigPc = "s_unreg"
  /\ iter' = data
  /\ sigPc' = "s_range"
  /\ UNCHANGED <<echoVars, ySrv, yStop, wrk, wStop, mainPc, started, regIdx,
                 sigq, sent, policy, tStopped, etcd, data, exit, defersRun,
                 termSent>>

(* etcdRegistry.UnregisterAll: for k, v := range r.data { r.Unregister(k, *)
(* v) }, without r.mu. Unregister deletes the key from etcd and then, under *)
(* r.mu, from r.data; when resolver.Update fails it returns the error,     *)
(* which UnregisterAll drops, and the key stays in both.                   *)
UnregisterKey ==
  /\ Alive /\ sigPc \in Ranging
  /\ \E k \in iter :
       /\ iter' = iter \ {k}
       /\ \/ etcd' = etcd \ {k} /\ data' = data \ {k}
          \/ UNCHANGED <<etcd, data>>
  /\ UNCHANGED <<echoVars, ySrv, yStop, wrk, wStop, mainPc, started, regIdx,
                 sigq, sent, sigPc, policy, tStopped, exit, defersRun, termSent>>

(* The range is over: shutdown goes on to the GracefulStop goroutines,    *)
(* terminate to Stop on each server.                                       *)
UnregisterDone ==
  /\ Alive /\ sigPc \in Ranging /\ iter = {}
  /\ sigPc' = IF sigPc = "s_range" THEN "s_stop" ELSE "t_servers"
  /\ UNCHANGED <<echoVars, ySrv, yStop, wrk, wStop, mainPc, started, regIdx,
                 sigq, sent, policy, tStopped, etcd, data, iter, exit,
                 defersRun, termSent>>

(* The echo server's GracefulStop goroutine. Its wg.Wait is EchoServer's  *)
(* WaitCall and WaitResume; a panic there ends the process.                *)
EchoGracefulStop ==
  /\ Alive /\ sigPc = "s_stop"
  /\ E!GracefulStopClose
  /\ UNCHANGED appVars

EchoWaitCall == Alive /\ E!WaitCall /\ UNCHANGED appVars

EchoWaitResume ==
  /\ Alive
  /\ E!WaitResume
  /\ exit' = IF stop' = "panicked" THEN "crash" ELSE exit
  /\ UNCHANGED <<ySrv, yStop, wrk, wStop, mainPc, started, regIdx, sigq, sent,
                 sigPc, policy, tStopped, etcd, data, iter, defersRun, termSent>>

(* Mutant: the stop goroutine returns without its deferred wg.Done.       *)
YellGracefulStopNoDone ==
  /\ Alive /\ sigPc = "s_stop" /\ yStop = "idle"
  /\ IF ySrv = "idle"
       THEN /\ exit' = "crash"
            /\ UNCHANGED ySrv
       ELSE /\ ySrv' = "returned"
            /\ UNCHANGED exit
  /\ UNCHANGED <<echoVars, yStop, wrk, wStop, mainPc, started, regIdx, sigq,
                 sent, sigPc, policy, tStopped, etcd, data, iter, defersRun, termSent>>

(* The yell server's GracefulStop goroutine: the promoted                  *)
(* grpc.Server GracefulStop on s.Server, which is nil until Serve has      *)
(* run: a nil dereference, an unrecovered panic in a goroutine.            *)
YellGracefulStop ==
  /\ Alive /\ sigPc = "s_stop" /\ yStop = "idle"
  /\ IF ySrv = "idle"
       THEN /\ exit' = "crash"
            /\ UNCHANGED <<ySrv, yStop>>
       ELSE /\ ySrv' = "returned"
            /\ yStop' = "done"
            /\ UNCHANGED exit
  /\ UNCHANGED <<echoVars, wrk, wStop, mainPc, started, regIdx, sigq, sent,
                 sigPc, policy, tStopped, etcd, data, iter, defersRun, termSent>>

(* A worker's GracefulStop goroutine.                                      *)
WorkerGracefulStop(w) ==
  /\ Alive /\ sigPc = "s_stop" /\ ~wStop[w]
  /\ wStop' = [wStop EXCEPT ![w] = TRUE]
  /\ UNCHANGED <<echoVars, ySrv, yStop, wrk, mainPc, started, regIdx, sigq,
                 sent, sigPc, policy, tStopped, etcd, data, iter, exit, defersRun,
                 termSent>>

(* shutdown's wg.Wait() returns when every GracefulStop goroutine has.     *)
ShutdownWait ==
  /\ Alive /\ sigPc = "s_stop"
  /\ stop = "drained"
  /\ yStop = "done"
  /\ \A w \in Workers : wStop[w]
  /\ sigPc' = "s_defers"
  /\ UNCHANGED <<echoVars, ySrv, yStop, wrk, wStop, mainPc, started, regIdx,
                 sigq, sent, policy, tStopped, etcd, data, iter, exit, defersRun,
                 termSent>>

(* The deferred functions in reverse order, then (after 500ms) os.Exit.    *)
RunDefers ==
  /\ Alive /\ sigPc \in {"s_defers", "t_defers"}
  /\ defersRun' = TRUE
  /\ sigPc' = IF sigPc = "s_defers" THEN "s_exit" ELSE "t_exit"
  /\ UNCHANGED <<echoVars, ySrv, yStop, wrk, wStop, mainPc, started, regIdx,
                 sigq, sent, policy, tStopped, etcd, data, iter, exit, termSent>>

OsExit ==
  /\ Alive /\ sigPc \in {"s_exit", "t_exit"}
  /\ exit' = IF sigPc = "s_exit" THEN "exit0" ELSE "exit1"
  /\ UNCHANGED <<echoVars, ySrv, yStop, wrk, wStop, mainPc, started, regIdx,
                 sigq, sent, sigPc, policy, tStopped, etcd, data, iter, defersRun,
                 termSent>>

(* terminate(): app.unregister(), then Stop on each server in turn.        *)
TerminateUnregister ==
  /\ Alive /\ sigPc = "t_unreg"
  /\ iter' = data
  /\ sigPc' = "t_range"
  /\ UNCHANGED <<echoVars, ySrv, yStop, wrk, wStop, mainPc, started, regIdx,
                 sigq, sent, policy, tStopped, etcd, data, exit, defersRun,
                 termSent>>

TerminateEcho ==
  /\ Alive /\ sigPc = "t_servers" /\ "http" \notin tStopped
  /\ E!Stop
  /\ tStopped' = tStopped \cup {"http"}
  /\ sigPc' = IF tStopped' = ServerNames THEN "t_workers" ELSE sigPc
  /\ UNCHANGED <<ySrv, yStop, wrk, wStop, mainPc, started, regIdx, sigq, sent,
                 policy, etcd, data, iter, exit, defersRun, termSent>>

(* yell Server.Stop: s.Server.Stop(), a nil dereference before Serve.      *)
TerminateYell ==
  /\ Alive /\ sigPc = "t_servers" /\ "grpc" \notin tStopped
  /\ IF ySrv = "idle"
       THEN /\ exit' = "crash"
            /\ UNCHANGED <<ySrv, tStopped, sigPc>>
       ELSE /\ ySrv' = "returned"
            /\ tStopped' = tStopped \cup {"grpc"}
            /\ sigPc' = IF tStopped' = ServerNames THEN "t_workers" ELSE sigPc
            /\ UNCHANGED exit
  /\ UNCHANGED <<echoVars, yStop, wrk, wStop, mainPc, started, regIdx, sigq,
                 sent, policy, etcd, data, iter, defersRun, termSent>>

(* Stop on each worker, in the signal goroutine itself.                    *)
TerminateWorkers ==
  /\ Alive /\ sigPc = "t_workers"
  /\ wStop' = [w \in Workers |-> TRUE]
  /\ sigPc' = "t_defers"
  /\ UNCHANGED <<echoVars, ySrv, yStop, wrk, mainPc, started, regIdx, sigq,
                 sent, policy, tStopped, etcd, data, iter, exit, defersRun, termSent>>

-----------------------------------------------------------------------------
Next ==
  \/ InitRuntime \/ StartWorkers
  \/ \E s \in ServerNames : StartServer(s) \/ MuxPanic(s)
  \/ CheckRunning \/ RegisterEtcd \/ RegisterFail \/ RegisterData \/ MainReturn
  \/ EchoServe \/ \E c \in Conns : EchoAccept(c) \/ EchoTrack \/ EchoKeepAliveFail
  \/ EchoServeReturn \/ \E c \in Conns : EchoClose(c)
  \/ YellServe \/ \E w \in Workers : WorkerReturn(w)
  \/ \E k \in SignalClass : Raise(k)
  \/ Receive \/ ShutdownUnregister \/ UnregisterKey \/ UnregisterDone \/ EchoGracefulStop \/ EchoWaitCall
  \/ EchoWaitResume \/ YellGracefulStop \/ \E w \in Workers : WorkerGracefulStop(w)
  \/ ShutdownWait \/ RunDefers \/ OsExit
  \/ TerminateUnregister \/ TerminateEcho \/ TerminateYell \/ TerminateWorkers

(* The Go runtime eventually runs every runnable goroutine of the process. *)
(* Not fair: the OS raising signals, clients connecting or closing, and a  *)
(* worker's Run returning, which each worker decides.                      *)
ProcessFairness ==
  /\ WF_vars(InitRuntime) /\ WF_vars(StartWorkers)
  /\ \A s \in ServerNames : WF_vars(StartServer(s))
  /\ WF_vars(CheckRunning) /\ WF_vars(RegisterEtcd) /\ WF_vars(RegisterData)
  /\ WF_vars(MainReturn)
  /\ WF_vars(EchoServe) /\ WF_vars(EchoTrack) /\ WF_vars(EchoServeReturn)
  /\ WF_vars(YellServe)
  /\ WF_vars(Receive) /\ WF_vars(ShutdownUnregister) /\ WF_vars(EchoGracefulStop)
  /\ WF_vars(EchoWaitCall) /\ WF_vars(EchoWaitResume) /\ WF_vars(YellGracefulStop)
  /\ \A w \in Workers : WF_vars(WorkerGracefulStop(w))
  /\ WF_vars(ShutdownWait) /\ WF_vars(RunDefers) /\ WF_vars(OsExit)
  /\ WF_vars(TerminateUnregister) /\ WF_vars(TerminateEcho)
  /\ WF_vars(UnregisterKey) /\ WF_vars(UnregisterDone)
  /\ WF_vars(TerminateYell) /\ WF_vars(TerminateWorkers)

Spec == Init /\ [][Next]_vars

ProcessFairSpec == Spec /\ ProcessFairness

(* In addition, every client eventually closes its connection.             *)
FairSpec == ProcessFairSpec /\ \A c \in Conns : WF_vars(EchoClose(c))

-----------------------------------------------------------------------------
(* The type invariant, the echo server's included.                         *)
TypeOK ==
  /\ E!TypeOK
  /\ ySrv \in {"idle", "serving", "returned"}
  /\ yStop \in {"idle", "done"}
  /\ wrk \in [Workers -> {"idle", "running", "returned"}]
  /\ wStop \in [Workers -> BOOLEAN]
  /\ mainPc \in MainPc
  /\ started \subseteq ServerNames
  /\ regIdx \in 1 .. Len(RegKeys)
  /\ sigq \in {"empty"} \cup SignalClass
  /\ sent \in 0 .. MaxSignals
  /\ sigPc \in SigPc
  /\ policy \in {"none"} \cup SignalClass
  /\ tStopped \subseteq ServerNames
  /\ etcd \subseteq Keys
  /\ data \subseteq Keys
  /\ iter \subseteq Keys
  /\ exit \in ExitKind
  /\ defersRun \in BOOLEAN
  /\ termSent \in BOOLEAN

(* Every delivered signal ends the process: shutdown (ares.go shutdown)   *)
(* drains and exits, terminate exits, given that clients close their      *)
(* connections.                                                            *)
SignalEndsProcess == policy # "none" ~> exit # "none"

DefersRunOnCleanExit == exit \in {"exit0", "mainret"} => defersRun

=============================================================================
