------------------------------ MODULE Lifecycle ------------------------------
(***************************************************************************)
(* The life of one process: main, the goroutine that waits for a signal,   *)
(* and the goroutines of the gRPC and the HTTP server.  They meet in the   *)
(* two SetupMux locks, the blocking dial, the wait group, the graceful     *)
(* stop of the gRPC server, and the LDAP connection.                       *)
(*                                                                         *)
(* grpcServer and httpServer are nil until the goroutines that serve them  *)
(* are started: grpcServe = "none", httpServe = "none".                    *)
(***************************************************************************)
EXTENDS Naturals

CONSTANT MaxCalls      \* bound on the calls served at the same time

ASSUME LifecycleAssumption == MaxCalls \in Nat

VARIABLES
    main, handler, grpcServe, httpServe,    \* where each goroutine is
    grpcMux, httpMux,     \* the two SetupMux: free, serve or handler
    ldap,                 \* the connection: none, open or closed
    stop,                 \* of the grpc.Server: no, draining or stopped
    httpClosed,           \* the HTTP listener or server has been closed
    healthy,              \* Service.Healthy
    calls,                \* calls being served
    setUp,                \* history: Setup has returned without an error
    process               \* up, returned or panicked

lifeVars ==
    <<main, handler, grpcServe, httpServe, grpcMux, httpMux, ldap, stop, httpClosed,
      healthy, calls, setUp, process>>

LifecycleTypeOK ==
    /\ main \in {"listen", "grpc", "dial", "http", "wait"}
    /\ handler \in {"spawned", "waiting", "grpc", "stop", "drain", "close", "http",
                    "unbind", "done"}
    /\ grpcServe \in {"none", "lock", "bootstrap", "connect", "setup", "ready", "fail",
                      "fail_close", "register", "serve", "serving", "done"}
    /\ httpServe \in {"none", "lock", "ready", "serve", "serving", "done"}
    /\ grpcMux \in {"free", "serve", "handler"}
    /\ httpMux \in {"free", "serve", "handler"}
    /\ ldap \in {"none", "open", "closed"}
    /\ stop \in {"no", "draining", "stopped"}
    /\ httpClosed \in BOOLEAN /\ healthy \in BOOLEAN /\ setUp \in BOOLEAN
    /\ calls \in 0..MaxCalls
    /\ process \in {"up", "returned", "panicked"}

Init ==
    /\ main = "listen" /\ handler = "spawned"
    /\ grpcServe = "none" /\ httpServe = "none"
    /\ grpcMux = "free" /\ httpMux = "free"
    /\ ldap = "none" /\ stop = "no"
    /\ httpClosed = FALSE /\ healthy = FALSE /\ setUp = FALSE
    /\ calls = 0
    /\ process = "up"

Closed == IF ldap = "open" THEN "closed" ELSE ldap

-----------------------------------------------------------------------------
(* main                                                                    *)

\* Both ports; if one is taken the command ends with an error.
Listen ==
    /\ main = "listen"
    /\ \/ main' = "grpc" /\ UNCHANGED process
       \/ process' = "returned" /\ UNCHANGED main
    /\ UNCHANGED <<handler, grpcServe, httpServe, grpcMux, httpMux, ldap, stop, httpClosed,
                   healthy, calls, setUp>>

\* Mutant: the server is started after the dial.
StartGrpcLate ==
    /\ main = "grpc"
    /\ main' = "dial"
    /\ UNCHANGED <<handler, grpcServe, httpServe, grpcMux, httpMux, ldap, stop, httpClosed,
                   healthy, calls, setUp, process>>

StartGrpc ==
    /\ main = "grpc"
    /\ main' = "dial"
    /\ grpcServe' = "lock"
    /\ UNCHANGED <<handler, httpServe, grpcMux, httpMux, ldap, stop, httpClosed, healthy,
                   calls, setUp, process>>

\* Mutant: the dial does not block.
DialAtOnce ==
    /\ main = "dial"
    /\ main' = "http"
    /\ UNCHANGED <<handler, grpcServe, httpServe, grpcMux, httpMux, ldap, stop, httpClosed,
                   healthy, calls, setUp, process>>

\* WithBlock: returns when the gRPC server has accepted the connection, and not
\* before, for there is no timeout.
Dial ==
    /\ main = "dial"
    /\ grpcServe = "serving" /\ stop = "no"
    /\ main' = "http"
    /\ UNCHANGED <<handler, grpcServe, httpServe, grpcMux, httpMux, ldap, stop, httpClosed,
                   healthy, calls, setUp, process>>

StartHTTP ==
    /\ main = "http"
    /\ main' = "wait"
    /\ httpServe' = "lock"
    /\ UNCHANGED <<handler, grpcServe, grpcMux, httpMux, ldap, stop, httpClosed, healthy,
                   calls, setUp, process>>

\* Mutant: the wait group counts one server.
WaitOne ==
    /\ main = "wait"
    /\ grpcServe = "done" \/ httpServe = "done"
    /\ process' = "returned"
    /\ UNCHANGED <<main, handler, grpcServe, httpServe, grpcMux, httpMux, ldap, stop,
                   httpClosed, healthy, calls, setUp>>

Wait ==
    /\ main = "wait"
    /\ grpcServe = "done" /\ httpServe = "done"
    /\ process' = "returned"
    /\ UNCHANGED <<main, handler, grpcServe, httpServe, grpcMux, httpMux, ldap, stop,
                   httpClosed, healthy, calls, setUp>>

-----------------------------------------------------------------------------
(* grpcServer.Serve                                                        *)

GrpcLock ==
    /\ grpcServe = "lock" /\ grpcMux = "free"
    /\ grpcMux' = "serve"
    /\ grpcServe' = "bootstrap"
    /\ UNCHANGED <<main, handler, httpServe, httpMux, ldap, stop, httpClosed, healthy, calls,
                   setUp, process>>

\* BootstrapGrpc makes the grpc.Server.  When it fails Serve returns with the
\* lock held.
GrpcBootstrap ==
    /\ grpcServe = "bootstrap"
    /\ grpcServe' \in {"connect", "done"}
    /\ UNCHANGED <<main, handler, httpServe, grpcMux, httpMux, ldap, stop, httpClosed,
                   healthy, calls, setUp, process>>

\* Manager.Setup: the connection to the directory.
GrpcConnect ==
    /\ grpcServe = "connect"
    /\ \/ ldap' = "open" /\ grpcServe' = "setup"
       \/ UNCHANGED ldap /\ grpcServe' = "fail"
    /\ UNCHANGED <<main, handler, httpServe, grpcMux, httpMux, stop, httpClosed, healthy,
                   calls, setUp, process>>

\* The rest of Manager.Setup, and the keys.
GrpcSetup ==
    /\ grpcServe = "setup"
    /\ \/ setUp' = TRUE /\ grpcServe' = "ready"
       \/ UNCHANGED setUp /\ grpcServe' = "fail"
    /\ UNCHANGED <<main, handler, httpServe, grpcMux, httpMux, ldap, stop, httpClosed,
                   healthy, calls, process>>

GrpcReady ==
    /\ grpcServe = "ready"
    /\ healthy' = TRUE
    /\ grpcServe' = "register"
    /\ UNCHANGED <<main, handler, httpServe, grpcMux, httpMux, ldap, stop, httpClosed, calls,
                   setUp, process>>

\* Mutant: Connect does not return after a failed setup.
GrpcFailGoesOn ==
    /\ grpcServe = "fail"
    /\ stop' = "stopped"
    /\ healthy' = FALSE
    /\ grpcServe' = "ready"
    /\ UNCHANGED <<main, handler, httpServe, grpcMux, httpMux, ldap, httpClosed, calls, setUp,
                   process>>

\* Connect's own Shutdown, which takes no lock: the server stops before it has
\* served anything, and the connection is closed if there is one.
GrpcFail ==
    /\ grpcServe = "fail"
    /\ stop' = "stopped"
    /\ healthy' = FALSE
    /\ grpcServe' = "fail_close"
    /\ UNCHANGED <<main, handler, httpServe, grpcMux, httpMux, ldap, httpClosed, calls, setUp,
                   process>>

GrpcFailClose ==
    /\ grpcServe = "fail_close"
    /\ ldap' = Closed
    /\ grpcServe' = "register"
    /\ UNCHANGED <<main, handler, httpServe, grpcMux, httpMux, stop, httpClosed, healthy,
                   calls, setUp, process>>

GrpcRegister ==
    /\ grpcServe = "register"
    /\ grpcMux' = "free"
    /\ grpcServe' = "serve"
    /\ UNCHANGED <<main, handler, httpServe, httpMux, ldap, stop, httpClosed, healthy, calls,
                   setUp, process>>

\* A stopped grpc.Server does not serve.
GrpcServe ==
    /\ grpcServe = "serve"
    /\ grpcServe' = IF stop = "no" THEN "serving" ELSE "done"
    /\ UNCHANGED <<main, handler, httpServe, grpcMux, httpMux, ldap, stop, httpClosed,
                   healthy, calls, setUp, process>>

\* grpc.Server.Serve returns when the graceful stop is over.
GrpcServed ==
    /\ grpcServe = "serving" /\ stop = "stopped"
    /\ grpcServe' = "done"
    /\ UNCHANGED <<main, handler, httpServe, grpcMux, httpMux, ldap, stop, httpClosed,
                   healthy, calls, setUp, process>>

Begin ==
    /\ grpcServe = "serving" /\ stop = "no"
    /\ calls < MaxCalls
    /\ calls' = calls + 1
    /\ UNCHANGED <<main, handler, grpcServe, httpServe, grpcMux, httpMux, ldap, stop,
                   httpClosed, healthy, setUp, process>>

\* Mutant: the end of a call is counted also when no call runs.
EndTwice ==
    /\ grpcServe = "serving"
    /\ calls' = calls - 1
    /\ UNCHANGED <<main, handler, grpcServe, httpServe, grpcMux, httpMux, ldap, stop,
                   httpClosed, healthy, setUp, process>>

End ==
    /\ calls > 0
    /\ calls' = calls - 1
    /\ UNCHANGED <<main, handler, grpcServe, httpServe, grpcMux, httpMux, ldap, stop,
                   httpClosed, healthy, setUp, process>>

-----------------------------------------------------------------------------
(* httpServer.Serve                                                        *)

HttpLock ==
    /\ httpServe = "lock" /\ httpMux = "free"
    /\ httpMux' = "serve"
    /\ httpServe' = "ready"
    /\ UNCHANGED <<main, handler, grpcServe, grpcMux, ldap, stop, httpClosed, healthy, calls,
                   setUp, process>>

\* Registering the gateway's routes on a connection that is there cannot fail.
HttpReady ==
    /\ httpServe = "ready"
    /\ healthy' = TRUE
    /\ httpMux' = "free"
    /\ httpServe' = "serve"
    /\ UNCHANGED <<main, handler, grpcServe, grpcMux, ldap, stop, httpClosed, calls, setUp,
                   process>>

\* http.Server.Serve, on a listener or a server that may be closed already.
HttpServe ==
    /\ httpServe = "serve"
    /\ httpServe' = IF httpClosed THEN "done" ELSE "serving"
    /\ UNCHANGED <<main, handler, grpcServe, grpcMux, httpMux, ldap, stop, httpClosed,
                   healthy, calls, setUp, process>>

HttpServed ==
    /\ httpServe = "serving" /\ httpClosed
    /\ httpServe' = "done"
    /\ UNCHANGED <<main, handler, grpcServe, grpcMux, httpMux, ldap, stop, httpClosed,
                   healthy, calls, setUp, process>>

-----------------------------------------------------------------------------
(* The goroutine that waits for SIGINT or SIGTERM                          *)

Await ==
    /\ handler = "spawned"
    /\ handler' = "waiting"
    /\ UNCHANGED <<main, grpcServe, httpServe, grpcMux, httpMux, ldap, stop, httpClosed,
                   healthy, calls, setUp, process>>

\* The channel has no buffer: a signal that comes before the goroutine waits,
\* and every signal after the first, is dropped.
Signal ==
    /\ handler = "waiting"
    /\ handler' = "grpc"
    /\ UNCHANGED <<main, grpcServe, httpServe, grpcMux, httpMux, ldap, stop, httpClosed,
                   healthy, calls, setUp, process>>

\* Mutant: Shutdown does not wait for the setup.
ShutdownGrpcUnlocked ==
    /\ handler = "grpc"
    /\ \/ /\ grpcServe = "none"
          /\ process' = "panicked"
          /\ UNCHANGED <<handler, grpcMux>>
       \/ /\ grpcServe # "none"
          /\ handler' = "stop"
          /\ UNCHANGED <<grpcMux, process>>
    /\ UNCHANGED <<main, grpcServe, httpServe, httpMux, ldap, stop, httpClosed, healthy,
                   calls, setUp>>

\* Shutdown of a server that has not been made is a call on a nil interface.
ShutdownGrpc ==
    /\ handler = "grpc"
    /\ \/ /\ grpcServe = "none"
          /\ process' = "panicked"
          /\ UNCHANGED <<handler, grpcMux>>
       \/ /\ grpcServe # "none" /\ grpcMux = "free"
          /\ grpcMux' = "handler"
          /\ handler' = "stop"
          /\ UNCHANGED process
    /\ UNCHANGED <<main, grpcServe, httpServe, httpMux, ldap, stop, httpClosed, healthy,
                   calls, setUp>>

\* Mutant: the connection is closed while the calls are drained.
GracefulStopAside ==
    /\ handler = "stop" /\ grpcServe # "lock"
    /\ healthy' = FALSE
    /\ stop' = IF stop = "no" THEN "draining" ELSE stop
    /\ handler' = "close"
    /\ UNCHANGED <<main, grpcServe, httpServe, grpcMux, httpMux, ldap, httpClosed, calls,
                   setUp, process>>

\* Before BootstrapGrpc there is no grpc.Server: its method on nil panics or
\* does nothing.  Otherwise no new call is accepted from now on.
GracefulStop ==
    /\ handler = "stop"
    /\ \/ /\ grpcServe = "lock"
          /\ \/ process' = "panicked" /\ UNCHANGED handler
             \/ handler' = "close" /\ UNCHANGED process
          /\ UNCHANGED <<stop, healthy>>
       \/ /\ grpcServe # "lock"
          /\ healthy' = FALSE
          /\ stop' = IF stop = "no" THEN "draining" ELSE stop
          /\ handler' = "drain"
          /\ UNCHANGED process
    /\ UNCHANGED <<main, grpcServe, httpServe, grpcMux, httpMux, ldap, httpClosed, calls,
                   setUp>>

\* It returns when the last call is answered, and may have shut the
\* http.Server of the embedded service down too.
Drain ==
    /\ handler = "drain"
    /\ calls = 0
    /\ stop' = "stopped"
    /\ httpClosed' \in IF httpServe \in {"none", "lock"} THEN {httpClosed} ELSE {httpClosed, TRUE}
    /\ handler' = "close"
    /\ UNCHANGED <<main, grpcServe, httpServe, grpcMux, httpMux, ldap, healthy, calls, setUp,
                   process>>

CloseManager ==
    /\ handler = "close"
    /\ ldap' = Closed
    /\ grpcMux' = "free"
    /\ handler' = "http"
    /\ UNCHANGED <<main, grpcServe, httpServe, httpMux, stop, httpClosed, healthy, calls,
                   setUp, process>>

ShutdownHTTP ==
    /\ handler = "http"
    /\ \/ /\ httpServe = "none"
          /\ process' = "panicked"
          /\ UNCHANGED <<handler, httpMux>>
       \/ /\ httpServe # "none" /\ httpMux = "free"
          /\ httpMux' = "handler"
          /\ handler' = "unbind"
          /\ UNCHANGED process
    /\ UNCHANGED <<main, grpcServe, httpServe, grpcMux, ldap, stop, httpClosed, healthy,
                   calls, setUp>>

\* Mutant: the listener stays open.
CloseHTTPUpstream ==
    /\ handler = "unbind"
    /\ httpMux' = "free"
    /\ handler' = "done"
    /\ UNCHANGED <<main, grpcServe, httpServe, grpcMux, ldap, stop, httpClosed, healthy,
                   calls, setUp, process>>

CloseHTTP ==
    /\ handler = "unbind"
    /\ httpClosed' = TRUE
    /\ httpMux' = "free"
    /\ handler' = "done"
    /\ UNCHANGED <<main, grpcServe, httpServe, grpcMux, ldap, stop, healthy, calls, setUp,
                   process>>

-----------------------------------------------------------------------------
Main == Listen \/ StartGrpc \/ Dial \/ StartHTTP \/ Wait

ServeGrpc ==
    \/ GrpcLock \/ GrpcBootstrap \/ GrpcConnect \/ GrpcSetup \/ GrpcReady
    \/ GrpcFail \/ GrpcFailClose \/ GrpcRegister \/ GrpcServe \/ GrpcServed

ServeHTTP == HttpLock \/ HttpReady \/ HttpServe \/ HttpServed

Shutdown ==
    \/ Await \/ ShutdownGrpc \/ GracefulStop \/ Drain \/ CloseManager
    \/ ShutdownHTTP \/ CloseHTTP

Running(A) == process = "up" /\ A

Next == Running(Main \/ ServeGrpc \/ ServeHTTP \/ Shutdown \/ Signal \/ Begin \/ End)

Spec == Init /\ [][Next]_lifeVars

\* A goroutine that can go on goes on, and a call that is served is answered in
\* the end; nobody has to call, and no signal has to come.
Fairness ==
    /\ WF_lifeVars(Running(Main)) /\ WF_lifeVars(Running(ServeGrpc))
    /\ WF_lifeVars(Running(ServeHTTP)) /\ WF_lifeVars(Running(Shutdown))
    /\ WF_lifeVars(Running(End))

FairSpec == Spec /\ Fairness

-----------------------------------------------------------------------------
\* No call is served on a connection that Manager.Close has closed, or that was
\* never opened: a handler that runs uses the connection until it answers, and
\* Shutdown closes it from another goroutine (base/server.go:29).
NoCallOnClosedConnection == calls > 0 => ldap = "open"

\* The health check says ok only after a setup that succeeded, although the
\* HTTP server sets the flag without having run one (http/server.go:104).
HealthyMeansSetUp == healthy => setUp

\* A signal does not close the connection under the setup, which SetupMux is
\* there for (grpc/server.go:34 and 45).
SetupUndisturbed == grpcServe \in {"setup", "ready"} => ldap = "open"

\* What a client may rely on: calls are served between the opening and the
\* stop, and one that is under way when the stop begins is not cut off.
Phase ==
    CASE process = "returned" -> "gone"
      [] process = "panicked" -> "crashed"
      [] process = "up" /\ stop # "no" -> "stopping"
      [] process = "up" /\ stop = "no" /\ grpcServe = "serving" -> "serving"
      [] process = "up" /\ stop = "no" /\ grpcServe # "serving" -> "starting"

Abstract == INSTANCE Daemon WITH phase <- Phase, running <- calls

ImplementsDaemon == Abstract!Spec

\* A graceful stop that has begun ends the process, wherever main and the HTTP
\* server are (a second signal could not help: nobody waits for it).
StopCompletes == handler = "drain" ~> process # "up"

\* Only a signal, or a failure to make the gRPC server or to set the directory
\* up, keeps main from serving HTTP: the blocking dial, the locks and the two
\* goroutines do not wait for one another.
StartsUp ==
    main = "dial" ~> \/ httpServe = "serving"
                     \/ handler \notin {"spawned", "waiting"}
                     \/ grpcServe = "done"
=============================================================================
