--------------------------- MODULE LifecycleProofs ---------------------------
(***************************************************************************)
(* Proofs about the life of a process, for any number of calls at a time.  *)
(* Everything follows from one inductive invariant, LifeInv: who holds     *)
(* which lock where, how far the stop has got while the handler is on its  *)
(* way, and what the gRPC server may rely on once it serves.               *)
(***************************************************************************)
EXTENDS Lifecycle, TLAPS

\* SetupMux: the setup and the shutdown exclude each other.
Locks ==
    /\ grpcServe \in {"bootstrap", "connect", "setup", "ready", "fail", "fail_close",
                     "register"} => grpcMux = "serve"
    /\ handler \in {"stop", "drain", "close"} => grpcMux = "handler" /\ grpcServe # "none"

\* How far the stop has got.
StopOrder ==
    /\ handler = "drain" => stop # "no"
    /\ stop = "draining" => handler = "drain"
    /\ handler = "close" => stop = "stopped" \/ grpcServe = "lock"
    /\ stop # "no" => grpcServe \notin {"none", "lock", "bootstrap", "connect", "setup",
                                       "ready", "fail"}
    /\ grpcServe = "fail_close" => stop # "no"

\* What has happened before the gRPC server serves, and before main goes on.
Opened ==
    /\ SetupUndisturbed
    /\ main \in {"listen", "grpc"} => grpcServe = "none"
    /\ grpcServe = "ready" => setUp
    /\ grpcServe \in {"register", "serve", "serving"} /\ stop = "no" =>
          ldap = "open" /\ setUp
    /\ main \in {"http", "wait"} \/ httpServe # "none" => setUp
    /\ HealthyMeansSetUp

\* Calls are served by a server that serves, or drains.
CallsServed ==
    /\ NoCallOnClosedConnection
    /\ calls > 0 => grpcServe = "serving" /\ stop # "stopped"

LifeInv == LifecycleTypeOK /\ Locks /\ StopOrder /\ Opened /\ CallsServed

-----------------------------------------------------------------------------
(* The invariant is inductive                                              *)

\* The invariant holds before main has done anything.
LEMMA LifeInit == Init => LifeInv
<1> SUFFICES ASSUME Init PROVE LifeInv
  OBVIOUS
<1>1. ~healthy /\ healthy \in BOOLEAN /\ setUp \in BOOLEAN /\ httpClosed \in BOOLEAN
  BY Zenon DEF Init
<1>2. LifecycleTypeOK
  BY <1>1, LifecycleAssumption DEF Init, LifecycleTypeOK
<1>3. Locks /\ StopOrder /\ CallsServed
  BY DEF Init, Locks, StopOrder, CallsServed, NoCallOnClosedConnection
<1>4. Opened
  BY <1>1 DEF Init, Opened, SetupUndisturbed, HealthyMeansSetUp
<1> QED
  BY <1>2, <1>3, <1>4 DEF LifeInv

\* Steps of main keep the invariant.
LEMMA MainKeeps == LifeInv /\ process = "up" /\ Main => LifeInv'
<1> SUFFICES ASSUME LifeInv, process = "up", Main PROVE LifeInv'
  OBVIOUS
<1> USE LifecycleAssumption DEF LifeInv, LifecycleTypeOK, Locks, StopOrder, Opened, CallsServed, SetupUndisturbed, HealthyMeansSetUp, NoCallOnClosedConnection
<1>1. CASE Listen
  BY <1>1 DEF Listen
<1>2. CASE StartGrpc
  BY <1>2 DEF StartGrpc
<1>3. CASE Dial
  BY <1>3 DEF Dial
<1>4. CASE StartHTTP
  BY <1>4 DEF StartHTTP
<1>5. CASE Wait
  BY <1>5 DEF Wait
<1> QED
  BY <1>1, <1>2, <1>3, <1>4, <1>5 DEF Main

\* Steps of the goroutine of the gRPC server keep the invariant.
LEMMA ServeGrpcKeeps == LifeInv /\ process = "up" /\ ServeGrpc => LifeInv'
<1> SUFFICES ASSUME LifeInv, process = "up", ServeGrpc PROVE LifeInv'
  OBVIOUS
<1> USE LifecycleAssumption DEF LifeInv, LifecycleTypeOK, Locks, StopOrder, Opened, CallsServed, SetupUndisturbed, HealthyMeansSetUp, NoCallOnClosedConnection
<1>1. CASE GrpcLock
  BY <1>1 DEF GrpcLock
<1>2. CASE GrpcBootstrap
  BY <1>2 DEF GrpcBootstrap
<1>3. CASE GrpcConnect
  BY <1>3 DEF GrpcConnect
<1>4. CASE GrpcSetup
  <2>1. setUp \/ grpcServe' = "ready" => setUp'
    BY <1>4 DEF GrpcSetup
  <2>2. healthy' \in BOOLEAN /\ setUp' \in BOOLEAN /\ httpClosed' \in BOOLEAN
    BY <1>4, Zenon DEF GrpcSetup
  <2>3. LifecycleTypeOK'
    BY <1>4, <2>2 DEF GrpcSetup
  <2>4. Locks' /\ StopOrder' /\ CallsServed'
    BY <1>4 DEF GrpcSetup
  <2>5. Opened'
    BY <1>4, <2>1 DEF GrpcSetup
  <2> QED
    BY <2>3, <2>4, <2>5
<1>5. CASE GrpcReady
  BY <1>5 DEF GrpcReady
<1>6. CASE GrpcFail
  <2>1. ~healthy'
    BY <1>6 DEF GrpcFail
  <2>2. healthy' \in BOOLEAN /\ setUp' \in BOOLEAN /\ httpClosed' \in BOOLEAN
    BY <1>6, Zenon DEF GrpcFail
  <2>3. LifecycleTypeOK'
    BY <1>6, <2>2 DEF GrpcFail
  <2>4. Locks' /\ StopOrder' /\ CallsServed'
    BY <1>6 DEF GrpcFail
  <2>5. Opened'
    BY <1>6, <2>1 DEF GrpcFail
  <2> QED
    BY <2>3, <2>4, <2>5
<1>7. CASE GrpcFailClose
  BY <1>7 DEF GrpcFailClose, Closed
<1>8. CASE GrpcRegister
  BY <1>8 DEF GrpcRegister
<1>9. CASE GrpcServe
  BY <1>9 DEF GrpcServe
<1>10. CASE GrpcServed
  BY <1>10 DEF GrpcServed
<1> QED
  BY <1>1, <1>2, <1>3, <1>4, <1>5, <1>6, <1>7, <1>8, <1>9, <1>10 DEF ServeGrpc

\* Steps of the goroutine of the HTTP server keep the invariant.
LEMMA ServeHTTPKeeps == LifeInv /\ process = "up" /\ ServeHTTP => LifeInv'
<1> SUFFICES ASSUME LifeInv, process = "up", ServeHTTP PROVE LifeInv'
  OBVIOUS
<1> USE LifecycleAssumption DEF LifeInv, LifecycleTypeOK, Locks, StopOrder, Opened, CallsServed, SetupUndisturbed, HealthyMeansSetUp, NoCallOnClosedConnection
<1>1. CASE HttpLock
  BY <1>1 DEF HttpLock
<1>2. CASE HttpReady
  BY <1>2 DEF HttpReady
<1>3. CASE HttpServe
  BY <1>3 DEF HttpServe
<1>4. CASE HttpServed
  BY <1>4 DEF HttpServed
<1> QED
  BY <1>1, <1>2, <1>3, <1>4 DEF ServeHTTP

\* Steps of the goroutine that handles the signal keep the invariant.
LEMMA ShutdownKeeps == LifeInv /\ process = "up" /\ Shutdown => LifeInv'
<1> SUFFICES ASSUME LifeInv, process = "up", Shutdown PROVE LifeInv'
  OBVIOUS
<1> USE LifecycleAssumption DEF LifeInv, LifecycleTypeOK, Locks, StopOrder, Opened, CallsServed, SetupUndisturbed, HealthyMeansSetUp, NoCallOnClosedConnection
<1>1. CASE Await
  BY <1>1 DEF Await
<1>2. CASE ShutdownGrpc
  BY <1>2 DEF ShutdownGrpc
<1>3. CASE GracefulStop
  <2>1. healthy' => healthy
    BY <1>3 DEF GracefulStop
  <2>2. healthy' \in BOOLEAN /\ setUp' \in BOOLEAN /\ httpClosed' \in BOOLEAN
    BY <1>3, Zenon DEF GracefulStop
  <2>3. LifecycleTypeOK'
    BY <1>3, <2>2 DEF GracefulStop
  <2>4. Locks' /\ StopOrder' /\ CallsServed'
    BY <1>3 DEF GracefulStop
  <2>5. Opened'
    BY <1>3, <2>1 DEF GracefulStop
  <2> QED
    BY <2>3, <2>4, <2>5
<1>4. CASE Drain
  <2>1. healthy' = healthy /\ setUp' = setUp
    BY <1>4 DEF Drain
  <2>2. healthy' \in BOOLEAN /\ setUp' \in BOOLEAN /\ httpClosed' \in BOOLEAN
    BY <1>4, Zenon DEF Drain
  <2>3. LifecycleTypeOK'
    BY <1>4, <2>2 DEF Drain
  <2>4. Locks' /\ StopOrder' /\ CallsServed'
    BY <1>4 DEF Drain
  <2>5. Opened'
    BY <1>4, <2>1 DEF Drain
  <2> QED
    BY <2>3, <2>4, <2>5
<1>5. CASE CloseManager
  BY <1>5 DEF CloseManager, Closed
<1>6. CASE ShutdownHTTP
  BY <1>6 DEF ShutdownHTTP
<1>7. CASE CloseHTTP
  BY <1>7 DEF CloseHTTP
<1> QED
  BY <1>1, <1>2, <1>3, <1>4, <1>5, <1>6, <1>7 DEF Shutdown

\* Signals and calls keep the invariant.
LEMMA OthersKeep == LifeInv /\ process = "up" /\ (Signal \/ Begin \/ End) => LifeInv'
<1> SUFFICES ASSUME LifeInv, process = "up", Signal \/ Begin \/ End PROVE LifeInv'
  OBVIOUS
<1> USE LifecycleAssumption DEF LifeInv, LifecycleTypeOK, Locks, StopOrder, Opened, CallsServed, SetupUndisturbed, HealthyMeansSetUp, NoCallOnClosedConnection
<1>1. CASE Signal
  BY <1>1 DEF Signal
<1>2. CASE Begin
  BY <1>2 DEF Begin
<1>3. CASE End
  BY <1>3 DEF End
<1> QED
  BY <1>1, <1>2, <1>3

\* Every step keeps the invariant.
LEMMA LifeNext == LifeInv /\ [Next]_lifeVars => LifeInv'
<1> SUFFICES ASSUME LifeInv, [Next]_lifeVars PROVE LifeInv'
  OBVIOUS
<1>1. CASE Next
  BY <1>1, MainKeeps, ServeGrpcKeeps, ServeHTTPKeeps, ShutdownKeeps, OthersKeep
  DEF Next, Running
<1>2. CASE UNCHANGED lifeVars
  BY <1>2 DEF lifeVars, LifeInv, LifecycleTypeOK, Locks, StopOrder, Opened, CallsServed, SetupUndisturbed, HealthyMeansSetUp, NoCallOnClosedConnection
<1> QED
  BY <1>1, <1>2

\* LifeInv holds in every state a process can be in.
THEOREM LifeInvariant == Spec => []LifeInv
BY LifeInit, LifeNext, PTL DEF Spec

-----------------------------------------------------------------------------
(* What follows                                                            *)

\* Every variable keeps its type, and no more than MaxCalls calls are served.
THEOREM LifecycleTypesCorrect == Spec => []LifecycleTypeOK
<1>1. LifeInv => LifecycleTypeOK
  BY DEF LifeInv
<1> QED
  BY <1>1, LifeInvariant, PTL

\* No call is served on a connection that is closed, or not yet there: the
\* shutdown closes it (base/server.go:33) only after the calls are drained.
THEOREM CallsHaveConnection == Spec => []NoCallOnClosedConnection
<1>1. LifeInv => NoCallOnClosedConnection
  BY DEF LifeInv, CallsServed
<1> QED
  BY <1>1, LifeInvariant, PTL

\* The health check says ok only after a setup that succeeded.
THEOREM HealthIsEarned == Spec => []HealthyMeansSetUp
<1>1. LifeInv => HealthyMeansSetUp
  BY DEF LifeInv, Opened
<1> QED
  BY <1>1, LifeInvariant, PTL

\* A signal does not close the connection under the setup (grpc/server.go:34).
THEOREM SetupKeepsConnection == Spec => []SetupUndisturbed
<1>1. LifeInv => SetupUndisturbed
  BY DEF LifeInv, Opened
<1> QED
  BY <1>1, LifeInvariant, PTL

-----------------------------------------------------------------------------
(* The process implements Daemon                                           *)

\* The initial states map to Daemon's.
LEMMA InitMaps == Init => Abstract!Init
BY DEF Init, Phase, Abstract!Init

\* What a step of main is to the clients.
LEMMA MainMaps ==
    LifeInv /\ process = "up" /\ Main =>
        Abstract!Exit \/ UNCHANGED <<Phase, calls>>
<1> SUFFICES ASSUME LifeInv, process = "up", Main
             PROVE  Abstract!Exit \/ UNCHANGED <<Phase, calls>>
  OBVIOUS
<1> USE LifecycleAssumption DEF LifeInv, LifecycleTypeOK, Locks, StopOrder, Opened, CallsServed, SetupUndisturbed, HealthyMeansSetUp, NoCallOnClosedConnection, Phase, Abstract!Exit
<1>1. CASE Listen
  BY <1>1 DEF Listen
<1>2. CASE StartGrpc
  BY <1>2 DEF StartGrpc
<1>3. CASE Dial
  BY <1>3 DEF Dial
<1>4. CASE StartHTTP
  BY <1>4 DEF StartHTTP
<1>5. CASE Wait
  BY <1>5 DEF Wait
<1> QED
  BY <1>1, <1>2, <1>3, <1>4, <1>5 DEF Main

\* What a step of the goroutine of the gRPC server is to the clients.
LEMMA ServeGrpcMaps ==
    LifeInv /\ process = "up" /\ ServeGrpc =>
        Abstract!Open \/ Abstract!Stop \/ UNCHANGED <<Phase, calls>>
<1> SUFFICES ASSUME LifeInv, process = "up", ServeGrpc
             PROVE  Abstract!Open \/ Abstract!Stop \/ UNCHANGED <<Phase, calls>>
  OBVIOUS
<1> USE LifecycleAssumption DEF LifeInv, LifecycleTypeOK, Locks, StopOrder, Opened, CallsServed, SetupUndisturbed, HealthyMeansSetUp, NoCallOnClosedConnection, Phase, Abstract!Open, Abstract!Stop
<1>1. CASE GrpcLock
  BY <1>1 DEF GrpcLock
<1>2. CASE GrpcBootstrap
  BY <1>2 DEF GrpcBootstrap
<1>3. CASE GrpcConnect
  BY <1>3 DEF GrpcConnect
<1>4. CASE GrpcSetup
  BY <1>4 DEF GrpcSetup
<1>5. CASE GrpcReady
  BY <1>5 DEF GrpcReady
<1>6. CASE GrpcFail
  BY <1>6 DEF GrpcFail
<1>7. CASE GrpcFailClose
  BY <1>7 DEF GrpcFailClose
<1>8. CASE GrpcRegister
  BY <1>8 DEF GrpcRegister
<1>9. CASE GrpcServe
  BY <1>9 DEF GrpcServe
<1>10. CASE GrpcServed
  BY <1>10 DEF GrpcServed
<1> QED
  BY <1>1, <1>2, <1>3, <1>4, <1>5, <1>6, <1>7, <1>8, <1>9, <1>10 DEF ServeGrpc

\* What a step of the goroutine of the HTTP server is to the clients.
LEMMA ServeHTTPMaps ==
    LifeInv /\ process = "up" /\ ServeHTTP =>
        UNCHANGED <<Phase, calls>>
<1> SUFFICES ASSUME LifeInv, process = "up", ServeHTTP
             PROVE  UNCHANGED <<Phase, calls>>
  OBVIOUS
<1> USE LifecycleAssumption DEF LifeInv, LifecycleTypeOK, Locks, StopOrder, Opened, CallsServed, SetupUndisturbed, HealthyMeansSetUp, NoCallOnClosedConnection, Phase
<1>1. CASE HttpLock
  BY <1>1 DEF HttpLock
<1>2. CASE HttpReady
  BY <1>2 DEF HttpReady
<1>3. CASE HttpServe
  BY <1>3 DEF HttpServe
<1>4. CASE HttpServed
  BY <1>4 DEF HttpServed
<1> QED
  BY <1>1, <1>2, <1>3, <1>4 DEF ServeHTTP

\* What a step of the goroutine that handles the signal is to the clients.
LEMMA ShutdownMaps ==
    LifeInv /\ process = "up" /\ Shutdown =>
        Abstract!Stop \/ Abstract!Crash \/ UNCHANGED <<Phase, calls>>
<1> SUFFICES ASSUME LifeInv, process = "up", Shutdown
             PROVE  Abstract!Stop \/ Abstract!Crash \/ UNCHANGED <<Phase, calls>>
  OBVIOUS
<1> USE LifecycleAssumption DEF LifeInv, LifecycleTypeOK, Locks, StopOrder, Opened, CallsServed, SetupUndisturbed, HealthyMeansSetUp, NoCallOnClosedConnection, Phase, Abstract!Stop, Abstract!Crash
<1>1. CASE Await
  BY <1>1 DEF Await
<1>2. CASE ShutdownGrpc
  BY <1>2 DEF ShutdownGrpc
<1>3. CASE GracefulStop
  BY <1>3 DEF GracefulStop
<1>4. CASE Drain
  BY <1>4 DEF Drain
<1>5. CASE CloseManager
  BY <1>5 DEF CloseManager
<1>6. CASE ShutdownHTTP
  BY <1>6 DEF ShutdownHTTP
<1>7. CASE CloseHTTP
  BY <1>7 DEF CloseHTTP
<1> QED
  BY <1>1, <1>2, <1>3, <1>4, <1>5, <1>6, <1>7 DEF Shutdown

\* A signal is no step of Daemon; a call begins and ends as it says.
LEMMA OthersMap ==
    LifeInv /\ process = "up" /\ (Signal \/ Begin \/ End) =>
        Abstract!Begin \/ Abstract!End \/ UNCHANGED <<Phase, calls>>
<1> SUFFICES ASSUME LifeInv, process = "up", Signal \/ Begin \/ End
             PROVE  Abstract!Begin \/ Abstract!End \/ UNCHANGED <<Phase, calls>>
  OBVIOUS
<1> USE LifecycleAssumption DEF LifeInv, LifecycleTypeOK, Locks, StopOrder, Opened, CallsServed, SetupUndisturbed, HealthyMeansSetUp, NoCallOnClosedConnection, Phase, Abstract!Begin, Abstract!End
<1>1. CASE Signal
  BY <1>1 DEF Signal
<1>2. CASE Begin
  BY <1>2 DEF Begin
<1>3. CASE End
  BY <1>3 DEF End
<1> QED
  BY <1>1, <1>2, <1>3

\* Every step is a step of Daemon or changes nothing a client sees.
LEMMA NextMaps == LifeInv /\ [Next]_lifeVars => [Abstract!Next]_(Abstract!daemonVars)
<1> SUFFICES ASSUME LifeInv, [Next]_lifeVars
             PROVE  Abstract!Next \/ UNCHANGED <<Phase, calls>>
  BY DEF Abstract!daemonVars
<1>1. CASE Next
  BY <1>1, MainMaps, ServeGrpcMaps, ServeHTTPMaps, ShutdownMaps, OthersMap
  DEF Next, Running, Abstract!Next
<1>2. CASE UNCHANGED lifeVars
  BY <1>2 DEF lifeVars, Phase
<1> QED
  BY <1>1, <1>2

\* The four goroutines keep the promise of Daemon: a process opens once, serves
\* calls only between then and the stop, and neither returns nor panics under a
\* call that a stop has begun to wait for.
THEOREM LifecycleImplementsDaemon == Spec => ImplementsDaemon
BY InitMaps, NextMaps, LifeInvariant, PTL DEF Spec, ImplementsDaemon, Abstract!Spec
=============================================================================
