------------------------------- MODULE Daemon -------------------------------
(***************************************************************************)
(* What a replica promises its clients about its own life, whatever its    *)
(* goroutines do: it opens once, serves calls only while it is open, and   *)
(* returns only when no call is left.  A crash may cut calls off, but not  *)
(* those that a graceful stop is waiting for.                              *)
(***************************************************************************)
EXTENDS Naturals

VARIABLES
    phase,      \* starting, serving, stopping, gone (returned) or crashed
    running     \* how many calls are being served

daemonVars == <<phase, running>>

Init == phase = "starting" /\ running = 0

Open ==
    /\ phase = "starting"
    /\ phase' = "serving"
    /\ UNCHANGED running

Begin ==
    /\ phase = "serving"
    /\ running' = running + 1
    /\ UNCHANGED phase

End ==
    /\ phase \in {"serving", "stopping"}
    /\ running > 0
    /\ running' = running - 1
    /\ UNCHANGED phase

Stop ==
    /\ phase \in {"starting", "serving"}
    /\ phase' = "stopping"
    /\ UNCHANGED running

Exit ==
    /\ phase \in {"starting", "stopping"}
    /\ running = 0
    /\ phase' = "gone"
    /\ UNCHANGED running

Crash ==
    /\ \/ phase \in {"starting", "serving"}
       \/ phase = "stopping" /\ running = 0
    /\ phase' = "crashed"
    /\ UNCHANGED running

Next == Open \/ Begin \/ End \/ Stop \/ Exit \/ Crash

Spec == Init /\ [][Next]_daemonVars
=============================================================================
