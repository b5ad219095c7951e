----------------------------- MODULE LDAPManager -----------------------------
(***************************************************************************)
(* The replicas of ldap-manager over one directory.  A replica runs        *)
(* SetupLDAP when its process starts and serves requests afterwards, each  *)
(* in a goroutine of its own; a replica may crash between any two round    *)
(* trips and start again.  MaxRequests bounds the requests per worker and  *)
(* MaxCrashes the crashes of a behaviour.                                  *)
(***************************************************************************)
EXTENDS Setup

CONSTANTS
    Replica,
    ReplicaOf,     \* the replica each worker belongs to
    Requests,      \* the requests that clients may send
    Start,         \* "down", "ready" or "skip", see Init
    MaxRequests,
    MaxCrashes

\* Names are checked by the handlers; an account can only be given a valid name.
WellFormed(r) ==
    /\ r \in Request
    /\ r.op \notin {"none", "SetupLDAP"}
    /\ r.op \in {"NewAccount", "UpdateAccount"} => r.user \in User
    /\ r.op = "UpdateAccount" => r.to \in User \cup {NoName}

ASSUME ManagerAssumption ==
    /\ ReplicaOf \in [Worker -> Replica]
    /\ \A r \in Requests : WellFormed(r)
    /\ Start \in {"down", "ready", "skip"}
    /\ MaxRequests \in Nat
    /\ MaxCrashes \in Nat

VARIABLES
    mode,      \* the life of each replica's process
    served,    \* requests accepted so far, per worker
    crashes    \* crashes so far

vars == <<directory, proc, mode, served, crashes>>

Label == {"idle", "reply"} \cup GroupLabel \cup AccountLabel \cup SetupLabel

TypeOK ==
    /\ DirectoryTypeOK
    /\ proc \in [Worker -> ProcState(Label)]
    /\ mode \in [Replica -> {"down", "starting", "serving", "failed"}]
    /\ served \in [Worker -> Nat]
    /\ crashes \in Nat

\* Behaviours begin with every process down and an empty directory; or, to
\* study requests without replaying the setup, with every replica serving the
\* directory that SetupLDAP leaves; or with replicas serving an empty
\* directory, which is what Manager.Setup(skipSetupLDAP = true) gives, while
\* other replicas are yet to run the setup.
Init ==
    /\ IF Start = "ready" THEN ReadyDirectory(Admin) ELSE EmptyDirectory
    /\ proc = [w \in Worker |-> Idle]
    /\ mode \in [Replica -> CASE Start = "down" -> {"down"}
                              [] Start = "ready" -> {"serving"}
                              [] Start = "skip" -> {"down", "serving"}]
    /\ served = [w \in Worker |-> 0]
    /\ crashes = 0

-----------------------------------------------------------------------------
\* base.Setup, before the first request is accepted.
Boot(w) ==
    LET p == [Idle EXCEPT !.req.op = "SetupLDAP"]
    IN  /\ mode[ReplicaOf[w]] = "down"
        /\ At(w, "idle")
        /\ mode' = [mode EXCEPT ![ReplicaOf[w]] = "starting"]
        /\ Become(w, SetupLDAP(p))
        /\ UNCHANGED <<directory, served, crashes>>

\* Where the handler of a request begins.
Serve(r) ==
    LET p == [Idle EXCEPT !.req = r]
    IN  CASE r.op = "NewGroup" -> ServeNewGroup(p)
          [] r.op = "DeleteGroup" -> DeleteGroup(p)
          [] r.op = "UpdateGroup" -> UpdateGroup(p)
          [] r.op = "AddGroupMember" -> ServeAddGroupMember(p)
          [] r.op = "DeleteGroupMember" -> DeleteGroupMember(p)
          [] r.op = "NewAccount" -> NewAccount(p, r.user, "reply")
          [] r.op = "UpdateAccount" -> Goto(p, "update_find")
          [] r.op = "DeleteAccount" -> DeleteAccount(p)

Accept(w) ==
    /\ mode[ReplicaOf[w]] = "serving"
    /\ At(w, "idle")
    /\ served[w] < MaxRequests
    /\ served' = [served EXCEPT ![w] = @ + 1]
    /\ \E r \in Requests : Become(w, Serve(r))
    /\ UNCHANGED <<directory, mode, crashes>>

\* The answer goes to the client; SetupLDAP's goes to Connect, which serves on
\* success and stops the server on failure.
Reply(w) ==
    /\ At(w, "reply")
    /\ mode' = IF proc[w].req.op = "SetupLDAP"
               THEN [mode EXCEPT ![ReplicaOf[w]] =
                        IF proc[w].err = "ok" THEN "serving" ELSE "failed"]
               ELSE mode
    /\ Become(w, Idle)
    /\ UNCHANGED <<directory, served, crashes>>

Step(w) ==
    /\ GroupStep(w) \/ AccountStep(w) \/ SetupStep(w)
    /\ UNCHANGED <<mode, served, crashes>>

\* The process dies with all its goroutines; it is started again by Boot.
Crash(r) ==
    /\ mode[r] # "down"
    /\ crashes < MaxCrashes
    /\ crashes' = crashes + 1
    /\ mode' = [mode EXCEPT ![r] = "down"]
    /\ proc' = [w \in Worker |-> IF ReplicaOf[w] = r THEN Idle ELSE proc[w]]
    /\ UNCHANGED <<directory, served>>

Next ==
    \/ \E w \in Worker : Boot(w) \/ Accept(w) \/ Step(w) \/ Reply(w)
    \/ \E r \in Replica : Crash(r)

Spec == Init /\ [][Next]_vars

\* A started goroutine runs on, and a process that is down is started; no
\* client has to send anything and nothing has to crash.
Fairness ==
    \A w \in Worker : WF_vars(Step(w)) /\ WF_vars(Reply(w)) /\ WF_vars(Boot(w))

FairSpec == Spec /\ Fairness
=============================================================================
