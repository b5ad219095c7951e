------------------------------- MODULE Worker -------------------------------
(***************************************************************************)
(* The goroutines that run ldap-manager's functions.  grpc-go starts one   *)
(* per request; nothing in the code serialises them.  A worker is at a     *)
(* label just before an LDAP round trip, which is atomic; the local code   *)
(* up to the next round trip belongs to the same step.  The Go functions   *)
(* that are called from several places return through ret, with the error  *)
(* of the call in err; what the caller then decides on its own locals may  *)
(* be a step of its own, which touches nothing that is shared.             *)
(***************************************************************************)
EXTENDS Directory

CONSTANTS
    Worker,   \* goroutines
    Admin     \* DefaultAdminUsername

ASSUME WorkerAssumption == Admin \in User

VARIABLE proc

\* Functions with more than one caller.
Function == {"getHighestID", "setupLastID", "NewGroup", "AddGroupMember", "NewAccount"}

\* A request: the arguments of every rpc, the unused ones at their zero value.
Request ==
    [op : {"none", "SetupLDAP", "NewGroup", "DeleteGroup", "UpdateGroup", "AddGroupMember",
           "DeleteGroupMember", "NewAccount", "UpdateAccount", "DeleteAccount"},
     user : User \cup {NoName},
     group : Group \cup {NoName},
     to : Group \cup {NoName},     \* the new name of an update
     members : SUBSET User,
     uid : Nat, gid : Nat,
     admin : BOOLEAN]              \* claims.IsAdmin of the caller

NoRequest ==
    [op |-> "none", user |-> NoName, group |-> NoName, to |-> NoName, members |-> {},
     uid |-> 0, gid |-> 0, admin |-> TRUE]

\* The errors the callers tell apart; "Failed" is any error they do not.
Error == {"ok", "Failed", "Validation", "NoSuchObject", "EntryExists", "GroupExists", "NoGroup",
          "AccountExists", "NoAccount", "MemberExists", "NoMember", "LastMember"}

ProcState(Label) ==
    [pc : Label, ret : [Function -> Label],
     req : Request, err : Error, kind : IDKind, high : Nat,
     name : Group \cup {NoName}, members : SUBSET User, newGID : Nat,
     user : User \cup {NoName}, uid : Nat, gid : Nat, group : Group \cup {NoName},
     todo : SUBSET Group]

Idle ==
    [pc |-> "idle", ret |-> [f \in Function |-> "reply"],
     req |-> NoRequest, err |-> "ok", kind |-> "UID", high |-> 0,
     name |-> NoName, members |-> {}, newGID |-> 0,
     user |-> NoName, uid |-> 0, gid |-> 0, group |-> NoName, todo |-> {}]

At(w, label) == proc[w].pc = label
Become(w, p) == proc' = [proc EXCEPT ![w] = p]

\* The handler of the request answers with err.
Answer(p, err) == [p EXCEPT !.pc = "reply", !.err = err]

\* Function f returns err to its caller.
Return(p, f, err) == [p EXCEPT !.pc = p.ret[f], !.err = err]

Goto(p, label) == [p EXCEPT !.pc = label, !.err = "ok"]
=============================================================================
