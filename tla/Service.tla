------------------------------- MODULE Service -------------------------------
(***************************************************************************)
(* What every rpc of the gRPC service does around the call of the manager: *)
(* authenticate (grpc/auth.go), compare the caller with the account the    *)
(* request is about, and turn the manager's error into a status            *)
(* (toStatus and the Code methods of the error types).                     *)
(***************************************************************************)

CONSTANTS
    User,      \* account names
    NoName     \* the empty name

ASSUME ServiceAssumption == NoName \notin User

Method ==
    {"Login", "GetUserList", "GetAccount", "NewAccount", "UpdateAccount", "DeleteAccount",
     "ChangePassword", "NewGroup", "DeleteGroup", "UpdateGroup", "GetGroupList",
     "GetUserGroups", "IsGroupMember", "GetGroup", "AddGroupMember", "DeleteGroupMember"}

\* The methods with option (require_admin) = true.
RequireAdmin ==
    {"GetUserList", "NewAccount", "NewGroup", "DeleteGroup", "UpdateGroup", "IsGroupMember",
     "GetGroup", "AddGroupMember", "DeleteGroupMember"}

\* The handlers that serve an account's own holder as well as administrators.
OwnAccount ==
    {"GetAccount", "UpdateAccount", "DeleteAccount", "ChangePassword", "GetUserGroups",
     "IsGroupMember", "DeleteGroupMember"}

-----------------------------------------------------------------------------
(* Claims of a token: AuthClaims without the display name and the number,  *)
(* which no handler reads.  from is no claim but history: the account of   *)
(* the login that the token descends from.                                 *)

Claims == [uid : User, admin : BOOLEAN, from : User]

\* What a request may carry instead of a token that validates.
NoToken == [uid |-> NoName, admin |-> FALSE, from |-> NoName]

\* Mutant: the policy of the method is not looked at.
AuthenticateAnyone(method, claims) ==
    IF claims = NoToken THEN "Unauthenticated" ELSE "OK"

\* authenticate.  Of the calls that carry no valid token, those without any
\* metadata, which the gateway never sends, are answered Internal instead.
Authenticate(method, claims) ==
    CASE claims = NoToken -> "Unauthenticated"
      [] claims # NoToken /\ method \in RequireAdmin /\ ~claims.admin -> "PermissionDenied"
      [] OTHER -> "OK"

\* The code a handler of method returns before it calls the manager, OK when it
\* does; policy is the method whose options the server has looked up.
AuthoriseAs(policy, method, claims, username) ==
    IF /\ Authenticate(policy, claims) = "OK"
       /\ method \in OwnAccount
       /\ ~claims.admin
       /\ claims.uid # username
    THEN "PermissionDenied"
    ELSE Authenticate(policy, claims)

\* Mutant: the claims are never compared with the name of the request.
AuthoriseAnyName(method, claims, username) == Authenticate(method, claims)

Authorise(method, claims, username) == AuthoriseAs(method, method, claims, username)

-----------------------------------------------------------------------------
\* toStatus of an application error, and what handlers make of other errors.
Status(err) ==
    CASE err = "ok" -> "OK"
      [] err \in {"Validation", "AccountValidation"} -> "InvalidArgument"
      [] err \in {"NoAccount", "NoGroup", "NoMember"} -> "NotFound"
      [] err \in {"AccountExists", "GroupExists", "MemberExists"} -> "AlreadyExists"
      [] err = "LastMember" -> "FailedPrecondition"
      [] OTHER -> "Internal"

Code ==
    {"OK", "InvalidArgument", "NotFound", "AlreadyExists", "FailedPrecondition",
     "PermissionDenied", "Unauthenticated", "Internal"}
=============================================================================
