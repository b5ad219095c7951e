------------------------------- MODULE Sessions -------------------------------
(***************************************************************************)
(* Logins, tokens and the one LDAP connection of a replica.  Every request *)
(* sends its round trips over m.ldap, which is bound as the directory      *)
(* manager; a login binds that very connection as the user and binds it    *)
(* back.  The directory answers a round trip according to whom the         *)
(* connection is bound as at that moment.                                  *)
(*                                                                         *)
(* Requests other than Login and ChangePassword are one round trip here:   *)
(* what they do to passwords, names and the administrators' group, and     *)
(* which token they need.  Their round trips are in Accounts and Groups.   *)
(***************************************************************************)
EXTENDS Service, Naturals

CONSTANTS
    Password,
    Worker,          \* goroutines of the gRPC server
    Admin,           \* DefaultAdminUsername
    First,           \* the accounts at the start, with their passwords
    Manager,         \* the identity cn=admin of the connection
    Anonymous,       \* the identity of a connection whose bind failed
    RebindMayFail,   \* whether BindAdmin may return an error
    RefInt,          \* whether the server renames members with their entry
    Requests,        \* the requests that clients send, with any token they hold
    MaxRequests      \* bound on the requests of a worker

SessionMethod ==
    {"Login", "ChangePassword", "UpdateAccount", "DeleteAccount", "NewAccount",
     "AddGroupMember", "DeleteGroupMember"}

SessionRequest ==
    [op : SessionMethod,
     user : User \cup {NoName}, to : User \cup {NoName}, pw : Password \cup {NoName}]

ASSUME SessionAssumption ==
    /\ NoName \notin Password
    /\ Admin \in User
    /\ First \in [User -> Password \cup {NoName}] /\ First[Admin] # NoName
    /\ Manager \notin User /\ Anonymous \notin User \cup {Manager}
    /\ RebindMayFail \in BOOLEAN /\ RefInt \in BOOLEAN
    /\ Requests \subseteq SessionRequest
    /\ \A r \in Requests :
          /\ r.op \notin {"Login", "ChangePassword"} => r.user \in User
          /\ r.op = "NewAccount" => r.pw \in Password
    /\ MaxRequests \in Nat

VARIABLES
    password,    \* of each account; NoName when there is no such account
    admins,      \* the members of DefaultAdminGroup
    bound,       \* the identity m.ldap is bound as
    tokens,      \* the tokens issued and not yet expired
    proc,        \* what each worker is doing
    served,      \* requests accepted so far, per worker
    wasAdmin     \* history: the names that have been members of admins

store == <<password, admins, wasAdmin>>
sessionVars == <<password, admins, wasAdmin, bound, tokens, proc, served>>

Label ==
    {"idle", "login_search", "login_bind", "login_rebind", "login_member", "password_find",
     "password_modify", "apply", "reply"}

ProcState ==
    [pc : Label, op : {"none"} \cup SessionMethod,
     user : User \cup {NoName}, to : User \cup {NoName}, pw : Password \cup {NoName},
     claims : Claims \cup {NoToken}, good : BOOLEAN, code : Code]

Quiet ==
    [pc |-> "idle", op |-> "none", user |-> NoName, to |-> NoName, pw |-> NoName,
     claims |-> NoToken, good |-> FALSE, code |-> "OK"]

At(w, label) == proc[w].pc = label
Become(w, p) == proc' = [proc EXCEPT ![w] = p]
Goto(p, label) == [p EXCEPT !.pc = label]
Answer(p, code) == [p EXCEPT !.pc = "reply", !.code = code]

Exists(u) == u \in User /\ password[u] # NoName
Privileged == bound = Manager

SessionTypeOK ==
    /\ password \in [User -> Password \cup {NoName}]
    /\ admins \subseteq User
    /\ bound \in User \cup {Manager, Anonymous}
    /\ tokens \subseteq Claims
    /\ proc \in [Worker -> ProcState]
    /\ served \in [Worker -> Nat]
    /\ wasAdmin \subseteq User

Init ==
    /\ password = First
    /\ admins = {Admin}
    /\ wasAdmin = {Admin}
    /\ bound = Manager
    /\ tokens = {}
    /\ proc = [w \in Worker |-> Quiet]
    /\ served = [w \in Worker |-> 0]

-----------------------------------------------------------------------------
(* Login.  good records, for the properties only, whether the password was *)
(* the account's when the request arrived.                                 *)

\* The checks before the first round trip.
LoginStart(p) ==
    IF p.user = NoName \/ p.pw = NoName
    THEN Answer(p, "InvalidArgument")
    ELSE Goto([p EXCEPT !.good = Exists(p.user) /\ password[p.user] = p.pw], "login_search")

LoginSearch(w) ==
    LET p == proc[w]
    IN  /\ At(w, "login_search")
        /\ Become(w, CASE ~Privileged -> Answer(p, "Unauthenticated")
                       [] Privileged /\ ~Exists(p.user) -> Answer(p, "NotFound")
                       [] Privileged /\ Exists(p.user) -> Goto(p, "login_bind"))
        /\ UNCHANGED <<store, bound, tokens, served>>

\* Mutant: a failed bind returns before the deferred BindAdmin.
LoginBindEarly(w) ==
    LET p == proc[w]
        right == Exists(p.user) /\ password[p.user] = p.pw
    IN  /\ At(w, "login_bind")
        /\ bound' = IF right THEN p.user ELSE Anonymous
        /\ Become(w, IF right THEN Goto([p EXCEPT !.code = "OK"], "login_rebind")
                              ELSE Answer(p, "Unauthenticated"))
        /\ UNCHANGED <<store, tokens, served>>

\* A bind that fails leaves the connection anonymous.
LoginBind(w) ==
    LET p == proc[w]
        right == Exists(p.user) /\ password[p.user] = p.pw
    IN  /\ At(w, "login_bind")
        /\ bound' = IF right THEN p.user ELSE Anonymous
        /\ Become(w, Goto([p EXCEPT !.code = IF right THEN "OK" ELSE "Unauthenticated"],
                          "login_rebind"))
        /\ UNCHANGED <<store, tokens, served>>

\* Mutant: a refused bind is tried again.
LoginRebindAgain(w) ==
    LET p == proc[w]
    IN  /\ At(w, "login_rebind")
        /\ bound' \in {Manager} \cup (IF RebindMayFail THEN {Anonymous} ELSE {})
        /\ Become(w, Goto(p, IF p.code = "OK" THEN "login_member" ELSE "login_bind"))
        /\ UNCHANGED <<store, tokens, served>>

\* The deferred BindAdmin, whose error nobody looks at.
LoginRebind(w) ==
    LET p == proc[w]
    IN  /\ At(w, "login_rebind")
        /\ bound' \in {Manager} \cup (IF RebindMayFail THEN {Anonymous} ELSE {})
        /\ Become(w, Goto(p, IF p.code = "OK" THEN "login_member" ELSE "reply"))
        /\ UNCHANGED <<store, tokens, served>>

\* Mutant: every user is taken for an administrator.
LoginMemberAll(w) ==
    LET p == proc[w]
        claims == [uid |-> p.user, admin |-> TRUE, from |-> p.user]
    IN  /\ At(w, "login_member")
        /\ \/ Privileged /\ tokens' = tokens \cup {claims} /\ Become(w, Answer(p, "OK"))
           \/ ~Privileged /\ Become(w, Answer(p, "Internal")) /\ UNCHANGED tokens
        /\ UNCHANGED <<store, bound, served>>

\* IsGroupMember of DefaultAdminGroup, and the signed token.
LoginMember(w) ==
    LET p == proc[w]
        claims == [uid |-> p.user, admin |-> p.user \in admins, from |-> p.user]
    IN  /\ At(w, "login_member")
        /\ \/ Privileged /\ tokens' = tokens \cup {claims} /\ Become(w, Answer(p, "OK"))
           \/ ~Privileged /\ Become(w, Answer(p, "Internal")) /\ UNCHANGED tokens
        /\ UNCHANGED <<store, bound, served>>

-----------------------------------------------------------------------------
(* ChangePassword *)

ChangePassword(p) ==
    IF p.user = NoName \/ p.pw = NoName THEN Answer(p, "Internal") ELSE Goto(p, "password_find")

PasswordFind(w) ==
    LET p == proc[w]
    IN  /\ At(w, "password_find")
        /\ Become(w, CASE ~Privileged -> Answer(p, "Internal")
                       [] Privileged /\ ~Exists(p.user) -> Answer(p, "NotFound")
                       [] Privileged /\ Exists(p.user) -> Goto(p, "password_modify"))
        /\ UNCHANGED <<store, bound, tokens, served>>

\* Modify replaces the attribute; the account may be gone since the search.
PasswordModify(w) ==
    LET p == proc[w]
        done == Privileged /\ Exists(p.user)
    IN  /\ At(w, "password_modify")
        /\ password' = IF done THEN [password EXCEPT ![p.user] = p.pw] ELSE password
        /\ Become(w, Answer(p, IF done THEN "OK" ELSE "Internal"))
        /\ UNCHANGED <<admins, wasAdmin, bound, tokens, served>>

-----------------------------------------------------------------------------
(* The other requests that change what a token stands for. *)

Refuse(w, code) ==
    /\ Become(w, Answer(proc[w], code))
    /\ UNCHANGED <<store, tokens>>

\* The error of a round trip about the account u.
Missing(u) == IF ~Privileged THEN "Internal" ELSE "NotFound"

NewAccount(w) ==
    LET p == proc[w]
    IN  IF Privileged /\ ~Exists(p.user)
        THEN /\ password' = [password EXCEPT ![p.user] = p.pw]
             /\ Become(w, Answer(p, "OK"))
             /\ UNCHANGED <<admins, wasAdmin, tokens>>
        ELSE Refuse(w, IF Privileged THEN "AlreadyExists" ELSE "Internal")

\* The account leaves its groups first, which the last administrator cannot;
\* a name without an account leaves them too before Del fails.
DeleteAccount(w) ==
    LET p == proc[w]
    IN  IF Privileged /\ admins # {p.user}
        THEN /\ password' = [password EXCEPT ![p.user] = NoName]
             /\ admins' = admins \ {p.user}
             /\ Become(w, Answer(p, IF Exists(p.user) THEN "OK" ELSE "Internal"))
             /\ UNCHANGED <<wasAdmin, tokens>>
        ELSE Refuse(w, IF Privileged THEN "FailedPrecondition" ELSE "Internal")

\* Mutant: the new token is an administrator's whenever the request changed a name.
RenewedPromoted(claims, name) ==
    [claims EXCEPT !.uid = name, !.admin = claims.admin \/ claims.uid # name]

\* The token UpdateAccount returns: the account's new name, the caller's rights.
Renewed(claims, name) == [claims EXCEPT !.uid = name]

\* Mutant: an update without a name is taken for a renaming to the empty one.
NewNameAsGiven(p) == p.to

NewName(p) == IF p.to = NoName THEN p.user ELSE p.to

\* UpdateAccount renames, may set a password, and moves the memberships that
\* it finds under the new name.
UpdateAccount(w) ==
    LET p == proc[w]
        v == NewName(p)
        renames == v # p.user
        pw == IF p.pw = NoName THEN password[p.user] ELSE p.pw
        moves == renames /\ p.user \in admins /\ (RefInt \/ v \in admins)
    IN  IF Privileged /\ Exists(p.user) /\ (renames => ~Exists(v))
        THEN /\ password' = [u \in User |-> IF u = v THEN pw
                                            ELSE IF u = p.user THEN NoName ELSE password[u]]
             /\ admins' = IF moves THEN (admins \ {p.user}) \cup {v} ELSE admins
             /\ wasAdmin' = IF moves THEN wasAdmin \cup {v} ELSE wasAdmin
             /\ tokens' = tokens \cup {Renewed(p.claims, v)}
             /\ Become(w, Answer(p, "OK"))
        ELSE Refuse(w, IF Privileged /\ Exists(p.user) THEN "AlreadyExists"
                                                       ELSE Missing(p.user))

\* AddGroupMember and DeleteGroupMember of DefaultAdminGroup, for which no
\* account of the name need exist.
Promote(w) ==
    LET p == proc[w]
    IN  IF Privileged /\ p.user \notin admins
        THEN /\ admins' = admins \cup {p.user}
             /\ wasAdmin' = wasAdmin \cup {p.user}
             /\ Become(w, Answer(p, "OK"))
             /\ UNCHANGED <<password, tokens>>
        ELSE Refuse(w, IF Privileged THEN "AlreadyExists" ELSE "Internal")

Demote(w) ==
    LET p == proc[w]
    IN  IF Privileged /\ p.user \in admins /\ admins # {p.user}
        THEN /\ admins' = admins \ {p.user}
             /\ Become(w, Answer(p, "OK"))
             /\ UNCHANGED <<password, wasAdmin, tokens>>
        ELSE Refuse(w, IF Privileged /\ p.user \in admins THEN "FailedPrecondition"
                                                          ELSE Missing(p.user))

Apply(w) ==
    /\ At(w, "apply")
    /\ \/ proc[w].op = "NewAccount" /\ NewAccount(w)
       \/ proc[w].op = "DeleteAccount" /\ DeleteAccount(w)
       \/ proc[w].op = "UpdateAccount" /\ UpdateAccount(w)
       \/ proc[w].op = "AddGroupMember" /\ Promote(w)
       \/ proc[w].op = "DeleteGroupMember" /\ Demote(w)
    /\ UNCHANGED <<bound, served>>

-----------------------------------------------------------------------------
\* Where a request with these claims goes when it arrives.
Handle(p) ==
    LET code == Authorise(p.op, p.claims, p.user)
    IN  CASE p.op = "Login" -> LoginStart(p)
          [] p.op # "Login" /\ code # "OK" -> Answer(p, code)
          [] code = "OK" /\ p.op = "ChangePassword" -> ChangePassword(p)
          [] OTHER -> Goto(p, "apply")

Accept(w) ==
    /\ At(w, "idle")
    /\ served[w] < MaxRequests
    /\ served' = [served EXCEPT ![w] = @ + 1]
    /\ \E r \in Requests :
          \E c \in IF r.op = "Login" THEN {NoToken} ELSE tokens \cup {NoToken} :
             Become(w, Handle([Quiet EXCEPT !.op = r.op, !.user = r.user, !.to = r.to,
                                            !.pw = r.pw, !.claims = c]))
    /\ UNCHANGED <<store, bound, tokens>>

Reply(w) ==
    /\ At(w, "reply")
    /\ Become(w, Quiet)
    /\ UNCHANGED <<store, bound, tokens, served>>

\* The expiration time of a token passes.
Expire ==
    /\ \E t \in tokens : tokens' = tokens \ {t}
    /\ UNCHANGED <<store, bound, proc, served>>

Step(w) ==
    \/ LoginSearch(w) \/ LoginBind(w) \/ LoginRebind(w) \/ LoginMember(w)
    \/ PasswordFind(w) \/ PasswordModify(w) \/ Apply(w)

Next == Expire \/ \E w \in Worker : Accept(w) \/ Step(w) \/ Reply(w)

Spec == Init /\ [][Next]_sessionVars

\* A goroutine that has begun a request runs on; clients need not send any.
FairSpec == Spec /\ \A w \in Worker : WF_sessionVars(Step(w)) /\ WF_sessionVars(Reply(w))

-----------------------------------------------------------------------------
\* The connection is some other identity's only while a login has yet to bind
\* it back (accounts.go:225), whatever the logins before it have done.
AdminRestored ==
    bound # Manager => \E w \in Worker : At(w, "login_rebind")

\* A token with IsAdmin descends from the login of an account that has been a
\* member of the administrators' group, through any number of renewals by
\* UpdateAccount, renames, promotions and demotions.
AdminClaimsEarned ==
    \A t \in tokens : t.admin => t.from \in wasAdmin

\* A step that sets, removes or renames away a password is taken for an
\* administrator's token or for the token of the very account.
OwnAccountOnly ==
    [][\A u \in User : Exists(u) /\ password'[u] # password[u] =>
          \E w \in Worker : /\ proc'[w] # proc[w]
                            /\ proc[w].claims.admin \/ proc[w].claims.uid = u]_sessionVars

\* Only an administrator's token creates accounts and makes or unmakes other
\* administrators (ldap_manager.proto, require_admin).  Every other token can only
\* pass on what is its account's: a renaming of itself moves the account and the
\* membership to a new name, and a deletion of itself gives up the membership.  An
\* administrator's token is one that claims so, also when the claim is stale.
AdminsByAdmins ==
    [][\A u \in User :
          LET created == ~Exists(u) /\ password'[u] # NoName
              promoted == u \notin admins /\ u \in admins'
              demoted == u \in admins /\ u \notin admins'
          IN  created \/ promoted \/ demoted =>
                \E w \in Worker :
                   LET mine == proc[w].claims.uid
                   IN  /\ proc'[w] # proc[w]
                       /\ \/ proc[w].claims.admin
                          \/ /\ created => Exists(mine) /\ password'[mine] = NoName
                             /\ promoted => mine \in admins \ admins'
                             /\ demoted => mine = u]_sessionVars

\* A login with the password of the account is accepted.
GoodLoginAccepted ==
    \A w \in Worker : At(w, "reply") /\ proc[w].op = "Login" /\ proc[w].good
                          => proc[w].code = "OK"

\* Every request is answered, and the connection is always the manager's again.
SessionsAnswered == \A w \in Worker : ~At(w, "idle") ~> At(w, "idle")
AdminReturns == bound # Manager ~> bound = Manager
=============================================================================
