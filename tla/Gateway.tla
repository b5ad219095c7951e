------------------------------- MODULE Gateway -------------------------------
(***************************************************************************)
(* The way of a REST call: the mux of the HTTP server cleans the path, the *)
(* mux of the gateway finds the method by verb and path, the request       *)
(* message is put together from the body, the path and the query, the gRPC *)
(* client stub calls the service, the service looks up the policy of the   *)
(* method, calls the manager, may still fail when the manager is done, and *)
(* the status it answers becomes an HTTP code.  The manager behind the     *)
(* service is any error it may return.                                     *)
(*                                                                         *)
(* Paths are sequences of segments after /api; a message keeps the account *)
(* and the group it names, the two things that decide whom a call is about.*)
(* Clients write names into paths as they are, so a name may be no segment *)
(* or several: Pieces and Cut say how the names of the instance are split. *)
(***************************************************************************)
EXTENDS Service, Naturals, Sequences

CONSTANTS
    Segment,    \* the strings: what paths and names consist of
    Group,      \* group names
    Pieces,     \* the segments that a name becomes in a path, split at its slashes
    Cut,        \* the segments with a colon: what is before the last one, and after it
    Bearer,     \* the claims of tokens that validate
    Stray       \* paths that clients also ask for

Hole == {"{username}", "{name}", "{group}"}
Literal ==
    {"v1", "login", "accounts", "account", "password", "group", "groups", "update", "members",
     "member"}

Name == User \cup Group \cup {NoName}

ASSUME GatewayAssumption ==
    /\ Hole \cup Literal \cup Name \subseteq Segment
    /\ NoName \notin Literal
    /\ Pieces \in [Name -> Seq(Segment)]
    /\ DOMAIN Cut \cap Literal = {}
    /\ \A segment \in DOMAIN Cut : Cut[segment] \in [base : Segment, verb : Segment]
    /\ Bearer \subseteq Claims
    /\ Stray \subseteq Seq(Segment) \ {<<>>}

Verb == {"GET", "PUT", "POST", "DELETE"}

-----------------------------------------------------------------------------
(* The generated tables.                                                   *)

AccountVerb ==
    [Login |-> "POST", GetUserList |-> "GET", GetAccount |-> "GET", NewAccount |-> "PUT",
     UpdateAccount |-> "POST", DeleteAccount |-> "DELETE", ChangePassword |-> "POST"]

GroupVerb ==
    [NewGroup |-> "PUT", DeleteGroup |-> "DELETE", UpdateGroup |-> "POST",
     GetGroupList |-> "GET", GetUserGroups |-> "GET", GetGroup |-> "GET",
     AddGroupMember |-> "PUT", DeleteGroupMember |-> "DELETE"]

Routed == DOMAIN AccountVerb \cup DOMAIN GroupVerb
VerbOf(m) == IF m \in DOMAIN AccountVerb THEN AccountVerb[m] ELSE GroupVerb[m]

\* Mutant: the groups of an account are found under its own path.
PatternShort ==
    [Login |-> <<"v1", "login">>,
     GetUserList |-> <<"v1", "accounts">>,
     GetAccount |-> <<"v1", "account", "{username}">>,
     NewAccount |-> <<"v1", "account">>,
     UpdateAccount |-> <<"v1", "account", "{username}", "update">>,
     DeleteAccount |-> <<"v1", "account", "{username}">>,
     ChangePassword |-> <<"v1", "account", "password">>,
     NewGroup |-> <<"v1", "group">>,
     DeleteGroup |-> <<"v1", "group", "{name}">>,
     UpdateGroup |-> <<"v1", "group", "{name}", "update">>,
     GetGroupList |-> <<"v1", "groups">>,
     GetUserGroups |-> <<"v1", "account", "{username}">>,
     GetGroup |-> <<"v1", "group", "{name}">>,
     AddGroupMember |-> <<"v1", "group", "{group}", "members">>,
     DeleteGroupMember |-> <<"v1", "group", "{group}", "member", "{username}">>]

Pattern ==
    [Login |-> <<"v1", "login">>,
     GetUserList |-> <<"v1", "accounts">>,
     GetAccount |-> <<"v1", "account", "{username}">>,
     NewAccount |-> <<"v1", "account">>,
     UpdateAccount |-> <<"v1", "account", "{username}", "update">>,
     DeleteAccount |-> <<"v1", "account", "{username}">>,
     ChangePassword |-> <<"v1", "account", "password">>,
     NewGroup |-> <<"v1", "group">>,
     DeleteGroup |-> <<"v1", "group", "{name}">>,
     UpdateGroup |-> <<"v1", "group", "{name}", "update">>,
     GetGroupList |-> <<"v1", "groups">>,
     GetUserGroups |-> <<"v1", "account", "{username}", "groups">>,
     GetGroup |-> <<"v1", "group", "{name}">>,
     AddGroupMember |-> <<"v1", "group", "{group}", "members">>,
     DeleteGroupMember |-> <<"v1", "group", "{group}", "member", "{username}">>]

\* The method a client stub invokes.
Invoked == [m \in Method |-> m]

\* Mutant: the entry of a method whose handler was copied from Login.
AccountHandlerCopied ==
    [m \in DOMAIN AccountVerb |->
        [policy |-> IF m = "GetUserList" THEN "Login" ELSE m, calls |-> m]]

\* The server's handler of a method: the FullMethod it tells the interceptor,
\* whose descriptor carries the policy, and the service method it calls.
AccountHandler == [m \in DOMAIN AccountVerb |-> [policy |-> m, calls |-> m]]

GroupHandler ==
    [m \in DOMAIN GroupVerb \cup {"IsGroupMember"} |-> [policy |-> m, calls |-> m]]

HandlerOf(m) == IF m \in DOMAIN AccountHandler THEN AccountHandler[m] ELSE GroupHandler[m]

-----------------------------------------------------------------------------
(* Routing.                                                                *)

Matches(path, pattern) ==
    /\ Len(path) = Len(pattern)
    /\ \A i \in DOMAIN path : pattern[i] = path[i] \/ pattern[i] \in Hole

Candidates(verb, path) == {m \in Routed : VerbOf(m) = verb /\ Matches(path, Pattern[m])}

\* What a parameter of the pattern is in the path.
Param(m, path, hole) == path[CHOOSE i \in DOMAIN Pattern[m] : Pattern[m][i] = hole]

\* What a client writes for the i-th part of the pattern.
Written(m, i, username, group) ==
    IF i \notin DOMAIN Pattern[m]
    THEN <<>>
    ELSE CASE Pattern[m][i] = "{username}" -> Pieces[username]
           [] Pattern[m][i] \in {"{name}", "{group}"} -> Pieces[group]
           [] OTHER -> <<Pattern[m][i]>>

\* The path of a method with its parameters written in, of five parts at most.
PathOf(m, username, group) ==
    Written(m, 1, username, group) \o Written(m, 2, username, group)
        \o Written(m, 3, username, group) \o Written(m, 4, username, group)
        \o Written(m, 5, username, group)

\* A name that is one segment and stays it: not empty, no dots that lead
\* elsewhere, no slash and no colon.
Plain(name) ==
    /\ name \notin {NoName, ".", ".."}
    /\ name \notin DOMAIN Cut
    /\ Pieces[name] = <<name>>

\* The paths that the server's mux hands on; only the last segment may be empty.
Clean(path) ==
    \A i \in DOMAIN path :
        /\ path[i] \notin {".", ".."}
        /\ path[i] = NoName => i = Len(path)

\* The segments of the gateway's mux: it cuts the last one at its last colon.
Components(path) ==
    IF path[Len(path)] \in DOMAIN Cut
    THEN [path EXCEPT ![Len(path)] = Cut[path[Len(path)]].base]
    ELSE path

\* No pattern takes a verb after a colon, nor a segment that begins with one.
\* An empty verb is none.
NoColonVerb(path) ==
    path[Len(path)] \in DOMAIN Cut =>
        Cut[path[Len(path)]].base # NoName /\ Cut[path[Len(path)]].verb = NoName

\* What the gateway's mux finds under a path.
Found(verb, path) == IF NoColonVerb(path) THEN Candidates(verb, Components(path)) ELSE {}

-----------------------------------------------------------------------------
(* Requests and the messages assembled from them.                          *)

Body == [form : {"json", "broken", "empty"}, username : Segment, group : Segment]
Query == [fine : BOOLEAN, name : Segment]

Message == [username : Segment, group : Segment]
NoMessage == [username |-> NoName, group |-> NoName]

Fine(msg) == [code |-> "OK", msg |-> msg]
Bad == [code |-> "InvalidArgument", msg |-> NoMessage]

\* An empty body is not an error: the message keeps its zero values.
Decoded(r) ==
    CASE r.body.form = "broken" -> Bad
      [] r.body.form = "empty" -> Fine(NoMessage)
      [] r.body.form = "json" -> Fine([username |-> r.body.username, group |-> r.body.group])

\* A parameter of the path is assigned after the body has been decoded.
WithParam(result, m, r, hole, field) ==
    IF result.code = "OK"
    THEN Fine([result.msg EXCEPT ![field] = Param(m, r.path, hole)])
    ELSE result

\* filter names the fields that the query may not set.
WithQuery(result, r, filter) ==
    CASE result.code # "OK" -> result
      [] result.code = "OK" /\ ~r.query.fine -> Bad
      [] OTHER -> IF "name" \in filter \/ r.query.name = NoName
                  THEN result
                  ELSE Fine([result.msg EXCEPT !.group = r.query.name])

request_Login(r) == Decoded(r)
\* The lists have no field called name: nothing of the query ends in the message.
request_GetUserList(r) == WithQuery(Fine(NoMessage), r, {"name"})
request_GetAccount(r) == WithParam(Fine(NoMessage), "GetAccount", r, "{username}", "username")
request_NewAccount(r) == Decoded(r)

\* Mutant: the body is decoded into the message after the path.
request_UpdateAccountBodyLast(r) ==
    IF r.body.form = "json" /\ r.body.username # NoName
    THEN Decoded(r)
    ELSE WithParam(Decoded(r), "UpdateAccount", r, "{username}", "username")

request_UpdateAccount(r) ==
    WithParam(Decoded(r), "UpdateAccount", r, "{username}", "username")
request_DeleteAccount(r) ==
    WithParam(Fine(NoMessage), "DeleteAccount", r, "{username}", "username")
request_ChangePassword(r) == Decoded(r)
request_NewGroup(r) == Decoded(r)
request_DeleteGroup(r) == WithParam(Fine(NoMessage), "DeleteGroup", r, "{name}", "group")
request_UpdateGroup(r) == WithParam(Decoded(r), "UpdateGroup", r, "{name}", "group")
request_GetGroupList(r) == WithQuery(Fine(NoMessage), r, {"name"})
request_GetUserGroups(r) ==
    WithParam(Fine(NoMessage), "GetUserGroups", r, "{username}", "username")
request_GetGroup(r) ==
    WithQuery(WithParam(Fine(NoMessage), "GetGroup", r, "{name}", "group"), r, {"name"})
request_AddGroupMember(r) == WithParam(Decoded(r), "AddGroupMember", r, "{group}", "group")
request_DeleteGroupMember(r) ==
    WithParam(WithParam(Fine(NoMessage), "DeleteGroupMember", r, "{group}", "group"),
              "DeleteGroupMember", r, "{username}", "username")

Assembled(m, r) ==
    CASE m = "Login" -> request_Login(r)
      [] m = "GetUserList" -> request_GetUserList(r)
      [] m = "GetAccount" -> request_GetAccount(r)
      [] m = "NewAccount" -> request_NewAccount(r)
      [] m = "UpdateAccount" -> request_UpdateAccount(r)
      [] m = "DeleteAccount" -> request_DeleteAccount(r)
      [] m = "ChangePassword" -> request_ChangePassword(r)
      [] m = "NewGroup" -> request_NewGroup(r)
      [] m = "DeleteGroup" -> request_DeleteGroup(r)
      [] m = "UpdateGroup" -> request_UpdateGroup(r)
      [] m = "GetGroupList" -> request_GetGroupList(r)
      [] m = "GetUserGroups" -> request_GetUserGroups(r)
      [] m = "GetGroup" -> request_GetGroup(r)
      [] m = "AddGroupMember" -> request_AddGroupMember(r)
      [] m = "DeleteGroupMember" -> request_DeleteGroupMember(r)

\* The errors that the manager's part of a method ends with; other is one that
\* is no application error.  The manager may have changed something by then.
Errors(m) ==
    CASE m = "Login" -> {"Validation", "NoAccount", "other"}
      [] m \in {"GetUserList", "GetGroupList", "GetUserGroups"} -> {"other"}
      [] m \in {"GetAccount", "ChangePassword"} -> {"NoAccount", "other"}
      [] m = "UpdateAccount" -> {"NoAccount", "AccountExists", "other"}
      [] m = "DeleteAccount" -> {"LastMember", "other"}
      [] m = "NewAccount" -> {"AccountValidation", "AccountExists", "other"}
      [] m = "NewGroup" -> {"Validation", "GroupExists", "other"}
      [] m = "DeleteGroup" -> {"Validation", "NoGroup", "other"}
      [] m = "UpdateGroup" -> {"Validation", "other"}
      [] m \in {"IsGroupMember", "GetGroup"} -> {"NoGroup", "other"}
      [] m = "AddGroupMember" -> {"Validation", "NoAccount", "MemberExists", "other"}
      [] m = "DeleteGroupMember" -> {"Validation", "NoMember", "LastMember", "other"}

\* What goes wrong in the service when the manager has done its part: an entry
\* without its name or number, a failed look-up of the administrators, a token
\* that cannot be signed.
Late(m) ==
    CASE m = "Login" -> {"invalid", "member", "signing"}
      [] m = "UpdateAccount" -> {"signing"}
      [] OTHER -> {}

\* How far a call has come with the manager, and after it: not there, done, failed.
Err == {"none", "ok"} \cup UNION {Errors(m) : m \in Method}
LateErr == {"none", "ok"} \cup UNION {Late(m) : m \in Method}

-----------------------------------------------------------------------------
(* The call under way.  aim and meant are history: the method whose path a *)
(* REST client has filled in, and the names it meant by that.              *)

VARIABLE call

Stage == {"quiet", "sent", "routed", "called", "served", "managed", "answered"}

Call ==
    [stage : Stage, rest : BOOLEAN, aim : Routed \cup {"none"}, meant : Message,
     verb : Verb \cup {"none"}, path : Seq(Segment), body : Body, query : Query,
     claims : Claims \cup {NoToken}, method : Method \cup {"none"}, msg : Message,
     err : Err, late : LateErr, code : Code, http : Nat]

NoBody == [form |-> "empty", username |-> NoName, group |-> NoName]
NoQuery == [fine |-> TRUE, name |-> NoName]

NoCall ==
    [stage |-> "quiet", rest |-> FALSE, aim |-> "none", meant |-> NoMessage, verb |-> "none",
     path |-> <<>>, body |-> NoBody, query |-> NoQuery, claims |-> NoToken,
     method |-> "none", msg |-> NoMessage, err |-> "none", late |-> "none", code |-> "OK",
     http |-> 0]

Init == call = NoCall

At(stage) == call.stage = stage

\* The HTTP code of a status.
HTTPStatusFromCode(code) ==
    CASE code = "OK" -> 200
      [] code \in {"InvalidArgument", "FailedPrecondition"} -> 400
      [] code = "Unauthenticated" -> 401
      [] code = "PermissionDenied" -> 403
      [] code = "NotFound" -> 404
      [] code = "AlreadyExists" -> 409
      [] OTHER -> 500

Answered(c, code) ==
    [c EXCEPT !.stage = "answered", !.code = code,
              !.http = IF c.rest THEN HTTPStatusFromCode(code) ELSE 0]

\* What a client may add to a request.  Only the header X-User-Token reaches
\* the service as x-user-token; a token anywhere else is no token.
Sent(verb, path, aim, meant) ==
    \E body \in [form : {"json"}, username : Name, group : Name]
                \cup {NoBody, [NoBody EXCEPT !.form = "broken"]},
       query \in {NoQuery, [NoQuery EXCEPT !.fine = FALSE]}
                 \cup [fine : {TRUE}, name : Group],
       claims \in Bearer \cup {NoToken} :
          /\ body.form = "empty" \/ verb \in {"PUT", "POST"}
          /\ query = NoQuery \/ verb = "GET"
          /\ call' = [NoCall EXCEPT !.stage = "sent", !.rest = TRUE, !.verb = verb,
                                    !.path = path, !.aim = aim, !.meant = meant,
                                    !.body = body, !.query = query, !.claims = claims]

\* A client of the REST interface asks for a method under its path.
Ask ==
    /\ At("quiet")
    /\ \E m \in Routed, username \in User \cup {NoName}, group \in Group \cup {NoName} :
          Sent(VerbOf(m), PathOf(m, username, group), m,
               [username |-> username, group |-> group])

\* A client of the REST interface asks for some other path.
AskStray ==
    /\ At("quiet")
    /\ \E verb \in Verb, path \in Stray : Sent(verb, path, "none", NoMessage)

\* A client of the gRPC interface, which is public as well.
Invoke ==
    /\ At("quiet")
    /\ \E m \in Method, msg \in [username : Name, group : Name], claims \in Bearer \cup {NoToken} :
          call' = [NoCall EXCEPT !.stage = "called", !.method = m, !.msg = msg,
                                 !.claims = claims]

\* A call that ends in one of the muxes.
Turned(http) == [call EXCEPT !.stage = "answered", !.http = http]

\* The server's mux redirects a path that is not clean.  The gateway's answers
\* another verb under a known path with 405, an unknown path with 404.
Route ==
    /\ At("sent")
    /\ \/ /\ ~Clean(call.path)
          /\ call' = Turned(301)
       \/ /\ Clean(call.path)
          /\ \E m \in Found(call.verb, call.path) :
                call' = [call EXCEPT !.stage = "routed", !.method = m,
                                     !.path = Components(call.path)]
       \/ /\ Clean(call.path)
          /\ Found(call.verb, call.path) = {}
          /\ call' = IF \E verb \in Verb : Found(verb, call.path) # {}
                     THEN Turned(405)
                     ELSE Turned(404)

Assemble ==
    LET result == Assembled(call.method, call)
    IN  /\ At("routed")
        /\ call' = IF result.code = "OK"
                   THEN [call EXCEPT !.stage = "called", !.msg = result.msg]
                   ELSE Answered(call, result.code)

\* Up to the call of the manager.  Login asks for no token.
Serve ==
    LET h == HandlerOf(Invoked[call.method])
        code == IF h.calls = "Login" THEN "OK"
                ELSE AuthoriseAs(h.policy, h.calls, call.claims, call.msg.username)
    IN  /\ At("called")
        /\ call' = IF code = "OK"
                   THEN [call EXCEPT !.stage = "served", !.method = h.calls]
                   ELSE Answered(call, code)

\* Mutant: other errors are handed on as they are.
OutcomeRaw(m, err) == IF err = "other" THEN err ELSE Status(err)

\* The status of a method whose manager has failed.
Outcome(m, err) ==
    IF m = "Login" /\ err = "other" THEN "Unauthenticated" ELSE Status(err)

Manage ==
    /\ At("served")
    /\ \E err \in {"ok"} \cup Errors(call.method) :
          call' = IF err = "ok"
                  THEN [call EXCEPT !.stage = "managed", !.err = err]
                  ELSE [Answered(call, Outcome(call.method, err)) EXCEPT !.err = err]

\* Mutant: a login whose look-up fails counts as one that is no administrator's.
LateStatusSwallowed(late) ==
    CASE late \in {"ok", "member"} -> "OK"
      [] late = "invalid" -> "NotFound"
      [] OTHER -> "Internal"

\* The status of a method whose manager has done its part.
LateStatus(late) ==
    CASE late = "ok" -> "OK"
      [] late = "invalid" -> "NotFound"
      [] OTHER -> "Internal"

Finish ==
    /\ At("managed")
    /\ \E late \in {"ok"} \cup Late(call.method) :
          call' = [Answered(call, LateStatus(late)) EXCEPT !.late = late]

\* The next call starts afresh.
HangUp ==
    /\ At("answered")
    /\ call' = NoCall

Next ==
    HangUp \/ Ask \/ AskStray \/ Invoke \/ Route \/ Assemble \/ Serve \/ Manage \/ Finish

Spec == Init /\ [][Next]_call

-----------------------------------------------------------------------------
(* Properties.                                                             *)

\* Type invariant: a call is a call.
GatewayTypeOK == call \in Call

\* A path that a client builds for one method is routed to that method and to no
\* other, in whichever order the routes are registered, and the service is asked
\* about the names the client meant, if these are plain: not empty, no dots, no
\* slash, no colon.  They may be called like any part of a path (an account may be
\* called password, update or members).  Other names may be redirected, not found
\* or taken for another request: deleting the group staff/member/ann deletes ann
\* from staff.
RoutedAsAimed ==
    /\ call.stage # "sent" /\ call.aim # "none"
    /\ Plain(call.meant.username) /\ Plain(call.meant.group)
    =>  /\ call.method = call.aim
        /\ call.stage \in {"called", "served"} =>
              \A i \in DOMAIN Pattern[call.aim] :
                  /\ Pattern[call.aim][i] = "{username}" =>
                        call.msg.username = call.meant.username
                  /\ Pattern[call.aim][i] \in {"{name}", "{group}"} =>
                        call.msg.group = call.meant.group

\* The account and the group that the mux has found in the path are those the
\* service acts on: no field of the body and no parameter of the query takes their
\* place.
PathDecides ==
    call.stage \in {"called", "served"} /\ call.rest =>
        \A i \in DOMAIN call.path :
            /\ Pattern[call.method][i] = "{username}" => call.msg.username = call.path[i]
            /\ Pattern[call.method][i] \in {"{name}", "{group}"} =>
                  call.msg.group = call.path[i]

\* Whichever interface it comes through, a call reaches the manager without a
\* token only to log in, and with the token of an account that is no
\* administrator only to list groups or to work on that very account.
OthersOnlyByAdmins ==
    call.stage = "served" /\ call.method # "Login" =>
        /\ call.claims # NoToken
        /\ \/ call.claims.admin
           \/ call.method = "GetGroupList"
           \/ /\ call.method \in {"GetAccount", "UpdateAccount", "DeleteAccount",
                                  "ChangePassword", "GetUserGroups"}
              /\ call.msg.username = call.claims.uid

\* The status Unauthenticated, on which the frontend means to sign its user out,
\* tells a caller only that it has no valid token, or has failed to log in.
SignedOutForNoToken ==
    call.stage = "answered" /\ call.code = "Unauthenticated" =>
        call.claims = NoToken \/ call.method = "Login"

\* A REST client is told 200 exactly when the manager has done what was asked and
\* nothing has failed afterwards.  When the manager has done it and the client is
\* told otherwise, it has tried to log in, or to update an account: that update
\* alone is told to have failed, with 500, when the directory has been changed as
\* asked, and is not to be taken for one that can simply be sent again.
DoneMeansDone ==
    call.stage = "answered" /\ call.rest =>
        /\ call.http = 200 <=> call.err = "ok" /\ call.late = "ok"
        /\ call.http # 200 /\ call.err = "ok" =>
              \/ call.method = "UpdateAccount" /\ call.http = 500
              \/ call.method = "Login" /\ call.http \in {404, 500}
=============================================================================
