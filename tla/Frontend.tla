------------------------------- MODULE Frontend -------------------------------
(***************************************************************************)
(* Who is signed in, in the tabs of one browser: the state of the auth     *)
(* store in each tab's memory, the browser's storage that the tabs share,  *)
(* the header that axios adds to every request, and the guards of the      *)
(* router.  Answers come in any order and at any time, also after the user *)
(* has gone elsewhere.  A tab runs one callback at a time, so an action is *)
(* a whole callback with the promises that it settles.                     *)
(*                                                                         *)
(* The getters of the store read the storage where memory has nothing.     *)
(* Vuex keeps the value of a getter until the memory that it has read      *)
(* changes; that the storage changes, or that memory is emptied again when *)
(* it is empty, does not count.  So a tab has seen the storage as it was.  *)
(***************************************************************************)
EXTENDS Service, FiniteSets, Naturals

CONSTANTS
    Tab,
    Admins,        \* the accounts whose logins are administrators'
    MaxFlight      \* bound on the requests of the browser that are under way

ASSUME FrontendAssumption == Admins \subseteq User /\ MaxFlight \in Nat

VARIABLES
    storage,    \* the items x-user-token, x-user-name and x-user-admin
    tab,        \* what each tab has in memory, and the page it shows
    flight,     \* the requests that are not answered
    left,       \* history: the user has logged out since the last login
    overtaken   \* history: the user has not waited for an answer

frontendVars == <<storage, tab, flight, left, overtaken>>

Item == [token : Claims \cup {NoToken}, name : User \cup {NoName}, admin : BOOLEAN]
Page == {"closed", "login", "protected"}

TabState ==
    [token : Claims \cup {NoToken}, name : User \cup {NoName}, admin : BOOLEAN,
     header : Claims \cup {NoToken}, page : Page,
     seen : Item,         \* what the getters have read from the storage
     unread : BOOLEAN]    \* the getter of the token is new and has read nothing

\* The form sends every login twice: its button handles both click and submit.
Request ==
    [tab : Tab, kind : {"login"}, user : User, remember : BOOLEAN, copy : {1, 2},
     header : {NoToken}]
    \cup [tab : Tab, kind : {"update"}, user : User, remember : {FALSE}, copy : {1},
          header : Claims \cup {NoToken}]

NoItem == [token |-> NoToken, name |-> NoName, admin |-> FALSE]

\* A tab that knows nobody and shows page.
Nobody(page) ==
    [token |-> NoToken, name |-> NoName, admin |-> FALSE, header |-> NoToken, page |-> page,
     seen |-> NoItem, unread |-> FALSE]

-----------------------------------------------------------------------------
(* The getters: memory first, and where memory has nothing what was read   *)
(* from the storage.  An answer leaves is_admin out when it is false, as   *)
(* all zero values, so memory never says that a user is no administrator.  *)

StoredToken(t) == IF tab[t].unread THEN storage.token ELSE tab[t].seen.token
ActiveToken(t) == IF tab[t].token # NoToken THEN tab[t].token ELSE StoredToken(t)
ActiveName(t) == IF tab[t].name # NoName THEN tab[t].name ELSE tab[t].seen.name
ActiveIsAdmin(t) == tab[t].admin \/ tab[t].seen.admin
IsAuthenticated(t) == ActiveToken(t) # NoToken

-----------------------------------------------------------------------------
(* The actions of the auth store.                                          *)

\* The items that an answer leaves behind; nothing but a logout removes the flag.
Remembered(item, claims) ==
    [token |-> claims, name |-> claims.uid, admin |-> item.admin \/ claims.admin]

\* Mutant: the header stays the one of the page load.
SignedInOldHeader(state, claims) ==
    [state EXCEPT !.token = claims, !.name = claims.uid, !.admin = claims.admin]

SignedIn(state, claims) ==
    [state EXCEPT !.token = claims, !.name = claims.uid, !.admin = claims.admin,
                  !.header = claims]

\* What the getters have read when claims are in memory: the one of the flag reads
\* the storage again unless the answer before this one left it out, too.
SeenSignedIn(state, claims, item) ==
    [NoItem EXCEPT !.admin =
        IF claims.admin THEN FALSE
        ELSE IF state.token # NoToken /\ ~state.admin THEN state.seen.admin
        ELSE item.admin]

\* handleTokenResponse, in a tab that then shows page.
HandleTokenResponse(t, claims, remember, page) ==
    /\ storage' = IF remember THEN Remembered(storage, claims) ELSE storage
    /\ tab' = [tab EXCEPT ![t] =
                  [SignedIn(@, claims) EXCEPT !.page = page, !.unread = FALSE,
                                              !.seen = SeenSignedIn(tab[t], claims, storage')]]

\* Mutant: a logout that leaves the flag in the storage.
ForgottenButFlag(item) == [NoItem EXCEPT !.admin = item.admin]

\* Mutant: a logout that leaves the storage alone.
ForgottenNothing(item) == item

Forgotten(item) == NoItem

\* Mutant: the guard of the protected pages lets everybody pass.
AdmittedAlways(auth) == "protected"

\* Where the guards of both kinds of pages lead to.
Admitted(auth) == IF auth THEN "protected" ELSE "login"

\* A getter whose part of memory was empty keeps what it has read.
SeenLeaving(state, item) ==
    IF state.token # NoToken THEN item
    ELSE [state.seen EXCEPT !.token = IF state.unread THEN item.token ELSE @]

\* logout: it ends where the guard of the login page leads to.
Logout(t) ==
    /\ storage' = Forgotten(storage)
    /\ LET seen == SeenLeaving(tab[t], storage')
       IN  tab' = [tab EXCEPT ![t] = [Nobody(Admitted(seen.token # NoToken)) EXCEPT !.seen = seen]]

Waiting(t) == \E request \in flight : request.tab = t

Sends(requests) ==
    /\ Cardinality(flight \cup requests) <= MaxFlight
    /\ flight' = flight \cup requests

Receives(t, request) ==
    /\ request \in flight /\ request.tab = t
    /\ flight' = flight \ {request}

-----------------------------------------------------------------------------
(* The pages.                                                              *)

\* Showing a protected page for the first time may load a store module, for which
\* Vuex makes all getters anew; the guard has read the token before.
NewGetters(page, empty) == IF page = "protected" /\ empty THEN BOOLEAN ELSE {FALSE}

\* A tab is opened or reloaded at page: memory is empty, what was under way is
\* lost, and the header is taken from the storage.  requireAuth logs out.
Load(t, page) ==
    /\ LET auth == storage.token # NoToken
       IN  /\ storage' = IF page = "protected" /\ ~auth THEN Forgotten(storage) ELSE storage
           /\ \E unread \in NewGetters(Admitted(auth), TRUE) :
                 tab' = [tab EXCEPT ![t] = [Nobody(Admitted(auth)) EXCEPT
                            !.header = storage.token, !.seen = storage', !.unread = unread]]
    /\ flight' = {request \in flight : request.tab # t}
    /\ UNCHANGED <<left, overtaken>>

\* The user follows a link or is sent to a page.
Navigate(t, page) ==
    /\ tab[t].page # "closed"
    /\ IF page = "protected" /\ ~IsAuthenticated(t)
       THEN Logout(t)
       ELSE /\ \E unread \in NewGetters(Admitted(IsAuthenticated(t)), tab[t].token = NoToken) :
                  tab' = [tab EXCEPT ![t].page = Admitted(IsAuthenticated(t)),
                                     ![t].seen.token = IF tab[t].token = NoToken
                                                       THEN StoredToken(t) ELSE @,
                                     ![t].unread = unread]
            /\ UNCHANGED storage
    /\ UNCHANGED <<flight, left, overtaken>>

\* The menu of the navigation bar offers it to those who have a name.
ClickLogout(t) ==
    /\ tab[t].page # "closed"
    /\ ActiveName(t) # NoName
    /\ Logout(t)
    /\ left' = [left EXCEPT ![t] = TRUE]
    /\ overtaken' = [overtaken EXCEPT ![t] = Waiting(t)]
    /\ UNCHANGED flight

-----------------------------------------------------------------------------
(* The requests that change who is signed in.                              *)

SubmitLogin(t, user, remember) ==
    /\ tab[t].page = "login"
    /\ Sends([tab : {t}, kind : {"login"}, user : {user}, remember : {remember},
               copy : {1, 2}, header : {NoToken}])
    /\ left' = [left EXCEPT ![t] = FALSE]
    /\ overtaken' = [overtaken EXCEPT ![t] = @ \/ Waiting(t)]
    /\ UNCHANGED <<storage, tab>>

\* A right password.
LoginAnswered(t, request) ==
    /\ request.kind = "login"
    /\ Receives(t, request)
    /\ HandleTokenResponse(t, [uid |-> request.user, admin |-> request.user \in Admins,
                               from |-> request.user], request.remember, "protected")
    /\ UNCHANGED <<left, overtaken>>

SubmitUpdate(t, user) ==
    /\ tab[t].page = "protected"
    /\ Sends({[tab |-> t, kind |-> "update", user |-> user, remember |-> FALSE, copy |-> 1,
               header |-> tab[t].header]})
    /\ UNCHANGED <<storage, tab, left, overtaken>>

\* The account of request is called uid now, and the answer carries a token for
\* it with the rights of the one who asked.
UpdateAnswered(t, request, uid) ==
    /\ request.kind = "update"
    /\ Authorise("UpdateAccount", request.header, request.user) = "OK"
    /\ Receives(t, request)
    /\ HandleTokenResponse(t, [request.header EXCEPT !.uid = uid], storage.token # NoToken,
                           tab[t].page)
    /\ UNCHANGED <<left, overtaken>>

\* An error, also that the token is no longer valid: the store hands on the
\* response alone, in which the components find no code to log out for.
Refused(t, request) ==
    /\ Receives(t, request)
    /\ UNCHANGED <<storage, tab, left, overtaken>>

Init ==
    /\ storage = NoItem
    /\ tab = [t \in Tab |-> Nobody("closed")]
    /\ flight = {}
    /\ left = [t \in Tab |-> FALSE]
    /\ overtaken = [t \in Tab |-> FALSE]

Next ==
    \E t \in Tab :
       \/ \E page \in {"login", "protected"} : Load(t, page) \/ Navigate(t, page)
       \/ ClickLogout(t)
       \/ \E user \in User, remember \in BOOLEAN : SubmitLogin(t, user, remember)
       \/ \E user \in User : SubmitUpdate(t, user)
       \/ \E request \in flight :
             \/ LoginAnswered(t, request)
             \/ \E uid \in User : UpdateAnswered(t, request, uid)
             \/ Refused(t, request)

Spec == Init /\ [][Next]_frontendVars

-----------------------------------------------------------------------------
(* Properties.                                                             *)

\* Type invariant.
FrontendTypeOK ==
    /\ storage \in Item
    /\ tab \in [Tab -> TabState]
    /\ flight \subseteq Request
    /\ left \in [Tab -> BOOLEAN] /\ overtaken \in [Tab -> BOOLEAN]

\* A tab that has received a token sends that token and shows its name and all of
\* its rights, whatever other tabs store and in whichever order answers come.
SignedInTabsAgree ==
    \A t \in Tab : tab[t].token # NoToken =>
        /\ tab[t].header = ActiveToken(t)
        /\ ActiveName(t) = ActiveToken(t).uid
        /\ ActiveToken(t).admin => ActiveIsAdmin(t)

\* No other tab has been opened.
Alone(t) == \A u \in Tab \ {t} : tab[u].page = "closed"

\* In the only tab, of a user who waits for answers before logging in or out, the
\* same holds after a reload, and nobody is shown the rights of another.
RestoredTabsAgree ==
    \A t \in Tab : Alone(t) /\ IsAuthenticated(t) /\ ~left[t] /\ ~overtaken[t] =>
        /\ tab[t].header = ActiveToken(t)
        /\ ActiveName(t) = ActiveToken(t).uid
        /\ ActiveIsAdmin(t) = ActiveToken(t).admin

\* In the only tab, after a logout that no request is under way at, nothing is sent
\* under the name of the user until the next login, reloads included.
LogoutForgets ==
    \A t \in Tab : Alone(t) /\ left[t] /\ ~overtaken[t] =>
        storage = NoItem /\ tab[t].token = NoToken /\ tab[t].header = NoToken

\* In the only tab, a protected page shows only while somebody is signed in, up to
\* the first logout.
PagesGuarded ==
    \A t \in Tab : Alone(t) /\ tab[t].page = "protected" /\ ~left[t] => IsAuthenticated(t)
=============================================================================
