--------------------------- MODULE FrontendProofs ---------------------------
(***************************************************************************)
(* What a tab sends and shows, for any number of tabs, accounts and        *)
(* requests; and, as long as no other tab has been opened, what a logout   *)
(* leaves behind, whom the guards let in and whom a reload restores.  A    *)
(* lemma for each of the four operators that change a tab says what they   *)
(* leave in it; the invariants follow from these.                          *)
(***************************************************************************)
EXTENDS Frontend, TLAPS

LEMMA NoTokenFacts ==
    /\ NoToken \notin Claims /\ NoToken.uid = NoName /\ ~NoToken.admin
    /\ NoItem \in Item /\ NoItem.token = NoToken
    /\ \A claims \in Claims : claims.uid \in User /\ claims.uid # NoName
                              /\ claims.admin \in BOOLEAN /\ claims # NoToken
<1>1. NoToken \notin Claims /\ NoToken.uid = NoName /\ ~NoToken.admin
  BY ServiceAssumption DEF NoToken, Claims
<1>2. NoItem \in Item /\ NoItem.token = NoToken
  BY DEF NoItem, Item
<1>3. ASSUME NEW claims \in Claims
      PROVE  claims.uid \in User /\ claims.uid # NoName /\ claims.admin \in BOOLEAN
  BY ServiceAssumption DEF Claims
<1> QED BY <1>1, <1>2, <1>3

\* The state of t alone has changed, into state.
Only(t, state) ==
    /\ tab' \in [Tab -> TabState]
    /\ tab'[t] = state
    /\ \A u \in Tab \ {t} : tab'[u] = tab[u]

LEMMA OnlyFacts ==
    ASSUME FrontendTypeOK, NEW t \in Tab, NEW state \in TabState,
           tab' = [tab EXCEPT ![t] = state]
    PROVE  Only(t, state)
  BY DEF FrontendTypeOK, Only

LEMMA HandleTokenResponseFacts ==
    ASSUME FrontendTypeOK, NEW t \in Tab, NEW claims \in Claims, NEW remember \in BOOLEAN,
           NEW page \in Page, HandleTokenResponse(t, claims, remember, page)
    PROVE  /\ storage' \in Item
           /\ Only(t, tab'[t])
           /\ tab'[t].token = claims /\ tab'[t].header = claims
           /\ tab'[t].name = claims.uid /\ tab'[t].admin = claims.admin
           /\ tab'[t].page = page
           /\ storage' = IF remember THEN Remembered(storage, claims) ELSE storage
           /\ tab'[t].seen = SeenSignedIn(tab[t], claims, storage')
<1>1. storage \in Item /\ tab \in [Tab -> TabState] /\ tab[t] \in TabState
  BY DEF FrontendTypeOK
<1>2. storage' \in Item
  BY <1>1, NoTokenFacts DEF HandleTokenResponse, Remembered, Item
<1>3. SeenSignedIn(tab[t], claims, storage') \in Item
  BY <1>1, <1>2, NoTokenFacts DEF SeenSignedIn, NoItem, Item, TabState
<1>4. PICK state : state = [SignedIn(tab[t], claims) EXCEPT !.page = page, !.unread = FALSE,
                               !.seen = SeenSignedIn(tab[t], claims, storage')]
  OBVIOUS
<1>5. /\ state \in TabState
      /\ state.token = claims /\ state.header = claims /\ state.name = claims.uid
      /\ state.admin = claims.admin /\ state.page = page
      /\ state.seen = SeenSignedIn(tab[t], claims, storage')
  BY <1>1, <1>3, <1>4, NoTokenFacts DEF SignedIn, TabState
<1>6. tab' = [tab EXCEPT ![t] = state]
  BY <1>1, <1>4 DEF HandleTokenResponse
<1>7. Only(t, state)
  BY <1>5, <1>6, OnlyFacts
<1>8. storage' = IF remember THEN Remembered(storage, claims) ELSE storage
  BY DEF HandleTokenResponse
<1> QED BY <1>2, <1>5, <1>7, <1>8 DEF Only

LEMMA LogoutFacts ==
    ASSUME FrontendTypeOK, NEW t \in Tab, Logout(t)
    PROVE  /\ storage' = NoItem
           /\ Only(t, tab'[t])
           /\ tab'[t].token = NoToken /\ tab'[t].header = NoToken
           /\ tab'[t].name = NoName /\ tab'[t].admin = FALSE
           /\ tab'[t].seen.token = IF tab[t].token # NoToken \/ tab[t].unread
                                   THEN NoToken ELSE tab[t].seen.token
           /\ tab'[t].page = IF tab'[t].seen.token # NoToken THEN "protected" ELSE "login"
           /\ tab'[t].unread = FALSE
<1>1. tab \in [Tab -> TabState] /\ tab[t] \in TabState
  BY DEF FrontendTypeOK
<1>2. storage' = NoItem
  BY DEF Logout, Forgotten
<1>3. PICK seen : seen = SeenLeaving(tab[t], storage')
  OBVIOUS
<1>4. /\ seen \in Item
      /\ seen.token = IF tab[t].token # NoToken \/ tab[t].unread
                      THEN NoToken ELSE tab[t].seen.token
  BY <1>1, <1>2, <1>3, NoTokenFacts DEF SeenLeaving, TabState, Item
<1>5. PICK state : state = [Nobody(Admitted(seen.token # NoToken)) EXCEPT !.seen = seen]
  OBVIOUS
<1>6. /\ state \in TabState
      /\ state.token = NoToken /\ state.header = NoToken /\ state.seen = seen
      /\ state.name = NoName /\ state.admin = FALSE
      /\ state.page = (IF seen.token # NoToken THEN "protected" ELSE "login")
      /\ state.unread = FALSE
  BY <1>4, <1>5 DEF Nobody, Admitted, TabState, Page
<1>7. Only(t, state)
  BY <1>3, <1>5, <1>6, OnlyFacts DEF Logout
<1> QED BY <1>2, <1>4, <1>6, <1>7 DEF Only

LEMMA LoadFacts ==
    ASSUME FrontendTypeOK, NEW t \in Tab, NEW page \in {"login", "protected"}, Load(t, page)
    PROVE  /\ storage' \in {storage, NoItem}
           /\ storage'.token = storage.token
           /\ Only(t, tab'[t])
           /\ tab'[t].token = NoToken /\ tab'[t].header = storage.token
           /\ tab'[t].name = NoName /\ tab'[t].admin = FALSE
           /\ tab'[t].seen = storage'
           /\ tab'[t].page = IF storage.token # NoToken THEN "protected" ELSE "login"
<1>1. storage \in Item /\ tab \in [Tab -> TabState]
  BY DEF FrontendTypeOK
<1>2. storage' \in {storage, NoItem} /\ storage' \in Item /\ storage'.token = storage.token
  BY <1>1, NoTokenFacts DEF Load, Forgotten
<1>3. PICK unread \in BOOLEAN :
        tab' = [tab EXCEPT ![t] = [Nobody(Admitted(storage.token # NoToken)) EXCEPT
                   !.header = storage.token, !.seen = storage', !.unread = unread]]
  BY DEF Load, NewGetters
<1>4. PICK state : state = [Nobody(Admitted(storage.token # NoToken)) EXCEPT
                   !.header = storage.token, !.seen = storage', !.unread = unread]
  OBVIOUS
<1>5. /\ state \in TabState
      /\ state.token = NoToken /\ state.header = storage.token /\ state.seen = storage'
      /\ state.name = NoName /\ state.admin = FALSE
      /\ state.page = (IF storage.token # NoToken THEN "protected" ELSE "login")
  BY <1>1, <1>2, <1>4 DEF Nobody, Admitted, TabState, Page, Item
<1>6. Only(t, state)
  BY <1>3, <1>4, <1>5, OnlyFacts
<1> QED BY <1>2, <1>5, <1>6 DEF Only

\* A navigation that is not refused.
LEMMA NavigateFacts ==
    ASSUME FrontendTypeOK, NEW t \in Tab, NEW page \in {"login", "protected"},
           Navigate(t, page), page = "login" \/ IsAuthenticated(t)
    PROVE  /\ storage' = storage
           /\ Only(t, tab'[t])
           /\ tab'[t].token = tab[t].token /\ tab'[t].header = tab[t].header
           /\ tab'[t].name = tab[t].name /\ tab'[t].admin = tab[t].admin
           /\ tab'[t].seen.token = IF tab[t].token = NoToken THEN StoredToken(t)
                                   ELSE tab[t].seen.token
           /\ tab'[t].seen = [tab[t].seen EXCEPT !.token = tab'[t].seen.token]
           /\ tab'[t].page = IF IsAuthenticated(t) THEN "protected" ELSE "login"
<1>1. storage \in Item /\ tab \in [Tab -> TabState] /\ tab[t] \in TabState
  BY DEF FrontendTypeOK
<1>2. StoredToken(t) \in Claims \cup {NoToken}
  BY <1>1 DEF StoredToken, Item, TabState
<1>3. storage' = storage
  BY DEF Navigate
<1>4. PICK unread \in BOOLEAN :
        tab' = [tab EXCEPT ![t].page = Admitted(IsAuthenticated(t)),
                           ![t].seen.token = IF tab[t].token = NoToken
                                             THEN StoredToken(t) ELSE @,
                           ![t].unread = unread]
  BY DEF Navigate, NewGetters
<1>5. PICK state : state = [tab[t] EXCEPT !.page = Admitted(IsAuthenticated(t)),
                           !.seen.token = IF tab[t].token = NoToken
                                          THEN StoredToken(t) ELSE @,
                           !.unread = unread]
  OBVIOUS
<1>6. /\ state \in TabState
      /\ state.token = tab[t].token /\ state.header = tab[t].header
      /\ state.name = tab[t].name /\ state.admin = tab[t].admin
      /\ state.seen.token = (IF tab[t].token = NoToken THEN StoredToken(t)
                             ELSE tab[t].seen.token)
      /\ state.seen = [tab[t].seen EXCEPT !.token = state.seen.token]
      /\ state.page = (IF IsAuthenticated(t) THEN "protected" ELSE "login")
  <2> DEFINE read == IF tab[t].token = NoToken THEN StoredToken(t) ELSE tab[t].seen.token
             shown == Admitted(IsAuthenticated(t))
  <2>1. read \in Claims \cup {NoToken} /\ shown \in Page
    BY <1>1, <1>2 DEF TabState, Item, Admitted, Page
  <2>2. state = [tab[t] EXCEPT !.page = shown, !.seen.token = read, !.unread = unread]
    BY <1>5
  <2> HIDE DEF read, shown
  <2>3. /\ state.token = tab[t].token /\ state.header = tab[t].header
        /\ state.name = tab[t].name /\ state.admin = tab[t].admin
        /\ state.seen = [tab[t].seen EXCEPT !.token = read] /\ state.page = shown
    BY <1>1, <2>2 DEF TabState
  <2>4. [tab[t].seen EXCEPT !.token = read] \in Item
    BY <1>1, <2>1 DEF TabState, Item
  <2>5. state.seen.token = read
    BY <1>1, <2>3 DEF TabState, Item
  <2>6. state \in TabState
    BY <1>1, <2>1, <2>2, <2>4 DEF TabState
  <2> QED BY <2>3, <2>5, <2>6 DEF read, shown, Admitted
<1>7. tab' = [tab EXCEPT ![t] = state]
  BY <1>1, <1>4, <1>5
<1>8. Only(t, state)
  BY <1>6, <1>7, OnlyFacts
<1> QED BY <1>3, <1>6, <1>8 DEF Only

-----------------------------------------------------------------------------
(* Types, and what a tab in memory of a token sends and shows. *)

\* A token in memory is the one of the header, and its name and rights are shown;
\* without one memory has no name and no rights.
Signed(state) ==
    IF state.token # NoToken
    THEN /\ state.header = state.token
         /\ state.name = state.token.uid
         /\ state.admin = state.token.admin
    ELSE state.name = NoName /\ state.admin = FALSE

SignedInv == FrontendTypeOK /\ \A t \in Tab : Signed(tab[t])

\* What holds of a tab that has changed, and of all others before, holds of all.
LEMMA OthersKept ==
    ASSUME SignedInv, NEW t \in Tab, Only(t, tab'[t]), Signed(tab'[t])
    PROVE  \A u \in Tab : Signed(tab[u])'
<1>1. ASSUME NEW u \in Tab PROVE Signed(tab'[u])
  <2>1. CASE u = t
    BY <2>1
  <2>2. CASE u # t
    BY <2>2 DEF SignedInv, Only
  <2> QED BY <2>1, <2>2
<1> QED BY <1>1 DEF Signed

\* An answer to an update is the answer to a token.
LEMMA UpdateHasToken ==
    ASSUME FrontendTypeOK, NEW t \in Tab, NEW request \in flight, NEW uid \in User,
           UpdateAnswered(t, request, uid)
    PROVE  /\ request.header \in Claims
           /\ [request.header EXCEPT !.uid = uid] \in Claims
           /\ tab[t].page \in Page
           /\ HandleTokenResponse(t, [request.header EXCEPT !.uid = uid],
                                  storage.token # NoToken, tab[t].page)
<1>1. request \in Request /\ request.kind = "update"
  BY DEF FrontendTypeOK, UpdateAnswered
<1>2. request.header \in Claims \cup {NoToken}
  BY <1>1 DEF Request
<1>3. request.header # NoToken
  BY DEF UpdateAnswered, Authorise, AuthoriseAs, Authenticate
<1>4. request.header \in Claims
  BY <1>2, <1>3
<1>5. [request.header EXCEPT !.uid = uid] \in Claims
  BY <1>4 DEF Claims
<1>6. tab[t].page \in Page
  BY DEF FrontendTypeOK, TabState
<1> QED BY <1>4, <1>5, <1>6 DEF UpdateAnswered

LEMMA LoginHasToken ==
    ASSUME FrontendTypeOK, NEW t \in Tab, NEW request \in flight, LoginAnswered(t, request)
    PROVE  \E claims \in Claims, remember \in BOOLEAN :
              /\ claims.admin = (request.user \in Admins)
              /\ HandleTokenResponse(t, claims, remember, "protected")
<1>1. request \in Request /\ request.kind = "login"
  BY DEF FrontendTypeOK, LoginAnswered
<1>2. request.user \in User /\ request.remember \in BOOLEAN
  BY <1>1 DEF Request
<1>3. PICK claims : claims = [uid |-> request.user, admin |-> request.user \in Admins,
                              from |-> request.user]
  OBVIOUS
<1>4. claims \in Claims
  BY <1>2, <1>3 DEF Claims
<1> QED BY <1>2, <1>3, <1>4 DEF LoginAnswered

LEMMA AnswerKeepsSigned ==
    ASSUME SignedInv, NEW t \in Tab, NEW claims \in Claims, NEW remember \in BOOLEAN,
           NEW page \in Page, HandleTokenResponse(t, claims, remember, page),
           flight' \subseteq flight, UNCHANGED <<left, overtaken>>
    PROVE  SignedInv'
<1>1. FrontendTypeOK
  BY DEF SignedInv
<1>2. /\ storage' \in Item /\ Only(t, tab'[t])
      /\ tab'[t].token = claims /\ tab'[t].header = claims
      /\ tab'[t].name = claims.uid /\ tab'[t].admin = claims.admin
  BY <1>1, HandleTokenResponseFacts
<1>3. Signed(tab'[t])
  BY <1>2, NoTokenFacts DEF Signed
<1>4. FrontendTypeOK'
  BY <1>1, <1>2 DEF FrontendTypeOK, Only
<1> QED BY <1>2, <1>3, <1>4, OthersKept DEF SignedInv

LEMMA LogoutKeepsSigned ==
    ASSUME SignedInv, NEW t \in Tab, Logout(t), UNCHANGED flight,
           left' \in [Tab -> BOOLEAN], overtaken' \in [Tab -> BOOLEAN]
    PROVE  SignedInv'
<1>1. FrontendTypeOK
  BY DEF SignedInv
<1>2. /\ storage' = NoItem /\ Only(t, tab'[t]) /\ tab'[t].token = NoToken
      /\ tab'[t].name = NoName /\ tab'[t].admin = FALSE
  BY <1>1, LogoutFacts
<1>3. Signed(tab'[t])
  BY <1>2 DEF Signed
<1>4. FrontendTypeOK'
  BY <1>1, <1>2, NoTokenFacts DEF FrontendTypeOK, Only
<1> QED BY <1>2, <1>3, <1>4, OthersKept DEF SignedInv

LEMMA SentIsRequest ==
    ASSUME SignedInv, NEW t \in Tab, NEW user \in User, NEW remember \in BOOLEAN
    PROVE  /\ SubmitLogin(t, user, remember) => flight' \subseteq Request
           /\ SubmitUpdate(t, user) => flight' \subseteq Request
<1>1. flight \subseteq Request /\ tab[t].header \in Claims \cup {NoToken}
  BY DEF SignedInv, FrontendTypeOK, TabState
<1>2. [tab : {t}, kind : {"login"}, user : {user}, remember : {remember},
       copy : {1, 2}, header : {NoToken}] \subseteq Request
  BY DEF Request
<1>3. [tab |-> t, kind |-> "update", user |-> user, remember |-> FALSE, copy |-> 1,
       header |-> tab[t].header] \in Request
  BY <1>1 DEF Request
<1> QED BY <1>1, <1>2, <1>3 DEF SubmitLogin, SubmitUpdate, Sends

LEMMA NextKeepsSigned ==
    ASSUME SignedInv, [Next]_frontendVars
    PROVE  SignedInv'
<1>0. FrontendTypeOK
  BY DEF SignedInv
<1>1. ASSUME NEW t \in Tab, NEW page \in {"login", "protected"}, Load(t, page)
      PROVE  SignedInv'
  <2>1. /\ storage' \in {storage, NoItem} /\ Only(t, tab'[t]) /\ tab'[t].token = NoToken
        /\ tab'[t].name = NoName /\ tab'[t].admin = FALSE
    BY <1>0, <1>1, LoadFacts
  <2>2. flight' \subseteq flight /\ UNCHANGED <<left, overtaken>>
    BY <1>1 DEF Load
  <2>3. FrontendTypeOK'
    BY <1>0, <2>1, <2>2, NoTokenFacts DEF FrontendTypeOK, Only
  <2> QED BY <2>1, <2>3, OthersKept DEF SignedInv, Signed
<1>2. ASSUME NEW t \in Tab, NEW page \in {"login", "protected"}, Navigate(t, page)
      PROVE  SignedInv'
  <2>1. UNCHANGED <<flight, left, overtaken>>
    BY <1>2 DEF Navigate
  <2>2. CASE page = "protected" /\ ~IsAuthenticated(t)
    <3>1. Logout(t)
      BY <1>2, <2>2 DEF Navigate
    <3> QED BY <1>0, <2>1, <3>1, LogoutKeepsSigned DEF FrontendTypeOK
  <2>3. CASE page = "login" \/ IsAuthenticated(t)
    <3>1. /\ storage' = storage /\ Only(t, tab'[t])
          /\ tab'[t].token = tab[t].token /\ tab'[t].header = tab[t].header
          /\ tab'[t].name = tab[t].name /\ tab'[t].admin = tab[t].admin
      BY <1>0, <1>2, <2>3, NavigateFacts
    <3>2. Signed(tab'[t])
      BY <3>1 DEF SignedInv, Signed
    <3>3. FrontendTypeOK'
      BY <1>0, <2>1, <3>1 DEF FrontendTypeOK, Only
    <3> QED BY <3>1, <3>2, <3>3, OthersKept DEF SignedInv
  <2> QED BY <2>2, <2>3
<1>3. ASSUME NEW t \in Tab, ClickLogout(t) PROVE SignedInv'
  <2>1. /\ Logout(t) /\ UNCHANGED flight
        /\ left' \in [Tab -> BOOLEAN] /\ overtaken' \in [Tab -> BOOLEAN]
    BY <1>0, <1>3 DEF ClickLogout, Waiting, FrontendTypeOK
  <2> QED BY <2>1, LogoutKeepsSigned
<1>4. ASSUME NEW t \in Tab, NEW user \in User, NEW remember \in BOOLEAN,
             SubmitLogin(t, user, remember)
      PROVE  SignedInv'
  <2>1. /\ UNCHANGED <<storage, tab>> /\ flight' \subseteq Request
        /\ left' \in [Tab -> BOOLEAN] /\ overtaken' \in [Tab -> BOOLEAN]
    BY <1>0, <1>4, SentIsRequest DEF SubmitLogin, Waiting, FrontendTypeOK
  <2> QED BY <1>0, <2>1 DEF SignedInv, FrontendTypeOK, Signed
<1>5. ASSUME NEW t \in Tab, NEW user \in User, SubmitUpdate(t, user) PROVE SignedInv'
  <2>1. UNCHANGED <<storage, tab, left, overtaken>> /\ flight' \subseteq Request
    BY <1>5, SentIsRequest DEF SubmitUpdate
  <2> QED BY <1>0, <2>1 DEF SignedInv, FrontendTypeOK, Signed
<1>6. ASSUME NEW t \in Tab, NEW request \in flight, LoginAnswered(t, request)
      PROVE  SignedInv'
  <2>1. flight' \subseteq flight /\ UNCHANGED <<left, overtaken>>
    BY <1>6 DEF LoginAnswered, Receives
  <2> QED BY <1>0, <1>6, <2>1, LoginHasToken, AnswerKeepsSigned DEF Page
<1>7. ASSUME NEW t \in Tab, NEW request \in flight, NEW uid \in User,
             UpdateAnswered(t, request, uid)
      PROVE  SignedInv'
  <2>1. flight' \subseteq flight /\ UNCHANGED <<left, overtaken>>
    BY <1>7 DEF UpdateAnswered, Receives
  <2> QED BY <1>0, <1>7, <2>1, UpdateHasToken, AnswerKeepsSigned
<1>8. ASSUME NEW t \in Tab, NEW request \in flight, Refused(t, request) PROVE SignedInv'
  <2>1. UNCHANGED <<storage, tab, left, overtaken>> /\ flight' \subseteq flight
    BY <1>8 DEF Refused, Receives
  <2> QED BY <1>0, <2>1 DEF SignedInv, FrontendTypeOK, Signed
<1>9. CASE UNCHANGED frontendVars
  BY <1>0, <1>9 DEF SignedInv, FrontendTypeOK, Signed, frontendVars
<1> QED BY <1>1, <1>2, <1>3, <1>4, <1>5, <1>6, <1>7, <1>8, <1>9 DEF Next

LEMMA SignedInvHolds == Spec => []SignedInv
<1>1. Init => SignedInv
  <2>1. /\ Nobody("closed") \in TabState /\ Nobody("closed").token = NoToken
        /\ Nobody("closed").name = NoName /\ Nobody("closed").admin = FALSE
    BY NoTokenFacts DEF Nobody, TabState, Page
  <2> QED BY <2>1, NoTokenFacts DEF Init, SignedInv, FrontendTypeOK, Signed
<1>2. SignedInv /\ [Next]_frontendVars => SignedInv'
  BY NextKeepsSigned
<1> QED BY <1>1, <1>2, PTL DEF Spec

\* The stores and the requests that are under way stay well typed: whatever is
\* received as a token is the claims of one (auth.ts:108).
THEOREM FrontendTypesCorrect == Spec => []FrontendTypeOK
<1>1. SignedInv => FrontendTypeOK
  BY DEF SignedInv
<1> QED BY <1>1, SignedInvHolds, PTL

\* A tab that has received a token sends that one and shows its name and rights,
\* whatever the other tabs do and however late answers come (auth.ts:115-118).
THEOREM SignedInTabsAgreeCorrect == Spec => []SignedInTabsAgree
<1>1. SignedInv => SignedInTabsAgree
  <2> SUFFICES ASSUME SignedInv, NEW t \in Tab, tab[t].token # NoToken
               PROVE  /\ tab[t].header = ActiveToken(t)
                      /\ ActiveName(t) = ActiveToken(t).uid
                      /\ ActiveToken(t).admin => ActiveIsAdmin(t)
    BY DEF SignedInTabsAgree
  <2>1. /\ tab[t].token \in Claims
        /\ tab[t].header = tab[t].token /\ tab[t].name = tab[t].token.uid
        /\ tab[t].admin = tab[t].token.admin
    BY DEF SignedInv, FrontendTypeOK, TabState, Signed
  <2>2. tab[t].name # NoName
    BY <2>1, NoTokenFacts
  <2> QED BY <2>1, <2>2 DEF ActiveToken, ActiveName, ActiveIsAdmin
<1> QED BY <1>1, SignedInvHolds, PTL

-----------------------------------------------------------------------------
(* A tab that nobody has opened does nothing and waits for nothing. *)

Acts(t) ==
    \/ \E page \in {"login", "protected"} : Load(t, page) \/ Navigate(t, page)
    \/ ClickLogout(t)
    \/ \E user \in User, remember \in BOOLEAN : SubmitLogin(t, user, remember)
    \/ \E user \in User : SubmitUpdate(t, user)
    \/ \E request \in flight :
          \/ LoginAnswered(t, request)
          \/ \E uid \in User : UpdateAnswered(t, request, uid)
          \/ Refused(t, request)

OpenInv == \A request \in flight : tab[request.tab].page # "closed"

LEMMA ActsOnItself ==
    ASSUME FrontendTypeOK, OpenInv, NEW t \in Tab, Acts(t)
    PROVE  /\ tab'[t].page # "closed"
           /\ \A u \in Tab \ {t} : tab'[u] = tab[u]
           /\ \A request \in flight' : request \in flight \/ request.tab = t
<1>1. ASSUME NEW page \in {"login", "protected"}, Load(t, page)
      PROVE  /\ tab'[t].page # "closed" /\ Only(t, tab'[t])
             /\ flight' \subseteq flight
  BY <1>1, LoadFacts DEF Load
<1>2. ASSUME Logout(t) PROVE tab'[t].page # "closed" /\ Only(t, tab'[t])
  BY <1>2, LogoutFacts
<1>3. ASSUME NEW page \in {"login", "protected"}, Navigate(t, page)
      PROVE  tab'[t].page # "closed" /\ Only(t, tab'[t]) /\ flight' = flight
  <2>1. flight' = flight
    BY <1>3 DEF Navigate
  <2>2. CASE page = "protected" /\ ~IsAuthenticated(t)
    BY <1>2, <1>3, <2>1, <2>2 DEF Navigate
  <2>3. CASE page = "login" \/ IsAuthenticated(t)
    BY <1>3, <2>1, <2>3, NavigateFacts
  <2> QED BY <2>2, <2>3
<1>4. ASSUME NEW user \in User, NEW remember \in BOOLEAN, SubmitLogin(t, user, remember)
      PROVE  /\ tab'[t].page # "closed" /\ tab' = tab
             /\ \A request \in flight' : request \in flight \/ request.tab = t
  BY <1>4 DEF SubmitLogin, Sends
<1>5. ASSUME NEW user \in User, SubmitUpdate(t, user)
      PROVE  /\ tab'[t].page # "closed" /\ tab' = tab
             /\ \A request \in flight' : request \in flight \/ request.tab = t
  BY <1>5 DEF SubmitUpdate, Sends
<1>6. ASSUME NEW request \in flight, LoginAnswered(t, request)
      PROVE  tab'[t].page # "closed" /\ Only(t, tab'[t]) /\ flight' \subseteq flight
  <2>1. flight' \subseteq flight
    BY <1>6 DEF LoginAnswered, Receives
  <2> QED BY <1>6, <2>1, LoginHasToken, HandleTokenResponseFacts DEF Page
<1>7. ASSUME NEW request \in flight, NEW uid \in User, UpdateAnswered(t, request, uid)
      PROVE  tab'[t].page # "closed" /\ Only(t, tab'[t]) /\ flight' \subseteq flight
  <2>1. flight' \subseteq flight /\ tab[t].page # "closed"
    BY <1>7 DEF UpdateAnswered, Receives, OpenInv
  <2>2. PICK claims \in Claims, remember \in BOOLEAN :
          HandleTokenResponse(t, claims, remember, tab[t].page)
    BY <1>7, UpdateHasToken
  <2>3. tab[t].page \in Page
    BY <1>7, UpdateHasToken
  <2> QED BY <2>1, <2>2, <2>3, HandleTokenResponseFacts
<1>8. ASSUME NEW request \in flight, Refused(t, request)
      PROVE  tab'[t].page # "closed" /\ tab' = tab /\ flight' \subseteq flight
  BY <1>8 DEF Refused, Receives, OpenInv
<1>9. CASE ClickLogout(t)
  <2>1. Logout(t) /\ flight' = flight
    BY <1>9 DEF ClickLogout
  <2> QED BY <1>2, <2>1 DEF Only
<1>10. CASE ~ClickLogout(t)
  BY <1>1, <1>3, <1>4, <1>5, <1>6, <1>7, <1>8, <1>10 DEF Acts, Only
<1> QED BY <1>9, <1>10

LEMMA OpenInvHolds == Spec => []OpenInv
<1>1. Init => OpenInv
  BY DEF Init, OpenInv
<1>2. SignedInv /\ OpenInv /\ [Next]_frontendVars => OpenInv'
  <2> SUFFICES ASSUME FrontendTypeOK, OpenInv, [Next]_frontendVars PROVE OpenInv'
    BY DEF SignedInv
  <2>1. ASSUME NEW t \in Tab, Acts(t) PROVE OpenInv'
    <3> SUFFICES ASSUME NEW request \in flight' PROVE tab'[request.tab].page # "closed"
      BY DEF OpenInv
    <3>1. CASE request.tab = t
      BY <2>1, <3>1, ActsOnItself
    <3>2. CASE request.tab # t
      <4>1. request \in flight
        BY <2>1, <3>2, ActsOnItself
      <4>2. request.tab \in Tab /\ tab[request.tab].page # "closed"
        BY <4>1 DEF FrontendTypeOK, OpenInv, Request
      <4> QED BY <2>1, <3>2, <4>2, ActsOnItself
    <3> QED BY <3>1, <3>2
  <2>2. CASE UNCHANGED frontendVars
    BY <2>2 DEF frontendVars, OpenInv
  <2> QED BY <2>1, <2>2 DEF Next, Acts
<1> QED BY <1>1, <1>2, SignedInvHolds, PTL DEF Spec

\* Where t acts, no other tab is the only one; and t is now if it was.
LEMMA ActsAlone ==
    ASSUME FrontendTypeOK, OpenInv, NEW t \in Tab, Acts(t)
    PROVE  /\ \A u \in Tab \ {t} : ~Alone(u)'
           /\ Alone(t)' => Alone(t)
<1>1. tab'[t].page # "closed" /\ \A u \in Tab \ {t} : tab'[u] = tab[u]
  BY ActsOnItself
<1> QED BY <1>1 DEF Alone

-----------------------------------------------------------------------------
(* What a logout leaves, in the only tab. *)

\* Nothing that is under way brings a token, and none is stored.
Gone(t) ==
    /\ storage = NoItem /\ tab[t].token = NoToken /\ tab[t].header = NoToken
    /\ \A request \in flight : request.kind = "update" /\ request.header = NoToken

GoneInv == \A t \in Tab : Alone(t) /\ left[t] /\ ~overtaken[t] => Gone(t)

LEMMA GoneLocal ==
    ASSUME SignedInv, OpenInv, GoneInv, NEW t \in Tab, Acts(t),
           Alone(t) /\ left[t] /\ ~overtaken[t] => Gone(t)',
           UNCHANGED <<left, overtaken>>
    PROVE  GoneInv'
<1>1. \A u \in Tab \ {t} : ~Alone(u)'
  BY ActsAlone DEF SignedInv
<1>2. Alone(t)' => Alone(t)
  BY ActsAlone DEF SignedInv
<1> QED BY <1>1, <1>2 DEF GoneInv

LEMMA NextKeepsGone ==
    ASSUME SignedInv, OpenInv, GoneInv, [Next]_frontendVars
    PROVE  GoneInv'
<1>0. FrontendTypeOK
  BY DEF SignedInv
<1>1. ASSUME NEW t \in Tab, NEW page \in {"login", "protected"}, Load(t, page)
      PROVE  GoneInv'
  <2>1. /\ storage' \in {storage, NoItem} /\ tab'[t].token = NoToken
        /\ tab'[t].header = storage.token
    BY <1>0, <1>1, LoadFacts
  <2>2. flight' \subseteq flight /\ UNCHANGED <<left, overtaken>>
    BY <1>1 DEF Load
  <2>3. Alone(t) /\ left[t] /\ ~overtaken[t] => Gone(t)'
    BY <2>1, <2>2, NoTokenFacts DEF GoneInv, Gone
  <2> QED BY <1>1, <2>2, <2>3, GoneLocal DEF Acts
<1>2. ASSUME NEW t \in Tab, NEW page \in {"login", "protected"}, Navigate(t, page)
      PROVE  GoneInv'
  <2>1. UNCHANGED <<flight, left, overtaken>>
    BY <1>2 DEF Navigate
  <2>2. CASE page = "protected" /\ ~IsAuthenticated(t)
    <3>1. Logout(t)
      BY <1>2, <2>2 DEF Navigate
    <3>2. storage' = NoItem /\ tab'[t].token = NoToken /\ tab'[t].header = NoToken
      BY <1>0, <3>1, LogoutFacts
    <3>3. Alone(t) /\ left[t] /\ ~overtaken[t] => Gone(t)'
      BY <2>1, <3>2 DEF GoneInv, Gone
    <3> QED BY <1>2, <2>1, <3>3, GoneLocal DEF Acts
  <2>3. CASE page = "login" \/ IsAuthenticated(t)
    <3>1. storage' = storage /\ tab'[t].token = tab[t].token
          /\ tab'[t].header = tab[t].header
      BY <1>0, <1>2, <2>3, NavigateFacts
    <3>2. Alone(t) /\ left[t] /\ ~overtaken[t] => Gone(t)'
      BY <2>1, <3>1 DEF GoneInv, Gone
    <3> QED BY <1>2, <2>1, <3>2, GoneLocal DEF Acts
  <2> QED BY <2>2, <2>3
<1>3. ASSUME NEW t \in Tab, ClickLogout(t) PROVE GoneInv'
  <2>1. /\ Logout(t) /\ flight' = flight
        /\ overtaken' = [overtaken EXCEPT ![t] = Waiting(t)]
    BY <1>3 DEF ClickLogout
  <2>2. storage' = NoItem /\ tab'[t].token = NoToken /\ tab'[t].header = NoToken
    BY <1>0, <2>1, LogoutFacts
  <2>3. ASSUME Alone(t)', ~overtaken'[t] PROVE flight = {}
    <3>1. ~Waiting(t)
      BY <1>0, <2>1, <2>3 DEF FrontendTypeOK
    <3>2. Alone(t)
      BY <1>0, <1>3, <2>3, ActsAlone DEF Acts
    <3>3. ASSUME NEW request \in flight PROVE FALSE
      <4>1. request.tab \in Tab /\ tab[request.tab].page # "closed"
        BY <1>0 DEF FrontendTypeOK, Request, OpenInv
      <4>2. request.tab = t
        BY <3>2, <4>1 DEF Alone
      <4> QED BY <3>1, <4>2 DEF Waiting
    <3> QED BY <3>3
  <2>4. Alone(t)' /\ ~overtaken'[t] => Gone(t)'
    BY <2>1, <2>2, <2>3 DEF Gone
  <2>5. \A u \in Tab \ {t} : ~Alone(u)'
    BY <1>0, <1>3, ActsAlone DEF Acts
  <2> QED BY <2>4, <2>5 DEF GoneInv
<1>4. ASSUME NEW t \in Tab, NEW user \in User, NEW remember \in BOOLEAN,
             SubmitLogin(t, user, remember)
      PROVE  GoneInv'
  <2>1. left'[t] = FALSE
    BY <1>0, <1>4 DEF SubmitLogin, FrontendTypeOK
  <2>2. \A u \in Tab \ {t} : ~Alone(u)'
    BY <1>0, <1>4, ActsAlone DEF Acts
  <2> QED BY <2>1, <2>2 DEF GoneInv
<1>5. ASSUME NEW t \in Tab, NEW user \in User, SubmitUpdate(t, user) PROVE GoneInv'
  <2>1. /\ UNCHANGED <<storage, tab, left, overtaken>>
        /\ flight' = flight \cup {[tab |-> t, kind |-> "update", user |-> user,
                                    remember |-> FALSE, copy |-> 1,
                                    header |-> tab[t].header]}
    BY <1>5 DEF SubmitUpdate, Sends
  <2>2. Alone(t) /\ left[t] /\ ~overtaken[t] => Gone(t)'
    BY <2>1 DEF GoneInv, Gone
  <2> QED BY <1>5, <2>1, <2>2, GoneLocal DEF Acts
<1>6. ASSUME NEW t \in Tab, NEW request \in flight, LoginAnswered(t, request)
      PROVE  GoneInv'
  <2>1. UNCHANGED <<left, overtaken>> /\ request.kind = "login"
    BY <1>6 DEF LoginAnswered
  <2>2. ~(Alone(t) /\ left[t] /\ ~overtaken[t])
    BY <2>1 DEF GoneInv, Gone
  <2> QED BY <1>6, <2>1, <2>2, GoneLocal DEF Acts
<1>7. ASSUME NEW t \in Tab, NEW request \in flight, NEW uid \in User,
             UpdateAnswered(t, request, uid)
      PROVE  GoneInv'
  <2>1. UNCHANGED <<left, overtaken>> /\ request.header \in Claims
    BY <1>0, <1>7, UpdateHasToken DEF UpdateAnswered
  <2>2. ~(Alone(t) /\ left[t] /\ ~overtaken[t])
    BY <2>1, NoTokenFacts DEF GoneInv, Gone
  <2> QED BY <1>7, <2>1, <2>2, GoneLocal DEF Acts
<1>8. ASSUME NEW t \in Tab, NEW request \in flight, Refused(t, request) PROVE GoneInv'
  <2>1. UNCHANGED <<storage, tab, left, overtaken>> /\ flight' \subseteq flight
    BY <1>8 DEF Refused, Receives
  <2>2. Alone(t) /\ left[t] /\ ~overtaken[t] => Gone(t)'
    BY <2>1 DEF GoneInv, Gone
  <2> QED BY <1>8, <2>1, <2>2, GoneLocal DEF Acts
<1>9. CASE UNCHANGED frontendVars
  BY <1>9 DEF GoneInv, Gone, Alone, frontendVars
<1> QED BY <1>1, <1>2, <1>3, <1>4, <1>5, <1>6, <1>7, <1>8, <1>9 DEF Next

\* In the only tab, after a logout that overtakes no answer the token is neither
\* stored nor sent, until the next login (auth.ts:122-130).  A late answer brings
\* the token back, and another tab its own, which is why the conditions are there.
THEOREM LogoutForgetsCorrect == Spec => []LogoutForgets
<1>1. Init => GoneInv
  BY DEF Init, GoneInv
<1>2. SignedInv /\ OpenInv /\ GoneInv /\ [Next]_frontendVars => GoneInv'
  BY NextKeepsGone
<1>3. GoneInv => LogoutForgets
  BY DEF GoneInv, Gone, LogoutForgets
<1> QED BY <1>1, <1>2, <1>3, SignedInvHolds, OpenInvHolds, PTL DEF Spec

-----------------------------------------------------------------------------
(* The guards of the router, in the only tab. *)

\* What the guards have read is stored, before the first logout; and who is shown
\* the login page was found to have no token.
Guarded(t) ==
    /\ tab[t].page = "login" /\ tab[t].token = NoToken => tab[t].seen.token = NoToken
    /\ tab[t].token = NoToken /\ tab[t].seen.token # NoToken /\ ~left[t] =>
          storage.token # NoToken
    /\ tab[t].page = "protected" /\ ~left[t] => IsAuthenticated(t)

GuardInv == \A t \in Tab : Alone(t) => Guarded(t)

LEMMA GuardLocal ==
    ASSUME SignedInv, OpenInv, GuardInv, NEW t \in Tab, Acts(t), Guarded(t) => Guarded(t)'
    PROVE  GuardInv'
<1>1. \A u \in Tab \ {t} : ~Alone(u)'
  BY ActsAlone DEF SignedInv
<1>2. Alone(t)' => Alone(t)
  BY ActsAlone DEF SignedInv
<1> QED BY <1>1, <1>2 DEF GuardInv

LEMMA AnswerKeepsGuard ==
    ASSUME SignedInv, NEW t \in Tab, NEW claims \in Claims, NEW remember \in BOOLEAN,
           NEW page \in Page, HandleTokenResponse(t, claims, remember, page)
    PROVE  Guarded(t)'
<1>1. tab'[t].token = claims
  BY HandleTokenResponseFacts DEF SignedInv
<1>2. tab'[t].token # NoToken
  BY <1>1, NoTokenFacts
<1> QED BY <1>2 DEF Guarded, IsAuthenticated, ActiveToken

LEMMA NextKeepsGuard ==
    ASSUME SignedInv, OpenInv, GuardInv, [Next]_frontendVars
    PROVE  GuardInv'
<1>0. FrontendTypeOK
  BY DEF SignedInv
<1>1. ASSUME NEW t \in Tab, NEW page \in {"login", "protected"}, Load(t, page)
      PROVE  Guarded(t) => Guarded(t)'
  <2>1. /\ storage'.token = storage.token /\ tab'[t].token = NoToken
        /\ tab'[t].seen = storage'
        /\ tab'[t].page = IF storage.token # NoToken THEN "protected" ELSE "login"
    BY <1>0, <1>1, LoadFacts
  <2> QED BY <2>1 DEF Guarded, IsAuthenticated, ActiveToken, StoredToken
<1>2. ASSUME NEW t \in Tab, NEW page \in {"login", "protected"}, Navigate(t, page)
      PROVE  Guarded(t) => Guarded(t)'
  <2>1. UNCHANGED left
    BY <1>2 DEF Navigate
  <2>2. CASE page = "protected" /\ ~IsAuthenticated(t)
    <3>1. Logout(t)
      BY <1>2, <2>2 DEF Navigate
    <3>2. tab[t].unread \/ tab[t].seen.token = NoToken
      BY <2>2 DEF IsAuthenticated, ActiveToken, StoredToken
    <3>3. tab'[t].seen.token = NoToken /\ tab'[t].page = "login"
      BY <1>0, <3>1, <3>2, LogoutFacts
    <3> QED BY <3>3 DEF Guarded
  <2>3. CASE page = "login" \/ IsAuthenticated(t)
    <3>1. /\ storage' = storage /\ tab'[t].token = tab[t].token
          /\ tab'[t].seen.token = IF tab[t].token = NoToken THEN StoredToken(t)
                                  ELSE tab[t].seen.token
          /\ tab'[t].page = IF IsAuthenticated(t) THEN "protected" ELSE "login"
      BY <1>0, <1>2, <2>3, NavigateFacts
    <3>2. tab'[t].page = "login" /\ tab'[t].token = NoToken => tab'[t].seen.token = NoToken
      BY <3>1 DEF IsAuthenticated, ActiveToken
    <3>3. Guarded(t) =>
             (tab'[t].token = NoToken /\ tab'[t].seen.token # NoToken /\ ~left[t] =>
                storage.token # NoToken)
      BY <3>1 DEF StoredToken, Guarded
    <3>4. Guarded(t) => (tab'[t].page = "protected" /\ ~left[t] => IsAuthenticated(t)')
      BY <3>1, <3>3 DEF IsAuthenticated, ActiveToken, StoredToken
    <3> QED BY <2>1, <3>1, <3>2, <3>3, <3>4 DEF Guarded
  <2> QED BY <2>2, <2>3
<1>3. ASSUME NEW t \in Tab, ClickLogout(t) PROVE Guarded(t) => Guarded(t)'
  <2>1. Logout(t) /\ left'[t] = TRUE
    BY <1>0, <1>3 DEF ClickLogout, FrontendTypeOK
  <2>2. tab'[t].page = IF tab'[t].seen.token # NoToken THEN "protected" ELSE "login"
    BY <1>0, <2>1, LogoutFacts
  <2> QED BY <2>1, <2>2 DEF Guarded
<1>4. ASSUME NEW t \in Tab, NEW user \in User, NEW remember \in BOOLEAN,
             SubmitLogin(t, user, remember)
      PROVE  Guarded(t) => Guarded(t)'
  <2>1. tab[t].page = "login" /\ UNCHANGED <<storage, tab>>
    BY <1>4 DEF SubmitLogin
  <2> QED BY <2>1 DEF Guarded
<1>5. ASSUME NEW t \in Tab, NEW user \in User, SubmitUpdate(t, user) PROVE Guarded(t) => Guarded(t)'
  BY <1>5 DEF SubmitUpdate, Guarded, IsAuthenticated, ActiveToken, StoredToken
<1>6. ASSUME NEW t \in Tab, NEW request \in flight, LoginAnswered(t, request)
      PROVE  Guarded(t) => Guarded(t)'
  BY <1>0, <1>6, LoginHasToken, AnswerKeepsGuard DEF Page
<1>7. ASSUME NEW t \in Tab, NEW request \in flight, NEW uid \in User,
             UpdateAnswered(t, request, uid)
      PROVE  Guarded(t) => Guarded(t)'
  BY <1>0, <1>7, UpdateHasToken, AnswerKeepsGuard
<1>8. ASSUME NEW t \in Tab, NEW request \in flight, Refused(t, request) PROVE Guarded(t) => Guarded(t)'
  BY <1>8 DEF Refused, Guarded, IsAuthenticated, ActiveToken, StoredToken
<1>9. ASSUME NEW t \in Tab, Acts(t) PROVE GuardInv'
  <2>1. Guarded(t) => Guarded(t)'
    BY <1>1, <1>2, <1>3, <1>4, <1>5, <1>6, <1>7, <1>8, <1>9 DEF Acts
  <2> QED BY <1>9, <2>1, GuardLocal
<1>10. CASE UNCHANGED frontendVars
  BY <1>10 DEF frontendVars, GuardInv, Alone, Guarded, IsAuthenticated, ActiveToken, StoredToken
<1> QED BY <1>9, <1>10 DEF Next, Acts

\* In the only tab, a protected page is shown to somebody with a token only, whatever
\* page is asked for and when: every page has one of the two guards, and who loses
\* the token is sent away (router/index.ts:12-35).
THEOREM PagesGuardedCorrect == Spec => []PagesGuarded
<1>1. Init => GuardInv
  BY DEF Init, GuardInv, Guarded, Nobody, NoItem
<1>2. SignedInv /\ OpenInv /\ GuardInv /\ [Next]_frontendVars => GuardInv'
  BY NextKeepsGuard
<1>3. GuardInv => PagesGuarded
  BY DEF GuardInv, Guarded, PagesGuarded
<1> QED BY <1>1, <1>2, <1>3, SignedInvHolds, OpenInvHolds, PTL DEF Spec

-----------------------------------------------------------------------------
(* What the only tab restores from the storage after a reload, for a user  *)
(* who waits for answers.  Since the last login one account has been asked *)
(* about, so memory, storage and the requests under way have its rights.   *)

\* The rights in memory; what has been read of the storage adds none.
MemoryAgrees(t, admin) ==
    tab[t].token # NoToken => tab[t].token.admin = admin /\ (tab[t].seen.admin => admin)

\* The storage has all items of one token, or none.
StorageAgrees(admin) ==
    IF storage.token = NoToken THEN storage = NoItem
    ELSE /\ storage.name = storage.token.uid
         /\ storage.token.admin = admin /\ storage.admin = admin

\* Where memory has nothing, the storage has been read as it is.
RestoredAgrees(t) ==
    tab[t].token = NoToken =>
        /\ tab[t].header = storage.token /\ StoredToken(t) = storage.token
        /\ storage.token # NoToken => tab[t].seen = storage

\* No answer that is under way brings other rights.
FlightAgrees(admin) ==
    \A request \in flight :
        /\ request.kind = "login" => (request.user \in Admins) = admin
        /\ request.kind = "update" /\ request.header # NoToken => request.header.admin = admin

\* Who is shown the login page has no token, and none is under way but a login's.
SignedOut(t) ==
    tab[t].page = "login" =>
        /\ tab[t].token = NoToken /\ storage.token = NoToken
        /\ \A request \in flight : request.kind = "update" => request.header = NoToken

Agreeing(t, admin) ==
    /\ MemoryAgrees(t, admin) /\ StorageAgrees(admin) /\ RestoredAgrees(t)
    /\ FlightAgrees(admin) /\ SignedOut(t)

RestoredInv ==
    \A t \in Tab : Alone(t) /\ ~left[t] /\ ~overtaken[t] =>
        \E admin \in BOOLEAN : Agreeing(t, admin)

LEMMA RestoredLocal ==
    ASSUME SignedInv, OpenInv, RestoredInv, NEW t \in Tab, Acts(t),
           UNCHANGED <<left, overtaken>>,
           \A admin \in BOOLEAN :
              Alone(t) /\ ~left[t] /\ ~overtaken[t] /\ Agreeing(t, admin) => Agreeing(t, admin)'
    PROVE  RestoredInv'
<1>1. (\A u \in Tab \ {t} : ~Alone(u)') /\ (Alone(t)' => Alone(t))
  BY ActsAlone DEF SignedInv
<1>2. ASSUME Alone(t), ~left[t], ~overtaken[t]
      PROVE  \E admin \in BOOLEAN : Agreeing(t, admin)'
  <2>1. PICK admin \in BOOLEAN : Agreeing(t, admin)
    BY <1>2 DEF RestoredInv
  <2> QED BY <1>2, <2>1
<1> QED BY <1>1, <1>2 DEF RestoredInv

\* An answer with the rights that everything else has.
LEMMA AnswerKeepsAgreeing ==
    ASSUME SignedInv, NEW t \in Tab, NEW claims \in Claims, NEW remember \in BOOLEAN,
           NEW page \in Page \ {"login"}, HandleTokenResponse(t, claims, remember, page),
           flight' \subseteq flight,
           NEW admin \in BOOLEAN, claims.admin = admin, Agreeing(t, admin)
    PROVE  Agreeing(t, admin)'
<1>1. /\ storage \in Item /\ tab[t] \in TabState
      /\ (tab[t].token = NoToken => tab[t].admin = FALSE)
  BY DEF SignedInv, FrontendTypeOK, Signed
<1>2. /\ tab'[t].token = claims /\ tab'[t].page = page
      /\ storage' = IF remember THEN Remembered(storage, claims) ELSE storage
      /\ tab'[t].seen = SeenSignedIn(tab[t], claims, storage')
  BY HandleTokenResponseFacts DEF SignedInv
<1>3. claims # NoToken /\ storage.admin \in BOOLEAN /\ (storage.admin => admin)
  BY <1>1, NoTokenFacts DEF Agreeing, StorageAgrees, NoItem, Item
<1>4. StorageAgrees(admin)'
  <2>1. CASE remember
    <3>1. /\ storage'.token = claims /\ storage'.name = claims.uid
          /\ storage'.admin = (storage.admin \/ claims.admin)
      BY <1>2, <2>1 DEF Remembered
    <3> QED BY <1>3, <3>1 DEF StorageAgrees
  <2>2. CASE ~remember
    BY <1>2, <2>2 DEF Agreeing, StorageAgrees
  <2> QED BY <2>1, <2>2
<1>5. storage'.admin => admin
  <2>1. ~NoItem.admin
    BY DEF NoItem
  <2>2. CASE storage'.token = NoToken
    BY <1>4, <2>1, <2>2 DEF StorageAgrees
  <2>3. CASE storage'.token # NoToken
    BY <1>4, <2>3 DEF StorageAgrees
  <2> QED BY <2>2, <2>3
<1>6. tab'[t].seen.admin => admin
  <2>1. tab'[t].seen.admin = IF claims.admin THEN FALSE
                             ELSE IF tab[t].token # NoToken /\ ~tab[t].admin
                                  THEN tab[t].seen.admin ELSE storage'.admin
    BY <1>2 DEF SeenSignedIn, NoItem
  <2> QED BY <1>5, <2>1 DEF Agreeing, MemoryAgrees
<1>7. MemoryAgrees(t, admin)'
  BY <1>2, <1>6 DEF MemoryAgrees
<1>8. RestoredAgrees(t)' /\ SignedOut(t)'
  BY <1>2, <1>3 DEF RestoredAgrees, SignedOut
<1>9. FlightAgrees(admin)'
  BY DEF Agreeing, FlightAgrees
<1> QED BY <1>4, <1>7, <1>8, <1>9 DEF Agreeing

\* Whoever sends the first login in the only tab finds nobody signed in.
LEMMA LoginFindsNobody ==
    ASSUME SignedInv, OpenInv, GoneInv, GuardInv, RestoredInv, NEW t \in Tab,
           NEW user \in User, NEW remember \in BOOLEAN, SubmitLogin(t, user, remember),
           Alone(t), ~overtaken'[t]
    PROVE  /\ storage = NoItem /\ tab[t].token = NoToken /\ tab[t].header = NoToken
           /\ StoredToken(t) = NoToken /\ flight = {}
<1>0. FrontendTypeOK
  BY DEF SignedInv
<1>1. ~overtaken[t] /\ ~Waiting(t) /\ tab[t].page = "login"
  BY <1>0 DEF SubmitLogin, FrontendTypeOK
<1>2. flight = {}
  <2>1. ASSUME NEW request \in flight PROVE FALSE
    <3>1. request.tab \in Tab /\ tab[request.tab].page # "closed"
      BY <1>0 DEF FrontendTypeOK, Request, OpenInv
    <3>2. request.tab = t
      BY <3>1 DEF Alone
    <3> QED BY <1>1, <3>2 DEF Waiting
  <2> QED BY <2>1
<1>3. /\ storage = NoItem /\ tab[t].token = NoToken /\ tab[t].header = NoToken
  <2>1. CASE left[t]
    BY <1>1, <2>1 DEF GoneInv, Gone
  <2>2. CASE ~left[t]
    <3>1. PICK admin \in BOOLEAN : Agreeing(t, admin)
      BY <1>1, <2>2 DEF RestoredInv
    <3> QED BY <1>1, <3>1 DEF Agreeing, SignedOut, StorageAgrees, RestoredAgrees
  <2> QED BY <2>1, <2>2
<1>4. StoredToken(t) = NoToken
  BY <1>1, <1>3, NoTokenFacts DEF GuardInv, Guarded, StoredToken
<1> QED BY <1>2, <1>3, <1>4

LEMMA NextKeepsRestored ==
    ASSUME SignedInv, OpenInv, GoneInv, GuardInv, RestoredInv, [Next]_frontendVars
    PROVE  RestoredInv'
<1>0. FrontendTypeOK
  BY DEF SignedInv
<1>1. ASSUME NEW t \in Tab, NEW page \in {"login", "protected"}, Load(t, page)
      PROVE  RestoredInv'
  <2>1. /\ storage' \in {storage, NoItem} /\ storage'.token = storage.token
        /\ tab'[t].token = NoToken /\ tab'[t].header = storage.token
        /\ tab'[t].seen = storage'
        /\ tab'[t].page = IF storage.token # NoToken THEN "protected" ELSE "login"
    BY <1>0, <1>1, LoadFacts
  <2>2. /\ flight' = {request \in flight : request.tab # t}
        /\ UNCHANGED <<left, overtaken>>
    BY <1>1 DEF Load
  <2>3. Alone(t) => flight' = {}
    <3> SUFFICES ASSUME Alone(t), NEW request \in flight' PROVE FALSE
      BY DEF Alone
    <3>1. request \in flight /\ request.tab \in Tab \ {t}
      BY <1>0, <2>2 DEF FrontendTypeOK, Request
    <3> QED BY <3>1 DEF OpenInv, Alone
  <2>4. ASSUME NEW admin \in BOOLEAN, Alone(t), Agreeing(t, admin) PROVE Agreeing(t, admin)'
    <3>1. StorageAgrees(admin)'
      BY <2>1, <2>4, NoTokenFacts DEF Agreeing, StorageAgrees
    <3>2. RestoredAgrees(t)'
      BY <2>1 DEF RestoredAgrees, StoredToken
    <3>3. MemoryAgrees(t, admin)' /\ FlightAgrees(admin)' /\ SignedOut(t)'
      BY <2>1, <2>3, <2>4 DEF MemoryAgrees, FlightAgrees, SignedOut
    <3> QED BY <3>1, <3>2, <3>3 DEF Agreeing
  <2> QED BY <1>1, <2>2, <2>4, RestoredLocal DEF Acts
<1>2. ASSUME NEW t \in Tab, NEW page \in {"login", "protected"}, Navigate(t, page)
      PROVE  RestoredInv'
  <2>1. UNCHANGED <<flight, left, overtaken>>
    BY <1>2 DEF Navigate
  <2>2. ASSUME NEW admin \in BOOLEAN, Alone(t), ~left[t], Agreeing(t, admin),
               page = "protected", ~IsAuthenticated(t)
        PROVE  Agreeing(t, admin)'
    <3>1. Logout(t)
      BY <1>2, <2>2 DEF Navigate
    <3>2. tab[t].page = "login"
      BY <1>0, <1>2, <2>2 DEF GuardInv, Guarded, Navigate, FrontendTypeOK, TabState, Page
    <3>3. tab[t].token = NoToken /\ (tab[t].unread \/ tab[t].seen.token = NoToken)
      BY <2>2 DEF IsAuthenticated, ActiveToken, StoredToken
    <3>4. /\ storage' = NoItem /\ tab'[t].token = NoToken /\ tab'[t].header = NoToken
          /\ tab'[t].seen.token = NoToken /\ tab'[t].unread = FALSE
      BY <1>0, <3>1, <3>3, LogoutFacts
    <3>5. StorageAgrees(admin)' /\ RestoredAgrees(t)' /\ MemoryAgrees(t, admin)'
      BY <3>4, NoTokenFacts DEF StorageAgrees, RestoredAgrees, MemoryAgrees, StoredToken
    <3>6. FlightAgrees(admin)' /\ SignedOut(t)'
      BY <2>1, <2>2, <3>2, <3>4, NoTokenFacts DEF Agreeing, FlightAgrees, SignedOut
    <3> QED BY <3>5, <3>6 DEF Agreeing
  <2>3. ASSUME NEW admin \in BOOLEAN, Agreeing(t, admin), page = "login" \/ IsAuthenticated(t),
               Alone(t), ~left[t]
        PROVE  Agreeing(t, admin)'
    <3>1. /\ storage' = storage
          /\ tab'[t].token = tab[t].token /\ tab'[t].header = tab[t].header
          /\ tab'[t].seen.token = IF tab[t].token = NoToken THEN StoredToken(t)
                                  ELSE tab[t].seen.token
          /\ tab'[t].seen = [tab[t].seen EXCEPT !.token = tab'[t].seen.token]
          /\ tab'[t].page = IF IsAuthenticated(t) THEN "protected" ELSE "login"
      BY <1>0, <1>2, <2>3, NavigateFacts
    <3>2. tab[t].seen \in Item /\ tab[t].page \in Page /\ tab[t].page # "closed"
      BY <1>0, <1>2 DEF FrontendTypeOK, TabState, Navigate
    <3>3. tab'[t].seen.admin = tab[t].seen.admin
      BY <3>1, <3>2 DEF Item
    <3>4. RestoredAgrees(t)'
      <4>1. CASE tab[t].token = NoToken /\ storage.token # NoToken
        <5>1. /\ tab[t].header = storage.token /\ StoredToken(t) = storage.token
              /\ tab[t].seen = storage
          BY <2>3, <4>1 DEF Agreeing, RestoredAgrees
        <5>2. tab'[t].seen = storage
          BY <3>1, <3>2, <4>1, <5>1 DEF Item
        <5> QED BY <3>1, <5>1, <5>2 DEF RestoredAgrees, StoredToken
      <4>2. CASE tab[t].token = NoToken /\ storage.token = NoToken
        <5>1. tab[t].header = storage.token /\ StoredToken(t) = storage.token
          BY <2>3, <4>2 DEF Agreeing, RestoredAgrees
        <5> QED BY <3>1, <4>2, <5>1 DEF RestoredAgrees, StoredToken
      <4>3. CASE tab[t].token # NoToken
        BY <3>1, <4>3 DEF RestoredAgrees
      <4> QED BY <4>1, <4>2, <4>3
    <3>5. SignedOut(t)'
      <4> SUFFICES ASSUME ~IsAuthenticated(t) PROVE SignedOut(t)'
        BY <3>1 DEF SignedOut
      <4>1. tab[t].page = "login"
        BY <2>3, <3>2 DEF GuardInv, Guarded, Page
      <4> QED BY <2>1, <2>3, <3>1, <4>1 DEF Agreeing, SignedOut
    <3>6. StorageAgrees(admin)' /\ MemoryAgrees(t, admin)' /\ FlightAgrees(admin)'
      BY <2>1, <2>3, <3>1, <3>3 DEF Agreeing, StorageAgrees, MemoryAgrees, FlightAgrees
    <3> QED BY <3>4, <3>5, <3>6 DEF Agreeing
  <2>4. page = "protected" \/ page = "login"
    OBVIOUS
  <2> QED BY <1>2, <2>1, <2>2, <2>3, <2>4, RestoredLocal DEF Acts
<1>3. ASSUME NEW t \in Tab, ClickLogout(t) PROVE RestoredInv'
  <2>1. left'[t] = TRUE
    BY <1>0, <1>3 DEF ClickLogout, FrontendTypeOK
  <2>2. \A u \in Tab \ {t} : ~Alone(u)'
    BY <1>0, <1>3, ActsAlone DEF Acts
  <2> QED BY <2>1, <2>2 DEF RestoredInv
<1>4. ASSUME NEW t \in Tab, NEW user \in User, NEW remember \in BOOLEAN,
             SubmitLogin(t, user, remember)
      PROVE  RestoredInv'
  <2>1. UNCHANGED <<storage, tab>>
    BY <1>4 DEF SubmitLogin
  <2>2. (\A u \in Tab \ {t} : ~Alone(u)') /\ (Alone(t)' => Alone(t))
    BY <1>0, <1>4, ActsAlone DEF Acts
  <2>3. PICK admin \in BOOLEAN : (user \in Admins) = admin
    BY (user \in Admins) \in BOOLEAN
  <2>4. ASSUME Alone(t), ~overtaken'[t] PROVE Agreeing(t, admin)'
    <3>1. /\ storage = NoItem /\ tab[t].token = NoToken /\ tab[t].header = NoToken
          /\ StoredToken(t) = NoToken /\ flight = {}
      BY <1>4, <2>4, LoginFindsNobody
    <3>2. flight' = [tab : {t}, kind : {"login"}, user : {user}, remember : {remember},
                     copy : {1, 2}, header : {NoToken}]
      BY <1>4, <3>1 DEF SubmitLogin, Sends
    <3>3. \A request \in flight' : request.kind = "login" /\ request.user = user
      BY <3>2
    <3>4. storage.token = NoToken
      BY <3>1, NoTokenFacts
    <3>5. MemoryAgrees(t, admin)' /\ StorageAgrees(admin)' /\ RestoredAgrees(t)'
      BY <2>1, <3>1, <3>4 DEF MemoryAgrees, StorageAgrees, RestoredAgrees, StoredToken
    <3>6. FlightAgrees(admin)' /\ SignedOut(t)'
      BY <2>1, <2>3, <3>1, <3>3, <3>4 DEF FlightAgrees, SignedOut
    <3> QED BY <3>5, <3>6 DEF Agreeing
  <2> QED BY <2>2, <2>4 DEF RestoredInv
<1>5. ASSUME NEW t \in Tab, NEW user \in User, SubmitUpdate(t, user) PROVE RestoredInv'
  <2>1. /\ UNCHANGED <<storage, tab, left, overtaken>> /\ tab[t].page = "protected"
        /\ flight' = flight \cup {[tab |-> t, kind |-> "update", user |-> user,
                                    remember |-> FALSE, copy |-> 1,
                                    header |-> tab[t].header]}
    BY <1>5 DEF SubmitUpdate, Sends
  <2>2. ASSUME NEW admin \in BOOLEAN, Agreeing(t, admin) PROVE Agreeing(t, admin)'
    <3>1. tab[t].header # NoToken => tab[t].header.admin = admin
      BY <2>2 DEF SignedInv, Signed, Agreeing, MemoryAgrees, RestoredAgrees, StorageAgrees
    <3>2. FlightAgrees(admin)'
      BY <2>1, <2>2, <3>1 DEF Agreeing, FlightAgrees
    <3>3. SignedOut(t)'
      BY <2>1 DEF SignedOut
    <3>4. MemoryAgrees(t, admin)' /\ StorageAgrees(admin)' /\ RestoredAgrees(t)'
      BY <2>1, <2>2 DEF Agreeing, MemoryAgrees, StorageAgrees, RestoredAgrees, StoredToken
    <3> QED BY <3>2, <3>3, <3>4 DEF Agreeing
  <2> QED BY <1>5, <2>1, <2>2, RestoredLocal DEF Acts
<1>6. ASSUME NEW t \in Tab, NEW request \in flight, LoginAnswered(t, request)
      PROVE  RestoredInv'
  <2>1. /\ UNCHANGED <<left, overtaken>> /\ request.kind = "login"
        /\ flight' \subseteq flight
    BY <1>6 DEF LoginAnswered, Receives
  <2>2. PICK claims \in Claims, remember \in BOOLEAN :
           /\ claims.admin = (request.user \in Admins)
           /\ HandleTokenResponse(t, claims, remember, "protected")
    BY <1>0, <1>6, LoginHasToken
  <2>3. ASSUME NEW admin \in BOOLEAN, Agreeing(t, admin) PROVE Agreeing(t, admin)'
    <3>1. claims.admin = admin
      BY <2>1, <2>2, <2>3 DEF Agreeing, FlightAgrees
    <3> QED BY <2>1, <2>2, <2>3, <3>1, AnswerKeepsAgreeing DEF Page
  <2> QED BY <1>6, <2>1, <2>3, RestoredLocal DEF Acts
<1>7. ASSUME NEW t \in Tab, NEW request \in flight, NEW uid \in User,
             UpdateAnswered(t, request, uid)
      PROVE  RestoredInv'
  <2>1. /\ UNCHANGED <<left, overtaken>> /\ request.kind = "update"
        /\ flight' \subseteq flight
    BY <1>7 DEF UpdateAnswered, Receives
  <2>2. /\ request.header \in Claims
        /\ [request.header EXCEPT !.uid = uid] \in Claims
        /\ tab[t].page \in Page
        /\ HandleTokenResponse(t, [request.header EXCEPT !.uid = uid],
                               storage.token # NoToken, tab[t].page)
    BY <1>0, <1>7, UpdateHasToken
  <2>3. PICK claims \in Claims : claims = [request.header EXCEPT !.uid = uid]
    BY <2>2
  <2>4. claims.admin = request.header.admin /\ request.header # NoToken
    BY <2>2, <2>3, NoTokenFacts DEF Claims
  <2>5. ASSUME NEW admin \in BOOLEAN, Agreeing(t, admin) PROVE Agreeing(t, admin)'
    <3>1. claims.admin = admin
      BY <2>1, <2>4, <2>5 DEF Agreeing, FlightAgrees
    <3>2. tab[t].page # "login"
      BY <2>1, <2>4, <2>5 DEF Agreeing, SignedOut
    <3>3. HandleTokenResponse(t, claims, storage.token # NoToken, tab[t].page)
      BY <2>2, <2>3
    <3>4. (storage.token # NoToken) \in BOOLEAN
      OBVIOUS
    <3> QED BY <2>1, <2>2, <2>5, <3>1, <3>2, <3>3, <3>4, AnswerKeepsAgreeing
  <2> QED BY <1>7, <2>1, <2>5, RestoredLocal DEF Acts
<1>8. ASSUME NEW t \in Tab, NEW request \in flight, Refused(t, request) PROVE RestoredInv'
  <2>1. UNCHANGED <<storage, tab, left, overtaken>> /\ flight' \subseteq flight
    BY <1>8 DEF Refused, Receives
  <2>2. ASSUME NEW admin \in BOOLEAN, Agreeing(t, admin) PROVE Agreeing(t, admin)'
    BY <2>1, <2>2 DEF Agreeing, MemoryAgrees, StorageAgrees, RestoredAgrees, FlightAgrees,
                      SignedOut, StoredToken
  <2> QED BY <1>8, <2>1, <2>2, RestoredLocal DEF Acts
<1>9. CASE UNCHANGED frontendVars
  BY <1>9 DEF RestoredInv, Alone, Agreeing, MemoryAgrees, StorageAgrees, RestoredAgrees,
              FlightAgrees, SignedOut, StoredToken, frontendVars
<1> QED BY <1>1, <1>2, <1>3, <1>4, <1>5, <1>6, <1>7, <1>8, <1>9 DEF Next

\* In the only tab, a user who waits for answers is shown the name and exactly the
\* rights of the token that is sent, also when a reload has restored all of them
\* from the storage, where the flag of an administrator is only ever added
\* (auth.ts:30-58, 108-120).  A login that overtakes an answer could leave the flag of
\* one account beside the token of another, which is why the condition is there.
THEOREM RestoredTabsAgreeCorrect == Spec => []RestoredTabsAgree
<1>1. Init => RestoredInv
  <2> SUFFICES ASSUME Init, NEW t \in Tab PROVE Agreeing(t, FALSE)
    BY DEF RestoredInv
  <2>1. /\ storage = NoItem /\ flight = {} /\ tab[t] = Nobody("closed")
    BY DEF Init
  <2>2. /\ tab[t].token = NoToken /\ tab[t].header = NoToken /\ tab[t].seen = NoItem
        /\ tab[t].page = "closed" /\ tab[t].unread = FALSE
    BY <2>1 DEF Nobody
  <2> QED BY <2>1, <2>2, NoTokenFacts DEF Agreeing, MemoryAgrees, StorageAgrees,
             RestoredAgrees, FlightAgrees, SignedOut, StoredToken
<1>2. SignedInv /\ OpenInv /\ GoneInv /\ GuardInv /\ RestoredInv /\ [Next]_frontendVars
      => RestoredInv'
  BY NextKeepsRestored
<1>3. SignedInv /\ RestoredInv => RestoredTabsAgree
  <2> SUFFICES ASSUME SignedInv, RestoredInv, NEW t \in Tab, Alone(t), IsAuthenticated(t),
                      ~left[t], ~overtaken[t]
               PROVE  /\ tab[t].header = ActiveToken(t)
                      /\ ActiveName(t) = ActiveToken(t).uid
                      /\ ActiveIsAdmin(t) = ActiveToken(t).admin
    BY DEF RestoredTabsAgree
  <2>1. PICK admin \in BOOLEAN : Agreeing(t, admin)
    BY DEF RestoredInv
  <2>2. storage \in Item /\ tab[t] \in TabState /\ Signed(tab[t])
    BY DEF SignedInv, FrontendTypeOK
  <2>3. CASE tab[t].token # NoToken
    <3>1. /\ tab[t].token \in Claims /\ tab[t].header = tab[t].token
          /\ tab[t].name = tab[t].token.uid /\ tab[t].admin = tab[t].token.admin
      BY <2>2, <2>3 DEF Signed, TabState
    <3>2. tab[t].name # NoName
      BY <3>1, NoTokenFacts
    <3>3. tab[t].token.admin = admin /\ (tab[t].seen.admin => admin)
      BY <2>1, <2>3 DEF Agreeing, MemoryAgrees
    <3>4. tab[t].seen.admin \in BOOLEAN
      BY <2>2 DEF TabState, Item
    <3> QED BY <2>3, <3>1, <3>2, <3>3, <3>4 DEF ActiveToken, ActiveName, ActiveIsAdmin
  <2>4. CASE tab[t].token = NoToken
    <3>1. tab[t].name = NoName /\ tab[t].admin = FALSE
      BY <2>2, <2>4 DEF Signed
    <3>2. tab[t].header = storage.token /\ StoredToken(t) = storage.token
      BY <2>1, <2>4 DEF Agreeing, RestoredAgrees
    <3>3. storage.token # NoToken
      BY <2>4, <3>2 DEF IsAuthenticated, ActiveToken
    <3>4. /\ tab[t].seen = storage /\ storage.name = storage.token.uid
          /\ storage.token.admin = admin /\ storage.admin = admin
      BY <2>1, <2>4, <3>3 DEF Agreeing, RestoredAgrees, StorageAgrees
    <3> QED BY <2>4, <3>1, <3>2, <3>4 DEF ActiveToken, ActiveName, ActiveIsAdmin
  <2> QED BY <2>3, <2>4
<1>4. Init => GoneInv /\ GuardInv
  BY DEF Init, GoneInv, GuardInv, Guarded, Nobody, NoItem
<1>5. SignedInv /\ OpenInv /\ GoneInv /\ [Next]_frontendVars => GoneInv'
  BY NextKeepsGone
<1>6. SignedInv /\ OpenInv /\ GuardInv /\ [Next]_frontendVars => GuardInv'
  BY NextKeepsGuard
<1> QED BY <1>1, <1>2, <1>3, <1>4, <1>5, <1>6, SignedInvHolds, OpenInvHolds, PTL DEF Spec
=============================================================================
