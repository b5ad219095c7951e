---------------------------- MODULE SessionProofs ----------------------------
(***************************************************************************)
(* The safety properties of Sessions, for any number of workers, accounts  *)
(* and requests.  A step relies on the checks its handler made when the    *)
(* request arrived: Cleared says which ones hold at each label, and that   *)
(* the claims the worker carries are those of a token.                     *)
(***************************************************************************)
EXTENDS Sessions, TLAPS

LoginLabel == {"login_search", "login_bind", "login_rebind", "login_member"}
PasswordLabel == {"password_find", "password_modify"}

\* What the handler of p has checked before p came to its label.
Cleared(p) ==
    /\ p.pc \in LoginLabel => p.op = "Login" /\ p.user \in User
    /\ p.pc \in PasswordLabel =>
          /\ p.op = "ChangePassword" /\ p.user \in User /\ p.pw \in Password
          /\ p.claims.admin \/ p.claims.uid = p.user
    /\ p.pc = "apply" =>
          /\ p.user \in User /\ p.claims \in Claims
          /\ p.op = "NewAccount" => p.pw \in Password
          /\ p.op \in {"UpdateAccount", "DeleteAccount"} =>
                p.claims.admin \/ p.claims.uid = p.user
          /\ p.op \in {"NewAccount", "AddGroupMember", "DeleteGroupMember"} => p.claims.admin

Earned(claims) == claims.admin => claims.from \in wasAdmin

SessionInv ==
    /\ SessionTypeOK
    /\ admins \subseteq wasAdmin
    /\ AdminClaimsEarned
    /\ \A w \in Worker : Cleared(proc[w]) /\ Earned(proc[w].claims)

-----------------------------------------------------------------------------
(* The locals of a worker. *)

LEMMA GotoFacts ==
    ASSUME NEW p \in ProcState, NEW label \in Label
    PROVE  /\ Goto(p, label) \in ProcState
           /\ Goto(p, label).pc = label
           /\ Goto(p, label).op = p.op /\ Goto(p, label).user = p.user
           /\ Goto(p, label).pw = p.pw /\ Goto(p, label).claims = p.claims
  BY DEF Goto, ProcState

LEMMA AnswerFacts ==
    ASSUME NEW p \in ProcState, NEW code \in Code
    PROVE  /\ Answer(p, code) \in ProcState
           /\ Cleared(Answer(p, code))
           /\ Answer(p, code).claims = p.claims
  BY DEF Answer, ProcState, Label, Cleared, LoginLabel, PasswordLabel

LEMMA QuietFacts == Quiet \in ProcState /\ Cleared(Quiet) /\ Earned(Quiet.claims)
  BY DEF Quiet, ProcState, Label, Code, NoToken, Cleared, Earned, LoginLabel, PasswordLabel

LEMMA NoTokenFacts == NoToken \notin Claims /\ ~NoToken.admin
  BY ServiceAssumption DEF NoToken, Claims

\* A step that moves one worker to a state it may be in, and takes away from no
\* one the name of an administrator, keeps what is known of the workers.
LEMMA WorkersKept ==
    ASSUME SessionInv, NEW w \in Worker, NEW q \in ProcState, Cleared(q), Become(w, q),
           wasAdmin \subseteq wasAdmin', Earned(q.claims)
    PROVE  /\ proc' \in [Worker -> ProcState]
           /\ \A v \in Worker : Cleared(proc[v])' /\ Earned(proc[v].claims)'
<1>1. proc \in [Worker -> ProcState]
      /\ \A v \in Worker : Cleared(proc[v]) /\ Earned(proc[v].claims)
  BY DEF SessionInv, SessionTypeOK
<1>2. proc' \in [Worker -> ProcState] /\ proc'[w] = q
      /\ \A v \in Worker \ {w} : proc'[v] = proc[v]
  BY <1>1 DEF Become
<1>3. ASSUME NEW v \in Worker PROVE Cleared(proc[v])' /\ Earned(proc[v].claims)'
  <2>1. CASE v = w
    BY <1>2, <2>1 DEF Cleared, Earned
  <2>2. CASE v # w
    BY <1>1, <1>2, <2>2 DEF Cleared, Earned
  <2> QED BY <2>1, <2>2
<1> QED BY <1>2, <1>3

\* A step that changes no data keeps the invariant.
LEMMA LocalKeeps ==
    ASSUME SessionInv, NEW w \in Worker, NEW q \in ProcState, Cleared(q), Earned(q.claims),
           Become(w, q), UNCHANGED <<store, served>>,
           bound' \in User \cup {Manager, Anonymous}, tokens' \subseteq tokens
    PROVE  SessionInv'
<1>1. UNCHANGED <<password, admins, wasAdmin>>
  BY DEF store
<1>2. proc' \in [Worker -> ProcState] /\ \A v \in Worker : Cleared(proc[v])' /\ Earned(proc[v].claims)'
  BY <1>1, WorkersKept
<1>3. SessionTypeOK'
  BY <1>1, <1>2 DEF SessionInv, SessionTypeOK
<1>4. AdminClaimsEarned'
  BY <1>1 DEF SessionInv, AdminClaimsEarned
<1> QED BY <1>1, <1>2, <1>3, <1>4 DEF SessionInv

-----------------------------------------------------------------------------
(* The steps. *)

LEMMA CodesAreCodes ==
    {"OK", "Unauthenticated", "NotFound", "Internal", "AlreadyExists", "InvalidArgument",
     "FailedPrecondition", "PermissionDenied"} \subseteq Code
  BY DEF Code

LEMMA LoginSearchKeeps ==
    ASSUME SessionInv, NEW w \in Worker, LoginSearch(w) PROVE SessionInv'
<1> DEFINE p == proc[w]
<1>1. p \in ProcState /\ Cleared(p) /\ Earned(p.claims) /\ p.pc = "login_search"
  BY DEF SessionInv, SessionTypeOK, LoginSearch, At
<1>2. PICK q \in ProcState : Cleared(q) /\ q.claims = p.claims /\ Become(w, q)
  <2>1. CASE ~Privileged
    BY <1>1, <2>1, AnswerFacts, CodesAreCodes DEF LoginSearch
  <2>2. CASE Privileged /\ ~Exists(p.user)
    BY <1>1, <2>2, AnswerFacts, CodesAreCodes DEF LoginSearch
  <2>3. CASE Privileged /\ Exists(p.user)
    <3>1. "login_bind" \in Label
      BY DEF Label
    <3>2. Cleared(Goto(p, "login_bind"))
      BY <1>1, <3>1, GotoFacts DEF Cleared, LoginLabel, PasswordLabel
    <3> QED BY <1>1, <2>3, <3>1, <3>2, GotoFacts DEF LoginSearch
  <2> QED BY <2>1, <2>2, <2>3
<1>3. UNCHANGED <<store, served>> /\ UNCHANGED <<bound, tokens>>
  BY DEF LoginSearch
<1>4. Earned(q.claims)
  BY <1>1, <1>2 DEF Earned
<1> QED BY <1>2, <1>3, <1>4, LocalKeeps DEF SessionInv, SessionTypeOK

LEMMA LoginBindKeeps ==
    ASSUME SessionInv, NEW w \in Worker, LoginBind(w) PROVE SessionInv'
<1> DEFINE p == proc[w]
           right == Exists(p.user) /\ password[p.user] = p.pw
           q == Goto([p EXCEPT !.code = IF right THEN "OK" ELSE "Unauthenticated"],
                     "login_rebind")
<1>1. p \in ProcState /\ Cleared(p) /\ Earned(p.claims) /\ p.pc = "login_bind"
  BY DEF SessionInv, SessionTypeOK, LoginBind, At
<1>2. q \in ProcState /\ q.claims = p.claims /\ q.pc = "login_rebind" /\ q.op = p.op
      /\ q.user = p.user
  BY <1>1 DEF Goto, ProcState, Label, Code
<1>3. Cleared(q) /\ Earned(q.claims)
  BY <1>1, <1>2 DEF Cleared, LoginLabel, PasswordLabel, Earned
<1>4. bound' \in User \cup {Manager, Anonymous} /\ Become(w, q)
  BY <1>1 DEF LoginBind, Cleared, LoginLabel
<1>5. UNCHANGED <<store, served>> /\ UNCHANGED tokens
  BY DEF LoginBind
<1> QED BY <1>2, <1>3, <1>4, <1>5, LocalKeeps

LEMMA LoginRebindKeeps ==
    ASSUME SessionInv, NEW w \in Worker, LoginRebind(w) PROVE SessionInv'
<1> DEFINE p == proc[w]
           q == Goto(p, IF p.code = "OK" THEN "login_member" ELSE "reply")
<1>1. p \in ProcState /\ Cleared(p) /\ Earned(p.claims) /\ p.pc = "login_rebind"
  BY DEF SessionInv, SessionTypeOK, LoginRebind, At
<1>2. {"login_member", "reply"} \subseteq Label
  BY DEF Label
<1>3. q \in ProcState /\ q.claims = p.claims /\ q.pc \in {"login_member", "reply"}
      /\ q.op = p.op /\ q.user = p.user
  BY <1>1, <1>2, GotoFacts
<1>4. Cleared(q) /\ Earned(q.claims)
  BY <1>1, <1>3 DEF Cleared, LoginLabel, PasswordLabel, Earned
<1>5. bound' \in User \cup {Manager, Anonymous} /\ Become(w, q)
  BY DEF LoginRebind
<1>6. UNCHANGED <<store, served>> /\ UNCHANGED tokens
  BY DEF LoginRebind
<1> QED BY <1>3, <1>4, <1>5, <1>6, LocalKeeps

\* The one place where a token appears without another one before it.
LEMMA LoginMemberKeeps ==
    ASSUME SessionInv, NEW w \in Worker, LoginMember(w) PROVE SessionInv'
<1> DEFINE p == proc[w]
           claims == [uid |-> p.user, admin |-> p.user \in admins, from |-> p.user]
<1>1. p \in ProcState /\ Cleared(p) /\ Earned(p.claims) /\ p.pc = "login_member"
  BY DEF SessionInv, SessionTypeOK, LoginMember, At
<1>2. UNCHANGED <<store, served>> /\ UNCHANGED bound
  BY DEF LoginMember
<1>3. CASE ~Privileged /\ Become(w, Answer(p, "Internal")) /\ UNCHANGED tokens
  <2>1. Answer(p, "Internal") \in ProcState /\ Cleared(Answer(p, "Internal"))
        /\ Earned(Answer(p, "Internal").claims)
    BY <1>1, AnswerFacts, CodesAreCodes DEF Earned
  <2> QED BY <1>2, <1>3, <2>1, LocalKeeps DEF SessionInv, SessionTypeOK
<1>4. CASE Privileged /\ tokens' = tokens \cup {claims} /\ Become(w, Answer(p, "OK"))
  <2>1. Answer(p, "OK") \in ProcState /\ Cleared(Answer(p, "OK"))
        /\ Earned(Answer(p, "OK").claims)
    BY <1>1, AnswerFacts, CodesAreCodes DEF Earned
  <2>2. UNCHANGED <<password, admins, wasAdmin, bound, served>>
    BY <1>2 DEF store
  <2>3. proc' \in [Worker -> ProcState]
        /\ \A v \in Worker : Cleared(proc[v])' /\ Earned(proc[v].claims)'
    BY <1>4, <2>1, <2>2, WorkersKept
  <2>4. p.user \in User
    BY <1>1 DEF Cleared, LoginLabel
  <2>5. claims \in Claims /\ claims.admin = (p.user \in admins) /\ claims.from = p.user
    BY <2>4 DEF Claims
  <2>6. SessionTypeOK'
    BY <1>4, <2>2, <2>3, <2>5 DEF SessionInv, SessionTypeOK
  <2>7. AdminClaimsEarned'
    BY <1>4, <2>2, <2>5 DEF SessionInv, AdminClaimsEarned
  <2> QED BY <2>2, <2>3, <2>6, <2>7 DEF SessionInv
<1> QED BY <1>3, <1>4 DEF LoginMember

LEMMA PasswordFindKeeps ==
    ASSUME SessionInv, NEW w \in Worker, PasswordFind(w) PROVE SessionInv'
<1> DEFINE p == proc[w]
<1>1. p \in ProcState /\ Cleared(p) /\ Earned(p.claims) /\ p.pc = "password_find"
  BY DEF SessionInv, SessionTypeOK, PasswordFind, At
<1>2. PICK q \in ProcState : Cleared(q) /\ q.claims = p.claims /\ Become(w, q)
  <2>1. CASE ~Privileged
    BY <1>1, <2>1, AnswerFacts, CodesAreCodes DEF PasswordFind
  <2>2. CASE Privileged /\ ~Exists(p.user)
    BY <1>1, <2>2, AnswerFacts, CodesAreCodes DEF PasswordFind
  <2>3. CASE Privileged /\ Exists(p.user)
    <3>1. "password_modify" \in Label
      BY DEF Label
    <3>2. Cleared(Goto(p, "password_modify"))
      BY <1>1, <3>1, GotoFacts DEF Cleared, LoginLabel, PasswordLabel
    <3> QED BY <1>1, <2>3, <3>1, <3>2, GotoFacts DEF PasswordFind
  <2> QED BY <2>1, <2>2, <2>3
<1>3. UNCHANGED <<store, served>> /\ UNCHANGED <<bound, tokens>>
  BY DEF PasswordFind
<1>4. Earned(q.claims)
  BY <1>1, <1>2 DEF Earned
<1> QED BY <1>2, <1>3, <1>4, LocalKeeps DEF SessionInv, SessionTypeOK

\* A step that answers, whatever it does to accounts and administrators.
LEMMA AnswerKeeps ==
    ASSUME SessionInv, NEW w \in Worker, NEW code \in Code,
           Become(w, Answer(proc[w], code)), UNCHANGED <<bound, served>>,
           password' \in [User -> Password \cup {NoName}],
           admins' \subseteq User, wasAdmin' \subseteq User,
           admins' \subseteq wasAdmin', wasAdmin \subseteq wasAdmin',
           \A t \in tokens' : t \in tokens \/ (t \in Claims /\ Earned(t))
    PROVE  SessionInv'
<1> DEFINE q == Answer(proc[w], code)
<1>1. proc[w] \in ProcState /\ Earned(proc[w].claims)
  BY DEF SessionInv, SessionTypeOK
<1>2. q \in ProcState /\ Cleared(q) /\ Earned(q.claims)
  BY <1>1, AnswerFacts DEF Earned
<1>3. proc' \in [Worker -> ProcState]
      /\ \A v \in Worker : Cleared(proc[v])' /\ Earned(proc[v].claims)'
  BY <1>2, WorkersKept
<1>4. SessionTypeOK'
  BY <1>3 DEF SessionInv, SessionTypeOK
<1>5. AdminClaimsEarned'
  BY DEF SessionInv, AdminClaimsEarned, Earned
<1> QED BY <1>3, <1>4, <1>5 DEF SessionInv

LEMMA RefuseKeeps ==
    ASSUME SessionInv, NEW w \in Worker, NEW code \in Code, Refuse(w, code),
           UNCHANGED <<bound, served>>
    PROVE  SessionInv'
  BY AnswerKeeps DEF Refuse, store, SessionInv, SessionTypeOK

LEMMA PasswordModifyKeeps ==
    ASSUME SessionInv, NEW w \in Worker, PasswordModify(w) PROVE SessionInv'
<1> DEFINE p == proc[w]
           done == Privileged /\ Exists(p.user)
<1>1. p.pw \in Password
  BY DEF SessionInv, PasswordModify, At, Cleared, PasswordLabel
<1>2. password' \in [User -> Password \cup {NoName}]
  BY <1>1 DEF PasswordModify, SessionInv, SessionTypeOK
<1>3. PICK code \in Code : Become(w, Answer(p, code))
  BY CodesAreCodes DEF PasswordModify
<1>4. UNCHANGED <<admins, wasAdmin, bound, tokens, served>>
  BY DEF PasswordModify
<1> QED BY <1>2, <1>3, <1>4, AnswerKeeps DEF SessionInv, SessionTypeOK

-----------------------------------------------------------------------------
(* The requests that are one step. *)

LEMMA NewAccountKeeps ==
    ASSUME SessionInv, NEW w \in Worker, At(w, "apply"), proc[w].op = "NewAccount",
           NewAccount(w), UNCHANGED <<bound, served>>
    PROVE  SessionInv'
<1> DEFINE p == proc[w]
<1>1. CASE Privileged /\ ~Exists(p.user)
  <2>1. p.pw \in Password
    BY DEF SessionInv, At, Cleared
  <2>2. password' \in [User -> Password \cup {NoName}]
    BY <1>1, <2>1 DEF NewAccount, SessionInv, SessionTypeOK
  <2>3. Become(w, Answer(p, "OK")) /\ UNCHANGED <<admins, wasAdmin, tokens>>
    BY <1>1 DEF NewAccount
  <2> QED BY <2>2, <2>3, AnswerKeeps, CodesAreCodes DEF SessionInv, SessionTypeOK
<1>2. CASE ~(Privileged /\ ~Exists(p.user))
  BY <1>2, RefuseKeeps, CodesAreCodes DEF NewAccount
<1> QED BY <1>1, <1>2

LEMMA DeleteAccountKeeps ==
    ASSUME SessionInv, NEW w \in Worker, DeleteAccount(w), UNCHANGED <<bound, served>>
    PROVE  SessionInv'
<1> DEFINE p == proc[w]
<1>1. CASE Privileged /\ admins # {p.user}
  <2>1. password' \in [User -> Password \cup {NoName}] /\ admins' \subseteq admins
        /\ UNCHANGED <<wasAdmin, tokens>>
    BY <1>1 DEF DeleteAccount, SessionInv, SessionTypeOK
  <2>2. PICK code \in Code : Become(w, Answer(p, code))
    BY <1>1, CodesAreCodes DEF DeleteAccount
  <2> QED BY <2>1, <2>2, AnswerKeeps DEF SessionInv, SessionTypeOK
<1>2. CASE ~(Privileged /\ admins # {p.user})
  BY <1>2, RefuseKeeps, CodesAreCodes DEF DeleteAccount
<1> QED BY <1>1, <1>2

\* The renewed token descends from the same login as the caller's.
LEMMA UpdateAccountKeeps ==
    ASSUME SessionInv, NEW w \in Worker, At(w, "apply"), UpdateAccount(w),
           UNCHANGED <<bound, served>>
    PROVE  SessionInv'
<1> DEFINE p == proc[w]
           v == NewName(p)
           renames == v # p.user
           moves == renames /\ p.user \in admins /\ (RefInt \/ v \in admins)
           does == Privileged /\ Exists(p.user) /\ (renames => ~Exists(v))
           pw == IF p.pw = NoName THEN password[p.user] ELSE p.pw
<1>1. CASE does
  <2>1. p \in ProcState /\ p.claims \in Claims /\ p.user \in User /\ Earned(p.claims)
    BY DEF SessionInv, SessionTypeOK, At, Cleared
  <2>2. v \in User
    BY <2>1 DEF NewName, ProcState
  <2>3. pw \in Password \cup {NoName}
    BY <2>1 DEF SessionInv, SessionTypeOK, ProcState
  <2>4. password' = [u \in User |-> IF u = v THEN pw
                                    ELSE IF u = p.user THEN NoName ELSE password[u]]
    BY <1>1 DEF UpdateAccount
  <2>5. password' \in [User -> Password \cup {NoName}]
    BY <2>3, <2>4 DEF SessionInv, SessionTypeOK
  <2>6. admins' = (IF moves THEN (admins \ {p.user}) \cup {v} ELSE admins)
        /\ wasAdmin' = (IF moves THEN wasAdmin \cup {v} ELSE wasAdmin)
    BY <1>1 DEF UpdateAccount
  <2>7. admins' \subseteq User /\ wasAdmin' \subseteq User /\ admins' \subseteq wasAdmin'
        /\ wasAdmin \subseteq wasAdmin'
    BY <2>2, <2>6 DEF SessionInv, SessionTypeOK
  <2>8. Renewed(p.claims, v) \in Claims /\ Earned(Renewed(p.claims, v))
    BY <2>1, <2>2 DEF Renewed, Claims, Earned
  <2>9. tokens' = tokens \cup {Renewed(p.claims, v)} /\ Become(w, Answer(p, "OK"))
    BY <1>1 DEF UpdateAccount
  <2> QED BY <2>5, <2>7, <2>8, <2>9, AnswerKeeps, CodesAreCodes
<1>2. CASE ~does
  <2>1. PICK code \in Code : Refuse(w, code)
    BY <1>2, CodesAreCodes DEF UpdateAccount, Missing
  <2> QED BY <2>1, RefuseKeeps
<1> QED BY <1>1, <1>2

LEMMA PromoteKeeps ==
    ASSUME SessionInv, NEW w \in Worker, At(w, "apply"), Promote(w), UNCHANGED <<bound, served>>
    PROVE  SessionInv'
<1> DEFINE p == proc[w]
<1>1. CASE Privileged /\ p.user \notin admins
  <2>1. p.user \in User
    BY DEF SessionInv, At, Cleared
  <2>2. admins' = admins \cup {p.user} /\ wasAdmin' = wasAdmin \cup {p.user}
        /\ UNCHANGED <<password, tokens>> /\ Become(w, Answer(p, "OK"))
    BY <1>1 DEF Promote
  <2> QED BY <2>1, <2>2, AnswerKeeps, CodesAreCodes DEF SessionInv, SessionTypeOK
<1>2. CASE ~(Privileged /\ p.user \notin admins)
  BY <1>2, RefuseKeeps, CodesAreCodes DEF Promote
<1> QED BY <1>1, <1>2

LEMMA DemoteKeeps ==
    ASSUME SessionInv, NEW w \in Worker, Demote(w), UNCHANGED <<bound, served>>
    PROVE  SessionInv'
<1> DEFINE p == proc[w]
           does == Privileged /\ p.user \in admins /\ admins # {p.user}
<1>1. CASE does
  <2>1. admins' \subseteq admins /\ UNCHANGED <<password, wasAdmin, tokens>>
        /\ Become(w, Answer(p, "OK"))
    BY <1>1 DEF Demote
  <2> QED BY <2>1, AnswerKeeps, CodesAreCodes DEF SessionInv, SessionTypeOK
<1>2. CASE ~does
  <2>1. PICK code \in Code : Refuse(w, code)
    BY <1>2, CodesAreCodes DEF Demote, Missing
  <2> QED BY <2>1, RefuseKeeps
<1> QED BY <1>1, <1>2

LEMMA ApplyKeeps ==
    ASSUME SessionInv, NEW w \in Worker, Apply(w) PROVE SessionInv'
  BY NewAccountKeeps, DeleteAccountKeeps, UpdateAccountKeeps, PromoteKeeps, DemoteKeeps
  DEF Apply

-----------------------------------------------------------------------------
(* Requests arrive and are answered. *)

LEMMA AcceptKeeps ==
    ASSUME SessionInv, NEW w \in Worker, Accept(w) PROVE SessionInv'
<1>1. PICK r \in Requests, c \in tokens \cup {NoToken} :
          /\ r.op = "Login" => c = NoToken
          /\ Become(w, Handle([Quiet EXCEPT !.op = r.op, !.user = r.user, !.to = r.to,
                                            !.pw = r.pw, !.claims = c]))
  BY DEF Accept
<1> DEFINE p == [Quiet EXCEPT !.op = r.op, !.user = r.user, !.to = r.to, !.pw = r.pw,
                              !.claims = c]
           code == Authorise(p.op, p.claims, p.user)
<1>2. r \in SessionRequest /\ c \in Claims \cup {NoToken} /\ Earned(c)
  BY SessionAssumption, NoTokenFacts
  DEF SessionInv, SessionTypeOK, AdminClaimsEarned, Earned
<1>3. p.op = r.op /\ p.user = r.user /\ p.to = r.to /\ p.pw = r.pw /\ p.claims = c
  BY DEF Quiet
<1>4. p \in ProcState
  BY <1>2, QuietFacts DEF ProcState, SessionRequest
<1>5. code \in Code
  <2>1. Authenticate(p.op, p.claims) \in {"Unauthenticated", "PermissionDenied", "OK"}
    BY DEF Authenticate
  <2> QED BY <2>1, CodesAreCodes DEF Authorise, AuthoriseAs
<1> HIDE DEF p, code
<1>6. Handle(p) \in ProcState /\ Cleared(Handle(p)) /\ Handle(p).claims = c
  <2>1. CASE p.op = "Login"
    <3>1. CASE p.user = NoName \/ p.pw = NoName
      BY <1>3, <1>4, <2>1, <3>1, AnswerFacts, CodesAreCodes DEF Handle, LoginStart
    <3>2. CASE ~(p.user = NoName \/ p.pw = NoName)
      <4> DEFINE good == Exists(p.user) /\ password[p.user] = p.pw
                 q == [p EXCEPT !.good = good, !.pc = "login_search"]
      <4>1. Handle(p) = q
        <5>1. Handle(p) = LoginStart(p)
          BY <2>1 DEF Handle
        <5>2. LoginStart(p) = Goto([p EXCEPT !.good = good], "login_search")
          BY <3>2 DEF LoginStart
        <5> QED BY <5>1, <5>2 DEF Goto
      <4>2. q.pc = "login_search" /\ q.op = r.op /\ q.user = r.user /\ q.claims = c
        BY <1>3, <1>4 DEF ProcState
      <4>3. good \in BOOLEAN
        OBVIOUS
      <4>4. q \in ProcState
        BY <1>4, <4>3 DEF ProcState, Label
      <4>5. Cleared(q)
        BY <1>2, <1>3, <2>1, <3>2, <4>2
        DEF Cleared, LoginLabel, PasswordLabel, SessionRequest
      <4> QED BY <4>1, <4>2, <4>4, <4>5
    <3> QED BY <3>1, <3>2
  <2>2. CASE p.op # "Login" /\ code # "OK"
    <3>1. Handle(p) = Answer(p, code)
      BY <2>2 DEF Handle, code
    <3> QED BY <1>3, <1>4, <1>5, <3>1, AnswerFacts
  <2>3. CASE p.op # "Login" /\ code = "OK"
    <3>1. c \in Claims
      BY <1>2, <1>3, <2>3 DEF Authorise, AuthoriseAs, Authenticate, code
    <3>2. p.op \in OwnAccount => c.admin \/ c.uid = p.user
      BY <1>3, <2>3 DEF Authorise, AuthoriseAs, code
    <3>3. p.op \in RequireAdmin => c.admin
      BY <1>3, <2>3, <3>1, NoTokenFacts DEF Authorise, AuthoriseAs, Authenticate, code
    <3>4. CASE p.op = "ChangePassword" /\ (p.user = NoName \/ p.pw = NoName)
      <4>1. Handle(p) = Answer(p, "Internal")
        BY <2>3, <3>4 DEF Handle, ChangePassword, code
      <4> QED BY <1>3, <1>4, <4>1, AnswerFacts, CodesAreCodes
    <3>5. CASE p.op = "ChangePassword" /\ ~(p.user = NoName \/ p.pw = NoName)
      <4>1. Handle(p) = Goto(p, "password_find")
        BY <2>3, <3>5 DEF Handle, ChangePassword, code
      <4>2. "password_find" \in Label
        BY DEF Label
      <4>3. Cleared(Goto(p, "password_find"))
        BY <1>2, <1>3, <1>4, <3>2, <3>5, <4>2, GotoFacts
        DEF Cleared, LoginLabel, PasswordLabel, SessionRequest, OwnAccount
      <4> QED BY <1>3, <1>4, <4>1, <4>2, <4>3, GotoFacts
    <3>6. CASE p.op # "ChangePassword"
      <4>1. Handle(p) = Goto(p, "apply")
        BY <2>3, <3>6 DEF Handle, code
      <4>2. "apply" \in Label
        BY DEF Label
      <4>3. p.user \in User /\ (p.op = "NewAccount" => p.pw \in Password)
        BY <1>2, <1>3, <2>3, <3>6, SessionAssumption
      <4>4. Cleared(Goto(p, "apply"))
        BY <1>3, <1>4, <3>1, <3>2, <3>3, <4>2, <4>3, GotoFacts
        DEF Cleared, LoginLabel, PasswordLabel, OwnAccount, RequireAdmin
      <4> QED BY <1>3, <1>4, <4>1, <4>2, <4>4, GotoFacts
    <3> QED BY <3>4, <3>5, <3>6
  <2> QED BY <2>1, <2>2, <2>3
<1>7. UNCHANGED <<password, admins, wasAdmin, bound, tokens>>
  BY DEF Accept, store
<1>8. proc' \in [Worker -> ProcState]
      /\ \A v \in Worker : Cleared(proc[v])' /\ Earned(proc[v].claims)'
  <2>1. Become(w, Handle(p)) /\ Earned(Handle(p).claims)
    BY <1>1, <1>2, <1>6 DEF p
  <2> QED BY <1>6, <1>7, <2>1, WorkersKept
<1>9. served' \in [Worker -> Nat]
  BY DEF Accept, SessionInv, SessionTypeOK
<1>10. SessionTypeOK' /\ AdminClaimsEarned'
  BY <1>7, <1>8, <1>9 DEF SessionInv, SessionTypeOK, AdminClaimsEarned
<1> QED BY <1>7, <1>8, <1>10 DEF SessionInv

LEMMA ReplyKeeps ==
    ASSUME SessionInv, NEW w \in Worker, Reply(w) PROVE SessionInv'
  BY QuietFacts, LocalKeeps DEF Reply, SessionInv, SessionTypeOK

LEMMA ExpireKeeps ==
    ASSUME SessionInv, Expire PROVE SessionInv'
<1>1. UNCHANGED <<password, admins, wasAdmin, bound, proc, served>> /\ tokens' \subseteq tokens
  BY DEF Expire, store
<1>2. SessionTypeOK' /\ AdminClaimsEarned'
  BY <1>1 DEF SessionInv, SessionTypeOK, AdminClaimsEarned
<1> QED BY <1>1, <1>2 DEF SessionInv, Cleared, Earned

LEMMA InitKeeps == Init => SessionInv
<1> SUFFICES ASSUME Init PROVE SessionInv
  OBVIOUS
<1>1. SessionTypeOK
  BY SessionAssumption, QuietFacts DEF Init, SessionTypeOK
<1>2. \A w \in Worker : Cleared(proc[w]) /\ Earned(proc[w].claims)
  BY QuietFacts DEF Init
<1> QED BY <1>1, <1>2 DEF Init, SessionInv, AdminClaimsEarned

LEMMA NextKeeps == SessionInv /\ [Next]_sessionVars => SessionInv'
<1> SUFFICES ASSUME SessionInv, [Next]_sessionVars PROVE SessionInv'
  OBVIOUS
<1>1. CASE UNCHANGED sessionVars
  BY <1>1 DEF sessionVars, SessionInv, SessionTypeOK, AdminClaimsEarned, Cleared, Earned
<1>2. CASE Expire
  BY <1>2, ExpireKeeps
<1>3. ASSUME NEW w \in Worker, Accept(w) \/ Step(w) \/ Reply(w) PROVE SessionInv'
  BY <1>3, AcceptKeeps, ReplyKeeps, LoginSearchKeeps, LoginBindKeeps, LoginRebindKeeps,
     LoginMemberKeeps, PasswordFindKeeps, PasswordModifyKeeps, ApplyKeeps DEF Step
<1> QED BY <1>1, <1>2, <1>3 DEF Next

LEMMA SessionInvHolds == Spec => []SessionInv
  BY InitKeeps, NextKeeps, PTL DEF Spec

-----------------------------------------------------------------------------
(* The theorems. *)

\* Every variable of Sessions keeps its type, for any set of requests.
THEOREM SessionTypesCorrect == Spec => []SessionTypeOK
<1>1. SessionInv => SessionTypeOK
  BY DEF SessionInv
<1> QED BY <1>1, SessionInvHolds, PTL

\* Administrators' tokens descend from the login of an account that has been a
\* member of the administrators' group: neither UpdateAccount, which signs new
\* tokens with the caller's claims, nor any interleaving of logins, renames and
\* group changes makes one out of another user's.
THEOREM AdminClaimsCorrect == Spec => []AdminClaimsEarned
<1>1. SessionInv => AdminClaimsEarned
  BY DEF SessionInv
<1> QED BY <1>1, SessionInvHolds, PTL

\* If binding as the manager does not fail, the shared connection is another
\* identity's only while some login is about to bind it back, however many
\* logins are interleaved.
THEOREM AdminIsRestored ==
    ASSUME RebindMayFail = FALSE
    PROVE  Spec => []AdminRestored
<1>1. Init => AdminRestored
  BY DEF Init, AdminRestored
<1>2. ASSUME SessionTypeOK, AdminRestored, [Next]_sessionVars PROVE AdminRestored'
  <2>1. CASE bound' = Manager
    BY <2>1 DEF AdminRestored
  <2>2. ASSUME NEW w \in Worker, LoginBind(w) PROVE AdminRestored'
    BY <1>2, <2>2 DEF LoginBind, Become, Goto, AdminRestored, At, SessionTypeOK, ProcState
  <2>3. ASSUME NEW w \in Worker, LoginRebind(w) PROVE AdminRestored'
    BY <2>3 DEF LoginRebind, AdminRestored
  <2>4. ASSUME NEW w \in Worker, ~At(w, "login_rebind"), bound' = bound,
               NEW q, Become(w, q) PROVE AdminRestored'
    BY <1>2, <2>4 DEF Become, AdminRestored, At, SessionTypeOK
  <2>5. CASE UNCHANGED <<bound, proc>>
    BY <1>2, <2>5 DEF AdminRestored, At
  <2>6. ASSUME NEW w \in Worker, Accept(w) \/ Reply(w) PROVE AdminRestored'
    <3>1. ~At(w, "login_rebind") /\ bound' = bound
      BY <2>6 DEF Accept, Reply, At
    <3>2. \E q : Become(w, q)
      BY <2>6 DEF Accept, Reply
    <3> QED BY <2>4, <3>1, <3>2
  <2>7. ASSUME NEW w \in Worker, LoginSearch(w) \/ LoginMember(w) \/ PasswordFind(w)
                                  \/ PasswordModify(w) \/ Apply(w)
        PROVE  AdminRestored'
    <3>1. ~At(w, "login_rebind") /\ bound' = bound
      BY <2>7 DEF LoginSearch, LoginMember, PasswordFind, PasswordModify, Apply, At
    <3>2. \E q : Become(w, q)
      BY <2>7 DEF LoginSearch, LoginMember, PasswordFind, PasswordModify, Apply, NewAccount,
                  DeleteAccount, UpdateAccount, Promote, Demote, Refuse
    <3> QED BY <2>4, <3>1, <3>2
  <2> QED BY <1>2, <2>2, <2>3, <2>5, <2>6, <2>7 DEF Next, Step, Expire, sessionVars
<1> QED BY <1>1, <1>2, SessionTypesCorrect, PTL DEF Spec

\* A password is changed, removed or renamed away only for the token of its
\* account or an administrator's, although the check is made steps before.
THEOREM OwnAccountCorrect == Spec => OwnAccountOnly
<1> DEFINE Rightful == \A u \in User : Exists(u) /\ password'[u] # password[u] =>
                 \E w \in Worker : /\ proc'[w] # proc[w]
                                   /\ proc[w].claims.admin \/ proc[w].claims.uid = u
<1>1. ASSUME SessionInv, [Next]_sessionVars PROVE [Rightful]_sessionVars
  <2> SUFFICES ASSUME NEW u \in User, Exists(u), password'[u] # password[u]
               PROVE  \E w \in Worker : /\ proc'[w] # proc[w]
                                        /\ proc[w].claims.admin \/ proc[w].claims.uid = u
    OBVIOUS
  <2>1. PICK w \in Worker : PasswordModify(w) \/ Apply(w)
    BY <1>1 DEF Next, Step, sessionVars, store, Expire, Accept, Reply, LoginSearch, LoginBind,
                LoginRebind, LoginMember, PasswordFind
  <2>2. Cleared(proc[w]) /\ proc \in [Worker -> ProcState] /\ password \in [User -> Password \cup {NoName}]
    BY <1>1 DEF SessionInv, SessionTypeOK
  <2>3. ASSUME NEW code, Become(w, Answer(proc[w], code)), ~At(w, "reply")
        PROVE  proc'[w] # proc[w]
    BY <2>2, <2>3 DEF Become, Answer, At, ProcState
  <2>4. CASE PasswordModify(w)
    <3>1. proc[w].user = u
      BY <2>2, <2>4 DEF PasswordModify
    <3>2. proc[w].claims.admin \/ proc[w].claims.uid = proc[w].user
      BY <2>2, <2>4 DEF PasswordModify, At, Cleared, PasswordLabel
    <3>3. proc'[w] # proc[w]
      BY <2>3, <2>4 DEF PasswordModify, At
    <3> QED BY <3>1, <3>2, <3>3
  <2>5. CASE Apply(w)
    <3>1. proc[w].op \in {"NewAccount", "DeleteAccount", "UpdateAccount"}
      BY <2>5 DEF Apply, Promote, Demote, Refuse, store
    <3>2. proc'[w] # proc[w]
      BY <2>3, <2>5 DEF Apply, NewAccount, DeleteAccount, UpdateAccount, Promote, Demote,
                        Refuse, At
    <3>3. CASE proc[w].op = "NewAccount"
      BY <2>2, <2>5, <3>2, <3>3 DEF Apply, At, Cleared
    <3>4. CASE proc[w].op = "DeleteAccount"
      <4>1. DeleteAccount(w) /\ (proc[w].claims.admin \/ proc[w].claims.uid = proc[w].user)
        BY <2>2, <2>5, <3>4 DEF Apply, At, Cleared
      <4>2. proc[w].user = u
        BY <2>2, <4>1 DEF DeleteAccount, Refuse, store
      <4> QED BY <3>2, <4>1, <4>2
    <3>5. CASE proc[w].op = "UpdateAccount"
      <4>1. UpdateAccount(w) /\ (proc[w].claims.admin \/ proc[w].claims.uid = proc[w].user)
        BY <2>2, <2>5, <3>5 DEF Apply, At, Cleared
      <4> DEFINE v == NewName(proc[w])
      <4>2. /\ v # proc[w].user => ~Exists(v)
            /\ u \notin {v, proc[w].user} => password'[u] = password[u]
        BY <4>1 DEF UpdateAccount, Refuse, store
      <4>3. proc[w].user = u
        BY <4>2
      <4> QED BY <3>2, <4>1, <4>3
    <3> QED BY <3>1, <3>3, <3>4, <3>5
  <2> QED BY <2>1, <2>4, <2>5
<1> QED BY <1>1, SessionInvHolds, PTL DEF Spec, OwnAccountOnly

\* An account or an administrator more, or another administrator less, is the work
\* of an administrator's token, whose claims are checked when the request arrives
\* (grpc/auth.go:48), however long before and however stale they are; any other
\* token only renames or deletes the account it was issued for.
THEOREM AdminsByAdminsCorrect == Spec => AdminsByAdmins
<1> DEFINE Created(u) == ~Exists(u) /\ password'[u] # NoName
           Promoted(u) == u \notin admins /\ u \in admins'
           Demoted(u) == u \in admins /\ u \notin admins'
           Rightful(u, w) ==
               LET mine == proc[w].claims.uid
               IN  /\ proc'[w] # proc[w]
                   /\ \/ proc[w].claims.admin
                      \/ /\ Created(u) => Exists(mine) /\ password'[mine] = NoName
                         /\ Promoted(u) => mine \in admins \ admins'
                         /\ Demoted(u) => mine = u
           Allowed == \A u \in User : Created(u) \/ Promoted(u) \/ Demoted(u) =>
                                         \E w \in Worker : Rightful(u, w)
<1>1. ASSUME SessionInv, [Next]_sessionVars PROVE [Allowed]_sessionVars
  <2> SUFFICES ASSUME Next, NEW u \in User, Created(u) \/ Promoted(u) \/ Demoted(u)
               PROVE  \E w \in Worker : Rightful(u, w)
    BY <1>1
  <2>1. CASE \E w \in Worker : Apply(w)
    <3>1. PICK w \in Worker : Apply(w)
      BY <2>1
    <3>2. Cleared(proc[w]) /\ proc \in [Worker -> ProcState] /\ At(w, "apply")
      BY <1>1, <3>1 DEF SessionInv, SessionTypeOK, Apply
    <3>3. ASSUME NEW code, Become(w, Answer(proc[w], code))
          PROVE  proc'[w] # proc[w]
      BY <3>2, <3>3 DEF Become, Answer, At, ProcState
    <3>4. proc'[w] # proc[w]
      BY <3>1, <3>3 DEF Apply, NewAccount, DeleteAccount, UpdateAccount, Promote, Demote, Refuse
    <3>5. CASE proc[w].claims.admin
      BY <3>4, <3>5
    <3>6. CASE ~proc[w].claims.admin
      <4>1. /\ proc[w].op \in {"DeleteAccount", "UpdateAccount"}
            /\ proc[w].claims.uid = proc[w].user
        BY <3>1, <3>2, <3>6 DEF Apply, Cleared, At
      <4>2. password \in [User -> Password \cup {NoName}] /\ NoName \notin Password
        BY <1>1, SessionAssumption DEF SessionInv, SessionTypeOK
      <4>3. CASE proc[w].op = "DeleteAccount"
        <5>1. DeleteAccount(w)
          BY <3>1, <4>3 DEF Apply
        <5>2. password'[u] \in {password[u], NoName} /\ admins' \in {admins, admins \ {proc[w].user}}
          BY <4>2, <5>1 DEF DeleteAccount, Refuse, store
        <5> QED BY <3>4, <4>1, <5>2 DEF Exists
      <4>4. CASE proc[w].op = "UpdateAccount"
        <5> DEFINE v == NewName(proc[w])
                   renames == v # proc[w].user
        <5>1. UpdateAccount(w)
          BY <3>1, <4>4 DEF Apply
        <5>2. CASE UNCHANGED <<password, admins>>
          BY <5>2 DEF Exists
        <5>3. CASE ~UNCHANGED <<password, admins>>
          <6>1. /\ Exists(proc[w].user)
                /\ password' = [t \in User |->
                      IF t = v THEN (IF proc[w].pw = NoName THEN password[proc[w].user]
                                                            ELSE proc[w].pw)
                      ELSE IF t = proc[w].user THEN NoName ELSE password[t]]
                /\ \/ admins' = admins
                   \/ /\ renames /\ proc[w].user \in admins
                      /\ admins' = (admins \ {proc[w].user}) \cup {v}
            BY <5>1, <5>3 DEF UpdateAccount, Refuse, store
          <6>2. ~Exists(u) /\ password'[u] # NoName =>
                   Exists(proc[w].user) /\ password'[proc[w].user] = NoName
            BY <6>1 DEF Exists
          <6>3. u \notin admins /\ u \in admins' => proc[w].user \in admins \ admins'
            BY <6>1
          <6>4. u \in admins /\ u \notin admins' => proc[w].user = u
            BY <6>1
          <6> QED BY <3>4, <4>1, <6>2, <6>3, <6>4
        <5> QED BY <5>2, <5>3
      <4> QED BY <4>1, <4>3, <4>4
    <3> QED BY <3>5, <3>6
  <2>2. CASE ~\E w \in Worker : Apply(w)
    <3>1. admins' = admins
      BY <2>2 DEF Next, Step, store, Expire, Accept, Reply, LoginSearch, LoginBind,
                  LoginRebind, LoginMember, PasswordFind, PasswordModify
    <3>2. Exists(u) \/ password'[u] = NoName
      <4>1. CASE \E w \in Worker : PasswordModify(w)
        BY <1>1, <4>1 DEF PasswordModify, Exists, SessionInv, SessionTypeOK
      <4>2. CASE ~\E w \in Worker : PasswordModify(w)
        <5>1. password' = password
          BY <2>2, <4>2 DEF Next, Step, store, Expire, Accept, Reply, LoginSearch, LoginBind,
                            LoginRebind, LoginMember, PasswordFind
        <5> QED BY <5>1 DEF Exists
      <4> QED BY <4>1, <4>2
    <3> QED BY <3>1, <3>2
  <2> QED BY <2>1, <2>2
<1> QED BY <1>1, SessionInvHolds, PTL DEF Spec, AdminsByAdmins

-----------------------------------------------------------------------------
(* Logins that have the connection to themselves.                          *)

\* What the password that the client sent is still good for.
Promise(p) ==
    p.good =>
        /\ p.pc \in {"login_search", "login_bind"} =>
              Exists(p.user) /\ password[p.user] = p.pw
        /\ p.pc \in {"login_rebind", "login_member"} => p.code = "OK"
        /\ p.pc = "reply" /\ p.op = "Login" => p.code = "OK"

\* Where the only worker stands is all there is to know.
LEMMA OneWorkerPromise ==
    ASSUME SessionInv, \A v, w \in Worker : v = w, NEW w \in Worker, NEW q,
           Become(w, q), Promise(q)'
    PROVE  \A v \in Worker : Promise(proc[v])'
<1>1. proc'[w] = q
  BY DEF SessionInv, SessionTypeOK, Become
<1> QED BY <1>1 DEF Promise

\* A request that is no login promises nothing when it is answered.
LEMMA OtherAnswers ==
    ASSUME SessionInv, \A v, w \in Worker : v = w, NEW w \in Worker, NEW code,
           proc[w].op # "Login", Become(w, Answer(proc[w], code))
    PROVE  \A v \in Worker : Promise(proc[v])'
<1>1. PICK q : q = Answer(proc[w], code)
  OBVIOUS
<1>2. q.pc = "reply" /\ q.op # "Login"
  BY <1>1 DEF Answer, SessionInv, SessionTypeOK, ProcState
<1>3. Promise(q)'
  BY <1>2 DEF Promise
<1> QED BY <1>1, <1>3, OneWorkerPromise

\* The steps of a login keep the promise as long as no other one is about to
\* bind the connection back.
LEMMA LoginKeepsPromise ==
    ASSUME SessionInv, AdminRestored, \A v, w \in Worker : v = w, NEW w \in Worker,
           Promise(proc[w]),
           LoginSearch(w) \/ LoginBind(w) \/ LoginRebind(w) \/ LoginMember(w)
    PROVE  \A v \in Worker : Promise(proc[v])'
<1> DEFINE p == proc[w]
<1>1. p \in ProcState /\ Promise(p)
  BY DEF SessionInv, SessionTypeOK
<1>2. UNCHANGED password
  BY DEF LoginSearch, LoginBind, LoginRebind, LoginMember, store
<1>3. ~At(w, "login_rebind") => Privileged
  BY DEF AdminRestored, Privileged
<1>4. \A label : /\ Goto(p, label).pc = label /\ Goto(p, label).good = p.good
                 /\ Goto(p, label).user = p.user /\ Goto(p, label).pw = p.pw
                 /\ Goto(p, label).code = p.code /\ Goto(p, label).op = p.op
  BY <1>1 DEF Goto, ProcState
<1>5. \A code : /\ Answer(p, code).pc = "reply" /\ Answer(p, code).good = p.good
                /\ Answer(p, code).code = code /\ Answer(p, code).op = p.op
  BY <1>1 DEF Answer, ProcState
<1>6. CASE LoginSearch(w)
  <2>1. PICK q : Become(w, q) /\ \/ ~Exists(p.user) /\ q = Answer(p, "NotFound")
                                 \/ Exists(p.user) /\ q = Goto(p, "login_bind")
    BY <1>3, <1>6 DEF LoginSearch, At
  <2>2. Promise(q)'
    BY <1>1, <1>2, <1>4, <1>5, <1>6, <2>1 DEF Promise, Exists, LoginSearch, At
  <2> QED BY <2>1, <2>2, OneWorkerPromise
<1>7. CASE LoginBind(w)
  <2> DEFINE right == Exists(p.user) /\ password[p.user] = p.pw
  <2>1. PICK q : q = Goto([p EXCEPT !.code = IF right THEN "OK" ELSE "Unauthenticated"],
                          "login_rebind")
    OBVIOUS
  <2>2. /\ q.pc = "login_rebind" /\ q.good = p.good /\ (right => q.code = "OK")
        /\ p.good => right
    BY <1>1, <1>7, <2>1 DEF Goto, ProcState, LoginBind, At, Promise
  <2>3. Become(w, q)
    BY <1>7, <2>1 DEF LoginBind
  <2>4. Promise(q)'
    BY <2>2 DEF Promise
  <2> QED BY <2>3, <2>4, OneWorkerPromise
<1>8. CASE LoginRebind(w)
  <2>1. PICK q : q = Goto(p, IF p.code = "OK" THEN "login_member" ELSE "reply")
    OBVIOUS
  <2>2. Become(w, q) /\ (p.good => p.code = "OK")
    BY <1>1, <1>8, <2>1 DEF LoginRebind, At, Promise
  <2>3. Promise(q)'
    BY <1>4, <2>1, <2>2 DEF Promise
  <2> QED BY <2>2, <2>3, OneWorkerPromise
<1>9. CASE LoginMember(w)
  <2>1. PICK q : q = Answer(p, "OK")
    OBVIOUS
  <2>2. Become(w, q)
    BY <1>3, <1>9, <2>1 DEF LoginMember, At
  <2>3. Promise(q)'
    BY <1>5, <2>1 DEF Promise
  <2> QED BY <2>2, <2>3, OneWorkerPromise
<1> QED BY <1>6, <1>7, <1>8, <1>9

\* The other steps.
LEMMA NextKeepsPromise ==
    ASSUME SessionInv, AdminRestored, \A v, w \in Worker : v = w,
           \A v \in Worker : Promise(proc[v]), [Next]_sessionVars
    PROVE  \A v \in Worker : Promise(proc[v])'
<1>1. CASE UNCHANGED sessionVars
  BY <1>1 DEF sessionVars, Promise, Exists
<1>2. CASE Expire
  BY <1>2 DEF Expire, store, Promise, Exists
<1>3. ASSUME NEW w \in Worker, Accept(w) PROVE \A v \in Worker : Promise(proc[v])'
  <2>1. PICK r \in Requests, c \in tokens \cup {NoToken} :
            Become(w, Handle([Quiet EXCEPT !.op = r.op, !.user = r.user, !.to = r.to,
                                           !.pw = r.pw, !.claims = c]))
    BY <1>3 DEF Accept
  <2> DEFINE p == [Quiet EXCEPT !.op = r.op, !.user = r.user, !.to = r.to, !.pw = r.pw,
                                !.claims = c]
             good == Exists(p.user) /\ password[p.user] = p.pw
  <2>2. PICK q : q = Handle(p)
    OBVIOUS
  <2>3. /\ ~p.good /\ DOMAIN p = DOMAIN Quiet
        /\ [p EXCEPT !.good = good].good = good
        /\ [p EXCEPT !.good = good].user = p.user /\ [p EXCEPT !.good = good].pw = p.pw
    BY DEF Quiet
  <2> HIDE DEF p
  <2>4. \A label : Goto(p, label).good = p.good
    BY <2>3 DEF Goto
  <2>5. \A code : Answer(p, code).good = p.good
    BY <2>3 DEF Answer
  <2>6. CASE p.op = "Login" /\ ~(p.user = NoName \/ p.pw = NoName)
    <3>1. q = Goto([p EXCEPT !.good = good], "login_search")
      BY <2>2, <2>6 DEF Handle, LoginStart
    <3>2. /\ q.pc = "login_search" /\ q.good = good
          /\ q.user = p.user /\ q.pw = p.pw
      BY <2>3, <3>1 DEF Goto, Quiet
    <3>3. UNCHANGED password
      BY <1>3 DEF Accept, store
    <3>4. Promise(q)'
      BY <3>2, <3>3 DEF Promise, Exists
    <3> QED BY <2>1, <2>2, <3>4, OneWorkerPromise DEF p
  <2>7. CASE ~(p.op = "Login" /\ ~(p.user = NoName \/ p.pw = NoName))
    <3>1. ~q.good
      BY <2>2, <2>3, <2>4, <2>5, <2>7 DEF Handle, LoginStart, ChangePassword
    <3>2. Promise(q)'
      BY <3>1 DEF Promise
    <3> QED BY <2>1, <2>2, <3>2, OneWorkerPromise DEF p
  <2> QED BY <2>6, <2>7
<1>4. ASSUME NEW w \in Worker, Reply(w) PROVE \A v \in Worker : Promise(proc[v])'
  <2>1. PICK q : q = Quiet
    OBVIOUS
  <2>2. Promise(q)'
    BY <2>1 DEF Quiet, Promise
  <2> QED BY <1>4, <2>1, <2>2, OneWorkerPromise DEF Reply
<1>5. ASSUME NEW w \in Worker, PasswordFind(w) \/ PasswordModify(w)
      PROVE  \A v \in Worker : Promise(proc[v])'
  <2>1. proc[w].op # "Login" /\ proc[w] \in ProcState
    BY <1>5 DEF PasswordFind, PasswordModify, SessionInv, SessionTypeOK, At, Cleared,
                PasswordLabel
  <2>2. CASE Become(w, Goto(proc[w], "password_modify"))
    <3>1. PICK q : q = Goto(proc[w], "password_modify")
      OBVIOUS
    <3>2. q.pc = "password_modify"
      BY <2>1, <3>1 DEF Goto, ProcState
    <3>3. Promise(q)'
      BY <3>2 DEF Promise
    <3> QED BY <2>2, <3>1, <3>3, OneWorkerPromise
  <2> QED BY <1>5, <2>1, <2>2, OtherAnswers DEF PasswordFind, PasswordModify
<1>6. ASSUME NEW w \in Worker, Apply(w) PROVE \A v \in Worker : Promise(proc[v])'
  <2>1. proc[w].op # "Login"
    BY <1>6 DEF Apply
  <2>2. PICK code : Become(w, Answer(proc[w], code))
    BY <1>6 DEF Apply, NewAccount, DeleteAccount, UpdateAccount, Promote, Demote, Refuse
  <2> QED BY <2>1, <2>2, OtherAnswers
<1> QED BY <1>1, <1>2, <1>3, <1>4, <1>5, <1>6, LoginKeepsPromise DEF Next, Step

\* The right password is accepted when requests are served one at a time: a
\* refusal is always the doing of another login, which binds the connection as
\* its own user meanwhile (accounts.go:227).
THEOREM GoodLoginsAccepted ==
    ASSUME RebindMayFail = FALSE, \A v, w \in Worker : v = w
    PROVE  Spec => []GoodLoginAccepted
<1>1. Init => \A v \in Worker : Promise(proc[v])
  BY DEF Init, Quiet, Promise
<1>2. SessionInv /\ AdminRestored /\ (\A v \in Worker : Promise(proc[v])) /\ [Next]_sessionVars
      => (\A v \in Worker : Promise(proc[v]))'
  BY NextKeepsPromise
<1>3. (\A v \in Worker : Promise(proc[v])) => GoodLoginAccepted
  BY DEF Promise, GoodLoginAccepted, At
<1> QED BY <1>1, <1>2, <1>3, SessionInvHolds, AdminIsRestored, PTL DEF Spec
=============================================================================
