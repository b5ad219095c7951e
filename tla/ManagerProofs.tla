---------------------------- MODULE ManagerProofs ----------------------------
(***************************************************************************)
(* Type correctness of the manager, what it does to the default groups,    *)
(* and what NewAccount gives an account, for any number of replicas,       *)
(* goroutines and crashes.                                                 *)
(*                                                                         *)
(* TypeOK is not inductive: whether a step leaves a well-typed directory   *)
(* depends on the arguments a handler checked some steps before.  Fits     *)
(* says what each label needs to know of the locals, and Known that a      *)
(* worker has it for the label it is at and for those it will return to.   *)
(***************************************************************************)
EXTENDS ManagerProperties, TLAPS

-----------------------------------------------------------------------------
(* The inductive invariant. *)

\* Where p.user is the account that the function is about.
UserLabel ==
    {"add_member_check", "add_member", "update_taken", "update_rename", "update_groups",
     "update_leave", "update_join", "update_modify",
     "new_account_find", "new_account_no_ou", "new_account_uid", "new_account_retry",
     "new_account_uid_again", "account_group", "account_group_made", "account_group_own",
     "account_group_gid", "account_by_gid", "new_account_add", "new_account_joined"}

\* Where the request names an account.
RequestUserLabel ==
    {"update_find", "update_taken", "update_rename", "delete_groups", "delete_leave",
     "delete_entry"}

\* Where the functions of Function may return to.
ReturnLabel ==
    {"reply", "new_group_add", "last_id_add",
     "new_account_no_ou", "new_account_uid", "new_account_retry", "new_account_uid_again",
     "account_group_made", "account_group_own", "new_account_joined",
     "setup_last_gid", "setup_last_uid", "setup_admin_made", "setup_admins_made",
     "setup_admin_forced"}

\* No client renames a default group, which UpdateGroup would let it do.
NoProtectedRename ==
    \A r \in Requests :
        r.op = "UpdateGroup" /\ IsProtectedGroup(r.group) => r.to \in {NoName, r.group}

\* What the step at label relies on.
Fits(p, label) ==
    /\ label = "update_find" => p.req.to \in User \cup {NoName}
    /\ label \in UserLabel => p.user \in User
    /\ label \in {"update_group_modify", "account_group_gid"} => p.group \in Group
    /\ label \in RequestUserLabel => p.req.user \in User
    /\ label \in {"delete_group", "update_group_rename"} => p.req.group \in Group
    /\ label = "delete_group" => ~IsProtectedGroup(p.req.group)
    /\ label = "update_group_rename" =>
          /\ p.req.to \in Group
          /\ NoProtectedRename => ~IsProtectedGroup(p.req.group)

Known(p) ==
    /\ p \in ProcState(Label)
    /\ Fits(p, p.pc)
    /\ \A f \in Function : p.ret[f] \in ReturnLabel /\ Fits(p, p.ret[f])

TypeInv == TypeOK /\ \A w \in Worker : Known(proc[w])

-----------------------------------------------------------------------------
(* The building blocks of the handlers keep what a worker knows. *)

LEMMA LabelKinds ==
    /\ ReturnLabel \subseteq Label /\ UserLabel \subseteq Label /\ RequestUserLabel \subseteq Label
    /\ {"delete_group", "update_group_rename", "update_group_modify"} \subseteq Label
  BY DEF ReturnLabel, UserLabel, RequestUserLabel, Label, GroupLabel, AccountLabel, SetupLabel

\* Fits looks at the name, the group and the request only.
LEMMA SameFits ==
    ASSUME NEW p, NEW q, q.user = p.user, q.group = p.group, q.req = p.req,
           NEW label, Fits(p, label)
    PROVE  Fits(q, label)
  BY DEF Fits

LEMMA AnswerKnown ==
    ASSUME NEW p, Known(p), NEW err \in Error
    PROVE  Known(Answer(p, err))
<1> DEFINE q == Answer(p, err)
<1>1. q \in ProcState(Label)
  BY DEF Known, Answer, ProcState, Label
<1>2. /\ q.pc = "reply" /\ q.ret = p.ret
      /\ q.user = p.user /\ q.group = p.group /\ q.req = p.req
  BY DEF Known, Answer, ProcState
<1>3. Fits(q, "reply")
  BY DEF Fits, UserLabel, RequestUserLabel
<1> HIDE DEF q
<1>4. QED
  BY <1>1, <1>2, <1>3, SameFits DEF Known, q

LEMMA ReturnKnown ==
    ASSUME NEW p, Known(p), NEW f \in Function, NEW err \in Error
    PROVE  Known(Return(p, f, err))
<1> DEFINE q == Return(p, f, err)
<1>1. q \in ProcState(Label)
  BY LabelKinds DEF Known, Return, ProcState
<1>2. /\ q.pc = p.ret[f] /\ q.ret = p.ret
      /\ q.user = p.user /\ q.group = p.group /\ q.req = p.req
  BY DEF Known, Return, ProcState
<1> HIDE DEF q
<1>3. QED
  BY <1>1, <1>2, SameFits DEF Known, q

LEMMA GotoKnown ==
    ASSUME NEW p, Known(p), NEW label \in Label, Fits(p, label)
    PROVE  Known(Goto(p, label))
<1> DEFINE q == Goto(p, label)
<1>1. q \in ProcState(Label)
  BY DEF Known, Goto, ProcState, Error
<1>2. /\ q.pc = label /\ q.ret = p.ret
      /\ q.user = p.user /\ q.group = p.group /\ q.req = p.req
  BY DEF Known, Goto, ProcState
<1> HIDE DEF q
<1>3. QED
  BY <1>1, <1>2, SameFits DEF Known, q

LEMMA GetHighestIDKnown ==
    ASSUME NEW p, Known(p), NEW kind \in IDKind, NEW back \in ReturnLabel, Fits(p, back)
    PROVE  Known(GetHighestID(p, kind, back))
<1> DEFINE q == GetHighestID(p, kind, back)
<1>0. back \in Label /\ "highest_cached" \in Label
  BY LabelKinds DEF Label, GroupLabel
<1>1. q \in ProcState(Label)
  BY <1>0 DEF Known, GetHighestID, ProcState, Function
<1>2. /\ q.pc = "highest_cached"
      /\ \A f \in Function : q.ret[f] = IF f = "getHighestID" THEN back ELSE p.ret[f]
      /\ q.user = p.user /\ q.group = p.group /\ q.req = p.req
  BY DEF Known, GetHighestID, ProcState
<1>3. Fits(q, "highest_cached")
  BY DEF Fits, UserLabel, RequestUserLabel
<1> HIDE DEF q
<1>4. QED
  BY <1>1, <1>2, <1>3, SameFits DEF Known, q


LEMMA NewGroupKnown ==
    ASSUME NEW p, Known(p), NEW g \in Group, NEW S \in SUBSET User, NEW back \in ReturnLabel,
           Fits(p, back)
    PROVE  Known(NewGroup(p, g, S, back))
<1> DEFINE q == NewGroup(p, g, S, back)
<1>0. back \in Label /\ "new_group_find" \in Label
  BY LabelKinds DEF Label, GroupLabel
<1>1. q \in ProcState(Label)
  BY <1>0 DEF Known, NewGroup, ProcState, Function
<1>2. /\ q.pc = "new_group_find"
      /\ \A f \in Function : q.ret[f] = IF f = "NewGroup" THEN back ELSE p.ret[f]
      /\ q.user = p.user /\ q.group = p.group /\ q.req = p.req
  BY DEF Known, NewGroup, ProcState
<1>3. Fits(q, "new_group_find")
  BY DEF Fits, UserLabel, RequestUserLabel
<1> HIDE DEF q
<1>4. QED
  BY <1>1, <1>2, <1>3, SameFits DEF Known, q

LEMMA AddGroupMemberKnown ==
    ASSUME NEW p, Known(p), NEW g \in Group \cup {NoName}, NEW u \in User, NEW b \in BOOLEAN,
           NEW back \in {"reply", "new_account_joined"}
    PROVE  Known(AddGroupMember(p, g, u, b, back))
<1> DEFINE q == AddGroupMember(p, g, u, b, back)
<1>0. back \in Label /\ back \in ReturnLabel /\ {"add_member", "add_member_check"} \subseteq Label
  BY DEF Label, GroupLabel, ReturnLabel, AccountLabel
<1>1. q \in ProcState(Label)
  BY <1>0 DEF Known, AddGroupMember, ProcState, Function
<1>2. /\ q.pc \in {"add_member", "add_member_check"}
      /\ \A f \in Function : q.ret[f] = IF f = "AddGroupMember" THEN back ELSE p.ret[f]
      /\ q.user = u /\ q.req = p.req
  BY DEF Known, AddGroupMember, ProcState
<1> HIDE DEF q
<1>3. Fits(q, q.pc) /\ Fits(q, back)
  BY <1>2 DEF Fits, UserLabel, RequestUserLabel
<1>4. ASSUME NEW f \in Function PROVE Fits(q, p.ret[f])
  BY <1>2 DEF Fits, UserLabel, RequestUserLabel, Known, ReturnLabel
<1>5. QED
  BY <1>0, <1>1, <1>2, <1>3, <1>4 DEF Known, q

LEMMA NewAccountKnown ==
    ASSUME NEW p, Known(p), NEW u \in User,
           NEW back \in {"reply", "setup_admin_made", "setup_admin_forced"}
    PROVE  Known(NewAccount(p, u, back))
<1> DEFINE q == NewAccount(p, u, back)
<1>0. back \in Label /\ back \in ReturnLabel /\ "new_account_find" \in Label
  BY DEF Label, SetupLabel, AccountLabel, ReturnLabel
<1>1. q \in ProcState(Label)
  BY <1>0 DEF Known, NewAccount, ProcState, Function
<1>2. /\ q.pc = "new_account_find"
      /\ \A f \in Function : q.ret[f] = IF f = "NewAccount" THEN back ELSE p.ret[f]
      /\ q.user = u /\ q.group = p.group /\ q.req = p.req
  BY DEF Known, NewAccount, ProcState
<1> HIDE DEF q
<1>3. Fits(q, q.pc) /\ Fits(q, back)
  BY <1>2 DEF Fits, UserLabel, RequestUserLabel
<1>4. ASSUME NEW f \in Function PROVE Fits(q, p.ret[f])
  BY <1>2 DEF Fits, UserLabel, RequestUserLabel, Known, ReturnLabel
<1>5. QED
  BY <1>0, <1>1, <1>2, <1>3, <1>4 DEF Known, q

\* Assignments to locals.
LEMMA LocalKnown ==
    ASSUME NEW p, Known(p)
    PROVE  /\ \A i \in Nat : /\ Known([p EXCEPT !.high = i])
                             /\ Known([p EXCEPT !.newGID = i])
                             /\ Known([p EXCEPT !.uid = i])
           /\ \A S \in SUBSET Group : Known([p EXCEPT !.todo = S])
           /\ \A g \in Group : Known([p EXCEPT !.group = g])
           /\ \A u \in User : Known([p EXCEPT !.user = u])
           /\ \A g \in Group, i \in Nat : Known([p EXCEPT !.group = g, !.gid = i])
<1> DEFINE Same(q) == /\ q \in ProcState(Label)
                      /\ q.pc = p.pc /\ q.ret = p.ret /\ q.req = p.req
                      /\ q.user = p.user \/ q.user \in User
                      /\ q.group = p.group \/ q.group \in Group
<1>1. ASSUME NEW q, Same(q) PROVE Known(q)
  BY <1>1 DEF Known, Fits
<1>2. /\ \A i \in Nat : /\ Same([p EXCEPT !.high = i])
                        /\ Same([p EXCEPT !.newGID = i])
                        /\ Same([p EXCEPT !.uid = i])
      /\ \A S \in SUBSET Group : Same([p EXCEPT !.todo = S])
      /\ \A g \in Group : Same([p EXCEPT !.group = g])
      /\ \A u \in User : Same([p EXCEPT !.user = u])
      /\ \A g \in Group, i \in Nat : Same([p EXCEPT !.group = g, !.gid = i])
  BY DEF Known, ProcState
<1> HIDE DEF Same
<1>3. QED
  BY <1>1, <1>2

LEMMA SetupLastIDKnown ==
    ASSUME NEW p, Known(p), NEW kind \in IDKind, NEW back \in ReturnLabel, Fits(p, back)
    PROVE  Known(SetupLastID(p, kind, back))
<1> DEFINE q == [p EXCEPT !.ret["setupLastID"] = back]
<1>1. q \in ProcState(Label)
  BY LabelKinds DEF Known, ProcState, Function
<1>2. /\ q.pc = p.pc
      /\ \A f \in Function : q.ret[f] = IF f = "setupLastID" THEN back ELSE p.ret[f]
      /\ q.user = p.user /\ q.group = p.group /\ q.req = p.req
  BY DEF Known, ProcState
<1> HIDE DEF q
<1>3. Known(q)
  BY <1>1, <1>2, SameFits DEF Known
<1>4. Fits(q, "last_id_add") /\ "last_id_add" \in ReturnLabel
  BY DEF Fits, UserLabel, RequestUserLabel, ReturnLabel
<1>5. QED
  BY <1>3, <1>4, GetHighestIDKnown DEF SetupLastID, q

LEMMA ChooseGroupKnown ==
    ASSUME NEW p, Known(p), p.user \in User
    PROVE  Known(ChooseGroup(p))
<1>1. /\ "account_by_gid" \in Label /\ Fits(p, "account_by_gid")
      /\ "account_group" \in Label /\ Fits(p, "account_group")
  BY DEF Label, AccountLabel, Fits, RequestUserLabel
<1>2. QED
  BY <1>1, GotoKnown DEF ChooseGroup

LEMMA ChooseUIDKnown ==
    ASSUME NEW p, Known(p), p.user \in User
    PROVE  Known(ChooseUID(p))
<1>1. CASE p.req.uid >= MinID
  <2>1. p.req.uid \in Nat
    BY DEF Known, ProcState, Request
  <2>2. Known([p EXCEPT !.uid = p.req.uid]) /\ [p EXCEPT !.uid = p.req.uid].user \in User
    BY <2>1, LocalKnown DEF Known, ProcState
  <2>3. QED
    BY <1>1, <2>2, ChooseGroupKnown DEF ChooseUID
<1>2. CASE ~(p.req.uid >= MinID)
  <2>1. Fits(p, "new_account_uid") /\ "new_account_uid" \in ReturnLabel /\ "UID" \in IDKind
    BY DEF Fits, RequestUserLabel, ReturnLabel, IDKind
  <2>2. QED
    BY <1>2, <2>1, GetHighestIDKnown DEF ChooseUID
<1>3. QED
  BY <1>1, <1>2

-----------------------------------------------------------------------------
(* Every round trip leaves a well-typed directory and a worker that knows  *)
(* what its next label needs.                                              *)

LEMMA DirectoryTyping ==
    ASSUME DirectoryTypeOK
    PROVE  /\ \A ou \in {"users", "groups"} : AddOU(ou) => DirectoryTypeOK'
           /\ \A k \in IDKind, i \in Nat :
                 AddDevice(k, i) \/ ReplaceSerial(k, i) => DirectoryTypeOK'
           /\ \A u \in User, e \in AccountEntry :
                 AddAccount(u, e) \/ ModifyAccount(u, e) => DirectoryTypeOK'
           /\ \A g : \A e \in GroupEntry :
                 AddGroup(g, e) \/ ModifyGroup(g, e) => DirectoryTypeOK'
           /\ \A u, v \in User : RenameAccount(u, v) => DirectoryTypeOK'
           /\ \A u \in User : DelAccount(u) => DirectoryTypeOK'
           /\ \A g, h \in Group : RenameGroup(g, h) => DirectoryTypeOK'
           /\ \A g \in Group : DelGroup(g) => DirectoryTypeOK'
           /\ \A g, u : u \in User /\ AddValue(g, u) => DirectoryTypeOK'
           /\ \A g, u : DeleteValue(g, u) => DirectoryTypeOK'
<1> USE DEF DirectoryTypeOK
<1>1. ASSUME NEW ou \in {"users", "groups"}, AddOU(ou) PROVE DirectoryTypeOK'
  BY <1>1 DEF AddOU
<1>2. ASSUME NEW k \in IDKind, NEW i \in Nat, AddDevice(k, i) \/ ReplaceSerial(k, i)
      PROVE  DirectoryTypeOK'
  BY <1>2 DEF AddDevice, ReplaceSerial
<1>3. ASSUME NEW u \in User, NEW e \in AccountEntry, AddAccount(u, e) \/ ModifyAccount(u, e)
      PROVE  DirectoryTypeOK'
  BY <1>3 DEF AddAccount, ModifyAccount
<1>4. ASSUME NEW g, NEW e \in GroupEntry, AddGroup(g, e) \/ ModifyGroup(g, e)
      PROVE  DirectoryTypeOK'
  BY <1>4 DEF AddGroup, ModifyGroup
<1>5. ASSUME NEW u \in User, NEW v \in User, RenameAccount(u, v) PROVE DirectoryTypeOK'
  <2>1. account' \in [User -> AccountEntry]
    BY <1>5 DEF RenameAccount, NoAccount, AccountEntry
  <2>2. group' \in [Group -> GroupEntry]
    BY <1>5 DEF RenameAccount, GroupEntry
  <2>3. QED
    BY <1>5, <2>1, <2>2 DEF RenameAccount
<1>6. ASSUME NEW u \in User, DelAccount(u) PROVE DirectoryTypeOK'
  <2>1. account' \in [User -> AccountEntry]
    BY <1>6 DEF DelAccount, NoAccount, AccountEntry
  <2>2. group' \in [Group -> GroupEntry]
    BY <1>6 DEF DelAccount, GroupEntry
  <2>3. account[u].uid \in Nat
    BY DEF AccountEntry
  <2>4. QED
    BY <1>6, <2>1, <2>2, <2>3 DEF DelAccount, IDKind
<1>7. ASSUME NEW g \in Group, NEW h \in Group, RenameGroup(g, h) PROVE DirectoryTypeOK'
  BY <1>7 DEF RenameGroup, NoGroup, GroupEntry
<1>8. ASSUME NEW g \in Group, DelGroup(g) PROVE DirectoryTypeOK'
  BY <1>8 DEF DelGroup, NoGroup, GroupEntry, IDKind
<1>9. ASSUME NEW g, NEW u \in User, AddValue(g, u) PROVE DirectoryTypeOK'
  BY <1>9 DEF AddValue, GroupEntry
<1>10. ASSUME NEW g, NEW u, DeleteValue(g, u) PROVE DirectoryTypeOK'
  BY <1>10 DEF DeleteValue, GroupEntry
<1>11. QED
  BY <1>1, <1>2, <1>3, <1>4, <1>5, <1>6, <1>7, <1>8, <1>9, <1>10

\* What is shown of every step of worker w.
KnownStep(w) == DirectoryTypeOK' /\ \E p : Known(p) /\ Become(w, p)

\* Steps without a write.
LEMMA DirectoryKept ==
    ASSUME DirectoryTypeOK, UNCHANGED directory
    PROVE  DirectoryTypeOK'
  BY DEF DirectoryTypeOK, directory

\* The steps of groups.go, group_members.go and utils.go.
LEMMA GroupStepKnown ==
    ASSUME DirectoryTypeOK, NEW w \in Worker, Known(proc[w]), GroupStep(w)
    PROVE  KnownStep(w)
<1> DEFINE p == proc[w]
<1>0. /\ p.pc \in Label /\ p.err \in Error /\ p.kind \in IDKind /\ p.high \in Nat
      /\ p.newGID \in Nat /\ p.members \in SUBSET User /\ p.high + 1 \in Nat
      /\ p.req \in Request /\ MinID \in Nat /\ p.user \in User \cup {NoName}
      /\ p.name \in Group \cup {NoName}
      /\ \A f \in Function : p.ret[f] \in ReturnLabel
      /\ Fits(p, p.pc)
  BY DirectoryAssumption DEF Known, ProcState
<1>1. CASE HighestCached(w)
  <2>1. lastID[p.kind] \in Nat
    BY <1>0 DEF DirectoryTypeOK
  <2>2. Known([p EXCEPT !.high = lastID[p.kind]])
    BY <2>1, LocalKnown
  <2>3. "getHighestID" \in Function /\ "ok" \in Error /\ "highest_scan" \in Label
        /\ Fits(p, "highest_scan")
    BY DEF Function, Error, Label, GroupLabel, Fits, UserLabel, RequestUserLabel
  <2>4. QED
    BY <1>1, <2>2, <2>3, ReturnKnown, GotoKnown, DirectoryKept DEF HighestCached, KnownStep
<1>2. CASE HighestScan(w)
  <2>1. "getHighestID" \in Function /\ "ok" \in Error /\ "NoSuchObject" \in Error
    BY DEF Function, Error
  <2>2. IDsInUse(p.kind) \cup {MinID} \subseteq Nat
    BY <1>0 DEF IDsInUse, DirectoryTypeOK, AccountEntry, GroupEntry
  <2>3. \A h \in IDsInUse(p.kind) \cup {MinID} : Known([p EXCEPT !.high = h])
    BY <2>2, LocalKnown
  <2>4. QED
    BY <1>2, <2>1, <2>3, ReturnKnown, DirectoryKept DEF HighestScan, KnownStep
<1>3. CASE NewGroupFind(w)
  <2>1. "NewGroup" \in Function /\ {"NoSuchObject", "GroupExists"} \subseteq Error
        /\ "new_group_add" \in ReturnLabel /\ "GID" \in IDKind
    BY DEF Function, Error, ReturnLabel, IDKind
  <2>2. Fits(p, "new_group_add")
    BY DEF Fits, UserLabel, RequestUserLabel
  <2>3. QED
    BY <1>3, <2>1, <2>2, ReturnKnown, GetHighestIDKnown, DirectoryKept
    DEF NewGroupFind, KnownStep
<1>4. CASE NewGroupRefused(w)
  <2>1. "NewGroup" \in Function /\ "Validation" \in Error
    BY DEF Function, Error
  <2>2. QED
    BY <1>0, <1>4, <2>1, ReturnKnown, DirectoryKept DEF NewGroupRefused, KnownStep
<1>5. CASE NewGroupAdd(w)
  <2>1. "NewGroup" \in Function /\ AddGroupCode(p.name) \in Error
        /\ "new_group_last" \in Label /\ Fits([p EXCEPT !.newGID = p.high + 1], "new_group_last")
    BY DEF Function, Error, AddGroupCode, Label, GroupLabel, Fits, UserLabel, RequestUserLabel
  <2>2. Known([p EXCEPT !.newGID = p.high + 1])
    BY <1>0, LocalKnown
  <2>3. [gid |-> p.high + 1, members |-> p.members] \in GroupEntry
    BY <1>0 DEF GroupEntry
  <2>4. DirectoryTypeOK'
    BY <1>5, <2>3, DirectoryTyping DEF NewGroupAdd
  <2>5. QED
    BY <1>5, <2>1, <2>2, <2>4, ReturnKnown, GotoKnown DEF NewGroupAdd, KnownStep
<1>6. CASE NewGroupLast(w)
  <2>1. "NewGroup" \in Function /\ {"ok", "Failed"} \subseteq Error /\ "GID" \in IDKind
    BY DEF Function, Error, IDKind
  <2>2. DirectoryTypeOK'
    BY <1>0, <1>6, <2>1, DirectoryTyping DEF NewGroupLast
  <2>3. QED
    BY <1>6, <2>1, <2>2, ReturnKnown DEF NewGroupLast, KnownStep
<1>7. CASE DeleteGroupEntry(w)
  <2>1. {"ok", "NoGroup"} \subseteq Error /\ p.req.group \in Group
    BY <1>0, <1>7 DEF Error, DeleteGroupEntry, At, Fits
  <2>2. DirectoryTypeOK'
    BY <1>7, <2>1, DirectoryTyping DEF DeleteGroupEntry
  <2>3. QED
    BY <1>7, <2>1, <2>2, AnswerKnown DEF DeleteGroupEntry, KnownStep
<1>8. CASE UpdateGroupRename(w)
  <2>1. p.req.group \in Group /\ p.req.to \in Group
        /\ RenameGroupCode(p.req.group, p.req.to) \in Error
    BY <1>0, <1>8 DEF Error, UpdateGroupRename, At, Fits, RenameGroupCode
  <2>2. DirectoryTypeOK'
    BY <1>8, <2>1, DirectoryTyping DEF UpdateGroupRename
  <2> DEFINE q == [p EXCEPT !.group = p.req.to]
  <2>3. Known(q) /\ q.group = p.req.to
    BY <2>1, LocalKnown DEF Known, ProcState
  <2>4. "update_group_modify" \in Label /\ Fits(q, "update_group_modify")
    BY <2>1, <2>3 DEF Label, GroupLabel, Fits, UserLabel, RequestUserLabel
  <2>5. QED
    BY <1>8, <2>1, <2>2, <2>3, <2>4, AnswerKnown, GotoKnown DEF UpdateGroupRename, KnownStep
<1>9. CASE UpdateGroupModify(w)
  <2>1. {"ok", "Failed"} \subseteq Error /\ p.group \in Group /\ p.req.gid \in Nat
    BY <1>0, <1>9 DEF Error, UpdateGroupModify, At, Fits, Request
  <2>2. group[p.group] \in GroupEntry /\ [group[p.group] EXCEPT !.gid = p.req.gid] \in GroupEntry
    BY <2>1 DEF DirectoryTypeOK, GroupEntry
  <2>3. DirectoryTypeOK'
    BY <1>9, <2>2, DirectoryTyping DEF UpdateGroupModify
  <2>4. QED
    BY <1>9, <2>1, <2>3, AnswerKnown DEF UpdateGroupModify, KnownStep
<1>10. CASE AddMemberCheck(w)
  <2>1. "AddGroupMember" \in Function /\ {"Failed", "NoAccount"} \subseteq Error
        /\ "add_member" \in Label
    BY DEF Function, Error, Label, GroupLabel
  <2>2. Fits(p, "add_member")
    BY <1>0, <1>10 DEF AddMemberCheck, At, Fits, UserLabel, RequestUserLabel
  <2>3. QED
    BY <1>10, <2>1, <2>2, ReturnKnown, GotoKnown, DirectoryKept DEF AddMemberCheck, KnownStep
<1>11. CASE AddMember(w)
  <2>1. "AddGroupMember" \in Function /\ AddMemberError(p.group, p.user) \in Error
    BY DEF Function, Error, AddMemberError
  <2>2. p.user \in User
    BY <1>0, <1>11 DEF AddMember, At, Fits, UserLabel
  <2>3. DirectoryTypeOK'
    BY <1>11, <2>2, DirectoryTyping DEF AddMember
  <2>4. QED
    BY <1>11, <2>1, <2>3, ReturnKnown DEF AddMember, KnownStep
<1>12. CASE DeleteMember(w)
  <2>1. DeleteMemberError(p.req.group, p.req.user) \in Error
    BY DEF Error, DeleteMemberError
  <2>2. DirectoryTypeOK'
    BY <1>12, DirectoryTyping DEF DeleteMember
  <2>3. QED
    BY <1>12, <2>1, <2>2, AnswerKnown DEF DeleteMember, KnownStep
<1>13. QED
  BY <1>1, <1>2, <1>3, <1>4, <1>5, <1>6, <1>7, <1>8, <1>9, <1>10, <1>11, <1>12 DEF GroupStep

\* The steps of NewAccount and setupLastID.
LEMMA NewAccountStepKnown ==
    ASSUME DirectoryTypeOK, NEW w \in Worker, Known(proc[w]),
           \/ LastIDFailed(w) \/ LastIDAdd(w)
           \/ NewAccountFind(w) \/ NewAccountNoOU(w)
           \/ NewAccountUID(w) \/ NewAccountRetry(w) \/ NewAccountUIDAgain(w)
           \/ AccountByGID(w)
           \/ AccountGroup(w) \/ AccountGroupMade(w) \/ AccountGroupOwn(w) \/ AccountGroupGID(w)
           \/ NewAccountAdd(w) \/ NewAccountNotJoined(w) \/ NewAccountLast(w)
    PROVE  KnownStep(w)
<1> DEFINE p == proc[w]
<1>0. /\ p.pc \in Label /\ p.err \in Error /\ p.kind \in IDKind /\ p.high \in Nat
      /\ p.uid \in Nat /\ p.gid \in Nat /\ p.high + 1 \in Nat
      /\ p.user \in User \cup {NoName} /\ p.group \in Group \cup {NoName}
      /\ Fits(p, p.pc)
  BY DEF Known, ProcState
<1>1. {"setupLastID", "NewAccount"} \subseteq Function /\ IDKind = {"UID", "GID"}
      /\ {"ok", "Failed", "NoSuchObject", "EntryExists", "AccountExists"} \subseteq Error
  BY DEF Function, Error, IDKind
<1>2. \A g \in Group : GroupExists(g) => group[g].gid \in Nat
  BY DEF DirectoryTypeOK, GroupEntry
<1>3. UsersGroup \in Group /\ User \subseteq Group
  BY DirectoryAssumption
<1>4. CASE LastIDFailed(w)
  BY <1>0, <1>1, <1>4, ReturnKnown, DirectoryKept DEF LastIDFailed, KnownStep
<1>5. CASE LastIDAdd(w)
  <2>1. DirectoryTypeOK'
    BY <1>0, <1>5, DirectoryTyping DEF LastIDAdd
  <2>2. AddDeviceCode(p.kind) \in Error
    BY <1>1 DEF AddDeviceCode
  <2>3. QED
    BY <1>1, <1>5, <2>1, <2>2, ReturnKnown DEF LastIDAdd, KnownStep
<1>6. ASSUME p.pc \in {"new_account_find", "new_account_no_ou", "new_account_uid",
                       "new_account_retry", "new_account_uid_again", "account_group",
                       "account_group_made", "account_group_own", "account_group_gid",
                       "new_account_add", "new_account_joined"}
      PROVE  p.user \in User
  BY <1>0, <1>6 DEF Fits, UserLabel
<1>7. ASSUME p.user \in User
      PROVE  /\ \A l \in ReturnLabel : Fits(p, l)
             /\ \A g \in Group : Known(NewGroup(p, g, {p.user}, "new_account_no_ou"))
             /\ \A g \in Group : Known(NewGroup(p, g, {p.user}, "account_group_made"))
             /\ \A g \in Group : Known(NewGroup(p, g, {p.user}, "account_group_own"))
             /\ Known([p EXCEPT !.uid = p.high + 1])
             /\ [p EXCEPT !.uid = p.high + 1].user = p.user
  <2>1. \A l \in ReturnLabel : Fits(p, l)
    BY <1>7 DEF ReturnLabel, Fits, RequestUserLabel
  <2>2. {"new_account_no_ou", "account_group_made", "account_group_own"} \subseteq ReturnLabel
    BY DEF ReturnLabel
  <2>3. Known([p EXCEPT !.uid = p.high + 1]) /\ [p EXCEPT !.uid = p.high + 1].user = p.user
    BY <1>0, LocalKnown DEF Known, ProcState
  <2>4. QED
    BY <1>7, <2>1, <2>2, <2>3, NewGroupKnown
<1>8. CASE NewAccountFind(w)
  <2>1. p.user \in User
    BY <1>6, <1>8 DEF NewAccountFind, At
  <2>2. QED
    BY <1>1, <1>3, <1>7, <1>8, <2>1, ReturnKnown, ChooseUIDKnown, DirectoryKept
    DEF NewAccountFind, KnownStep
<1>9. CASE NewAccountNoOU(w)
  <2>1. p.user \in User
    BY <1>6, <1>9 DEF NewAccountNoOU, At
  <2>2. QED
    BY <1>1, <1>9, <2>1, ReturnKnown, ChooseUIDKnown, DirectoryKept DEF NewAccountNoOU, KnownStep
<1>10. CASE NewAccountUID(w)
  <2>1. p.user \in User
    BY <1>6, <1>10 DEF NewAccountUID, At
  <2>2. "new_account_retry" \in ReturnLabel
    BY DEF ReturnLabel
  <2>3. QED
    BY <1>1, <1>7, <1>10, <2>1, <2>2, ChooseGroupKnown, SetupLastIDKnown, DirectoryKept
    DEF NewAccountUID, KnownStep
<1>11. CASE NewAccountRetry(w)
  <2>1. p.user \in User
    BY <1>6, <1>11 DEF NewAccountRetry, At
  <2>2. "new_account_uid_again" \in ReturnLabel
    BY DEF ReturnLabel
  <2>3. QED
    BY <1>1, <1>7, <1>11, <2>1, <2>2, GetHighestIDKnown, DirectoryKept
    DEF NewAccountRetry, KnownStep
<1>12. CASE NewAccountUIDAgain(w)
  <2>1. p.user \in User
    BY <1>6, <1>12 DEF NewAccountUIDAgain, At
  <2>2. QED
    BY <1>1, <1>7, <1>12, <2>1, ReturnKnown, ChooseGroupKnown, DirectoryKept
    DEF NewAccountUIDAgain, KnownStep
<1>13. CASE AccountByGID(w)
  BY <1>1, <1>13, ReturnKnown, DirectoryKept DEF AccountByGID, KnownStep
<1>14. ASSUME NEW g \in Group, GroupFound(g), p.user \in User
       PROVE  Known(UseGroup(p, g))
  <2> DEFINE q == [p EXCEPT !.group = g, !.gid = group[g].gid]
  <2>1. Known(q) /\ q.user = p.user
    BY <1>2, <1>14, LocalKnown DEF GroupFound, Known, ProcState
  <2>2. "new_account_add" \in Label /\ Fits(q, "new_account_add")
    BY <1>14, <2>1 DEF Label, AccountLabel, Fits, RequestUserLabel
  <2>3. QED
    BY <2>1, <2>2, GotoKnown DEF UseGroup
<1>15. CASE AccountGroup(w)
  <2>1. p.user \in User
    BY <1>6, <1>15 DEF AccountGroup, At
  <2>2. QED
    BY <1>3, <1>7, <1>14, <1>15, <2>1, DirectoryKept DEF AccountGroup, KnownStep
<1>16. ASSUME NEW g \in Group, p.user \in User
       PROVE  Known(Goto([p EXCEPT !.group = g], "account_group_gid"))
  <2> DEFINE q == [p EXCEPT !.group = g]
  <2>1. Known(q) /\ q.user = p.user /\ q.group = g
    BY LocalKnown DEF Known, ProcState
  <2>2. "account_group_gid" \in Label /\ Fits(q, "account_group_gid")
    BY <1>16, <2>1 DEF Label, AccountLabel, Fits, RequestUserLabel
  <2>3. QED
    BY <2>1, <2>2, GotoKnown
<1>17. CASE AccountGroupMade(w)
  <2>1. p.user \in User
    BY <1>6, <1>17 DEF AccountGroupMade, At
  <2>2. QED
    BY <1>3, <1>7, <1>16, <1>17, <2>1, DirectoryKept DEF AccountGroupMade, KnownStep
<1>18. CASE AccountGroupOwn(w)
  <2>1. p.user \in User
    BY <1>6, <1>18 DEF AccountGroupOwn, At
  <2>2. QED
    BY <1>1, <1>3, <1>16, <1>18, <2>1, ReturnKnown, DirectoryKept DEF AccountGroupOwn, KnownStep
<1>19. CASE AccountGroupGID(w)
  <2>1. p.user \in User /\ p.group \in Group
    BY <1>0, <1>6, <1>19 DEF AccountGroupGID, At, Fits
  <2>2. QED
    BY <1>1, <1>14, <1>19, <2>1, ReturnKnown, DirectoryKept DEF AccountGroupGID, KnownStep
<1>20. CASE NewAccountAdd(w)
  <2>1. p.user \in User
    BY <1>6, <1>20 DEF NewAccountAdd, At
  <2>2. [uid |-> p.uid, gid |-> p.gid] \in AccountEntry
    BY <1>0 DEF AccountEntry
  <2>3. DirectoryTypeOK'
    BY <1>20, <2>1, <2>2, DirectoryTyping DEF NewAccountAdd
  <2>4. Known(AddGroupMember(p, p.group, p.user, FALSE, "new_account_joined"))
    BY <1>0, <2>1, AddGroupMemberKnown
  <2>5. QED
    BY <1>1, <1>20, <2>3, <2>4, ReturnKnown DEF NewAccountAdd, KnownStep
<1>21. CASE NewAccountNotJoined(w)
  BY <1>1, <1>21, ReturnKnown, DirectoryKept DEF NewAccountNotJoined, KnownStep
<1>22. CASE NewAccountLast(w)
  <2>1. DirectoryTypeOK'
    BY <1>0, <1>1, <1>22, DirectoryTyping DEF NewAccountLast
  <2>2. QED
    BY <1>1, <1>22, <2>1, ReturnKnown DEF NewAccountLast, KnownStep
<1>23. QED
  BY <1>4, <1>5, <1>8, <1>9, <1>10, <1>11, <1>12, <1>13, <1>15, <1>17, <1>18, <1>19, <1>20,
     <1>21, <1>22

\* The steps of UpdateAccount and DeleteAccount.
LEMMA ChangeAccountStepKnown ==
    ASSUME DirectoryTypeOK, NEW w \in Worker, Known(proc[w]),
           \/ UpdateFind(w) \/ UpdateTaken(w) \/ UpdateRename(w) \/ UpdateGroups(w)
           \/ UpdateLeave(w) \/ UpdateJoin(w) \/ UpdateModify(w)
           \/ DeleteGroups(w) \/ DeleteLeave(w) \/ DeleteEntry(w)
    PROVE  KnownStep(w)
<1> DEFINE p == proc[w]
<1>0. /\ p.pc \in Label /\ p.err \in Error /\ p.req \in Request
      /\ p.user \in User \cup {NoName} /\ p.group \in Group \cup {NoName}
      /\ p.todo \in SUBSET Group
      /\ Fits(p, p.pc)
  BY DEF Known, ProcState
<1>1. {"ok", "Failed", "NoAccount", "AccountExists"} \subseteq Error
  BY DEF Error
<1>2. /\ \A g, u : DeleteMemberError(g, u) \in Error /\ AddMemberError(g, u) \in Error
      /\ \A u, v : RenameAccountCode(u, v) \in Error
      /\ \A u : DelAccountCode(u) \in Error
  BY DEF DeleteMemberError, AddMemberError, RenameAccountCode, DelAccountCode, Error
<1> DEFINE Updating == {"update_taken", "update_rename", "update_groups", "update_leave",
                        "update_join", "update_modify"}
           Deleting == {"delete_groups", "delete_leave", "delete_entry"}
<1>3. Updating \subseteq Label /\ Deleting \subseteq Label
  BY DEF Label, AccountLabel
<1>4. p.pc \in Updating => p.user \in User
  BY <1>0 DEF Fits, UserLabel
<1>5. p.pc \in Deleting \cup {"update_find", "update_taken", "update_rename"}
        => p.req.user \in User
  BY <1>0 DEF Fits, RequestUserLabel
<1>6. ASSUME NEW q, Known(q), q.user \in User,
             NEW l \in {"update_groups", "update_leave", "update_join", "update_modify"}
      PROVE  Known(Goto(q, l))
  <2>1. Fits(q, l)
    BY <1>6 DEF Fits, RequestUserLabel
  <2>2. QED
    BY <1>3, <1>6, <2>1, GotoKnown
<1>7. ASSUME NEW q, Known(q), q.req.user \in User, NEW l \in Deleting PROVE Known(Goto(q, l))
  <2>1. Fits(q, l)
    BY <1>7 DEF Fits, UserLabel
  <2>2. QED
    BY <1>3, <1>7, <2>1, GotoKnown
<1>8. /\ \A S \in SUBSET Group :
            LET q == [p EXCEPT !.todo = S]
            IN  Known(q) /\ q.user = p.user /\ q.req = p.req
      /\ \A g \in Group :
            LET q == [p EXCEPT !.group = g]
            IN  Known(q) /\ q.user = p.user /\ q.req = p.req
      /\ \A u \in User :
            LET q == [p EXCEPT !.user = u]
            IN  Known(q) /\ q.user = u /\ q.req = p.req
  <2>1. /\ \A S : [p EXCEPT !.todo = S].user = p.user /\ [p EXCEPT !.todo = S].req = p.req
        /\ \A g : [p EXCEPT !.group = g].user = p.user /\ [p EXCEPT !.group = g].req = p.req
        /\ \A u : [p EXCEPT !.user = u].user = u /\ [p EXCEPT !.user = u].req = p.req
    BY DEF Known, ProcState
  <2>2. QED
    BY <2>1, LocalKnown
<1>9. CASE UpdateFind(w)
  <2>1. p.req.user \in User
    BY <1>5, <1>9 DEF UpdateFind, At
  <2>2. CASE /\ p.req.to \notin {NoName, p.req.user}
             /\ Become(w, Goto([p EXCEPT !.user = p.req.to], "update_taken"))
    <3> DEFINE q == [p EXCEPT !.user = p.req.to]
    <3>1. p.req.to \in User
      BY <1>0, <1>9, <2>2 DEF UpdateFind, At, Fits
    <3>2. Known(q) /\ q.user = p.req.to /\ q.req = p.req
      BY <1>8, <3>1
    <3>3. Fits(q, "update_taken")
      BY <2>1, <3>1, <3>2 DEF Fits
    <3>4. QED
      BY <1>3, <1>9, <2>2, <3>2, <3>3, GotoKnown, DirectoryKept DEF UpdateFind, KnownStep
  <2>3. CASE Become(w, Goto([p EXCEPT !.user = p.req.user], "update_modify"))
    BY <1>6, <1>8, <1>9, <2>1, <2>3, DirectoryKept DEF UpdateFind, KnownStep
  <2>4. QED
    BY <1>1, <1>9, <2>2, <2>3, AnswerKnown, DirectoryKept DEF UpdateFind, KnownStep
<1>10. CASE UpdateTaken(w)
  <2>1. Fits(p, "update_rename")
    BY <1>4, <1>5, <1>10 DEF UpdateTaken, At, Fits
  <2>2. QED
    BY <1>1, <1>3, <1>10, <2>1, AnswerKnown, GotoKnown, DirectoryKept DEF UpdateTaken, KnownStep
<1>11. CASE UpdateRename(w)
  <2>1. p.user \in User /\ p.req.user \in User
    BY <1>4, <1>5, <1>11 DEF UpdateRename, At
  <2>2. DirectoryTypeOK'
    BY <1>11, <2>1, DirectoryTyping DEF UpdateRename
  <2>3. QED
    BY <1>2, <1>6, <1>11, <2>1, <2>2, AnswerKnown DEF UpdateRename, KnownStep
<1>12. CASE UpdateGroups(w)
  <2>1. p.user \in User
    BY <1>4, <1>12 DEF UpdateGroups, At
  <2>2. GroupsOf(p.user) \in SUBSET Group
    BY DEF GroupsOf
  <2>3. QED
    BY <1>1, <1>6, <1>8, <1>12, <2>1, <2>2, AnswerKnown, DirectoryKept
    DEF UpdateGroups, NextGroup, KnownStep
<1>13. CASE UpdateLeave(w)
  <2>1. p.user \in User
    BY <1>4, <1>13 DEF UpdateLeave, At
  <2>2. DirectoryTypeOK'
    BY <1>13, DirectoryTyping DEF UpdateLeave
  <2>3. QED
    BY <1>0, <1>1, <1>6, <1>8, <1>13, <2>1, <2>2, AnswerKnown DEF UpdateLeave, KnownStep
<1>14. CASE UpdateJoin(w)
  <2>1. p.user \in User
    BY <1>4, <1>14 DEF UpdateJoin, At
  <2>2. DirectoryTypeOK'
    BY <1>14, <2>1, DirectoryTyping DEF UpdateJoin
  <2>3. p.todo \ {p.group} \in SUBSET Group
    BY <1>0
  <2>4. QED
    BY <1>1, <1>6, <1>8, <1>14, <2>1, <2>2, <2>3, AnswerKnown DEF UpdateJoin, NextGroup, KnownStep
<1>15. CASE UpdateModify(w)
  <2>1. p.user \in User /\ p.req.uid \in Nat /\ p.req.gid \in Nat
    BY <1>0, <1>4, <1>15 DEF UpdateModify, At, Request
  <2>2. account[p.user].uid \in Nat /\ account[p.user].gid \in Nat
    BY <2>1 DEF DirectoryTypeOK, AccountEntry
  <2>3. \A i, j \in Nat : [uid |-> i, gid |-> j] \in AccountEntry
    BY DEF AccountEntry
  <2>4. DirectoryTypeOK'
    BY <1>15, <2>1, <2>2, <2>3, DirectoryTyping DEF UpdateModify
  <2>5. QED
    BY <1>1, <1>15, <2>4, AnswerKnown DEF UpdateModify, KnownStep
<1>16. CASE DeleteGroups(w)
  <2>1. p.req.user \in User
    BY <1>5, <1>16 DEF DeleteGroups, At
  <2>2. GroupsOf(p.req.user) \in SUBSET Group
    BY DEF GroupsOf
  <2>3. QED
    BY <1>1, <1>7, <1>8, <1>16, <2>1, <2>2, AnswerKnown, DirectoryKept
    DEF DeleteGroups, NextGroup, KnownStep
<1>17. CASE DeleteLeave(w)
  <2>1. p.req.user \in User
    BY <1>5, <1>17 DEF DeleteLeave, At
  <2>2. DirectoryTypeOK'
    BY <1>17, DirectoryTyping DEF DeleteLeave
  <2>3. \A g : p.todo \ {g} \in SUBSET Group
    BY <1>0
  <2>4. QED
    BY <1>2, <1>7, <1>8, <1>17, <2>1, <2>2, <2>3, AnswerKnown DEF DeleteLeave, NextGroup, KnownStep
<1>18. CASE DeleteEntry(w)
  <2>1. p.req.user \in User
    BY <1>5, <1>18 DEF DeleteEntry, At
  <2>2. DirectoryTypeOK'
    BY <1>18, <2>1, DirectoryTyping DEF DeleteEntry
  <2>3. QED
    BY <1>2, <1>18, <2>2, AnswerKnown DEF DeleteEntry, KnownStep
<1>19. QED
  BY <1>9, <1>10, <1>11, <1>12, <1>13, <1>14, <1>15, <1>16, <1>17, <1>18

\* The steps of SetupLDAP.
LEMMA SetupStepKnown ==
    ASSUME DirectoryTypeOK, NEW w \in Worker, Known(proc[w]), SetupStep(w)
    PROVE  KnownStep(w)
<1> DEFINE p == proc[w]
<1>1. /\ {"ok", "Failed"} \subseteq Error /\ IDKind = {"UID", "GID"}
      /\ {"setup_users_ou", "setup_admins_group"} \subseteq Label
      /\ {"setup_last_gid", "setup_last_uid", "setup_admins_made"} \subseteq ReturnLabel
      /\ AdminsGroup \in Group /\ Admin \in User /\ {Admin} \in SUBSET User
  BY DirectoryAssumption, WorkerAssumption DEF Error, IDKind, Label, SetupLabel, ReturnLabel
<1>2. \A l \in SetupLabel : Fits(p, l)
  BY DEF Fits, SetupLabel, UserLabel, RequestUserLabel
<1>3. {"setup_users_ou", "setup_admins_group", "setup_last_gid", "setup_last_uid",
       "setup_admins_made"} \subseteq SetupLabel
  BY DEF SetupLabel
<1>4. CASE SetupGroupsOU(w)
  <2>1. DirectoryTypeOK'
    BY <1>4, DirectoryTyping DEF SetupGroupsOU
  <2>2. QED
    BY <1>1, <1>2, <1>3, <1>4, <2>1, GotoKnown DEF SetupGroupsOU, KnownStep
<1>5. CASE SetupUsersOU(w)
  <2>1. DirectoryTypeOK'
    BY <1>5, DirectoryTyping DEF SetupUsersOU
  <2>2. QED
    BY <1>1, <1>2, <1>3, <1>5, <2>1, SetupLastIDKnown DEF SetupUsersOU, KnownStep
<1>6. CASE SetupLastGID(w)
  BY <1>1, <1>2, <1>3, <1>6, AnswerKnown, SetupLastIDKnown, DirectoryKept
  DEF SetupLastGID, KnownStep
<1>7. CASE SetupLastUID(w)
  BY <1>1, <1>2, <1>3, <1>7, AnswerKnown, GotoKnown, DirectoryKept DEF SetupLastUID, KnownStep
<1>8. CASE SetupAdminsGroup(w)
  BY <1>1, <1>8, AnswerKnown, NewAccountKnown, DirectoryKept DEF SetupAdminsGroup, KnownStep
<1>9. CASE SetupAdminMade(w)
  BY <1>1, <1>2, <1>3, <1>9, AnswerKnown, NewGroupKnown, DirectoryKept
  DEF SetupAdminMade, KnownStep
<1>10. CASE SetupAdminsMade(w)
  BY <1>1, <1>10, AnswerKnown, DirectoryKept DEF SetupAdminsMade, KnownStep
<1>11. CASE SetupAdminNotForced(w)
  BY <1>1, <1>11, AnswerKnown, DirectoryKept DEF SetupAdminNotForced, KnownStep
<1>12. CASE SetupAdminForced(w)
  <2>1. DirectoryTypeOK'
    BY <1>1, <1>12, DirectoryTyping DEF SetupAdminForced
  <2>2. QED
    BY <1>1, <1>12, <2>1, AnswerKnown DEF SetupAdminForced, KnownStep
<1>13. QED
  BY <1>4, <1>5, <1>6, <1>7, <1>8, <1>9, <1>10, <1>11, <1>12 DEF SetupStep

-----------------------------------------------------------------------------
(* Type correctness of the whole. *)

LEMMA IdleKnown == Known(Idle) /\ \A r \in Request : Known([Idle EXCEPT !.req = r])
<1> DEFINE p(r) == [Idle EXCEPT !.req = r]
<1>1. NoRequest \in Request
  BY DEF NoRequest, Request
<1>2. Idle \in ProcState(Label) /\ \A r \in Request : p(r) \in ProcState(Label)
  BY <1>1 DEF Idle, ProcState, Label, Error, IDKind
<1>3. /\ Idle.pc = "idle" /\ \A f \in Function : Idle.ret[f] = "reply"
      /\ \A r : p(r).pc = "idle" /\ \A f \in Function : p(r).ret[f] = "reply"
  BY DEF Idle
<1>4. \A q : Fits(q, "idle") /\ Fits(q, "reply")
  BY DEF Fits, UserLabel, RequestUserLabel
<1>5. "reply" \in ReturnLabel
  BY DEF ReturnLabel
<1> HIDE DEF p
<1>6. Known(Idle) /\ \A r \in Request : Known(p(r))
  BY <1>2, <1>3, <1>4, <1>5 DEF Known
<1>7. QED
  BY <1>6 DEF p

\* A handler checks its arguments before its first round trip.
LEMMA ServeKnown ==
    ASSUME NEW r \in Requests
    PROVE  Known(Serve(r))
<1> DEFINE p == [Idle EXCEPT !.req = r]
<1>1. r \in Request /\ WellFormed(r)
  BY ManagerAssumption DEF WellFormed
<1>2. /\ r.op \in {"NewGroup", "DeleteGroup", "UpdateGroup", "AddGroupMember",
                   "DeleteGroupMember", "NewAccount", "UpdateAccount", "DeleteAccount"}
      /\ r.user \in User \cup {NoName}
      /\ r.group \in Group \cup {NoName} /\ r.to \in Group \cup {NoName}
      /\ r.members \in SUBSET User
  BY <1>1 DEF Request, WellFormed
<1>3. p.req = r
  BY DEF Idle
<1>4. Known(p)
  BY <1>1, IdleKnown
<1>5. {"ok", "Failed", "Validation"} \subseteq Error
  BY DEF Error
<1>6. {"delete_group", "update_group_rename", "update_group_modify", "delete_member",
       "update_find", "delete_groups"} \subseteq Label
  BY DEF Label, GroupLabel, AccountLabel
<1>7. "reply" \in ReturnLabel /\ Fits(p, "reply")
  BY DEF ReturnLabel, Fits, UserLabel, RequestUserLabel
<1> HIDE DEF p
<1>8. Known(ServeNewGroup(p))
  BY <1>2, <1>3, <1>4, <1>5, <1>7, AnswerKnown, NewGroupKnown DEF ServeNewGroup
<1>9. Known(DeleteGroup(p))
  <2>1. CASE r.group = NoName \/ IsProtectedGroup(r.group)
    BY <1>3, <1>4, <1>5, <2>1, AnswerKnown DEF DeleteGroup
  <2>2. CASE r.group # NoName /\ ~IsProtectedGroup(r.group)
    <3>1. Fits(p, "delete_group")
      BY <1>2, <1>3, <2>2 DEF Fits, UserLabel, RequestUserLabel
    <3>2. QED
      BY <1>3, <1>4, <1>6, <2>2, <3>1, GotoKnown DEF DeleteGroup
  <2>3. QED
    BY <2>1, <2>2
<1>10. ASSUME r.op = "UpdateGroup" PROVE Known(UpdateGroup(p))
  <2>1. CASE r.group = NoName
    BY <1>3, <1>4, <1>5, <2>1, AnswerKnown DEF UpdateGroup
  <2>2. CASE r.group # NoName /\ r.to \notin {NoName, r.group}
    <3>1. NoProtectedRename => ~IsProtectedGroup(r.group)
      BY <1>10, <2>2 DEF NoProtectedRename
    <3>2. Fits(p, "update_group_rename")
      BY <1>2, <1>3, <2>2, <3>1 DEF Fits, UserLabel, RequestUserLabel
    <3>3. QED
      BY <1>3, <1>4, <1>6, <2>2, <3>2, GotoKnown DEF UpdateGroup
  <2>3. CASE r.group # NoName /\ r.to \in {NoName, r.group}
    <3> DEFINE q == [p EXCEPT !.group = r.group]
    <3>1. Known(q) /\ q.group = r.group
      BY <1>2, <1>4, <2>3, LocalKnown DEF Known, ProcState
    <3>2. Fits(q, "update_group_modify")
      BY <1>2, <2>3, <3>1 DEF Fits, UserLabel, RequestUserLabel
    <3>3. QED
      BY <1>3, <1>6, <2>3, <3>1, <3>2, GotoKnown DEF UpdateGroup
  <2>4. QED
    BY <2>1, <2>2, <2>3
<1>11. Known(ServeAddGroupMember(p))
  BY <1>2, <1>3, <1>4, <1>5, AnswerKnown, AddGroupMemberKnown DEF ServeAddGroupMember
<1>12. Known(DeleteGroupMember(p))
  <2>1. Fits(p, "delete_member")
    BY DEF Fits, UserLabel, RequestUserLabel
  <2>2. QED
    BY <1>4, <1>5, <1>6, <2>1, AnswerKnown, GotoKnown DEF DeleteGroupMember
<1>13. ASSUME r.op = "NewAccount" PROVE Known(NewAccount(p, r.user, "reply"))
  BY <1>1, <1>4, <1>13, NewAccountKnown DEF WellFormed
<1>14. ASSUME r.op = "UpdateAccount" PROVE Known(Goto(p, "update_find"))
  <2>1. Fits(p, "update_find")
    BY <1>1, <1>3, <1>14 DEF Fits, UserLabel, WellFormed
  <2>2. QED
    BY <1>4, <1>6, <2>1, GotoKnown
<1>15. Known(DeleteAccount(p))
  <2>1. r.user # NoName => Fits(p, "delete_groups")
    BY <1>2, <1>3 DEF Fits, UserLabel
  <2>2. QED
    BY <1>3, <1>4, <1>5, <1>6, <2>1, AnswerKnown, GotoKnown DEF DeleteAccount
<1>16. QED
  BY <1>2, <1>8, <1>9, <1>10, <1>11, <1>12, <1>13, <1>14, <1>15 DEF Serve, p

LEMMA StepKnown ==
    ASSUME DirectoryTypeOK, NEW w \in Worker, Known(proc[w]), Step(w)
    PROVE  KnownStep(w)
  BY GroupStepKnown, NewAccountStepKnown, ChangeAccountStepKnown, SetupStepKnown
  DEF Step, AccountStep

LEMMA TypeInvInit == Init => TypeInv
<1> SUFFICES ASSUME Init PROVE TypeInv
  OBVIOUS
<1>1. Known(Idle)
  <2>1. NoRequest \in Request
    BY DEF NoRequest, Request
  <2>2. QED
    BY <2>1, IdleKnown
<1>2. \A w \in Worker : proc[w] = Idle
  BY DEF Init
<1>3. DirectoryTypeOK
  <2>1. Admin \in User /\ MinID + 1 \in Nat /\ MinID + 2 \in Nat
    BY DirectoryAssumption, WorkerAssumption
  <2>2. CASE EmptyDirectory
    BY <2>2
    DEF EmptyDirectory, DirectoryTypeOK, NoAccount, NoGroup, AccountEntry, GroupEntry, IDKind
  <2>3. CASE ReadyDirectory(Admin)
    <3>1. account \in [User -> AccountEntry]
      BY <2>1, <2>3 DEF ReadyDirectory, NoAccount, AccountEntry
    <3>2. group \in [Group -> GroupEntry]
      BY <2>1, <2>3 DEF ReadyDirectory, NoGroup, GroupEntry
    <3>3. QED
      BY <2>1, <2>3, <3>1, <3>2 DEF ReadyDirectory, DirectoryTypeOK, IDKind
  <2>4. QED
    BY <2>2, <2>3 DEF Init
<1>4. mode \in [Replica -> {"down", "starting", "serving", "failed"}]
  BY ManagerAssumption DEF Init
<1>5. proc \in [Worker -> ProcState(Label)] /\ served \in [Worker -> Nat] /\ crashes \in Nat
  BY <1>1 DEF Init, Known
<1>6. QED
  BY <1>1, <1>2, <1>3, <1>4, <1>5 DEF TypeInv, TypeOK

LEMMA TypeInvStep == TypeInv /\ [Next]_vars => TypeInv'
<1> SUFFICES ASSUME TypeInv, [Next]_vars PROVE TypeInv'
  OBVIOUS
<1> USE DEF TypeInv, TypeOK
<1>1. ASSUME NEW w \in Worker, NEW p, Known(p), Become(w, p)
      PROVE  proc' \in [Worker -> ProcState(Label)] /\ \A v \in Worker : Known(proc[v])'
  <2>1. proc' = [proc EXCEPT ![w] = p] /\ p \in ProcState(Label)
    BY <1>1 DEF Become, Known
  <2>2. \A v \in Worker : proc'[v] = IF v = w THEN p ELSE proc[v]
    BY <2>1
  <2>3. \A v \in Worker : Known(proc'[v])
    BY <1>1, <2>2
  <2>4. QED
    BY <2>1, <2>3
<1>2. NoRequest \in Request /\ Known(Idle)
  BY IdleKnown DEF NoRequest, Request
<1>3. CASE UNCHANGED vars
  BY <1>3, DirectoryKept DEF vars
<1>4. ASSUME NEW w \in Worker, Boot(w) PROVE TypeInv'
  <2> DEFINE r == [NoRequest EXCEPT !.op = "SetupLDAP"]
             p == [Idle EXCEPT !.req.op = "SetupLDAP"]
  <2>1. r \in Request /\ p = [Idle EXCEPT !.req = r]
    BY DEF NoRequest, Request, Idle
  <2>2. Known(p)
    BY <2>1, IdleKnown
  <2>3. "setup_groups_ou" \in Label /\ Fits(p, "setup_groups_ou")
    BY DEF Label, SetupLabel, Fits, UserLabel, RequestUserLabel
  <2>4. Known(SetupLDAP(p))
    BY <2>2, <2>3, GotoKnown DEF SetupLDAP
  <2>5. DirectoryTypeOK' /\ mode' \in [Replica -> {"down", "starting", "serving", "failed"}]
    BY <1>4, DirectoryKept DEF Boot
  <2>6. QED
    BY <1>1, <1>4, <2>4, <2>5 DEF Boot
<1>5. ASSUME NEW w \in Worker, Accept(w) PROVE TypeInv'
  <2>1. PICK r \in Requests : Become(w, Serve(r))
    BY <1>5 DEF Accept
  <2>2. served' \in [Worker -> Nat]
    BY <1>5 DEF Accept
  <2>3. QED
    BY <1>1, <1>5, <2>1, <2>2, ServeKnown, DirectoryKept DEF Accept
<1>6. ASSUME NEW w \in Worker, Step(w) PROVE TypeInv'
  <2>1. KnownStep(w)
    BY <1>6, StepKnown
  <2>2. QED
    BY <1>1, <1>6, <2>1 DEF KnownStep, Step
<1>7. ASSUME NEW w \in Worker, Reply(w) PROVE TypeInv'
  <2>1. mode' \in [Replica -> {"down", "starting", "serving", "failed"}]
    BY <1>7 DEF Reply
  <2>2. QED
    BY <1>1, <1>2, <1>7, <2>1, DirectoryKept DEF Reply
<1>8. ASSUME NEW r \in Replica, Crash(r) PROVE TypeInv'
  <2>1. \A v \in Worker : proc'[v] \in {Idle, proc[v]}
    BY <1>8 DEF Crash
  <2>2. \A v \in Worker : Known(proc'[v])
    BY <1>2, <2>1
  <2>3. proc' \in [Worker -> ProcState(Label)]
    BY <1>2, <1>8 DEF Crash, Known
  <2>4. mode' \in [Replica -> {"down", "starting", "serving", "failed"}] /\ crashes' \in Nat
    BY <1>8 DEF Crash
  <2>5. QED
    BY <1>8, <2>2, <2>3, <2>4, DirectoryKept DEF Crash
<1>9. QED
  BY <1>3, <1>4, <1>5, <1>6, <1>7, <1>8 DEF Next

\* Every reachable state is well typed.  In particular no handler gets to a round
\* trip with a name that it should have refused: the empty name never becomes a
\* group member, and only entries that can exist are deleted or renamed.
THEOREM TypeCorrect == Spec => []TypeOK
<1>1. Spec => []TypeInv
  BY TypeInvInit, TypeInvStep, PTL DEF Spec
<1>2. TypeInv => TypeOK
  BY DEF TypeInv
<1>3. QED
  BY <1>1, <1>2, PTL
-----------------------------------------------------------------------------
(* Which round trips can make a group disappear. *)

Keeps(g) == GroupExists(g) => GroupExists(g)'

\* What every kind of round trip does to the existence of a group.
LEMMA DirectoryKeeps ==
    ASSUME DirectoryTypeOK, NEW g \in Group
    PROVE  /\ UNCHANGED group => Keeps(g)
           /\ \A h, e : e.gid # 0 /\ AddGroup(h, e) => Keeps(g)
           /\ \A h, e : (GroupExists(h) => e.gid # 0) /\ ModifyGroup(h, e) => Keeps(g)
           /\ \A u, v : RenameAccount(u, v) \/ DelAccount(u) => Keeps(g)
           /\ \A h, k \in Group : g # h /\ RenameGroup(h, k) => Keeps(g)
           /\ \A h \in Group : g # h /\ DelGroup(h) => Keeps(g)
           /\ \A h, u : AddValue(h, u) \/ DeleteValue(h, u) => Keeps(g)
<1> USE DEF DirectoryTypeOK, GroupEntry, Keeps, GroupExists
<1>1. UNCHANGED group => Keeps(g)
  OBVIOUS
<1>2. ASSUME NEW h, NEW e, e.gid # 0, AddGroup(h, e) PROVE Keeps(g)
  BY <1>2 DEF AddGroup
<1>3. ASSUME NEW h, NEW e, GroupExists(h) => e.gid # 0, ModifyGroup(h, e) PROVE Keeps(g)
  BY <1>3 DEF ModifyGroup
<1>4. ASSUME NEW u, NEW v, RenameAccount(u, v) \/ DelAccount(u) PROVE Keeps(g)
  BY <1>4 DEF RenameAccount, DelAccount
<1>5. ASSUME NEW h \in Group, NEW k \in Group, g # h, RenameGroup(h, k) PROVE Keeps(g)
  BY <1>5 DEF RenameGroup, RenameGroupCode
<1>6. ASSUME NEW h \in Group, g # h, DelGroup(h) PROVE Keeps(g)
  BY <1>6 DEF DelGroup
<1>7. ASSUME NEW h, NEW u, AddValue(h, u) \/ DeleteValue(h, u) PROVE Keeps(g)
  BY <1>7 DEF AddValue, DeleteValue
<1>8. QED
  BY <1>1, <1>2, <1>3, <1>4, <1>5, <1>6, <1>7

\* DeleteGroup and UpdateGroup only reach the server with a group that is not protected.
LEMMA StepKeepsProtected ==
    ASSUME NoProtectedRename, DirectoryTypeOK, NEW w \in Worker, Known(proc[w]), Step(w),
           NEW g \in {UsersGroup, AdminsGroup}
    PROVE  Keeps(g)
<1> DEFINE p == proc[w]
<1>0. /\ g \in Group /\ MinID \in Nat \ {0}
      /\ Fits(p, p.pc) /\ p.high \in Nat /\ p.req.gid \in Nat
  BY DirectoryAssumption DEF Known, ProcState, Request
<1>1. CASE NewGroupAdd(w)
  BY <1>0, <1>1, DirectoryKeeps DEF NewGroupAdd
<1>2. CASE DeleteGroupEntry(w)
  <2>1. p.req.group \in Group /\ g # p.req.group
    BY <1>0, <1>2 DEF DeleteGroupEntry, At, Fits, IsProtectedGroup
  <2>2. QED
    BY <1>0, <1>2, <2>1, DirectoryKeeps DEF DeleteGroupEntry
<1>3. CASE UpdateGroupRename(w)
  <2>1. p.req.group \in Group /\ p.req.to \in Group /\ g # p.req.group
    BY <1>0, <1>3 DEF UpdateGroupRename, At, Fits, IsProtectedGroup
  <2>2. QED
    BY <1>0, <1>3, <2>1, DirectoryKeeps DEF UpdateGroupRename
<1>4. CASE UpdateGroupModify(w)
  <2>1. p.group \in Group
    BY <1>0, <1>4 DEF UpdateGroupModify, At, Fits
  <2> DEFINE e == IF p.req.gid >= MinID THEN [group[p.group] EXCEPT !.gid = p.req.gid]
                                        ELSE group[p.group]
  <2>2. GroupExists(p.group) => e.gid # 0
    BY <1>0, <2>1 DEF GroupExists, DirectoryTypeOK, GroupEntry
  <2>3. ModifyGroup(p.group, e)
    BY <1>4 DEF UpdateGroupModify
  <2> HIDE DEF e
  <2>4. QED
    BY <1>0, <2>2, <2>3, DirectoryKeeps
<1>5. CASE AddMember(w) \/ DeleteMember(w) \/ UpdateLeave(w) \/ UpdateJoin(w) \/ DeleteLeave(w)
           \/ SetupAdminForced(w)
  BY <1>0, <1>5, DirectoryKeeps
  DEF AddMember, DeleteMember, UpdateLeave, UpdateJoin, DeleteLeave, SetupAdminForced
<1>6. CASE UpdateRename(w) \/ DeleteEntry(w)
  BY <1>0, <1>6, DirectoryKeeps DEF UpdateRename, DeleteEntry
<1>7. CASE NewGroupLast(w) \/ LastIDAdd(w) \/ NewAccountAdd(w) \/ NewAccountLast(w)
           \/ UpdateModify(w) \/ SetupGroupsOU(w) \/ SetupUsersOU(w)
  BY <1>0, <1>7, DirectoryKeeps
  DEF NewGroupLast, LastIDAdd, NewAccountAdd, NewAccountLast, UpdateModify, SetupGroupsOU,
      SetupUsersOU, ReplaceSerial, AddDevice, AddAccount, ModifyAccount, AddOU
<1>8. CASE UNCHANGED directory
  BY <1>0, <1>8, DirectoryKeeps DEF directory
<1>9. CASE GroupStep(w)
  BY <1>1, <1>2, <1>3, <1>4, <1>5, <1>7, <1>8, <1>9
  DEF GroupStep, HighestCached, HighestScan, NewGroupFind, NewGroupRefused, AddMemberCheck
<1>10. CASE AccountStep(w)
  BY <1>5, <1>6, <1>7, <1>8, <1>10
  DEF AccountStep, LastIDFailed, NewAccountFind, NewAccountNoOU, NewAccountUID, NewAccountRetry,
      NewAccountUIDAgain, AccountByGID, AccountGroup, AccountGroupMade, AccountGroupOwn,
      AccountGroupGID, NewAccountNotJoined, UpdateFind, UpdateTaken, UpdateGroups, DeleteGroups
<1>11. CASE SetupStep(w)
  BY <1>5, <1>7, <1>8, <1>11
  DEF SetupStep, SetupLastGID, SetupLastUID, SetupAdminsGroup, SetupAdminMade, SetupAdminsMade,
      SetupAdminNotForced
<1>12. QED
  BY <1>9, <1>10, <1>11 DEF Step

LEMMA NextKeepsProtected ==
    ASSUME NoProtectedRename, TypeInv, [Next]_vars, NEW g \in {UsersGroup, AdminsGroup}
    PROVE  Keeps(g)
<1>1. g \in Group
  BY DirectoryAssumption
<1>2. CASE UNCHANGED directory
  BY <1>1, <1>2, DirectoryKeeps DEF TypeInv, TypeOK, directory
<1>3. ASSUME NEW w \in Worker, Step(w) PROVE Keeps(g)
  BY <1>3, StepKeepsProtected DEF TypeInv, TypeOK
<1>4. QED
  BY <1>2, <1>3 DEF Next, vars, Boot, Accept, Reply, Crash

\* As long as no request renames a default group, which UpdateGroup would let it do,
\* no interleaving of requests, setups and crashes makes the default user group or
\* the administrators' group disappear.
THEOREM ProtectedGroupsNeverVanish ==
    ASSUME NoProtectedRename
    PROVE  Spec => ProtectedGroupsStay
<1>1. TypeInv /\ [Next]_vars =>
        [\A g \in {UsersGroup, AdminsGroup} : GroupExists(g) => GroupExists(g)']_vars
  BY NextKeepsProtected DEF Keeps
<1>2. QED
  BY <1>1, TypeInvInit, TypeInvStep, PTL DEF Spec, ProtectedGroupsStay

-----------------------------------------------------------------------------
(***************************************************************************)
(* What NewAccount gives an account: its membership and its group.         *)
(*                                                                         *)
(* On a directory that was set up the default user group exists, and it    *)
(* stays (ProtectedGroupsNeverVanish).  Then getGroupForAccount always     *)
(* finds it, the fallback branches are never taken, and AddGroupMember of  *)
(* a protected group skips its check.  The invariant follows the group     *)
(* from the choice to the join, and the call of AddGroupMember to its      *)
(* return.                                                                 *)
(*                                                                         *)
(* The parts after that are about any start of the directory, with the     *)
(* fallbacks of getGroupForAccount: the number that an account takes over  *)
(* from a group stays that of a group, and an account whose creation is    *)
(* reported is in the default group.  Both rest on StepLeads, which says   *)
(* where a step can take a worker.                                         *)
(***************************************************************************)

(* The inductive invariant. *)

\* Where NewAccount is only without a default user group or a users unit.
FallbackLabel ==
    {"new_account_no_ou", "account_group_made", "account_group_own", "account_group_gid"}

\* Where nothing is required of the locals.
PlainLabel ==
    Label \ (FallbackLabel \cup
             {"new_account_add", "add_member_check", "add_member", "new_account_joined"})

\* The callers of each function, the fallbacks of NewAccount left out.
ReturnsTo(f) ==
    CASE f = "getHighestID" -> {"reply", "new_group_add", "last_id_add", "new_account_uid",
                                "new_account_uid_again"}
      [] f = "setupLastID" -> {"reply", "new_account_retry", "setup_last_gid", "setup_last_uid"}
      [] f = "NewGroup" -> {"reply", "setup_admins_made"}
      [] f = "AddGroupMember" -> {"reply", "new_account_joined"}
      [] f = "NewAccount" -> {"reply", "setup_admin_made", "setup_admin_forced"}

Returns(p) == \A f \in Function : p.ret[f] \in ReturnsTo(f)
Plain(p) == Returns(p) /\ p.pc \in PlainLabel

\* From the choice of the group to the outcome of the join.
Joining(p) ==
    /\ Returns(p)
    /\ p.pc \notin FallbackLabel
    /\ p.pc = "new_account_add" => p.group = UsersGroup
    /\ p.ret["AddGroupMember"] = "new_account_joined" =>
          /\ p.pc # "add_member_check"
          /\ p.pc = "add_member" => p.group = UsersGroup
    /\ p.pc = "new_account_joined" => p.err \in {"ok", "MemberExists"}

\* What an earlier SetupLDAP has left.
SetUp == {"users", "groups"} \subseteq ous /\ GroupExists(UsersGroup)

JoinInv == TypeInv /\ SetUp /\ \A w \in Worker : Joining(proc[w])

-----------------------------------------------------------------------------
(* The building blocks that lead to a plain label. *)

LEMMA PlainJoining ==
    ASSUME NEW p, Plain(p)
    PROVE  Joining(p)
  BY DEF Plain, Joining, PlainLabel, FallbackLabel

LEMMA PlainReturns ==
    \A f \in Function \ {"AddGroupMember"} : ReturnsTo(f) \subseteq PlainLabel
  BY DEF Function, ReturnsTo, PlainLabel, FallbackLabel, Label, GroupLabel, AccountLabel, SetupLabel

LEMMA PlainMoves ==
    ASSUME NEW p, Known(p), Returns(p)
    PROVE  /\ \A err : Plain(Answer(p, err))
           /\ \A err : \A f \in Function \ {"AddGroupMember"} : Plain(Return(p, f, err))
           /\ \A l \in PlainLabel : Plain(Goto(p, l))
<1> USE DEF Known, ProcState
<1>1. ASSUME NEW err PROVE Plain(Answer(p, err))
  <2>1. Answer(p, err).pc = "reply" /\ Answer(p, err).ret = p.ret
    BY DEF Answer
  <2>2. "reply" \in PlainLabel
    BY DEF PlainLabel, FallbackLabel, Label
  <2>3. QED
    BY <2>1, <2>2 DEF Plain, Returns
<1>2. ASSUME NEW err, NEW f \in Function \ {"AddGroupMember"} PROVE Plain(Return(p, f, err))
  <2>1. Return(p, f, err).pc = p.ret[f] /\ Return(p, f, err).ret = p.ret
    BY DEF Return
  <2>2. QED
    BY <2>1, PlainReturns DEF Plain, Returns
<1>3. ASSUME NEW l \in PlainLabel PROVE Plain(Goto(p, l))
  <2>1. Goto(p, l).pc = l /\ Goto(p, l).ret = p.ret
    BY DEF Goto
  <2>2. QED
    BY <2>1 DEF Plain, Returns
<1>4. QED
  BY <1>1, <1>2, <1>3

LEMMA PlainCalls ==
    ASSUME NEW p, Known(p), Returns(p)
    PROVE  /\ \A k : \A l \in ReturnsTo("getHighestID") : Plain(GetHighestID(p, k, l))
           /\ \A k : \A l \in ReturnsTo("setupLastID") : Plain(SetupLastID(p, k, l))
           /\ \A g, S : \A l \in ReturnsTo("NewGroup") : Plain(NewGroup(p, g, S, l))
           /\ \A u : \A l \in ReturnsTo("NewAccount") : Plain(NewAccount(p, u, l))
<1>0. {"highest_cached", "new_group_find", "new_account_find"} \subseteq PlainLabel
  BY DEF PlainLabel, FallbackLabel, Label, GroupLabel, AccountLabel
<1>1. ASSUME NEW k, NEW l \in ReturnsTo("getHighestID") PROVE Plain(GetHighestID(p, k, l))
  <2> DEFINE q == GetHighestID(p, k, l)
  <2>1. q.pc = "highest_cached"
        /\ \A f \in Function : q.ret[f] = IF f = "getHighestID" THEN l ELSE p.ret[f]
    BY DEF Known, ProcState, GetHighestID
  <2>2. QED
    BY <1>0, <2>1 DEF Plain, Returns
<1>2. ASSUME NEW k, NEW l \in ReturnsTo("setupLastID") PROVE Plain(SetupLastID(p, k, l))
  <2> DEFINE q == SetupLastID(p, k, l)
  <2>1. q.pc = "highest_cached"
        /\ \A f \in Function : q.ret[f] = CASE f = "getHighestID" -> "last_id_add"
                                            [] f = "setupLastID" -> l
                                            [] OTHER -> p.ret[f]
    BY DEF Known, ProcState, SetupLastID, GetHighestID
  <2>2. "last_id_add" \in ReturnsTo("getHighestID")
    BY DEF ReturnsTo
  <2>3. QED
    BY <1>0, <2>1, <2>2 DEF Plain, Returns
<1>3. ASSUME NEW g, NEW S, NEW l \in ReturnsTo("NewGroup") PROVE Plain(NewGroup(p, g, S, l))
  <2> DEFINE q == NewGroup(p, g, S, l)
  <2>1. q.pc = "new_group_find"
        /\ \A f \in Function : q.ret[f] = IF f = "NewGroup" THEN l ELSE p.ret[f]
    BY DEF Known, ProcState, NewGroup
  <2>2. QED
    BY <1>0, <2>1 DEF Plain, Returns
<1>4. ASSUME NEW u, NEW l \in ReturnsTo("NewAccount") PROVE Plain(NewAccount(p, u, l))
  <2> DEFINE q == NewAccount(p, u, l)
  <2>1. q.pc = "new_account_find"
        /\ \A f \in Function : q.ret[f] = IF f = "NewAccount" THEN l ELSE p.ret[f]
    BY DEF Known, ProcState, NewAccount
  <2>2. QED
    BY <1>0, <2>1 DEF Plain, Returns
<1>5. QED
  BY <1>1, <1>2, <1>3, <1>4

LEMMA LocalReturns ==
    ASSUME NEW p, Known(p), Returns(p)
    PROVE  /\ \A i : /\ Returns([p EXCEPT !.high = i])
                     /\ Returns([p EXCEPT !.newGID = i])
                     /\ Returns([p EXCEPT !.uid = i])
           /\ \A S : Returns([p EXCEPT !.todo = S])
           /\ \A g : Returns([p EXCEPT !.group = g])
           /\ \A u : Returns([p EXCEPT !.user = u])
           /\ \A g, i : Returns([p EXCEPT !.group = g, !.gid = i])
  BY DEF Known, ProcState, Returns

LEMMA ChoosePlain ==
    ASSUME NEW p, Known(p), Returns(p), p.user \in User
    PROVE  Plain(ChooseGroup(p)) /\ Plain(ChooseUID(p))
<1>1. ASSUME NEW q, Known(q), Returns(q) PROVE Plain(ChooseGroup(q))
  <2>1. {"account_by_gid", "account_group"} \subseteq PlainLabel
    BY DEF PlainLabel, FallbackLabel, Label, AccountLabel
  <2>2. QED
    BY <1>1, <2>1, PlainMoves DEF ChooseGroup
<1>2. p.req.uid \in Nat
  BY DEF Known, ProcState, Request
<1>3. "new_account_uid" \in ReturnsTo("getHighestID")
  BY DEF ReturnsTo
<1>4. QED
  BY <1>1, <1>2, <1>3, LocalKnown, LocalReturns, PlainCalls DEF ChooseUID
-----------------------------------------------------------------------------
(* The steps. *)

\* AddMemberCheck is never taken on the way from NewAccount, and AddMember finds
\* the default user group.
LEMMA GroupStepJoins ==
    ASSUME DirectoryTypeOK, SetUp, NEW w \in Worker, Known(proc[w]), Joining(proc[w]),
           GroupStep(w)
    PROVE  \E q : Become(w, q) /\ Joining(q)
<1> DEFINE p == proc[w]
<1>0. /\ Known(p) /\ Returns(p) /\ p.high \in Nat /\ p.high + 1 \in Nat
      /\ {"getHighestID", "NewGroup"} \subseteq Function \ {"AddGroupMember"}
  BY DEF Joining, Known, ProcState, Function
<1>1. CASE HighestCached(w)
  <2>1. lastID[p.kind] \in Nat
    BY DEF Known, ProcState, DirectoryTypeOK
  <2>2. "highest_scan" \in PlainLabel
    BY DEF PlainLabel, FallbackLabel, Label, GroupLabel
  <2>3. QED
    BY <1>0, <1>1, <2>1, <2>2, LocalKnown, LocalReturns, PlainMoves, PlainJoining
    DEF HighestCached
<1>2. CASE HighestScan(w)
  <2>1. IDsInUse(p.kind) \cup {MinID} \subseteq Nat
    BY DirectoryAssumption DEF IDsInUse, DirectoryTypeOK, AccountEntry, GroupEntry
  <2>2. QED
    BY <1>0, <1>2, <2>1, LocalKnown, LocalReturns, PlainMoves, PlainJoining DEF HighestScan
<1>3. CASE NewGroupFind(w)
  <2>1. "new_group_add" \in ReturnsTo("getHighestID")
    BY DEF ReturnsTo
  <2>2. QED
    BY <1>0, <1>3, <2>1, PlainMoves, PlainCalls, PlainJoining DEF NewGroupFind
<1>4. CASE NewGroupRefused(w)
  BY <1>0, <1>4, PlainMoves, PlainJoining DEF NewGroupRefused
<1>5. CASE NewGroupAdd(w)
  <2>1. "new_group_last" \in PlainLabel
    BY DEF PlainLabel, FallbackLabel, Label, GroupLabel
  <2>2. QED
    BY <1>0, <1>5, <2>1, LocalKnown, LocalReturns, PlainMoves, PlainJoining DEF NewGroupAdd
<1>6. CASE NewGroupLast(w)
  BY <1>0, <1>6, PlainMoves, PlainJoining DEF NewGroupLast
<1>7. CASE DeleteGroupEntry(w) \/ UpdateGroupModify(w) \/ DeleteMember(w)
  BY <1>0, <1>7, PlainMoves, PlainJoining DEF DeleteGroupEntry, UpdateGroupModify, DeleteMember
<1>8. CASE UpdateGroupRename(w)
  <2>1. "update_group_modify" \in PlainLabel
    BY DEF PlainLabel, FallbackLabel, Label, GroupLabel
  <2>2. p.req.to \in Group
    BY <1>8 DEF UpdateGroupRename, At, Known, Fits
  <2>3. QED
    BY <1>0, <1>8, <2>1, <2>2, LocalKnown, LocalReturns, PlainMoves, PlainJoining
    DEF UpdateGroupRename
<1>9. p.ret["AddGroupMember"] \in {"reply", "new_account_joined"}
  BY <1>0 DEF Returns, ReturnsTo, Function
<1>10. CASE AddMemberCheck(w)
  <2>1. p.ret["AddGroupMember"] = "reply"
    BY <1>9, <1>10 DEF AddMemberCheck, At, Joining
  <2>2. ASSUME NEW err PROVE Joining(Return(p, "AddGroupMember", err))
    <3> DEFINE q == Return(p, "AddGroupMember", err)
    <3>1. q.pc = "reply" /\ q.ret = p.ret
      BY <2>1 DEF Return, Known, ProcState
    <3>2. QED
      BY <1>0, <2>1, <3>1 DEF Joining, Returns, FallbackLabel
  <2>3. Joining(Goto(p, "add_member"))
    <3> DEFINE q == Goto(p, "add_member")
    <3>1. q.pc = "add_member" /\ q.ret = p.ret
      BY DEF Goto, Known, ProcState
    <3>2. QED
      BY <1>0, <2>1, <3>1 DEF Joining, Returns, FallbackLabel
  <2>4. QED
    BY <1>10, <2>2, <2>3 DEF AddMemberCheck
<1>11. CASE AddMember(w)
  <2> DEFINE q == Return(p, "AddGroupMember", AddMemberError(p.group, p.user))
  <2>1. q.pc = p.ret["AddGroupMember"] /\ q.ret = p.ret /\ q.err = AddMemberError(p.group, p.user)
    BY DEF Return, Known, ProcState
  <2>2. p.ret["AddGroupMember"] = "new_account_joined" =>
          AddMemberError(p.group, p.user) \in {"ok", "MemberExists"}
    BY <1>11 DEF AddMember, At, Joining, SetUp, AddMemberError, AddValueCode
  <2>3. Joining(q)
    BY <1>0, <1>9, <2>1, <2>2 DEF Joining, Returns, FallbackLabel
  <2>4. QED
    BY <1>11, <2>3 DEF AddMember
<1>12. QED
  BY <1>1, <1>2, <1>3, <1>4, <1>5, <1>6, <1>7, <1>8, <1>10, <1>11 DEF GroupStep

\* AccountGroup finds the default user group, so no fallback label is reached.
LEMMA AccountStepJoins ==
    ASSUME DirectoryTypeOK, SetUp, NEW w \in Worker, Known(proc[w]), Joining(proc[w]),
           AccountStep(w)
    PROVE  \E q : Become(w, q) /\ Joining(q)
<1> DEFINE p == proc[w]
<1>0. /\ Known(p) /\ Returns(p) /\ p.high + 1 \in Nat
      /\ {"setupLastID", "NewAccount"} \subseteq Function \ {"AddGroupMember"}
  BY DEF Joining, Known, ProcState, Function
<1>1. CASE LastIDFailed(w) \/ LastIDAdd(w) \/ AccountByGID(w) \/ NewAccountNotJoined(w)
           \/ NewAccountLast(w)
  BY <1>0, <1>1, PlainMoves, PlainJoining
  DEF LastIDFailed, LastIDAdd, AccountByGID, NewAccountNotJoined, NewAccountLast
<1>2. CASE NewAccountFind(w)
  <2>1. p.user \in User /\ "users" \in ous
    BY <1>2 DEF NewAccountFind, At, Known, Fits, UserLabel, SetUp
  <2>2. QED
    BY <1>0, <1>2, <2>1, PlainMoves, ChoosePlain, PlainJoining DEF NewAccountFind
<1>3. ~(NewAccountNoOU(w) \/ AccountGroupMade(w) \/ AccountGroupOwn(w) \/ AccountGroupGID(w))
  BY DEF NewAccountNoOU, AccountGroupMade, AccountGroupOwn, AccountGroupGID, At, Joining,
         FallbackLabel
<1>4. CASE NewAccountUID(w) \/ NewAccountRetry(w) \/ NewAccountUIDAgain(w)
  <2>1. /\ "new_account_retry" \in ReturnsTo("setupLastID")
        /\ "new_account_uid_again" \in ReturnsTo("getHighestID")
    BY DEF ReturnsTo
  <2>2. p.user \in User
    BY <1>4 DEF NewAccountUID, NewAccountRetry, NewAccountUIDAgain, At, Known, Fits, UserLabel
  <2> DEFINE q == [p EXCEPT !.uid = p.high + 1]
  <2>3. Known(q) /\ Returns(q) /\ q.user = p.user
    BY <1>0, LocalKnown, LocalReturns DEF Known, ProcState
  <2>4. QED
    BY <1>0, <1>4, <2>1, <2>2, <2>3, PlainMoves, PlainCalls, ChoosePlain, PlainJoining
    DEF NewAccountUID, NewAccountRetry, NewAccountUIDAgain
<1>5. CASE AccountGroup(w)
  <2> DEFINE q == UseGroup(p, UsersGroup)
  <2>1. Become(w, q)
    BY <1>5 DEF AccountGroup, GroupFound, SetUp
  <2>2. q.pc = "new_account_add" /\ q.ret = p.ret /\ q.group = UsersGroup
    BY DEF UseGroup, Goto, Known, ProcState
  <2>3. Joining(q)
    BY <1>0, <2>2 DEF Joining, Returns, FallbackLabel
  <2>4. QED
    BY <2>1, <2>3
<1>6. CASE NewAccountAdd(w)
  <2> DEFINE q == AddGroupMember(p, p.group, p.user, FALSE, "new_account_joined")
  <2>1. p.group = UsersGroup
    BY <1>6 DEF NewAccountAdd, At, Joining
  <2>2. /\ q.pc = "add_member" /\ q.group = UsersGroup
        /\ \A f \in Function :
              q.ret[f] = IF f = "AddGroupMember" THEN "new_account_joined" ELSE p.ret[f]
    BY <2>1 DEF AddGroupMember, IsProtectedGroup, Known, ProcState
  <2>3. Joining(q)
    BY <1>0, <2>2 DEF Joining, Returns, ReturnsTo, FallbackLabel
  <2>4. QED
    BY <1>0, <1>6, <2>3, PlainMoves, PlainJoining DEF NewAccountAdd
<1>7. {"update_taken", "update_rename", "update_groups", "update_leave", "update_join",
       "update_modify", "delete_leave", "delete_entry"} \subseteq PlainLabel
  BY DEF PlainLabel, FallbackLabel, Label, AccountLabel
<1>8. CASE UpdateFind(w)
  <2>1. p.req.user \in User /\ p.req.to \in User \cup {NoName}
    BY <1>8 DEF UpdateFind, At, Known, Fits, RequestUserLabel
  <2>2. QED
    BY <1>0, <1>7, <1>8, <2>1, LocalKnown, LocalReturns, PlainMoves, PlainJoining DEF UpdateFind
<1>9. CASE UpdateTaken(w) \/ UpdateRename(w) \/ UpdateModify(w) \/ DeleteEntry(w)
  BY <1>0, <1>7, <1>9, PlainMoves, PlainJoining
  DEF UpdateTaken, UpdateRename, UpdateModify, DeleteEntry
<1>10. CASE UpdateGroups(w) \/ UpdateJoin(w) \/ DeleteGroups(w) \/ DeleteLeave(w)
  <2>1. /\ \A u : GroupsOf(u) \in SUBSET Group
        /\ \A g : p.todo \ {g} \in SUBSET Group
    BY DEF GroupsOf, Known, ProcState
  <2>2. \A S \in SUBSET Group : Known([p EXCEPT !.todo = S]) /\ Returns([p EXCEPT !.todo = S])
    BY <1>0, LocalKnown, LocalReturns
  <2>3. QED
    BY <1>0, <1>7, <1>10, <2>1, <2>2, PlainMoves, PlainJoining
    DEF UpdateGroups, UpdateJoin, DeleteGroups, DeleteLeave, NextGroup
<1>11. CASE UpdateLeave(w)
  <2>1. p.todo \subseteq Group
    BY DEF Known, ProcState
  <2>2. \A g \in Group : Known([p EXCEPT !.group = g]) /\ Returns([p EXCEPT !.group = g])
    BY <1>0, LocalKnown, LocalReturns
  <2>3. QED
    BY <1>0, <1>7, <1>11, <2>1, <2>2, PlainMoves, PlainJoining DEF UpdateLeave
<1>12. QED
  BY <1>1, <1>2, <1>3, <1>4, <1>5, <1>6, <1>8, <1>9, <1>10, <1>11 DEF AccountStep

LEMMA SetupStepJoins ==
    ASSUME NEW w \in Worker, Known(proc[w]), Joining(proc[w]), SetupStep(w)
    PROVE  \E q : Become(w, q) /\ Joining(q)
<1> DEFINE p == proc[w]
<1>0. Known(p) /\ Returns(p)
  BY DEF Joining
<1>1. /\ {"setup_users_ou", "setup_admins_group"} \subseteq PlainLabel
      /\ {"setup_last_gid", "setup_last_uid"} \subseteq ReturnsTo("setupLastID")
      /\ "setup_admins_made" \in ReturnsTo("NewGroup")
      /\ {"setup_admin_made", "setup_admin_forced"} \subseteq ReturnsTo("NewAccount")
  BY DEF PlainLabel, FallbackLabel, Label, SetupLabel, ReturnsTo
<1>2. QED
  BY <1>0, <1>1, PlainMoves, PlainCalls, PlainJoining
  DEF SetupStep, SetupGroupsOU, SetupUsersOU, SetupLastGID, SetupLastUID, SetupAdminsGroup,
      SetupAdminMade, SetupAdminsMade, SetupAdminNotForced, SetupAdminForced
-----------------------------------------------------------------------------
(* The whole. *)

LEMMA IdleJoins ==
    /\ Joining(Idle)
    /\ \A r : Returns([Idle EXCEPT !.req = r])
<1>1. \A f \in Function : "reply" \in ReturnsTo(f)
  BY DEF Function, ReturnsTo
<1>2. /\ Idle.pc = "idle" /\ \A f \in Function : Idle.ret[f] = "reply"
      /\ \A r : \A f \in Function : [Idle EXCEPT !.req = r].ret[f] = "reply"
  BY DEF Idle
<1>3. "AddGroupMember" \in Function
  BY DEF Function
<1>4. QED
  BY <1>1, <1>2, <1>3 DEF Joining, Returns, FallbackLabel

LEMMA ServeJoins ==
    ASSUME NEW r \in Requests
    PROVE  Joining(Serve(r))
<1> DEFINE p == [Idle EXCEPT !.req = r]
<1>1. r \in Request /\ WellFormed(r)
  BY ManagerAssumption DEF WellFormed
<1>2. Known(p) /\ Returns(p) /\ p.req = r
  BY <1>1, IdleKnown, IdleJoins DEF Idle
<1>3. {"delete_group", "update_group_rename", "update_group_modify", "delete_member",
       "update_find", "delete_groups"} \subseteq PlainLabel
  BY DEF PlainLabel, FallbackLabel, Label, GroupLabel, AccountLabel
<1>4. "reply" \in ReturnsTo("NewGroup") /\ "reply" \in ReturnsTo("NewAccount")
  BY DEF ReturnsTo
<1> HIDE DEF p
<1>5. Joining(ServeNewGroup(p)) /\ Joining(DeleteGroup(p)) /\ Joining(DeleteGroupMember(p))
      /\ Joining(DeleteAccount(p)) /\ Joining(NewAccount(p, r.user, "reply"))
      /\ Joining(Goto(p, "update_find"))
  BY <1>2, <1>3, <1>4, PlainMoves, PlainCalls, PlainJoining
  DEF ServeNewGroup, DeleteGroup, DeleteGroupMember, DeleteAccount
<1>6. Joining(UpdateGroup(p))
  <2>1. r.group # NoName => /\ Known([p EXCEPT !.group = r.group])
                            /\ Returns([p EXCEPT !.group = r.group])
    BY <1>1, <1>2, LocalKnown, LocalReturns DEF Request
  <2>2. QED
    BY <1>2, <1>3, <2>1, PlainMoves, PlainJoining DEF UpdateGroup
<1>7. Joining(ServeAddGroupMember(p))
  <2> DEFINE q == AddGroupMember(p, p.req.group, p.req.user, FALSE, "reply")
  <2>1. /\ q.pc \in {"add_member", "add_member_check"}
        /\ \A f \in Function : q.ret[f] = IF f = "AddGroupMember" THEN "reply" ELSE p.ret[f]
    BY <1>2 DEF AddGroupMember, Known, ProcState
  <2>2. "AddGroupMember" \in Function /\ "reply" \in ReturnsTo("AddGroupMember")
    BY DEF Function, ReturnsTo
  <2>3. Joining(q)
    BY <1>2, <2>1, <2>2 DEF Joining, Returns, FallbackLabel
  <2>4. QED
    BY <1>2, <2>3, PlainMoves, PlainJoining DEF ServeAddGroupMember
<1>8. r.op \in {"NewGroup", "DeleteGroup", "UpdateGroup", "AddGroupMember",
                "DeleteGroupMember", "NewAccount", "UpdateAccount", "DeleteAccount"}
  BY <1>1 DEF WellFormed, Request
<1>9. QED
  BY <1>5, <1>6, <1>7, <1>8 DEF Serve, p

\* No operation of the manager deletes an organizational unit.
LEMMA UnitsStay ==
    ASSUME [Next]_vars
    PROVE  ous \subseteq ous'
<1>1. ASSUME NEW w \in Worker, GroupStep(w) PROVE ous \subseteq ous'
  BY <1>1
  DEF GroupStep, HighestCached, HighestScan, NewGroupFind, NewGroupRefused, NewGroupAdd,
      NewGroupLast, DeleteGroupEntry, UpdateGroupRename, UpdateGroupModify, AddMemberCheck,
      AddMember, DeleteMember, AddGroup, ReplaceSerial, DelGroup, RenameGroup, ModifyGroup,
      AddValue, DeleteValue, directory
<1>2. ASSUME NEW w \in Worker, AccountStep(w) PROVE ous \subseteq ous'
  BY <1>2
  DEF AccountStep, LastIDFailed, LastIDAdd, NewAccountFind, NewAccountNoOU, NewAccountUID,
      NewAccountRetry, NewAccountUIDAgain, AccountByGID, AccountGroup, AccountGroupMade,
      AccountGroupOwn, AccountGroupGID, NewAccountAdd, NewAccountNotJoined, NewAccountLast,
      UpdateFind, UpdateTaken, UpdateRename, UpdateGroups, UpdateLeave, UpdateJoin, UpdateModify,
      DeleteGroups, DeleteLeave, DeleteEntry, AddDevice, AddAccount, ReplaceSerial,
      RenameAccount, DeleteValue, AddValue, ModifyAccount, DelAccount, directory
<1>3. ASSUME NEW w \in Worker, SetupStep(w) PROVE ous \subseteq ous'
  BY <1>3
  DEF SetupStep, SetupGroupsOU, SetupUsersOU, SetupLastGID, SetupLastUID, SetupAdminsGroup,
      SetupAdminMade, SetupAdminsMade, SetupAdminNotForced, SetupAdminForced, AddOU, AddValue,
      directory
<1>4. QED
  BY <1>1, <1>2, <1>3 DEF Next, vars, directory, Boot, Accept, Step, Reply, Crash

LEMMA JoinInvInit == Start = "ready" /\ Init => JoinInv
<1> SUFFICES ASSUME Start = "ready", Init PROVE JoinInv
  OBVIOUS
<1>1. ReadyDirectory(Admin) /\ \A w \in Worker : proc[w] = Idle
  BY DEF Init
<1>2. group[UsersGroup].gid = MinID + 1 /\ MinID + 1 # 0
  BY <1>1, DirectoryAssumption DEF ReadyDirectory
<1>3. QED
  BY <1>1, <1>2, TypeInvInit, IdleJoins DEF JoinInv, SetUp, GroupExists, ReadyDirectory

LEMMA JoinInvStep ==
    ASSUME NoProtectedRename
    PROVE  JoinInv /\ [Next]_vars => JoinInv'
<1> SUFFICES ASSUME JoinInv, [Next]_vars PROVE JoinInv'
  OBVIOUS
<1>1. TypeInv /\ TypeInv' /\ DirectoryTypeOK /\ proc \in [Worker -> ProcState(Label)]
  BY TypeInvStep DEF JoinInv, TypeInv, TypeOK
<1>2. SetUp'
  BY UnitsStay, NextKeepsProtected DEF JoinInv, SetUp, Keeps
<1>3. ASSUME NEW w \in Worker, NEW q, Become(w, q), Joining(q)
      PROVE  \A v \in Worker : Joining(proc[v])'
  <2>1. \A v \in Worker : proc'[v] = IF v = w THEN q ELSE proc[v]
    BY <1>1, <1>3 DEF Become
  <2>2. QED
    BY <1>3, <2>1 DEF JoinInv
<1>4. CASE UNCHANGED proc
  BY <1>1, <1>2, <1>4 DEF JoinInv
<1>5. ASSUME NEW w \in Worker, Boot(w) PROVE JoinInv'
  <2> DEFINE r == [NoRequest EXCEPT !.op = "SetupLDAP"]
             p == [Idle EXCEPT !.req.op = "SetupLDAP"]
  <2>1. r \in Request /\ p = [Idle EXCEPT !.req = r]
    BY DEF NoRequest, Request, Idle
  <2>2. Known(p) /\ Returns(p)
    BY <2>1, IdleKnown, IdleJoins
  <2>3. "setup_groups_ou" \in PlainLabel
    BY DEF PlainLabel, FallbackLabel, Label, SetupLabel
  <2>4. Joining(SetupLDAP(p))
    BY <2>2, <2>3, PlainMoves, PlainJoining DEF SetupLDAP
  <2>5. QED
    BY <1>1, <1>2, <1>3, <1>5, <2>4 DEF Boot, JoinInv
<1>6. ASSUME NEW w \in Worker, Accept(w) PROVE JoinInv'
  BY <1>1, <1>2, <1>3, <1>6, ServeJoins DEF Accept, JoinInv
<1>7. ASSUME NEW w \in Worker, Step(w) PROVE JoinInv'
  <2>1. \E q : Become(w, q) /\ Joining(q)
    BY <1>1, <1>7, GroupStepJoins, AccountStepJoins, SetupStepJoins
    DEF Step, JoinInv, TypeInv
  <2>2. QED
    BY <1>1, <1>2, <1>3, <2>1 DEF JoinInv
<1>8. ASSUME NEW w \in Worker, Reply(w) PROVE JoinInv'
  BY <1>1, <1>2, <1>3, <1>8, IdleJoins DEF Reply, JoinInv
<1>9. ASSUME NEW r \in Replica, Crash(r) PROVE JoinInv'
  <2>1. \A v \in Worker : proc'[v] \in {Idle, proc[v]}
    BY <1>9 DEF Crash
  <2>2. QED
    BY <1>1, <1>2, <2>1, IdleJoins DEF JoinInv
<1>10. QED
  BY <1>4, <1>5, <1>6, <1>7, <1>8, <1>9 DEF Next, vars

\* Once the directory is set up, and as long as no request renames a default
\* group, the membership that NewAccount adds after the account entry is never
\* refused, whatever other requests, setups and crashes happen in between: no
\* account is left behind by a NewAccount that reported a failure to join.
THEOREM MembershipsCannotFail ==
    ASSUME Start = "ready", NoProtectedRename
    PROVE  Spec => []JoinCannotFail
<1>1. Init => JoinInv
  BY JoinInvInit
<1>2. JoinInv /\ [Next]_vars => JoinInv'
  BY JoinInvStep
<1>3. JoinInv => JoinCannotFail
  BY DEF JoinInv, JoinCannotFail, Joining, At
<1>4. QED
  BY <1>1, <1>2, <1>3, PTL DEF Spec

-----------------------------------------------------------------------------
(* Where a step leads.                                                     *)

\* Where the two invariants below ask nothing of the request.
OpenLabel ==
    Label \ {"delete_group", "update_group_rename", "update_group_modify", "delete_member",
             "update_find", "update_taken", "update_rename", "update_groups", "update_leave",
             "update_join", "update_modify", "delete_groups", "delete_leave", "delete_entry",
             "new_account_add"}

UpdateGroupLabel == {"update_group_rename", "update_group_modify"}
UpdateLabel ==
    {"update_find", "update_taken", "update_rename", "update_groups", "update_leave",
     "update_join", "update_modify"}
RenameLabel == {"update_taken", "update_rename", "update_groups", "update_leave", "update_join"}
DeleteLabel == {"delete_groups", "delete_leave", "delete_entry"}

Onward(p, q) == q.pc \in OpenLabel /\ q.req = p.req

LEMMA OpenMoves ==
    ASSUME NEW p, Known(p)
    PROVE  /\ \A err : Onward(p, Answer(p, err))
           /\ \A err : \A f \in Function : Onward(p, Return(p, f, err))
           /\ \A l \in OpenLabel : Onward(p, Goto(p, l))
           /\ \A k, l : Onward(p, GetHighestID(p, k, l))
           /\ \A k, l : Onward(p, SetupLastID(p, k, l))
           /\ \A g, S, l : Onward(p, NewGroup(p, g, S, l))
           /\ \A g, u, b, l : Onward(p, AddGroupMember(p, g, u, b, l))
           /\ \A u, l : Onward(p, NewAccount(p, u, l))
           /\ Onward(p, ChooseGroup(p))
           /\ Onward(p, ChooseUID(p))
<1> USE DEF Onward
<1>0. /\ ReturnLabel \subseteq OpenLabel
      /\ {"reply", "highest_cached", "new_group_find", "add_member", "add_member_check",
          "new_account_find", "account_by_gid", "account_group"} \subseteq OpenLabel
  BY DEF ReturnLabel, OpenLabel, Label, GroupLabel, AccountLabel, SetupLabel
<1>1. p \in ProcState(Label) /\ \A f \in Function : p.ret[f] \in ReturnLabel
  BY DEF Known
<1>2. /\ \A err : Answer(p, err).pc = "reply" /\ Answer(p, err).req = p.req
      /\ \A err : \A f \in Function : /\ Return(p, f, err).pc = p.ret[f]
                                      /\ Return(p, f, err).req = p.req
      /\ \A l : Goto(p, l).pc = l /\ Goto(p, l).req = p.req
  BY <1>1 DEF Answer, Return, Goto, ProcState
<1>3. /\ \A k, l : /\ GetHighestID(p, k, l).pc = "highest_cached"
                   /\ GetHighestID(p, k, l).req = p.req
      /\ \A k, l : /\ SetupLastID(p, k, l).pc = "highest_cached"
                   /\ SetupLastID(p, k, l).req = p.req
      /\ \A g, S, l : /\ NewGroup(p, g, S, l).pc = "new_group_find"
                      /\ NewGroup(p, g, S, l).req = p.req
      /\ \A u, l : /\ NewAccount(p, u, l).pc = "new_account_find"
                   /\ NewAccount(p, u, l).req = p.req
  BY <1>1 DEF GetHighestID, SetupLastID, NewGroup, NewAccount, ProcState
<1>4. \A g, u, b, l : /\ AddGroupMember(p, g, u, b, l).pc \in {"add_member", "add_member_check"}
                      /\ AddGroupMember(p, g, u, b, l).req = p.req
  BY <1>1 DEF AddGroupMember, ProcState
<1>5. /\ ChooseGroup(p).pc \in {"account_by_gid", "account_group"}
      /\ ChooseGroup(p).req = p.req
  BY <1>1 DEF ChooseGroup, Goto, ProcState
<1>6. /\ ChooseUID(p).pc \in {"account_by_gid", "account_group", "highest_cached"}
      /\ ChooseUID(p).req = p.req
  BY <1>1, <1>3 DEF ChooseUID, ChooseGroup, Goto, ProcState
<1>7. QED
  BY <1>0, <1>1, <1>2, <1>3, <1>4, <1>5, <1>6

LEMMA SameRequest ==
    ASSUME NEW p, Known(p)
    PROVE  /\ \A i : /\ [p EXCEPT !.high = i].req = p.req
                     /\ [p EXCEPT !.newGID = i].req = p.req
                     /\ [p EXCEPT !.uid = i].req = p.req
           /\ \A S : [p EXCEPT !.todo = S].req = p.req
           /\ \A g : [p EXCEPT !.group = g].req = p.req
           /\ \A u : [p EXCEPT !.user = u].req = p.req
           /\ \A g, i : [p EXCEPT !.group = g, !.gid = i].req = p.req
  BY DEF Known, ProcState

\* The steps that lead elsewhere are those of a function's own sequence of
\* labels, and the choice of a group, whose number is then that of the entry.
Led(p, q) ==
    /\ q.req = p.req
    /\ \/ q.pc \in OpenLabel
       \/ p.pc = "update_find" /\ q.pc \in {"update_taken", "update_modify"}
          /\ (p.req.to \in {NoName, p.req.user} => q.pc = "update_modify")
       \/ p.pc \in RenameLabel /\ q.pc \in RenameLabel \cup {"update_modify"}
       \/ p.pc = "update_group_rename" /\ q.pc = "update_group_modify"
       \/ p.pc \in DeleteLabel /\ q.pc \in DeleteLabel
       \/ /\ p.pc \in {"account_group", "account_group_gid"} /\ q.pc = "new_account_add"
          /\ q.group \in Group /\ GroupExists(q.group) /\ q.gid = group[q.group].gid
          /\ q.group = IF p.pc = "account_group" THEN UsersGroup ELSE p.group

LEMMA GroupStepLeads ==
    ASSUME DirectoryTypeOK, NEW w \in Worker, Known(proc[w]), GroupStep(w)
    PROVE  \E q : Become(w, q) /\ Led(proc[w], q)
<1> DEFINE p == proc[w]
<1>0. /\ Known(p) /\ p.high \in Nat /\ p.high + 1 \in Nat
      /\ {"getHighestID", "NewGroup", "AddGroupMember"} \subseteq Function
  BY DEF Known, ProcState, Function
<1>1. {"highest_scan", "new_group_last", "add_member"} \subseteq OpenLabel
  BY DEF OpenLabel, Label, GroupLabel
<1>2. \A q : Onward(p, q) => Led(p, q)
  BY DEF Onward, Led
<1>3. CASE HighestCached(w)
  <2>1. lastID[p.kind] \in Nat
    BY DEF Known, ProcState, DirectoryTypeOK
  <2>2. /\ Known([p EXCEPT !.high = lastID[p.kind]])
        /\ [p EXCEPT !.high = lastID[p.kind]].req = p.req
    BY <1>0, <2>1, LocalKnown, SameRequest
  <2>3. Led(p, Return([p EXCEPT !.high = lastID[p.kind]], "getHighestID", "ok"))
    BY <1>0, <1>2, <2>2, OpenMoves DEF Onward
  <2> QED
    BY <1>0, <1>1, <1>2, <1>3, <2>3, OpenMoves DEF HighestCached
<1>4. CASE HighestScan(w)
  <2>1. IDsInUse(p.kind) \cup {MinID} \subseteq Nat
    BY DirectoryAssumption DEF IDsInUse, DirectoryTypeOK, AccountEntry, GroupEntry
  <2>2. ASSUME NEW h \in IDsInUse(p.kind) \cup {MinID}
        PROVE  Led(p, Return([p EXCEPT !.high = h], "getHighestID", "ok"))
    <3>1. Known([p EXCEPT !.high = h]) /\ [p EXCEPT !.high = h].req = p.req
      BY <1>0, <2>1, LocalKnown, SameRequest
    <3> QED BY <1>0, <1>2, <3>1, OpenMoves DEF Onward
  <2> QED
    BY <1>0, <1>2, <1>4, <2>2, OpenMoves DEF HighestScan
<1>5. CASE NewGroupFind(w) \/ NewGroupRefused(w) \/ NewGroupLast(w) \/ AddMemberCheck(w)
           \/ AddMember(w)
  BY <1>0, <1>1, <1>2, <1>5, OpenMoves
  DEF NewGroupFind, NewGroupRefused, NewGroupLast, AddMemberCheck, AddMember
<1>6. CASE NewGroupAdd(w)
  <2>1. /\ Known([p EXCEPT !.newGID = p.high + 1])
        /\ [p EXCEPT !.newGID = p.high + 1].req = p.req
    BY <1>0, LocalKnown, SameRequest
  <2>2. Led(p, Goto([p EXCEPT !.newGID = p.high + 1], "new_group_last"))
    BY <1>1, <1>2, <2>1, OpenMoves DEF Onward
  <2> QED
    BY <1>0, <1>2, <1>6, <2>2, OpenMoves DEF NewGroupAdd
<1>7. CASE DeleteGroupEntry(w) \/ UpdateGroupModify(w) \/ DeleteMember(w)
  BY <1>2, <1>7, OpenMoves DEF DeleteGroupEntry, UpdateGroupModify, DeleteMember
<1>8. CASE UpdateGroupRename(w)
  <2> DEFINE q == Goto([p EXCEPT !.group = p.req.to], "update_group_modify")
  <2>1. q.pc = "update_group_modify" /\ q.req = p.req
    BY DEF Goto, Known, ProcState
  <2>2. Led(p, q)
    BY <1>8, <2>1 DEF Led, UpdateGroupRename, At
  <2> QED
    BY <1>2, <1>8, <2>2, OpenMoves DEF UpdateGroupRename
<1> QED
  BY <1>3, <1>4, <1>5, <1>6, <1>7, <1>8 DEF GroupStep

LEMMA AccountStepLeads ==
    ASSUME NEW w \in Worker, Known(proc[w]), AccountStep(w)
    PROVE  \E q : Become(w, q) /\ Led(proc[w], q)
<1> DEFINE p == proc[w]
<1>0. /\ Known(p) /\ p.high + 1 \in Nat
      /\ {"setupLastID", "NewAccount"} \subseteq Function
  BY DEF Known, ProcState, Function
<1>1. "account_group_gid" \in OpenLabel
  BY DEF OpenLabel, Label, AccountLabel
<1>2. \A q : Onward(p, q) => Led(p, q)
  BY DEF Onward, Led
<1>3. CASE \/ LastIDFailed(w) \/ LastIDAdd(w) \/ AccountByGID(w) \/ NewAccountFind(w)
           \/ NewAccountNoOU(w) \/ NewAccountRetry(w)
  BY <1>0, <1>2, <1>3, OpenMoves
  DEF LastIDFailed, LastIDAdd, AccountByGID, NewAccountFind, NewAccountNoOU, NewAccountRetry
<1>4. CASE \/ NewAccountAdd(w) \/ NewAccountNotJoined(w) \/ NewAccountLast(w)
           \/ UpdateModify(w) \/ DeleteEntry(w)
  BY <1>0, <1>2, <1>4, OpenMoves
  DEF NewAccountAdd, NewAccountNotJoined, NewAccountLast, UpdateModify, DeleteEntry
<1>5. CASE NewAccountUID(w) \/ NewAccountUIDAgain(w)
  <2>1. Known([p EXCEPT !.uid = p.high + 1]) /\ [p EXCEPT !.uid = p.high + 1].req = p.req
    BY <1>0, LocalKnown, SameRequest
  <2>2. Led(p, ChooseGroup([p EXCEPT !.uid = p.high + 1]))
    BY <1>2, <2>1, OpenMoves DEF Onward
  <2> QED
    BY <1>0, <1>2, <1>5, <2>2, OpenMoves DEF NewAccountUID, NewAccountUIDAgain
<1>6. ASSUME NEW g \in Group, GroupFound(g), p.pc \in {"account_group", "account_group_gid"},
             g = IF p.pc = "account_group" THEN UsersGroup ELSE p.group
      PROVE  Led(p, UseGroup(p, g))
  <2> DEFINE q == UseGroup(p, g)
  <2>1. q.pc = "new_account_add" /\ q.req = p.req /\ q.group = g /\ q.gid = group[g].gid
    BY DEF UseGroup, Goto, Known, ProcState
  <2> QED
    BY <1>6, <2>1 DEF Led, GroupFound
<1>7. CASE AccountGroup(w)
  BY <1>2, <1>6, <1>7, OpenMoves, DirectoryAssumption DEF AccountGroup, At
<1>8. CASE AccountGroupGID(w)
  <2>1. p.group \in Group
    BY <1>8 DEF AccountGroupGID, At, Known, Fits
  <2> QED
    BY <1>0, <1>2, <1>6, <1>8, <2>1, OpenMoves DEF AccountGroupGID, At
<1>9. CASE AccountGroupMade(w) \/ AccountGroupOwn(w)
  <2>1. p.user \in User /\ User \subseteq Group /\ UsersGroup \in Group
    BY <1>9, DirectoryAssumption DEF AccountGroupMade, AccountGroupOwn, At, Known, Fits, UserLabel
  <2>2. ASSUME NEW g \in Group PROVE Led(p, Goto([p EXCEPT !.group = g], "account_group_gid"))
    <3>1. Known([p EXCEPT !.group = g]) /\ [p EXCEPT !.group = g].req = p.req
      BY <1>0, LocalKnown, SameRequest
    <3> QED BY <1>1, <1>2, <3>1, OpenMoves DEF Onward
  <2> QED
    BY <1>0, <1>2, <1>9, <2>1, <2>2, OpenMoves DEF AccountGroupMade, AccountGroupOwn
<1>11. CASE UpdateFind(w)
  <2> DEFINE q1 == Goto([p EXCEPT !.user = p.req.to], "update_taken")
             q2 == Goto([p EXCEPT !.user = p.req.user], "update_modify")
  <2>1. q1.pc = "update_taken" /\ q1.req = p.req /\ q2.pc = "update_modify" /\ q2.req = p.req
    BY DEF Goto, Known, ProcState
  <2>2. p.pc = "update_find"
    BY <1>11 DEF UpdateFind, At
  <2>3. p.req.to \notin {NoName, p.req.user} => Led(p, q1)
    BY <2>1, <2>2 DEF Led
  <2>4. Led(p, q2)
    BY <2>1, <2>2 DEF Led
  <2> HIDE DEF q1, q2
  <2>5. \/ \E err : Become(w, Answer(p, err))
        \/ p.req.to \notin {NoName, p.req.user} /\ Become(w, q1)
        \/ Become(w, q2)
    BY <1>11 DEF UpdateFind, q1, q2
  <2> QED
    BY <1>2, <2>3, <2>4, <2>5, OpenMoves
<1>10. \A err : Led(p, Answer(p, err))
  BY <1>2, OpenMoves
<1>12. ASSUME NEW l, \/ p.pc \in RenameLabel /\ l \in RenameLabel \cup {"update_modify"}
                     \/ p.pc \in DeleteLabel /\ l \in DeleteLabel
       PROVE  /\ Led(p, Goto(p, l))
              /\ \A S : Led(p, Goto([p EXCEPT !.todo = S], l))
              /\ \A g : Led(p, Goto([p EXCEPT !.group = g], l))
  <2>1. ASSUME NEW q, q.pc = l, q.req = p.req PROVE Led(p, q)
    BY <1>12, <2>1 DEF Led
  <2>2. /\ Goto(p, l).pc = l /\ Goto(p, l).req = p.req
        /\ \A S : /\ Goto([p EXCEPT !.todo = S], l).pc = l
                  /\ Goto([p EXCEPT !.todo = S], l).req = p.req
        /\ \A g : /\ Goto([p EXCEPT !.group = g], l).pc = l
                  /\ Goto([p EXCEPT !.group = g], l).req = p.req
    BY DEF Goto, Known, ProcState
  <2> QED BY <2>1, <2>2
<1>13. CASE UpdateTaken(w) \/ UpdateRename(w) \/ UpdateGroups(w) \/ UpdateLeave(w) \/ UpdateJoin(w)
  <2>1. p.pc \in RenameLabel
    BY <1>13 DEF UpdateTaken, UpdateRename, UpdateGroups, UpdateLeave, UpdateJoin, At, RenameLabel
  <2>2. \A l \in {"update_rename", "update_groups", "update_leave", "update_join", "update_modify"} :
           l \in RenameLabel \cup {"update_modify"}
    BY DEF RenameLabel
  <2>3. \A l \in {"update_rename", "update_groups", "update_leave", "update_join", "update_modify"} :
           /\ Led(p, Goto(p, l))
           /\ \A S : Led(p, Goto([p EXCEPT !.todo = S], l))
           /\ \A g : Led(p, Goto([p EXCEPT !.group = g], l))
    BY <1>12, <2>1, <2>2
  <2>4. CASE UpdateTaken(w) \/ UpdateRename(w)
    BY <1>10, <2>3, <2>4 DEF UpdateTaken, UpdateRename
  <2>5. CASE UpdateLeave(w)
    BY <1>10, <2>3, <2>5 DEF UpdateLeave
  <2>6. CASE UpdateGroups(w)
    BY <1>10, <2>3, <2>6 DEF UpdateGroups, NextGroup
  <2>7. CASE UpdateJoin(w)
    BY <1>10, <2>3, <2>7 DEF UpdateJoin, NextGroup
  <2> QED BY <1>13, <2>4, <2>5, <2>6, <2>7
<1>14. CASE DeleteGroups(w) \/ DeleteLeave(w)
  <2>1. p.pc \in DeleteLabel
    BY <1>14 DEF DeleteGroups, DeleteLeave, At, DeleteLabel
  <2>2. \A l \in {"delete_leave", "delete_entry"} : l \in DeleteLabel
    BY DEF DeleteLabel
  <2>3. \A l \in {"delete_leave", "delete_entry"} : \A S : Led(p, Goto([p EXCEPT !.todo = S], l))
    BY <1>12, <2>1, <2>2
  <2> QED
    BY <1>10, <1>14, <2>3 DEF DeleteGroups, DeleteLeave, NextGroup
<1> QED
  BY <1>3, <1>4, <1>5, <1>7, <1>8, <1>9, <1>11, <1>13, <1>14 DEF AccountStep

LEMMA StepLeads ==
    ASSUME DirectoryTypeOK, NEW w \in Worker, Known(proc[w]), Step(w)
    PROVE  \E q : Become(w, q) /\ Led(proc[w], q)
<1> DEFINE p == proc[w]
<1>1. CASE SetupStep(w)
  <2>1. {"setup_users_ou", "setup_admins_group"} \subseteq OpenLabel
    BY DEF OpenLabel, Label, SetupLabel
  <2>2. \A q : Onward(p, q) => Led(p, q)
    BY DEF Onward, Led
  <2> QED
    BY <1>1, <2>1, <2>2, OpenMoves
    DEF SetupStep, SetupGroupsOU, SetupUsersOU, SetupLastGID, SetupLastUID, SetupAdminsGroup,
        SetupAdminMade, SetupAdminsMade, SetupAdminNotForced, SetupAdminForced
<1> QED
  BY <1>1, GroupStepLeads, AccountStepLeads DEF Step


\* Where the handler of a request begins.
LEMMA ServeLeads ==
    ASSUME NEW r \in Requests
    PROVE  /\ Serve(r).req = r
           /\ \/ Serve(r).pc \in OpenLabel
              \/ /\ r.op = "DeleteGroup" /\ Serve(r).pc = "delete_group"
                 /\ r.group # NoName /\ ~IsProtectedGroup(r.group)
              \/ r.op = "UpdateGroup" /\ Serve(r).pc \in UpdateGroupLabel
              \/ /\ r.op = "DeleteGroupMember" /\ Serve(r).pc = "delete_member"
                 /\ IsProtectedGroup(r.group) => r.admin
              \/ r.op = "UpdateAccount" /\ Serve(r).pc = "update_find"
              \/ r.op = "DeleteAccount" /\ Serve(r).pc = "delete_groups"
<1> DEFINE p == [Idle EXCEPT !.req = r]
<1>1. r \in Request /\ WellFormed(r)
  BY ManagerAssumption DEF WellFormed
<1>2. Known(p) /\ p.req = r
  BY <1>1, IdleKnown DEF Idle
<1> HIDE DEF p
<1>3. \A l : /\ Goto(p, l).pc = l /\ Goto(p, l).req = r
             /\ Goto([p EXCEPT !.group = r.group], l).pc = l
             /\ Goto([p EXCEPT !.group = r.group], l).req = r
  BY <1>2 DEF Goto, Known, ProcState
<1>4. r.op \in {"NewGroup", "DeleteGroup", "UpdateGroup", "AddGroupMember",
                "DeleteGroupMember", "NewAccount", "UpdateAccount", "DeleteAccount"}
  BY <1>1 DEF WellFormed, Request
<1>5. /\ r.op = "NewGroup" => Serve(r) = ServeNewGroup(p)
      /\ r.op = "DeleteGroup" => Serve(r) = DeleteGroup(p)
      /\ r.op = "UpdateGroup" => Serve(r) = UpdateGroup(p)
      /\ r.op = "AddGroupMember" => Serve(r) = ServeAddGroupMember(p)
      /\ r.op = "DeleteGroupMember" => Serve(r) = DeleteGroupMember(p)
      /\ r.op = "NewAccount" => Serve(r) = NewAccount(p, r.user, "reply")
      /\ r.op = "UpdateAccount" => Serve(r) = Goto(p, "update_find")
      /\ r.op = "DeleteAccount" => Serve(r) = DeleteAccount(p)
  BY DEF Serve, p
<1>6. CASE r.op \in {"NewGroup", "AddGroupMember", "NewAccount"}
  <2>1. /\ Onward(p, ServeNewGroup(p))
        /\ Onward(p, ServeAddGroupMember(p))
        /\ Onward(p, NewAccount(p, r.user, "reply"))
    BY <1>2, OpenMoves DEF ServeNewGroup, ServeAddGroupMember
  <2> QED
    BY <1>2, <1>5, <1>6, <2>1 DEF Onward
<1>7. CASE r.op = "DeleteGroup"
  BY <1>2, <1>3, <1>5, <1>7, OpenMoves DEF DeleteGroup, Onward
<1>8. CASE r.op = "UpdateGroup"
  BY <1>2, <1>3, <1>5, <1>8, OpenMoves DEF UpdateGroup, Onward, UpdateGroupLabel
<1>9. CASE r.op = "DeleteGroupMember"
  BY <1>2, <1>3, <1>5, <1>9, OpenMoves DEF DeleteGroupMember, Onward
<1>10. CASE r.op \in {"UpdateAccount", "DeleteAccount"}
  BY <1>2, <1>3, <1>5, <1>10, OpenMoves DEF DeleteAccount, Onward
<1> QED
  BY <1>4, <1>6, <1>7, <1>8, <1>9, <1>10

\* Idle and rebooted workers are at labels where nothing is asked.
LEMMA IdleOpen ==
    /\ Idle.pc \in OpenLabel /\ Idle.req.op = "none"
    /\ LET p == SetupLDAP([Idle EXCEPT !.req.op = "SetupLDAP"])
       IN  p.pc \in OpenLabel /\ p.req.op = "SetupLDAP"
<1>1. {"idle", "setup_groups_ou"} \subseteq OpenLabel
  BY DEF OpenLabel, Label, SetupLabel
<1>2. Idle.pc = "idle" /\ Idle.req.op = "none"
  BY DEF Idle, NoRequest
<1>3. LET p == SetupLDAP([Idle EXCEPT !.req.op = "SetupLDAP"])
      IN  p.pc = "setup_groups_ou" /\ p.req.op = "SetupLDAP"
  BY DEF Idle, NoRequest, SetupLDAP, Goto
<1> QED BY <1>1, <1>2, <1>3

-----------------------------------------------------------------------------
(* The gidNumber that an account is given.                                 *)

\* No client deletes a group or gives one another number, and none gives an
\* account a number that may be nobody's.
GroupsKeepNumbers ==
    \A r \in Requests :
        /\ r.op = "DeleteGroup" => r.group = NoName \/ IsProtectedGroup(r.group)
        /\ r.op = "UpdateGroup" => r.gid < MinID
        /\ r.op = "UpdateAccount" /\ r.admin => r.gid < MinID

Numbering(p) ==
    /\ p.pc # "delete_group"
    /\ p.pc \in UpdateGroupLabel => p.req.gid < MinID
    /\ p.pc \in UpdateLabel /\ p.req.admin => p.req.gid < MinID
    /\ p.pc = "new_account_add" => p.gid \in IDsInUse("GID")

Resolved == \A u \in User : AccountExists(u) => account[u].gid \in IDsInUse("GID")

GIDInv == TypeInv /\ Resolved /\ \A w \in Worker : Numbering(proc[w])

\* No number of a group goes out of use.
GIDsGrow == IDsInUse("GID") \subseteq IDsInUse("GID")'

LEMMA DirectoryGIDs ==
    ASSUME DirectoryTypeOK
    PROVE  /\ UNCHANGED group => GIDsGrow
           /\ \A g, e : AddGroup(g, e) => GIDsGrow
           /\ \A g \in Group : \A e : e.gid = group[g].gid /\ ModifyGroup(g, e) => GIDsGrow
           /\ \A g, h \in Group : RenameGroup(g, h) => GIDsGrow
           /\ \A u, v : RenameAccount(u, v) \/ DelAccount(u) => GIDsGrow
           /\ \A g, u : AddValue(g, u) \/ DeleteValue(g, u) => GIDsGrow
<1> USE DEF DirectoryTypeOK
<1>0. ASSUME \A g \in Group : GroupExists(g) =>
                 \E h \in Group : GroupExists(h)' /\ group'[h].gid = group[g].gid
      PROVE  GIDsGrow
  BY <1>0 DEF GIDsGrow, IDsInUse
<1>1. ASSUME \A g \in Group : GroupExists(g) => group'[g].gid = group[g].gid
      PROVE  GIDsGrow
  BY <1>0, <1>1 DEF GroupExists
<1>2. UNCHANGED group => GIDsGrow
  BY <1>1
<1>3. ASSUME NEW g, NEW e, AddGroup(g, e) PROVE GIDsGrow
  BY <1>1, <1>3 DEF AddGroup, AddGroupCode, GroupExists
<1>4. ASSUME NEW g \in Group, NEW e, e.gid = group[g].gid, ModifyGroup(g, e) PROVE GIDsGrow
  BY <1>1, <1>4 DEF ModifyGroup
<1>5. ASSUME NEW g \in Group, NEW h \in Group, RenameGroup(g, h) PROVE GIDsGrow
  <2>1. CASE RenameGroupCode(g, h) = "ok"
    <3>1. GroupExists(g) /\ ~GroupExists(h) /\ g # h
      BY <2>1 DEF RenameGroupCode
    <3>2. \A k \in Group : group'[k] = CASE k = g -> NoGroup [] k = h -> group[g]
                                         [] OTHER -> group[k]
      BY <1>5, <2>1, <3>1 DEF RenameGroup
    <3>3. ASSUME NEW k \in Group, GroupExists(k)
          PROVE  \E l \in Group : GroupExists(l)' /\ group'[l].gid = group[k].gid
      <4>1. CASE k = g
        BY <3>1, <3>2, <4>1 DEF GroupExists
      <4>2. CASE k # g
        BY <3>1, <3>2, <3>3, <4>2 DEF GroupExists
      <4> QED BY <4>1, <4>2
    <3> QED BY <1>0, <3>3
  <2>2. CASE RenameGroupCode(g, h) # "ok"
    BY <1>2, <1>5, <2>2 DEF RenameGroup
  <2> QED BY <2>1, <2>2
<1>6. ASSUME NEW u, NEW v, RenameAccount(u, v) \/ DelAccount(u) PROVE GIDsGrow
  <2>1. \A g \in Group : group'[g].gid = group[g].gid
    BY <1>6 DEF RenameAccount, DelAccount, GroupEntry
  <2> QED BY <1>1, <2>1
<1>7. ASSUME NEW g, NEW u, AddValue(g, u) \/ DeleteValue(g, u) PROVE GIDsGrow
  <2>1. \A h \in Group : group'[h].gid = group[h].gid
    BY <1>7 DEF AddValue, DeleteValue, GroupEntry
  <2> QED BY <1>1, <2>1
<1>8. QED
  BY <1>2, <1>3, <1>4, <1>5, <1>6, <1>7

\* What the round trips on accounts do to the numbers they bear.
LEMMA AccountsResolved ==
    ASSUME DirectoryTypeOK, Resolved, GIDsGrow
    PROVE  /\ UNCHANGED account => Resolved'
           /\ \A u \in User : \A e : e.gid \in IDsInUse("GID") /\ AddAccount(u, e) => Resolved'
           /\ \A u \in User : \A e : e.gid = account[u].gid /\ ModifyAccount(u, e) => Resolved'
           /\ \A u, v \in User : RenameAccount(u, v) => Resolved'
           /\ \A u \in User : DelAccount(u) => Resolved'
<1> USE DEF DirectoryTypeOK
<1>0. ASSUME \A v \in User : AccountExists(v)' =>
                 \/ account'[v].gid \in IDsInUse("GID")
                 \/ \E u \in User : AccountExists(u) /\ account'[v].gid = account[u].gid
      PROVE  Resolved'
  BY <1>0 DEF Resolved, GIDsGrow
<1>1. UNCHANGED account => Resolved'
  BY <1>0 DEF AccountExists
<1>2. ASSUME NEW u \in User, NEW e, e.gid \in IDsInUse("GID"), AddAccount(u, e)
      PROVE  Resolved'
  BY <1>0, <1>2 DEF AddAccount, AccountExists
<1>3. ASSUME NEW u \in User, NEW e, e.gid = account[u].gid, ModifyAccount(u, e)
      PROVE  Resolved'
  <2>1. \A v \in User : AccountExists(v)' => AccountExists(v) /\ account'[v].gid = account[v].gid
    BY <1>3 DEF ModifyAccount, AccountExists
  <2> QED BY <1>0, <2>1
<1>4. ASSUME NEW u \in User, NEW v \in User, RenameAccount(u, v) PROVE Resolved'
  <2>1. CASE RenameAccountCode(u, v) = "ok"
    <3>1. AccountExists(u)
      BY <2>1 DEF RenameAccountCode
    <3>2. \A x \in User : account'[x] = CASE x = u -> NoAccount [] x = v /\ x # u -> account[u]
                                          [] OTHER -> account[x]
      BY <1>4, <2>1 DEF RenameAccount
    <3>3. ASSUME NEW x \in User, AccountExists(x)'
          PROVE  \E y \in User : AccountExists(y) /\ account'[x].gid = account[y].gid
      <4>1. CASE x = u
        BY <3>2, <3>3, <4>1 DEF AccountExists, NoAccount
      <4>2. CASE x # u
        BY <3>1, <3>2, <3>3, <4>2 DEF AccountExists
      <4> QED BY <4>1, <4>2
    <3> QED BY <1>0, <3>3
  <2>2. CASE RenameAccountCode(u, v) # "ok"
    BY <1>1, <1>4, <2>2 DEF RenameAccount
  <2> QED BY <2>1, <2>2
<1>5. ASSUME NEW u \in User, DelAccount(u) PROVE Resolved'
  <2>1. \A v \in User : AccountExists(v)' => AccountExists(v) /\ account'[v].gid = account[v].gid
    BY <1>5 DEF DelAccount, AccountExists, NoAccount
  <2> QED BY <1>0, <2>1
<1>6. QED
  BY <1>1, <1>2, <1>3, <1>4, <1>5

LEMMA OpenNumbering ==
    ASSUME NEW p, p.pc \in OpenLabel
    PROVE  Numbering(p) /\ Numbering(p)'
  BY DEF Numbering, OpenLabel, UpdateGroupLabel, UpdateLabel

LEMMA NumberingKept ==
    ASSUME NEW p, Numbering(p), GIDsGrow
    PROVE  Numbering(p)'
  BY DEF Numbering, GIDsGrow

\* No step takes a group's number out of use, except the deletion of a group.
LEMMA StepGIDs ==
    ASSUME DirectoryTypeOK, NEW w \in Worker, Known(proc[w]), Numbering(proc[w]), Step(w)
    PROVE  GIDsGrow
<1> DEFINE p == proc[w]
<1>0. Fits(p, p.pc)
  BY DEF Known
<1>1. CASE NewGroupAdd(w)
  BY <1>1, DirectoryGIDs DEF NewGroupAdd
<1>2. ~DeleteGroupEntry(w)
  BY DEF Numbering, DeleteGroupEntry, At
<1>3. CASE UpdateGroupRename(w)
  BY <1>0, <1>3, DirectoryGIDs DEF UpdateGroupRename, At, Fits
<1>4. CASE UpdateGroupModify(w)
  <2>1. p.group \in Group /\ p.req.gid < MinID /\ p.req.gid \in Nat /\ MinID \in Nat
    BY <1>0, <1>4, DirectoryAssumption
    DEF UpdateGroupModify, At, Fits, Numbering, UpdateGroupLabel, Known, ProcState, Request
  <2>2. ModifyGroup(p.group, group[p.group])
    BY <1>4, <2>1 DEF UpdateGroupModify
  <2> QED BY <2>1, <2>2, DirectoryGIDs
<1>5. CASE AddMember(w) \/ DeleteMember(w) \/ UpdateLeave(w) \/ UpdateJoin(w) \/ DeleteLeave(w)
           \/ SetupAdminForced(w)
  BY <1>5, DirectoryGIDs
  DEF AddMember, DeleteMember, UpdateLeave, UpdateJoin, DeleteLeave, SetupAdminForced
<1>6. CASE UpdateRename(w) \/ DeleteEntry(w)
  BY <1>6, DirectoryGIDs DEF UpdateRename, DeleteEntry
<1>7. UNCHANGED group => GIDsGrow
  BY DirectoryGIDs
<1>8. CASE HighestCached(w) \/ HighestScan(w) \/ NewGroupFind(w) \/ NewGroupRefused(w)
           \/ NewGroupLast(w) \/ AddMemberCheck(w)
  BY <1>7, <1>8
  DEF HighestCached, HighestScan, NewGroupFind, NewGroupRefused, NewGroupLast, AddMemberCheck,
      ReplaceSerial, directory
<1>9. CASE \/ LastIDFailed(w) \/ LastIDAdd(w) \/ NewAccountFind(w) \/ NewAccountNoOU(w)
           \/ NewAccountUID(w) \/ NewAccountRetry(w) \/ NewAccountUIDAgain(w) \/ AccountByGID(w)
           \/ AccountGroup(w) \/ AccountGroupMade(w) \/ AccountGroupOwn(w) \/ AccountGroupGID(w)
           \/ NewAccountAdd(w) \/ NewAccountNotJoined(w) \/ NewAccountLast(w)
  BY <1>7, <1>9
  DEF LastIDFailed, LastIDAdd, NewAccountFind, NewAccountNoOU, NewAccountUID, NewAccountRetry,
      NewAccountUIDAgain, AccountByGID, AccountGroup, AccountGroupMade, AccountGroupOwn,
      AccountGroupGID, NewAccountAdd, NewAccountNotJoined, NewAccountLast,
      AddDevice, AddAccount, ReplaceSerial, directory
<1>10. CASE UpdateFind(w) \/ UpdateTaken(w) \/ UpdateGroups(w) \/ UpdateModify(w) \/ DeleteGroups(w)
  BY <1>7, <1>10
  DEF UpdateFind, UpdateTaken, UpdateGroups, UpdateModify, DeleteGroups, ModifyAccount, directory
<1>11. CASE SetupStep(w)
  BY <1>5, <1>7, <1>11
  DEF SetupStep, SetupGroupsOU, SetupUsersOU, SetupLastGID, SetupLastUID, SetupAdminsGroup,
      SetupAdminMade, SetupAdminsMade, SetupAdminNotForced, AddOU, directory
<1> QED
  BY <1>1, <1>2, <1>3, <1>4, <1>5, <1>6, <1>8, <1>9, <1>10, <1>11
  DEF Step, GroupStep, AccountStep

\* An account gets the number of a group that was found, or keeps the one it has.
LEMMA StepResolved ==
    ASSUME DirectoryTypeOK, Resolved, NEW w \in Worker, Known(proc[w]), Numbering(proc[w]),
           Step(w), GIDsGrow
    PROVE  Resolved'
<1> DEFINE p == proc[w]
<1>0. Fits(p, p.pc)
  BY DEF Known
<1>1. CASE NewAccountAdd(w)
  <2>1. p.user \in User /\ p.gid \in IDsInUse("GID")
    BY <1>0, <1>1 DEF NewAccountAdd, At, Fits, UserLabel, Numbering
  <2> QED
    BY <1>1, <2>1, AccountsResolved DEF NewAccountAdd
<1>2. CASE UpdateModify(w)
  <2>1. p.user \in User /\ (p.req.admin => p.req.gid < MinID) /\ p.req.gid \in Nat /\ MinID \in Nat
    BY <1>0, <1>2, DirectoryAssumption
    DEF UpdateModify, At, Fits, UserLabel, Numbering, UpdateLabel, Known, ProcState, Request
  <2>2. PICK e : e.gid = account[p.user].gid /\ ModifyAccount(p.user, e)
    BY <1>2, <2>1 DEF UpdateModify
  <2> QED
    BY <2>1, <2>2, AccountsResolved
<1>3. CASE UpdateRename(w)
  BY <1>0, <1>3, AccountsResolved DEF UpdateRename, At, Fits, UserLabel, RequestUserLabel
<1>4. CASE DeleteEntry(w)
  BY <1>0, <1>4, AccountsResolved DEF DeleteEntry, At, Fits, RequestUserLabel
<1>5. UNCHANGED account => Resolved'
  BY AccountsResolved
<1>6. CASE GroupStep(w)
  BY <1>5, <1>6
  DEF GroupStep, HighestCached, HighestScan, NewGroupFind, NewGroupRefused, NewGroupAdd,
      NewGroupLast, DeleteGroupEntry, UpdateGroupRename, UpdateGroupModify, AddMemberCheck,
      AddMember, DeleteMember, AddGroup, ReplaceSerial, DelGroup, RenameGroup, ModifyGroup,
      AddValue, DeleteValue, directory
<1>7. CASE \/ LastIDFailed(w) \/ LastIDAdd(w) \/ NewAccountFind(w) \/ NewAccountNoOU(w)
           \/ NewAccountUID(w) \/ NewAccountRetry(w) \/ NewAccountUIDAgain(w) \/ AccountByGID(w)
           \/ AccountGroup(w) \/ AccountGroupMade(w) \/ AccountGroupOwn(w) \/ AccountGroupGID(w)
           \/ NewAccountNotJoined(w) \/ NewAccountLast(w)
  BY <1>5, <1>7
  DEF LastIDFailed, LastIDAdd, NewAccountFind, NewAccountNoOU, NewAccountUID, NewAccountRetry,
      NewAccountUIDAgain, AccountByGID, AccountGroup, AccountGroupMade, AccountGroupOwn,
      AccountGroupGID, NewAccountNotJoined, NewAccountLast, AddDevice, ReplaceSerial, directory
<1>8. CASE \/ UpdateFind(w) \/ UpdateTaken(w) \/ UpdateGroups(w) \/ UpdateLeave(w) \/ UpdateJoin(w)
           \/ DeleteGroups(w) \/ DeleteLeave(w)
  BY <1>5, <1>8
  DEF UpdateFind, UpdateTaken, UpdateGroups, UpdateLeave, UpdateJoin, DeleteGroups, DeleteLeave,
      AddValue, DeleteValue, directory
<1>9. CASE SetupStep(w)
  BY <1>5, <1>9
  DEF SetupStep, SetupGroupsOU, SetupUsersOU, SetupLastGID, SetupLastUID, SetupAdminsGroup,
      SetupAdminMade, SetupAdminsMade, SetupAdminNotForced, SetupAdminForced, AddOU, AddValue,
      directory
<1> QED
  BY <1>1, <1>2, <1>3, <1>4, <1>6, <1>7, <1>8, <1>9 DEF Step, AccountStep

LEMMA LedNumbering ==
    ASSUME NEW p, NEW q, Numbering(p), Led(p, q), GIDsGrow
    PROVE  Numbering(q)'
<1>1. CASE q.pc = "new_account_add"
  <2>1. /\ GroupExists(q.group) /\ q.gid = group[q.group].gid /\ q.group \in Group
    BY <1>1 DEF Led, OpenLabel, UpdateLabel, RenameLabel, DeleteLabel
  <2>2. q.gid \in IDsInUse("GID")
    BY <2>1 DEF IDsInUse
  <2> QED
    BY <1>1, <2>2 DEF Numbering, UpdateGroupLabel, UpdateLabel, GIDsGrow
<1>2. CASE q.pc # "new_account_add"
  BY <1>2 DEF Numbering, Led, OpenLabel, UpdateGroupLabel, UpdateLabel, RenameLabel, DeleteLabel
<1> QED BY <1>1, <1>2

LEMMA GIDInvInit == Init => GIDInv
<1> SUFFICES ASSUME Init PROVE GIDInv
  OBVIOUS
<1>1. TypeInv /\ \A w \in Worker : proc[w] = Idle
  BY TypeInvInit DEF Init
<1>2. \A w \in Worker : Numbering(proc[w])
  BY <1>1, IdleOpen DEF Numbering, OpenLabel, UpdateGroupLabel, UpdateLabel
<1>3. Resolved
  <2>1. CASE EmptyDirectory
    BY <2>1 DEF EmptyDirectory, Resolved, AccountExists, NoAccount
  <2>2. CASE ReadyDirectory(Admin)
    <3>1. group[UsersGroup].gid = MinID + 1 /\ MinID + 1 # 0 /\ UsersGroup \in Group
      BY <2>2, DirectoryAssumption DEF ReadyDirectory
    <3>2. MinID + 1 \in IDsInUse("GID")
      BY <3>1 DEF IDsInUse, GroupExists
    <3>3. \A u \in User : AccountExists(u) => account[u].gid = MinID + 1
      BY <2>2 DEF ReadyDirectory, AccountExists, NoAccount
    <3> QED BY <3>2, <3>3 DEF Resolved
  <2> QED BY <2>1, <2>2 DEF Init
<1> QED BY <1>1, <1>2, <1>3 DEF GIDInv

LEMMA GIDInvStep ==
    ASSUME GroupsKeepNumbers
    PROVE  GIDInv /\ [Next]_vars => GIDInv'
<1> SUFFICES ASSUME GIDInv, [Next]_vars PROVE GIDInv'
  OBVIOUS
<1>1. TypeInv /\ TypeInv' /\ DirectoryTypeOK /\ proc \in [Worker -> ProcState(Label)]
      /\ \A w \in Worker : Known(proc[w])
  BY TypeInvStep DEF GIDInv, TypeInv, TypeOK
<1>2. ASSUME GIDsGrow, NEW v \in Worker, proc'[v] = proc[v] PROVE Numbering(proc[v])'
  <2>1. PICK x : x = proc[v]
    OBVIOUS
  <2>2. Numbering(x)'
    BY <1>2, <2>1, NumberingKept DEF GIDInv
  <2> QED
    BY <1>2, <2>1, <2>2
<1>3. ASSUME NEW v \in Worker, proc'[v].pc \in OpenLabel PROVE Numbering(proc[v])'
  BY <1>3 DEF Numbering, OpenLabel, UpdateGroupLabel, UpdateLabel
<1>4. ASSUME GIDsGrow, Resolved', NEW w \in Worker, NEW q, Become(w, q), Numbering(q)'
      PROVE  GIDInv'
  <2>1. \A v \in Worker : proc'[v] = IF v = w THEN q ELSE proc[v]
    BY <1>1, <1>4 DEF Become
  <2>2. Numbering(proc[w])'
    BY <1>4, <2>1
  <2> QED
    BY <1>1, <1>2, <1>4, <2>1, <2>2 DEF GIDInv
<1>5. UNCHANGED directory => GIDsGrow /\ Resolved'
  BY <1>1, DirectoryGIDs, AccountsResolved DEF directory, GIDInv
<1>6. CASE UNCHANGED <<directory, proc>>
  BY <1>1, <1>2, <1>5, <1>6 DEF GIDInv
<1>7. ASSUME NEW w \in Worker, Boot(w) PROVE GIDInv'
  <2>1. PICK q : q = SetupLDAP([Idle EXCEPT !.req.op = "SetupLDAP"]) /\ Become(w, q)
    BY <1>7 DEF Boot
  <2>2. Numbering(q)'
    BY <2>1, IdleOpen, OpenNumbering
  <2> QED
    BY <1>4, <1>5, <1>7, <2>1, <2>2 DEF Boot
<1>8. ASSUME NEW w \in Worker, Accept(w) PROVE GIDInv'
  <2>1. PICK r \in Requests : Become(w, Serve(r))
    BY <1>8 DEF Accept
  <2>2. PICK q : q = Serve(r)
    OBVIOUS
  <2>3. Numbering(q)'
    BY <2>2, ServeLeads
    DEF GroupsKeepNumbers, Numbering, OpenLabel, UpdateGroupLabel, UpdateLabel
  <2> QED
    BY <1>4, <1>5, <1>8, <2>1, <2>2, <2>3 DEF Accept
<1>9. ASSUME NEW w \in Worker, Step(w) PROVE GIDInv'
  <2>1. PICK p : p = proc[w]
    OBVIOUS
  <2>2. PICK q : Become(w, q) /\ Led(p, q)
    BY <1>1, <1>9, <2>1, StepLeads
  <2>3. Numbering(p)
    BY <2>1 DEF GIDInv
  <2>4. GIDsGrow /\ Resolved'
    BY <1>1, <1>9, StepGIDs, StepResolved DEF GIDInv
  <2>5. Numbering(q)'
    BY <2>2, <2>3, <2>4, LedNumbering
  <2> QED
    BY <1>4, <2>2, <2>4, <2>5
<1>10. ASSUME NEW w \in Worker, Reply(w) PROVE GIDInv'
  <2>1. PICK q : q = Idle /\ Become(w, q)
    BY <1>10 DEF Reply
  <2>2. Numbering(q)'
    BY <2>1, IdleOpen, OpenNumbering
  <2> QED
    BY <1>4, <1>5, <1>10, <2>1, <2>2 DEF Reply
<1>11. ASSUME NEW r \in Replica, Crash(r) PROVE GIDInv'
  <2>1. \A v \in Worker : proc'[v] \in {Idle, proc[v]}
    BY <1>11 DEF Crash
  <2>2. \A v \in Worker : Numbering(proc[v])'
    BY <1>2, <1>3, <1>5, <1>11, <2>1, IdleOpen DEF Crash
  <2> QED
    BY <1>1, <1>5, <1>11, <2>2 DEF Crash, GIDInv
<1> QED
  BY <1>6, <1>7, <1>8, <1>9, <1>10, <1>11 DEF Next, vars

\* As long as no client deletes or renumbers a group or hands out group numbers
\* itself, the gidNumber of every account is at every moment that of a group that
\* exists, whichever group NewAccount had to fall back to, however many replicas
\* look for groups and make them at once, and wherever a process died in between.
THEOREM GivenGroupsExist ==
    ASSUME GroupsKeepNumbers
    PROVE  Spec => []AccountGIDsResolve
<1>1. GIDInv => AccountGIDsResolve
  BY DEF GIDInv, Resolved, AccountGIDsResolve
<1> QED
  BY <1>1, GIDInvInit, GIDInvStep, PTL DEF Spec

-----------------------------------------------------------------------------
(* The membership that an account is given.                                *)

\* No client deletes or renames an account or removes one from the default group.
NobodyLeaves ==
    \A r \in Requests :
        /\ r.op # "DeleteAccount"
        /\ r.op = "UpdateAccount" => r.to \in {NoName, r.user}
        /\ r.op = "DeleteGroupMember" /\ r.admin => r.group # UsersGroup

\* What AddGroupMember takes for the existence of an account.
Enrolled(u) == GroupExists(UsersGroup) /\ IsMember(u, UsersGroup)
EnrolledStay == \A u \in User : Enrolled(u) => Enrolled(u)'

Staying(p) ==
    /\ p.pc \notin RenameLabel \cup DeleteLabel
    /\ p.pc = "update_find" => p.req.to \in {NoName, p.req.user}
    /\ p.pc = "delete_member" => p.req.group # UsersGroup

LEMMA LedStaying ==
    ASSUME NEW p, NEW q, Staying(p), Led(p, q)
    PROVE  Staying(q)
  BY DEF Staying, Led, OpenLabel, RenameLabel, DeleteLabel

LEMMA DirectoryEnrolled ==
    ASSUME DirectoryTypeOK, NEW u \in User, Enrolled(u)
    PROVE  /\ UNCHANGED group => IsMember(u, UsersGroup)'
           /\ \A g, e : AddGroup(g, e) => IsMember(u, UsersGroup)'
           /\ \A g \in Group : \A e : e.members = group[g].members /\ ModifyGroup(g, e) =>
                 IsMember(u, UsersGroup)'
           /\ \A g, h \in Group : g # UsersGroup /\ RenameGroup(g, h) => IsMember(u, UsersGroup)'
           /\ \A g : g # UsersGroup /\ DelGroup(g) => IsMember(u, UsersGroup)'
           /\ \A g, v : AddValue(g, v) => IsMember(u, UsersGroup)'
           /\ \A g, v : g # UsersGroup /\ DeleteValue(g, v) => IsMember(u, UsersGroup)'
<1> USE DirectoryAssumption DEF DirectoryTypeOK, Enrolled, IsMember
<1>1. UNCHANGED group => IsMember(u, UsersGroup)'
  OBVIOUS
<1>2. ASSUME NEW g, NEW e, AddGroup(g, e) PROVE IsMember(u, UsersGroup)'
  BY <1>2 DEF AddGroup, AddGroupCode
<1>3. ASSUME NEW g \in Group, NEW e, e.members = group[g].members, ModifyGroup(g, e)
      PROVE  IsMember(u, UsersGroup)'
  BY <1>3 DEF ModifyGroup
<1>4. ASSUME NEW g \in Group, NEW h \in Group, g # UsersGroup, RenameGroup(g, h)
      PROVE  IsMember(u, UsersGroup)'
  BY <1>4 DEF RenameGroup, RenameGroupCode
<1>5. ASSUME NEW g, g # UsersGroup, DelGroup(g) PROVE IsMember(u, UsersGroup)'
  BY <1>5 DEF DelGroup
<1>6. ASSUME NEW g, NEW v, AddValue(g, v) PROVE IsMember(u, UsersGroup)'
  BY <1>6 DEF AddValue, GroupEntry
<1>7. ASSUME NEW g, NEW v, g # UsersGroup, DeleteValue(g, v) PROVE IsMember(u, UsersGroup)'
  BY <1>7 DEF DeleteValue, GroupEntry
<1> QED
  BY <1>1, <1>2, <1>3, <1>4, <1>5, <1>6, <1>7

LEMMA StepEnrolled ==
    ASSUME NoProtectedRename, DirectoryTypeOK, NEW w \in Worker, Known(proc[w]),
           Staying(proc[w]), Step(w)
    PROVE  EnrolledStay
<1> DEFINE p == proc[w]
<1> SUFFICES ASSUME NEW u \in User, Enrolled(u) PROVE IsMember(u, UsersGroup)'
  BY StepKeepsProtected DEF EnrolledStay, Enrolled, Keeps
<1>0. Fits(p, p.pc)
  BY DEF Known
<1>1. CASE NewGroupAdd(w)
  BY <1>1, DirectoryEnrolled DEF NewGroupAdd
<1>2. CASE DeleteGroupEntry(w)
  BY <1>0, <1>2, DirectoryEnrolled DEF DeleteGroupEntry, At, Fits, IsProtectedGroup
<1>3. CASE UpdateGroupRename(w)
  BY <1>0, <1>3, DirectoryEnrolled DEF UpdateGroupRename, At, Fits, IsProtectedGroup
<1>4. CASE UpdateGroupModify(w)
  <2>1. p.group \in Group
    BY <1>0, <1>4 DEF UpdateGroupModify, At, Fits
  <2>2. PICK e : e.members = group[p.group].members /\ ModifyGroup(p.group, e)
    BY <1>4, <2>1 DEF UpdateGroupModify, DirectoryTypeOK, GroupEntry
  <2> QED BY <2>1, <2>2, DirectoryEnrolled
<1>5. CASE AddMember(w) \/ SetupAdminForced(w)
  BY <1>5, DirectoryEnrolled DEF AddMember, SetupAdminForced
<1>6. CASE DeleteMember(w)
  BY <1>6, DirectoryEnrolled DEF DeleteMember, At, Staying
<1>7. ~(\/ UpdateTaken(w) \/ UpdateRename(w) \/ UpdateGroups(w) \/ UpdateLeave(w) \/ UpdateJoin(w)
        \/ DeleteGroups(w) \/ DeleteLeave(w) \/ DeleteEntry(w))
  BY DEF Staying, RenameLabel, DeleteLabel, UpdateTaken, UpdateRename, UpdateGroups, UpdateLeave,
         UpdateJoin, DeleteGroups, DeleteLeave, DeleteEntry, At
<1>8. UNCHANGED group => IsMember(u, UsersGroup)'
  BY DirectoryEnrolled
<1>9. CASE HighestCached(w) \/ HighestScan(w) \/ NewGroupFind(w) \/ NewGroupRefused(w)
           \/ NewGroupLast(w) \/ AddMemberCheck(w)
  BY <1>8, <1>9
  DEF HighestCached, HighestScan, NewGroupFind, NewGroupRefused, NewGroupLast, AddMemberCheck,
      ReplaceSerial, directory
<1>10. CASE \/ LastIDFailed(w) \/ LastIDAdd(w) \/ NewAccountFind(w) \/ NewAccountNoOU(w)
            \/ NewAccountUID(w) \/ NewAccountRetry(w) \/ NewAccountUIDAgain(w) \/ AccountByGID(w)
            \/ AccountGroup(w) \/ AccountGroupMade(w) \/ AccountGroupOwn(w) \/ AccountGroupGID(w)
            \/ NewAccountAdd(w) \/ NewAccountNotJoined(w) \/ NewAccountLast(w)
  BY <1>8, <1>10
  DEF LastIDFailed, LastIDAdd, NewAccountFind, NewAccountNoOU, NewAccountUID, NewAccountRetry,
      NewAccountUIDAgain, AccountByGID, AccountGroup, AccountGroupMade, AccountGroupOwn,
      AccountGroupGID, NewAccountAdd, NewAccountNotJoined, NewAccountLast,
      AddDevice, AddAccount, ReplaceSerial, directory
<1>11. CASE UpdateFind(w) \/ UpdateModify(w)
  BY <1>8, <1>11 DEF UpdateFind, UpdateModify, ModifyAccount, directory
<1>12. CASE SetupStep(w)
  BY <1>5, <1>8, <1>12
  DEF SetupStep, SetupGroupsOU, SetupUsersOU, SetupLastGID, SetupLastUID, SetupAdminsGroup,
      SetupAdminMade, SetupAdminsMade, SetupAdminNotForced, AddOU, directory
<1> QED
  BY <1>1, <1>2, <1>3, <1>4, <1>5, <1>6, <1>7, <1>9, <1>10, <1>11, <1>12
  DEF Step, GroupStep, AccountStep

-----------------------------------------------------------------------------
(* A NewAccount request from its acceptance to its answer.                 *)

HighestLabel == {"highest_cached", "highest_scan"}
MakingLabel == {"new_group_find", "new_group_add", "new_group_last"}
AddingLabel == {"add_member_check", "add_member"}
CountedLabel == {"last_id_add", "new_account_uid", "new_account_uid_again", "new_group_add"}
CreatorLabel ==
    {"new_account_find", "new_account_no_ou", "new_account_uid", "last_id_add",
     "new_account_retry", "new_account_uid_again", "account_group", "account_group_made",
     "account_group_own", "account_group_gid", "account_by_gid", "new_account_add",
     "new_account_joined", "reply"} \cup HighestLabel \cup MakingLabel \cup AddingLabel

\* What getHighestID was called from, at its own labels.
Within(p) == IF p.pc \in HighestLabel THEN p.ret["getHighestID"] ELSE p.pc

\* The functions under way return into NewAccount, and NewAccount to the handler.
CreatorCalls(p) ==
    /\ p.ret["NewAccount"] = "reply"
    /\ p.pc \in HighestLabel => p.ret["getHighestID"] \in CountedLabel
    /\ Within(p) = "last_id_add" => p.ret["setupLastID"] = "new_account_retry"
    /\ Within(p) \in MakingLabel =>
          p.ret["NewGroup"] \in {"new_account_no_ou", "account_group_made", "account_group_own"}
    /\ p.pc \in AddingLabel => p.ret["AddGroupMember"] = "new_account_joined"

\* A group of the account's own is only joined by a member of the default group.
Creating(p) ==
    /\ p.pc \in CreatorLabel
    /\ CreatorCalls(p)
    /\ p.pc \in {"account_group_gid", "new_account_add"} => p.group \in User \cup {UsersGroup}
    /\ p.pc = "add_member" => p.group = UsersGroup \/ Enrolled(p.user)
    /\ p.pc = "new_account_joined" /\ p.err \in {"ok", "MemberExists"} => Enrolled(p.user)
    /\ p.pc = "reply" /\ p.err = "ok" => Enrolled(p.user)

CreatorInv ==
    /\ TypeInv
    /\ \A w \in Worker : /\ Staying(proc[w])
                         /\ proc[w].req.op = "NewAccount" => Creating(proc[w])

CreatingStep(w) == \E q : Become(w, q) /\ Creating(q)'

\* The labels at which nothing is known of the account.
EarlyLabel ==
    {"new_account_find", "new_account_no_ou", "new_account_uid", "new_account_retry",
     "new_account_uid_again", "account_group", "account_group_made", "account_group_own",
     "account_by_gid"}

LEMMA CreatorSteps ==
    ASSUME NEW p, Known(p), p.ret["NewAccount"] = "reply"
    PROVE  /\ \A err : err # "ok" => Creating(Return(p, "NewAccount", err))'
           /\ \A l \in EarlyLabel : Creating(Goto(p, l))'
           /\ \A S, g : \A l \in {"new_account_no_ou", "account_group_made", "account_group_own"} :
                 Creating(NewGroup(p, g, S, l))'
           /\ \A k : \A l \in {"new_account_uid", "new_account_uid_again"} :
                 Creating(GetHighestID(p, k, l))'
           /\ \A k : Creating(SetupLastID(p, k, "new_account_retry"))'
           /\ Creating(ChooseGroup(p))'
           /\ Creating(ChooseUID(p))'
<1> USE DEF HighestLabel, MakingLabel, AddingLabel, CountedLabel
<1>0. p \in ProcState(Label) /\ Function = {"getHighestID", "setupLastID", "NewGroup", "AddGroupMember", "NewAccount"}
  BY DEF Known, Function
<1>1. ASSUME NEW q, q.pc \in EarlyLabel, q.ret["NewAccount"] = "reply"
      PROVE  Creating(q)'
  BY <1>1 DEF EarlyLabel, Creating, CreatorCalls, CreatorLabel, Within
<1>2. ASSUME NEW err, err # "ok" PROVE Creating(Return(p, "NewAccount", err))'
  <2> DEFINE q == Return(p, "NewAccount", err)
  <2>1. q.pc = "reply" /\ q.err # "ok" /\ q.ret = p.ret
    BY <1>0, <1>2 DEF Return, ProcState
  <2> HIDE DEF q
  <2>2. Creating(q)'
    BY <2>1 DEF Creating, CreatorCalls, CreatorLabel, Within
  <2> QED BY <2>2 DEF q
<1>3. ASSUME NEW l \in EarlyLabel PROVE Creating(Goto(p, l))'
  <2>1. Goto(p, l).pc = l /\ Goto(p, l).ret = p.ret
    BY <1>0 DEF Goto, ProcState
  <2> QED BY <1>1, <1>3, <2>1
<1>4. ASSUME NEW S, NEW g, NEW l \in {"new_account_no_ou", "account_group_made", "account_group_own"}
      PROVE  Creating(NewGroup(p, g, S, l))'
  <2> DEFINE q == NewGroup(p, g, S, l)
  <2>1. /\ q.pc = "new_group_find" /\ q.ret["NewGroup"] = l /\ q.ret["NewAccount"] = "reply"
    BY <1>0 DEF NewGroup, ProcState
  <2> HIDE DEF q
  <2>2. Creating(q)'
    BY <1>4, <2>1 DEF Creating, CreatorCalls, CreatorLabel, Within
  <2> QED BY <2>2 DEF q
<1>5. ASSUME NEW k, NEW l \in {"new_account_uid", "new_account_uid_again"}
      PROVE  Creating(GetHighestID(p, k, l))'
  <2> DEFINE q == GetHighestID(p, k, l)
  <2>1. /\ q.pc = "highest_cached" /\ q.ret["getHighestID"] = l /\ q.ret["NewAccount"] = "reply"
    BY <1>0 DEF GetHighestID, ProcState
  <2> HIDE DEF q
  <2>2. Creating(q)'
    BY <1>5, <2>1 DEF Creating, CreatorCalls, CreatorLabel, Within
  <2> QED BY <2>2 DEF q
<1>6. ASSUME NEW k PROVE Creating(SetupLastID(p, k, "new_account_retry"))'
  <2> DEFINE q == SetupLastID(p, k, "new_account_retry")
  <2>1. /\ q.pc = "highest_cached" /\ q.ret["getHighestID"] = "last_id_add"
        /\ q.ret["setupLastID"] = "new_account_retry" /\ q.ret["NewAccount"] = "reply"
    BY <1>0 DEF SetupLastID, GetHighestID, ProcState
  <2> HIDE DEF q
  <2>2. Creating(q)'
    BY <2>1 DEF Creating, CreatorCalls, CreatorLabel, Within
  <2> QED BY <2>2 DEF q
<1>7. ASSUME NEW q, q \in ProcState(Label), q.ret["NewAccount"] = "reply"
      PROVE  Creating(ChooseGroup(q))'
  <2>1. ChooseGroup(q).pc \in {"account_by_gid", "account_group"} /\ ChooseGroup(q).ret = q.ret
    BY <1>7 DEF ChooseGroup, Goto, ProcState
  <2> QED BY <1>1, <1>7, <2>1 DEF EarlyLabel
<1>8. Creating(ChooseUID(p))'
  <2>1. CASE p.req.uid >= MinID
    <3>1. p.req.uid \in Nat
      BY <1>0 DEF ProcState, Request
    <3>2. /\ [p EXCEPT !.uid = p.req.uid] \in ProcState(Label)
          /\ [p EXCEPT !.uid = p.req.uid].ret = p.ret
      BY <1>0, <3>1 DEF ProcState
    <3>3. PICK q : q = [p EXCEPT !.uid = p.req.uid]
      OBVIOUS
    <3> QED BY <1>7, <2>1, <3>2, <3>3 DEF ChooseUID
  <2>2. CASE ~(p.req.uid >= MinID)
    BY <1>5, <2>2 DEF ChooseUID
  <2> QED BY <2>1, <2>2
<1> QED
  BY <1>0, <1>2, <1>3, <1>4, <1>5, <1>6, <1>7, <1>8

LEMMA CreatorGroupStep ==
    ASSUME DirectoryTypeOK, NEW w \in Worker, Known(proc[w]), Creating(proc[w]),
           GroupStep(w), EnrolledStay
    PROVE  CreatingStep(w)
<1> USE DEF HighestLabel, MakingLabel, AddingLabel, CountedLabel
<1>0. PICK p : p = proc[w]
  OBVIOUS
<1>1. /\ Known(p) /\ Creating(p) /\ CreatorCalls(p) /\ p \in ProcState(Label)
      /\ p.ret["NewAccount"] = "reply" /\ p.user \in User \cup {NoName}
      /\ Function = {"getHighestID", "setupLastID", "NewGroup", "AddGroupMember", "NewAccount"}
  BY <1>0 DEF Known, Creating, CreatorCalls, ProcState, Function
<1>2. ASSUME NEW q, Become(w, q), Creating(q)' PROVE CreatingStep(w)
  BY <1>2 DEF CreatingStep
<1>3. ASSUME p.pc \in HighestLabel, NEW q, q.ret = p.ret,
             q.pc = p.ret["getHighestID"]
      PROVE  Creating(q)'
  BY <1>1, <1>3 DEF Creating, CreatorCalls, CreatorLabel, Within
<1>4. ASSUME p.pc \in MakingLabel, NEW err PROVE Creating(Return(p, "NewGroup", err))'
  <2>1. Return(p, "NewGroup", err).pc = p.ret["NewGroup"] /\ Return(p, "NewGroup", err).ret = p.ret
    BY <1>1 DEF Return, ProcState
  <2>2. p.ret["NewGroup"] \in {"new_account_no_ou", "account_group_made", "account_group_own"}
    BY <1>1, <1>4 DEF CreatorCalls, Within
  <2>3. PICK q : q = Return(p, "NewGroup", err)
    OBVIOUS
  <2>4. Creating(q)'
    BY <1>1, <2>1, <2>2, <2>3 DEF Creating, CreatorCalls, CreatorLabel, Within
  <2> QED BY <2>3, <2>4
<1>5. CASE HighestCached(w)
  <2>1. p.pc = "highest_cached"
    BY <1>0, <1>5 DEF HighestCached, At
  <2> DEFINE q1 == Return([p EXCEPT !.high = lastID[p.kind]], "getHighestID", "ok")
             q2 == Goto(p, "highest_scan")
  <2>2. /\ q1.ret = p.ret /\ q1.pc = p.ret["getHighestID"]
        /\ q2.ret = p.ret /\ q2.pc = "highest_scan"
    BY <1>1 DEF Return, Goto, ProcState
  <2>3. Become(w, q1) \/ Become(w, q2)
    BY <1>0, <1>5 DEF HighestCached
  <2> HIDE DEF q1, q2
  <2>4. PICK q : Become(w, q) /\ q.ret = p.ret /\ q.pc \in {p.ret["getHighestID"], "highest_scan"}
    BY <2>2, <2>3
  <2>5. CASE q.pc = "highest_scan"
    <3>1. Creating(q)'
      BY <1>1, <2>1, <2>4, <2>5 DEF Creating, CreatorCalls, CreatorLabel, Within
    <3> QED BY <1>2, <2>4, <3>1
  <2> QED BY <1>2, <1>3, <2>1, <2>4, <2>5
<1>6. CASE HighestScan(w)
  <2>1. p.pc = "highest_scan"
    BY <1>0, <1>6 DEF HighestScan, At
  <2>2. \E h : Become(w, Return([p EXCEPT !.high = h], "getHighestID", "ok"))
        \/ Become(w, Return(p, "getHighestID", "NoSuchObject"))
    BY <1>0, <1>6 DEF HighestScan
  <2>3. \A h : /\ Return([p EXCEPT !.high = h], "getHighestID", "ok").ret = p.ret
               /\ Return([p EXCEPT !.high = h], "getHighestID", "ok").pc = p.ret["getHighestID"]
    BY <1>1 DEF Return, ProcState
  <2>4. /\ Return(p, "getHighestID", "NoSuchObject").ret = p.ret
        /\ Return(p, "getHighestID", "NoSuchObject").pc = p.ret["getHighestID"]
    BY <1>1 DEF Return, ProcState
  <2>5. PICK q : Become(w, q) /\ q.ret = p.ret /\ q.pc = p.ret["getHighestID"]
    BY <2>2, <2>3, <2>4
  <2> QED BY <1>2, <1>3, <2>1, <2>5
<1>7. CASE NewGroupFind(w) \/ NewGroupRefused(w) \/ NewGroupAdd(w) \/ NewGroupLast(w)
  <2>1. p.pc \in MakingLabel
    BY <1>0, <1>7 DEF NewGroupFind, NewGroupRefused, NewGroupAdd, NewGroupLast, At
  <2>2. \A err : Creating(Return(p, "NewGroup", err))'
    BY <1>4, <2>1
  <2> DEFINE q1 == GetHighestID(p, "GID", "new_group_add")
             q2 == Goto([p EXCEPT !.newGID = p.high + 1], "new_group_last")
  <2>3. /\ q1.pc = "highest_cached" /\ q1.ret["getHighestID"] = "new_group_add"
        /\ q1.ret["NewGroup"] = p.ret["NewGroup"] /\ q1.ret["NewAccount"] = "reply"
        /\ q2.pc = "new_group_last" /\ q2.ret = p.ret
    BY <1>1 DEF GetHighestID, Goto, ProcState
  <2>4. p.ret["NewGroup"] \in {"new_account_no_ou", "account_group_made", "account_group_own"}
    BY <1>1, <2>1 DEF CreatorCalls, Within
  <2>5. (\E err : Become(w, Return(p, "NewGroup", err))) \/ Become(w, q1) \/ Become(w, q2)
    BY <1>0, <1>7 DEF NewGroupFind, NewGroupRefused, NewGroupAdd, NewGroupLast
  <2> HIDE DEF q1, q2
  <2>6. Creating(q1)' /\ Creating(q2)'
    BY <1>1, <2>3, <2>4 DEF Creating, CreatorCalls, CreatorLabel, Within
  <2>7. CASE \E err : Become(w, Return(p, "NewGroup", err))
    <3>1. PICK err : Become(w, Return(p, "NewGroup", err))
      BY <2>7
    <3> QED BY <1>2, <2>2, <3>1
  <2> QED BY <1>2, <2>5, <2>6, <2>7
<1>8. ~(DeleteGroupEntry(w) \/ UpdateGroupRename(w) \/ UpdateGroupModify(w) \/ DeleteMember(w))
  BY <1>0, <1>1
  DEF DeleteGroupEntry, UpdateGroupRename, UpdateGroupModify, DeleteMember, At, Creating,
      CreatorLabel
<1>9. ASSUME p.pc \in AddingLabel, NEW err, err \in {"ok", "MemberExists"} => Enrolled(p.user)'
      PROVE  Creating(Return(p, "AddGroupMember", err))'
  <2> DEFINE r == Return(p, "AddGroupMember", err)
  <2>1. r.pc = p.ret["AddGroupMember"] /\ r.ret = p.ret /\ r.err = err /\ r.user = p.user
    BY <1>1 DEF Return, ProcState
  <2>2. PICK q : q = r
    OBVIOUS
  <2> HIDE DEF r
  <2>3. q.pc = "new_account_joined"
    BY <1>1, <1>9, <2>1, <2>2 DEF CreatorCalls
  <2>4. Creating(q)'
    BY <1>1, <1>9, <2>1, <2>2, <2>3 DEF Creating, CreatorCalls, CreatorLabel, Within
  <2> QED BY <2>2, <2>4 DEF r
<1>10. CASE AddMemberCheck(w)
  <2>1. p.pc = "add_member_check" /\ p.user \in User
    BY <1>0, <1>1, <1>10 DEF AddMemberCheck, At, Known, Fits, UserLabel
  <2>2. CASE \E err \in {"Failed", "NoAccount"} : Become(w, Return(p, "AddGroupMember", err))
    BY <1>2, <1>9, <2>1, <2>2
  <2>3. CASE Enrolled(p.user) /\ Become(w, Goto(p, "add_member"))
    <3>1. PICK q : q = Goto(p, "add_member")
      OBVIOUS
    <3>2. q.pc = "add_member" /\ q.ret = p.ret /\ q.user = p.user
      BY <1>1, <3>1 DEF Goto, ProcState
    <3>3. Enrolled(p.user)'
      BY <2>1, <2>3 DEF EnrolledStay
    <3>4. Creating(q)'
      BY <1>1, <2>1, <3>2, <3>3 DEF Creating, CreatorCalls, CreatorLabel, Within
    <3> QED BY <1>2, <2>3, <3>1, <3>4
  <2> QED
    BY <1>0, <1>10, <2>2, <2>3 DEF AddMemberCheck, Enrolled
<1>11. CASE AddMember(w)
  <2>1. p.pc = "add_member" /\ p.user \in User
    BY <1>0, <1>1, <1>11 DEF AddMember, At, Known, Fits, UserLabel
  <2>2. PICK err : err = AddMemberError(p.group, p.user)
    OBVIOUS
  <2>3. ASSUME p.group = UsersGroup, err \in {"ok", "MemberExists"} PROVE Enrolled(p.user)'
    <3>1. AddValueCode(UsersGroup, p.user) \in {"ok", "ValueExists"}
      BY <2>2, <2>3 DEF AddMemberError
    <3>2. GroupExists(UsersGroup)
      BY <3>1 DEF AddValueCode
    <3>3. CASE AddValueCode(UsersGroup, p.user) = "ok"
      <4>1. group' = [group EXCEPT ![UsersGroup].members = @ \cup {p.user}]
        BY <1>0, <1>11, <2>3, <3>3 DEF AddMember, AddValue
      <4> QED
        BY <3>2, <4>1, DirectoryAssumption DEF Enrolled, GroupExists, IsMember, DirectoryTypeOK, GroupEntry
    <3>4. CASE AddValueCode(UsersGroup, p.user) = "ValueExists"
      <4>1. Enrolled(p.user)
        BY <3>2, <3>4 DEF Enrolled, AddValueCode
      <4> QED BY <2>1, <4>1 DEF EnrolledStay
    <3> QED BY <3>1, <3>3, <3>4
  <2>4. err \in {"ok", "MemberExists"} => Enrolled(p.user)'
    BY <1>1, <2>1, <2>3 DEF Creating, EnrolledStay
  <2>5. Become(w, Return(p, "AddGroupMember", err))
    BY <1>0, <1>11, <2>2 DEF AddMember
  <2> QED BY <1>2, <1>9, <2>1, <2>4, <2>5
<1> QED
  BY <1>5, <1>6, <1>7, <1>8, <1>10, <1>11 DEF GroupStep

LEMMA CreatorAccountStep ==
    ASSUME DirectoryTypeOK, NEW w \in Worker, Known(proc[w]), Creating(proc[w]),
           AccountStep(w), EnrolledStay
    PROVE  CreatingStep(w)
<1> USE DEF HighestLabel, MakingLabel, AddingLabel, CountedLabel
<1>0. PICK p : p = proc[w]
  OBVIOUS
<1>1. /\ Known(p) /\ Creating(p) /\ CreatorCalls(p) /\ p \in ProcState(Label)
      /\ p.ret["NewAccount"] = "reply" /\ p.user \in User \cup {NoName}
      /\ Function = {"getHighestID", "setupLastID", "NewGroup", "AddGroupMember", "NewAccount"}
  BY <1>0 DEF Known, Creating, CreatorCalls, ProcState, Function
<1>2. ASSUME NEW q, Become(w, q), Creating(q)' PROVE CreatingStep(w)
  BY <1>2 DEF CreatingStep
<1>3. /\ \A err : err # "ok" => Creating(Return(p, "NewAccount", err))'
      /\ \A l \in EarlyLabel : Creating(Goto(p, l))'
      /\ \A S, g : \A l \in {"new_account_no_ou", "account_group_made", "account_group_own"} :
            Creating(NewGroup(p, g, S, l))'
      /\ \A k : \A l \in {"new_account_uid", "new_account_uid_again"} :
            Creating(GetHighestID(p, k, l))'
      /\ \A k : Creating(SetupLastID(p, k, "new_account_retry"))'
      /\ Creating(ChooseUID(p))'
  BY <1>1, CreatorSteps
<1>4. CASE LastIDFailed(w) \/ LastIDAdd(w)
  <2>1. p.pc = "last_id_add"
    BY <1>0, <1>4 DEF LastIDFailed, LastIDAdd, At
  <2>2. PICK err : Become(w, Return(p, "setupLastID", err))
    BY <1>0, <1>4 DEF LastIDFailed, LastIDAdd
  <2>3. PICK q : q = Return(p, "setupLastID", err)
    OBVIOUS
  <2>4. q.pc = p.ret["setupLastID"] /\ q.ret = p.ret
    BY <1>1, <2>3 DEF Return, ProcState
  <2>5. q.pc = "new_account_retry"
    BY <1>1, <2>1, <2>4 DEF CreatorCalls, Within
  <2>6. Creating(q)'
    BY <1>1, <2>4, <2>5 DEF Creating, CreatorCalls, CreatorLabel, Within
  <2> QED BY <1>2, <2>2, <2>3, <2>6
<1>5. CASE NewAccountFind(w)
  <2>1. \/ Become(w, NewGroup(p, UsersGroup, {p.user}, "new_account_no_ou"))
        \/ Become(w, Return(p, "NewAccount", "AccountExists"))
        \/ Become(w, ChooseUID(p))
    BY <1>0, <1>5 DEF NewAccountFind
  <2> QED BY <1>2, <1>3, <2>1
<1>6. CASE NewAccountNoOU(w)
  <2>1. Become(w, Return(p, "NewAccount", "Failed")) \/ Become(w, ChooseUID(p))
    BY <1>0, <1>6 DEF NewAccountNoOU
  <2> QED BY <1>2, <1>3, <2>1
<1>7. CASE NewAccountUID(w) \/ NewAccountRetry(w) \/ NewAccountUIDAgain(w)
  <2>1. PICK q : q = [p EXCEPT !.uid = p.high + 1]
    OBVIOUS
  <2>2. Known(q) /\ q.ret["NewAccount"] = "reply"
    <3>1. p.high + 1 \in Nat
      BY <1>1 DEF ProcState
    <3>2. Known(q)
      BY <1>1, <2>1, <3>1, LocalKnown
    <3>3. q.ret = p.ret
      BY <1>1, <2>1 DEF ProcState
    <3> QED BY <1>1, <3>2, <3>3
  <2>3. Creating(ChooseGroup(q))'
    BY <2>2, CreatorSteps
  <2>4. \/ Become(w, ChooseGroup(q))
        \/ Become(w, SetupLastID(p, "UID", "new_account_retry"))
        \/ Become(w, GetHighestID(p, "UID", "new_account_uid_again"))
        \/ Become(w, Return(p, "NewAccount", "Failed"))
    BY <1>0, <1>7, <2>1 DEF NewAccountUID, NewAccountRetry, NewAccountUIDAgain
  <2> QED BY <1>2, <1>3, <2>3, <2>4
<1>8. CASE AccountByGID(w)
  <2>1. \E err \in {"Failed", "NoSuchObject"} : Become(w, Return(p, "NewAccount", err))
    BY <1>0, <1>8 DEF AccountByGID
  <2> QED BY <1>2, <1>3, <2>1
<1>9. ASSUME NEW g \in User \cup {UsersGroup}, NEW q, Become(w, q), q.ret = p.ret,
             q.pc \in {"new_account_add", "account_group_gid"}, q.group = g
      PROVE  CreatingStep(w)
  <2>1. Creating(q)'
    BY <1>1, <1>9 DEF Creating, CreatorCalls, CreatorLabel, Within
  <2> QED BY <1>2, <1>9, <2>1
<1>10. ASSUME NEW g PROVE /\ UseGroup(p, g).ret = p.ret /\ UseGroup(p, g).pc = "new_account_add"
                          /\ UseGroup(p, g).group = g
                          /\ Goto([p EXCEPT !.group = g], "account_group_gid").ret = p.ret
                          /\ Goto([p EXCEPT !.group = g], "account_group_gid").pc = "account_group_gid"
                          /\ Goto([p EXCEPT !.group = g], "account_group_gid").group = g
  BY <1>1 DEF UseGroup, Goto, ProcState
<1>11. CASE AccountGroup(w)
  <2>1. \/ Become(w, UseGroup(p, UsersGroup))
        \/ Become(w, NewGroup(p, UsersGroup, {p.user}, "account_group_made"))
    BY <1>0, <1>11 DEF AccountGroup
  <2>2. CASE Become(w, UseGroup(p, UsersGroup))
    BY <1>9, <1>10, <2>2
  <2> QED BY <1>2, <1>3, <2>1, <2>2
<1>12. CASE AccountGroupMade(w)
  <2>1. \/ Become(w, Goto([p EXCEPT !.group = UsersGroup], "account_group_gid"))
        \/ Become(w, NewGroup(p, p.user, {p.user}, "account_group_own"))
    BY <1>0, <1>12 DEF AccountGroupMade
  <2>2. CASE Become(w, Goto([p EXCEPT !.group = UsersGroup], "account_group_gid"))
    BY <1>9, <1>10, <2>2
  <2> QED BY <1>2, <1>3, <2>1, <2>2
<1>13. CASE AccountGroupOwn(w)
  <2>1. p.user \in User
    BY <1>0, <1>1, <1>13 DEF AccountGroupOwn, At, Known, Fits, UserLabel
  <2>2. \/ Become(w, Goto([p EXCEPT !.group = p.user], "account_group_gid"))
        \/ Become(w, Return(p, "NewAccount", "Failed"))
    BY <1>0, <1>13 DEF AccountGroupOwn
  <2>3. CASE Become(w, Goto([p EXCEPT !.group = p.user], "account_group_gid"))
    BY <1>9, <1>10, <2>1, <2>3
  <2> QED BY <1>2, <1>3, <2>2, <2>3
<1>14. CASE AccountGroupGID(w)
  <2>1. p.group \in User \cup {UsersGroup}
    BY <1>0, <1>1, <1>14 DEF AccountGroupGID, At, Creating
  <2>2. Become(w, UseGroup(p, p.group)) \/ Become(w, Return(p, "NewAccount", "Failed"))
    BY <1>0, <1>14 DEF AccountGroupGID
  <2>3. CASE Become(w, UseGroup(p, p.group))
    BY <1>9, <1>10, <2>1, <2>3
  <2> QED BY <1>2, <1>3, <2>2, <2>3
<1>15. CASE NewAccountAdd(w)
  <2>1. p.group \in User \cup {UsersGroup}
    BY <1>0, <1>1, <1>15 DEF NewAccountAdd, At, Creating
  <2>2. PICK q : q = AddGroupMember(p, p.group, p.user, FALSE, "new_account_joined")
    OBVIOUS
  <2>3. /\ q.group = p.group /\ q.ret["AddGroupMember"] = "new_account_joined"
        /\ q.ret["NewAccount"] = "reply"
        /\ q.pc = IF IsProtectedGroup(p.group) THEN "add_member" ELSE "add_member_check"
    BY <1>1, <2>2 DEF AddGroupMember, ProcState
  <2>4. q.pc = "add_member" => q.group = UsersGroup
    BY <2>1, <2>3, DirectoryAssumption DEF IsProtectedGroup
  <2>5. Creating(q)'
    BY <2>3, <2>4 DEF Creating, CreatorCalls, CreatorLabel, Within
  <2>6. Become(w, q) \/ \E err \in {"AccountExists", "Failed"} : Become(w, Return(p, "NewAccount", err))
    BY <1>0, <1>15, <2>2 DEF NewAccountAdd
  <2> QED BY <1>2, <1>3, <2>5, <2>6
<1>16. CASE NewAccountNotJoined(w)
  <2>1. Become(w, Return(p, "NewAccount", "Failed"))
    BY <1>0, <1>16 DEF NewAccountNotJoined
  <2> QED BY <1>2, <1>3, <2>1
<1>17. CASE NewAccountLast(w)
  <2>1. p.pc = "new_account_joined" /\ p.err \in {"ok", "MemberExists"}
    BY <1>0, <1>17 DEF NewAccountLast, At
  <2>2. p.user \in User
    BY <1>1, <2>1 DEF Known, Fits, UserLabel
  <2>3. Enrolled(p.user)'
    BY <1>1, <2>1, <2>2 DEF Creating, EnrolledStay
  <2>4. PICK err : Become(w, Return(p, "NewAccount", err))
    BY <1>0, <1>17 DEF NewAccountLast
  <2>5. PICK q : q = Return(p, "NewAccount", err)
    OBVIOUS
  <2>6. q.pc = "reply" /\ q.ret = p.ret /\ q.user = p.user
    BY <1>1, <2>5 DEF Return, ProcState
  <2>7. Creating(q)'
    BY <1>1, <2>3, <2>6 DEF Creating, CreatorCalls, CreatorLabel, Within
  <2> QED BY <1>2, <2>4, <2>5, <2>7
<1>18. ~(\/ UpdateFind(w) \/ UpdateTaken(w) \/ UpdateRename(w) \/ UpdateGroups(w) \/ UpdateLeave(w)
         \/ UpdateJoin(w) \/ UpdateModify(w) \/ DeleteGroups(w) \/ DeleteLeave(w) \/ DeleteEntry(w))
  BY <1>0, <1>1
  DEF UpdateFind, UpdateTaken, UpdateRename, UpdateGroups, UpdateLeave, UpdateJoin, UpdateModify,
      DeleteGroups, DeleteLeave, DeleteEntry, At, Creating, CreatorLabel
<1> QED
  BY <1>4, <1>5, <1>6, <1>7, <1>8, <1>11, <1>12, <1>13, <1>14, <1>15, <1>16, <1>17, <1>18
  DEF AccountStep

LEMMA CreatingKept ==
    ASSUME DirectoryTypeOK, EnrolledStay, NEW p, Creating(p)
    PROVE  Creating(p)'
<1>1. \A u : Enrolled(u) => u \in User
  BY DirectoryAssumption DEF Enrolled, IsMember, DirectoryTypeOK, GroupEntry
<1>2. Enrolled(p.user) => Enrolled(p.user)'
  BY <1>1 DEF EnrolledStay
<1> QED
  BY <1>2 DEF Creating

LEMMA ServeCreating ==
    ASSUME NEW r \in Requests, r.op = "NewAccount"
    PROVE  Creating(Serve(r))'
<1>1. Serve(r) = NewAccount([Idle EXCEPT !.req = r], r.user, "reply")
  BY DEF Serve
<1>2. PICK q : q = NewAccount([Idle EXCEPT !.req = r], r.user, "reply")
  OBVIOUS
<1>3. q.pc = "new_account_find" /\ q.ret["NewAccount"] = "reply"
  BY <1>2 DEF NewAccount, Idle, Function
<1>4. Creating(q)'
  BY <1>3 DEF Creating, CreatorCalls, CreatorLabel, Within, HighestLabel, MakingLabel, AddingLabel
<1> QED
  BY <1>1, <1>2, <1>4

LEMMA CreatorInvInit == Init => CreatorInv
<1> SUFFICES ASSUME Init PROVE CreatorInv
  OBVIOUS
<1>1. TypeInv /\ \A w \in Worker : proc[w] = Idle
  BY TypeInvInit DEF Init
<1>2. Staying(Idle) /\ Idle.req.op # "NewAccount"
  BY IdleOpen DEF Staying, OpenLabel, RenameLabel, DeleteLabel
<1> QED
  BY <1>1, <1>2 DEF CreatorInv

LEMMA CreatorInvStep ==
    ASSUME NoProtectedRename, NobodyLeaves
    PROVE  CreatorInv /\ [Next]_vars => CreatorInv'
<1> SUFFICES ASSUME CreatorInv, [Next]_vars PROVE CreatorInv'
  OBVIOUS
<1>1. TypeInv /\ TypeInv' /\ DirectoryTypeOK /\ proc \in [Worker -> ProcState(Label)]
      /\ \A w \in Worker : Known(proc[w])
  BY TypeInvStep DEF CreatorInv, TypeInv, TypeOK
<1>2. EnrolledStay
  <2>1. CASE UNCHANGED directory
    BY <2>1 DEF directory, EnrolledStay, Enrolled, GroupExists, IsMember
  <2>2. ASSUME NEW w \in Worker, Step(w) PROVE EnrolledStay
    BY <1>1, <2>2, StepEnrolled DEF CreatorInv
  <2> QED
    BY <2>1, <2>2 DEF Next, vars, Boot, Accept, Reply, Crash
<1>3. ASSUME NEW q, q.pc \in OpenLabel
      PROVE  Staying(q)
  BY <1>3 DEF Staying, OpenLabel, RenameLabel, DeleteLabel
<1>4. ASSUME NEW v \in Worker, NEW q, proc'[v] = q, Staying(q),
             q.req.op = "NewAccount" => Creating(q)'
      PROVE  (Staying(proc[v]) /\ (proc[v].req.op = "NewAccount" => Creating(proc[v])))'
  <2>1. Staying(proc'[v])
    BY <1>4
  <2>2. CASE q.req.op = "NewAccount"
    BY <1>4, <2>1, <2>2 DEF Staying
  <2>3. CASE q.req.op # "NewAccount"
    BY <1>4, <2>1, <2>3 DEF Staying
  <2> QED BY <2>2, <2>3
<1>5. ASSUME NEW v \in Worker, proc'[v] = proc[v]
      PROVE  (Staying(proc[v]) /\ (proc[v].req.op = "NewAccount" => Creating(proc[v])))'
  <2>1. PICK q : q = proc[v]
    OBVIOUS
  <2>2. Staying(q) /\ (q.req.op = "NewAccount" => Creating(q)')
    BY <1>1, <1>2, <2>1, CreatingKept DEF CreatorInv
  <2>3. proc'[v] = q
    BY <1>5, <2>1
  <2> QED BY <1>4, <2>2, <2>3
<1>6. ASSUME NEW w \in Worker, NEW q, Become(w, q), Staying(q),
             q.req.op = "NewAccount" => Creating(q)'
      PROVE  CreatorInv'
  <2>1. \A v \in Worker : proc'[v] = IF v = w THEN q ELSE proc[v]
    BY <1>1, <1>6 DEF Become
  <2>2. (Staying(proc[w]) /\ (proc[w].req.op = "NewAccount" => Creating(proc[w])))'
    BY <1>4, <1>6, <2>1
  <2>3. \A v \in Worker \ {w} :
           (Staying(proc[v]) /\ (proc[v].req.op = "NewAccount" => Creating(proc[v])))'
    BY <1>5, <2>1
  <2> QED
    BY <1>1, <2>2, <2>3 DEF CreatorInv
<1>7. CASE UNCHANGED proc
  BY <1>1, <1>5, <1>7 DEF CreatorInv
<1>8. ASSUME NEW w \in Worker, Boot(w) PROVE CreatorInv'
  <2>1. PICK q : q = SetupLDAP([Idle EXCEPT !.req.op = "SetupLDAP"]) /\ Become(w, q)
    BY <1>8 DEF Boot
  <2> QED BY <1>3, <1>6, <2>1, IdleOpen
<1>9. ASSUME NEW w \in Worker, Accept(w) PROVE CreatorInv'
  <2>1. PICK r \in Requests : Become(w, Serve(r))
    BY <1>9 DEF Accept
  <2>2. PICK q : q = Serve(r)
    OBVIOUS
  <2>3. Staying(q)
    BY <2>2, ServeLeads
    DEF NobodyLeaves, Staying, OpenLabel, RenameLabel, DeleteLabel, UpdateGroupLabel,
        IsProtectedGroup
  <2>4. q.req.op = "NewAccount" => Creating(q)'
    BY <2>2, ServeLeads, ServeCreating
  <2> QED BY <1>6, <2>1, <2>2, <2>3, <2>4
<1>10. ASSUME NEW w \in Worker, Step(w) PROVE CreatorInv'
  <2>1. PICK p : p = proc[w]
    OBVIOUS
  <2>2. PICK q : Become(w, q) /\ Led(p, q)
    BY <1>1, <1>10, <2>1, StepLeads
  <2>3. Staying(q) /\ q.req = p.req
    BY <2>1, <2>2, LedStaying DEF CreatorInv, Led
  <2>4. ASSUME p.req.op = "NewAccount" PROVE Creating(q)'
    <3>1. Creating(proc[w])
      BY <2>1, <2>4 DEF CreatorInv
    <3>2. ~SetupStep(w)
      BY <3>1
      DEF Creating, CreatorLabel, HighestLabel, MakingLabel, AddingLabel, SetupStep, At,
          SetupGroupsOU, SetupUsersOU, SetupLastGID, SetupLastUID, SetupAdminsGroup,
          SetupAdminMade, SetupAdminsMade, SetupAdminNotForced, SetupAdminForced
    <3>3. CreatingStep(w)
      BY <1>1, <1>2, <1>10, <3>1, <3>2, CreatorGroupStep, CreatorAccountStep DEF Step
    <3>4. PICK x : Become(w, x) /\ Creating(x)'
      BY <3>3 DEF CreatingStep
    <3>5. x = q
      BY <1>1, <2>2, <3>4 DEF Become
    <3> QED BY <3>4, <3>5
  <2> QED BY <1>6, <2>2, <2>3, <2>4
<1>11. ASSUME NEW w \in Worker, Reply(w) PROVE CreatorInv'
  <2>1. PICK q : q = Idle /\ Become(w, q)
    BY <1>11 DEF Reply
  <2> QED BY <1>3, <1>6, <2>1, IdleOpen
<1>12. ASSUME NEW r \in Replica, Crash(r) PROVE CreatorInv'
  <2>1. \A v \in Worker : proc'[v] \in {Idle, proc[v]}
    BY <1>12 DEF Crash
  <2>2. PICK q : q = Idle
    OBVIOUS
  <2>3. Staying(q) /\ q.req.op # "NewAccount"
    BY <1>3, <2>2, IdleOpen
  <2>4. ASSUME NEW v \in Worker
        PROVE  (Staying(proc[v]) /\ (proc[v].req.op = "NewAccount" => Creating(proc[v])))'
    BY <1>4, <1>5, <2>1, <2>2, <2>3
  <2> QED
    BY <1>1, <2>4 DEF CreatorInv
<1> QED
  BY <1>7, <1>8, <1>9, <1>10, <1>11, <1>12 DEF Next, vars

\* As long as no client deletes or renames an account, takes one out of the default
\* group or renames that group, an account whose creation has been reported is a
\* member of the default group: also when the directory has no such group at first,
\* when replicas make it at once and when NewAccount falls back to a group of the
\* account's own, which AddGroupMember lets only such a member join.
THEOREM ReportedAccountsAreUsers ==
    ASSUME NoProtectedRename, NobodyLeaves
    PROVE  Spec => []CreatedIsUser
<1>1. CreatorInv => CreatedIsUser
  BY DEF CreatorInv, Creating, Enrolled, CreatedIsUser, Answering, At
<1> QED
  BY <1>1, CreatorInvInit, CreatorInvStep, PTL DEF Spec
=============================================================================
