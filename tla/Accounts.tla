------------------------------ MODULE Accounts ------------------------------
(***************************************************************************)
(* accounts.go: the functions that create, update and delete an account.   *)
(* A request that fails validation has no effect, so the requests modelled *)
(* here are valid ones; names, shells, mail addresses and passwords are    *)
(* abstracted away, and what is left of an entry is what identifies it.    *)
(***************************************************************************)
EXTENDS Groups

AccountLabel ==
    {"new_account_find", "new_account_no_ou", "new_account_uid", "last_id_add",
     "new_account_retry", "new_account_uid_again", "account_group", "account_group_made",
     "account_group_own", "account_group_gid", "account_by_gid", "new_account_add",
     "new_account_joined",
     "update_find", "update_taken", "update_rename", "update_groups", "update_leave",
     "update_join", "update_modify",
     "delete_groups", "delete_leave", "delete_entry"}

-----------------------------------------------------------------------------
(* setupLastID: add the device with the highest number in use. *)

SetupLastID(p, kind, back) ==
    GetHighestID([p EXCEPT !.ret["setupLastID"] = back], kind, "last_id_add")

LastIDFailed(w) ==
    LET p == proc[w]
    IN  /\ At(w, "last_id_add") /\ p.err # "ok"
        /\ Become(w, Return(p, "setupLastID", p.err))
        /\ UNCHANGED directory

LastIDAdd(w) ==
    LET p == proc[w]
    IN  /\ At(w, "last_id_add") /\ p.err = "ok"
        /\ AddDevice(p.kind, p.high)
        /\ Become(w, Return(p, "setupLastID", AddDeviceCode(p.kind)))

-----------------------------------------------------------------------------
(* NewAccount *)

NewAccount(p, u, back) ==
    [p EXCEPT !.pc = "new_account_find", !.user = u, !.ret["NewAccount"] = back]

\* The group of the account: an explicit gid is looked up, otherwise the
\* default group is used.
ChooseGroup(p) == Goto(p, IF p.req.gid >= MinID THEN "account_by_gid" ELSE "account_group")

\* An explicit uid is taken as it is; otherwise the next number is looked up.
ChooseUID(p) ==
    IF p.req.uid >= MinID THEN ChooseGroup([p EXCEPT !.uid = p.req.uid])
                          ELSE GetHighestID(p, "UID", "new_account_uid")

NewAccountFind(w) ==
    LET p == proc[w]
    IN  /\ At(w, "new_account_find")
        /\ \/ /\ "users" \notin ous
              /\ Become(w, NewGroup(p, UsersGroup, {p.user}, "new_account_no_ou"))
           \/ /\ "users" \in ous /\ AccountExists(p.user)
              /\ Become(w, Return(p, "NewAccount", "AccountExists"))
           \/ /\ "users" \in ous /\ ~AccountExists(p.user)
              /\ Become(w, ChooseUID(p))
        /\ UNCHANGED directory

\* Without a users OU any result of NewGroup but "no such object" will do.
NewAccountNoOU(w) ==
    LET p == proc[w]
    IN  /\ At(w, "new_account_no_ou")
        /\ Become(w, IF p.err = "NoSuchObject" THEN Return(p, "NewAccount", "Failed")
                                               ELSE ChooseUID(p))
        /\ UNCHANGED directory

NewAccountUID(w) ==
    LET p == proc[w]
    IN  /\ At(w, "new_account_uid")
        /\ Become(w, IF p.err = "ok" THEN ChooseGroup([p EXCEPT !.uid = p.high + 1])
                                     ELSE SetupLastID(p, "UID", "new_account_retry"))
        /\ UNCHANGED directory

\* The outcome of setupLastUID is ignored.
NewAccountRetry(w) ==
    LET p == proc[w]
    IN  /\ At(w, "new_account_retry")
        /\ Become(w, GetHighestID(p, "UID", "new_account_uid_again"))
        /\ UNCHANGED directory

NewAccountUIDAgain(w) ==
    LET p == proc[w]
    IN  /\ At(w, "new_account_uid_again")
        /\ Become(w, IF p.err = "ok" THEN ChooseGroup([p EXCEPT !.uid = p.high + 1])
                                     ELSE Return(p, "NewAccount", "Failed"))
        /\ UNCHANGED directory

\* getGroupByGID searches for an attribute "gid" that no group entry has.
AccountByGID(w) ==
    LET p == proc[w]
    IN  /\ At(w, "account_by_gid")
        /\ Become(w, Return(p, "NewAccount",
                            IF "groups" \in ous THEN "Failed" ELSE "NoSuchObject"))
        /\ UNCHANGED directory

-----------------------------------------------------------------------------
(* getGroupForAccount: the default group, made if it is missing, or else a *)
(* group of the account's own.                                             *)

GroupFound(g) == "groups" \in ous /\ GroupExists(g)
UseGroup(p, g) == Goto([p EXCEPT !.group = g, !.gid = group[g].gid], "new_account_add")

\* Mutant: every account gets a group of its own.
AccountGroupOwnFirst(w) ==
    LET p == proc[w]
    IN  /\ At(w, "account_group")
        /\ Become(w, NewGroup(p, p.user, {p.user}, "account_group_own"))
        /\ UNCHANGED directory

\* Mutant: the default group is taken to exist.
AccountGroupAssumed(w) ==
    /\ At(w, "account_group")
    /\ Become(w, UseGroup(proc[w], UsersGroup))
    /\ UNCHANGED directory

AccountGroup(w) ==
    LET p == proc[w]
    IN  /\ At(w, "account_group")
        /\ Become(w, IF GroupFound(UsersGroup)
                     THEN UseGroup(p, UsersGroup)
                     ELSE NewGroup(p, UsersGroup, {p.user}, "account_group_made"))
        /\ UNCHANGED directory

AccountGroupMade(w) ==
    LET p == proc[w]
    IN  /\ At(w, "account_group_made")
        /\ Become(w, IF p.err = "ok"
                     THEN Goto([p EXCEPT !.group = UsersGroup], "account_group_gid")
                     ELSE NewGroup(p, p.user, {p.user}, "account_group_own"))
        /\ UNCHANGED directory

AccountGroupOwn(w) ==
    LET p == proc[w]
    IN  /\ At(w, "account_group_own")
        /\ Become(w, IF p.err \in {"ok", "GroupExists"}
                     THEN Goto([p EXCEPT !.group = p.user], "account_group_gid")
                     ELSE Return(p, "NewAccount", "Failed"))
        /\ UNCHANGED directory

AccountGroupGID(w) ==
    LET p == proc[w]
    IN  /\ At(w, "account_group_gid")
        /\ Become(w, IF GroupFound(p.group) THEN UseGroup(p, p.group)
                                            ELSE Return(p, "NewAccount", "Failed"))
        /\ UNCHANGED directory

-----------------------------------------------------------------------------
(* The entry is added, then the membership, then the counter is moved. *)

\* Mutants: the membership is forgotten; it is added without the check.
NewAccountAddAlone(w) ==
    LET p == proc[w]
        code == AddAccountCode(p.user)
    IN  /\ At(w, "new_account_add")
        /\ AddAccount(p.user, [uid |-> p.uid, gid |-> p.gid])
        /\ Become(w, IF code = "ok" THEN Goto(p, "new_account_joined")
                                    ELSE Return(p, "NewAccount", "AccountExists"))
NewAccountAddUnchecked(w) ==
    LET p == proc[w]
        code == AddAccountCode(p.user)
    IN  /\ At(w, "new_account_add")
        /\ AddAccount(p.user, [uid |-> p.uid, gid |-> p.gid])
        /\ Become(w, IF code = "ok"
                     THEN AddGroupMember(p, p.group, p.user, TRUE, "new_account_joined")
                     ELSE Return(p, "NewAccount", "AccountExists"))

NewAccountAdd(w) ==
    LET p == proc[w]
        code == AddAccountCode(p.user)
    IN  /\ At(w, "new_account_add")
        /\ AddAccount(p.user, [uid |-> p.uid, gid |-> p.gid])
        /\ \/ /\ code = "ok"
              /\ Become(w, AddGroupMember(p, p.group, p.user, FALSE, "new_account_joined"))
           \/ /\ code = "EntryExists"
              /\ Become(w, Return(p, "NewAccount", "AccountExists"))
           \/ /\ code = "NoSuchObject"
              /\ Become(w, Return(p, "NewAccount", "Failed"))

NewAccountNotJoined(w) ==
    LET p == proc[w]
    IN  /\ At(w, "new_account_joined") /\ p.err \notin {"ok", "MemberExists"}
        /\ Become(w, Return(p, "NewAccount", "Failed"))
        /\ UNCHANGED directory

\* Mutant: the counter is not moved.
NewAccountLastForgotten(w) ==
    LET p == proc[w]
    IN  /\ At(w, "new_account_joined") /\ p.err \in {"ok", "MemberExists"}
        /\ Become(w, Return(p, "NewAccount", "ok"))
        /\ UNCHANGED directory

NewAccountLast(w) ==
    LET p == proc[w]
    IN  /\ At(w, "new_account_joined") /\ p.err \in {"ok", "MemberExists"}
        /\ ReplaceSerial("UID", p.uid)
        /\ Become(w, Return(p, "NewAccount",
                            IF ReplaceSerialCode("UID") = "ok" THEN "ok" ELSE "Failed"))

-----------------------------------------------------------------------------
(* UpdateAccount: p.user is the name of the entry, req.user the old one.   *)

UpdateFind(w) ==
    LET p == proc[w]
        u == p.req.user
    IN  /\ At(w, "update_find")
        /\ \/ /\ "users" \notin ous
              /\ Become(w, Answer(p, "Failed"))
           \/ /\ "users" \in ous /\ ~AccountExists(u)
              /\ Become(w, Answer(p, "NoAccount"))
           \/ /\ AccountExists(u) /\ p.req.to \notin {NoName, u}
              /\ Become(w, Goto([p EXCEPT !.user = p.req.to], "update_taken"))
           \/ /\ AccountExists(u) /\ p.req.to \in {NoName, u}
              /\ Become(w, Goto([p EXCEPT !.user = u], "update_modify"))
        /\ UNCHANGED directory

UpdateTaken(w) ==
    LET p == proc[w]
    IN  /\ At(w, "update_taken")
        /\ Become(w, IF AccountExists(p.user) THEN Answer(p, "AccountExists")
                                              ELSE Goto(p, "update_rename"))
        /\ UNCHANGED directory

UpdateRename(w) ==
    LET p == proc[w]
        code == RenameAccountCode(p.req.user, p.user)
    IN  /\ At(w, "update_rename")
        /\ RenameAccount(p.req.user, p.user)
        /\ Become(w, IF code = "ok" THEN Goto(p, "update_groups") ELSE Answer(p, code))

NextGroup(p, more, done) == Goto(p, IF p.todo = {} THEN done ELSE more)

\* The groups searched for are those of the new name.
UpdateGroups(w) ==
    LET p == proc[w]
    IN  /\ At(w, "update_groups")
        /\ Become(w, IF "groups" \in ous
                     THEN NextGroup([p EXCEPT !.todo = GroupsOf(p.user)],
                                    "update_leave", "update_modify")
                     ELSE Answer(p, "Failed"))
        /\ UNCHANGED directory

UpdateLeave(w) ==
    LET p == proc[w]
    IN  /\ At(w, "update_leave")
        /\ \E g \in p.todo :
              LET err == DeleteMemberError(g, p.req.user)
              IN  /\ DeleteValue(g, p.req.user)
                  /\ Become(w, IF err \in {"ok", "NoMember"}
                               THEN Goto([p EXCEPT !.group = g], "update_join")
                               ELSE Answer(p, "Failed"))

UpdateJoin(w) ==
    LET p == proc[w]
    IN  /\ At(w, "update_join")
        /\ AddValue(p.group, p.user)
        /\ Become(w, IF AddMemberError(p.group, p.user) \in {"ok", "MemberExists"}
                     THEN NextGroup([p EXCEPT !.todo = @ \ {p.group}],
                                    "update_leave", "update_modify")
                     ELSE Answer(p, "Failed"))

\* Only an administrator may set the numbers.
UpdateModify(w) ==
    LET p == proc[w]
        old == account[p.user]
    IN  /\ At(w, "update_modify")
        /\ ModifyAccount(p.user,
              [uid |-> IF p.req.admin /\ p.req.uid >= MinID THEN p.req.uid ELSE old.uid,
               gid |-> IF p.req.admin /\ p.req.gid >= MinID THEN p.req.gid ELSE old.gid])
        /\ Become(w, Answer(p, IF ModifyAccountCode(p.user) = "ok" THEN "ok" ELSE "Failed"))

-----------------------------------------------------------------------------
(* DeleteAccount, as the server calls it: keepGroups is false. *)

\* Mutant: keepGroups has the wrong default.
DeleteAccountKeepGroups(p) ==
    IF p.req.user = NoName THEN Answer(p, "Failed") ELSE Goto(p, "delete_entry")

DeleteAccount(p) ==
    IF p.req.user = NoName THEN Answer(p, "Failed") ELSE Goto(p, "delete_groups")

DeleteGroups(w) ==
    LET p == proc[w]
    IN  /\ At(w, "delete_groups")
        /\ Become(w, IF "groups" \in ous
                     THEN NextGroup([p EXCEPT !.todo = GroupsOf(p.req.user)],
                                    "delete_leave", "delete_entry")
                     ELSE Answer(p, "Failed"))
        /\ UNCHANGED directory

\* Mutant: a group that the user has already left is tried again.
DeleteLeaveAgain(w) ==
    LET p == proc[w]
    IN  /\ At(w, "delete_leave")
        /\ \E g \in p.todo :
              LET err == DeleteMemberError(g, p.req.user)
              IN  /\ DeleteValue(g, p.req.user)
                  /\ Become(w, CASE err = "LastMember" -> Answer(p, err)
                                 [] err = "NoMember" -> Goto(p, "delete_leave")
                                 [] OTHER -> NextGroup([p EXCEPT !.todo = @ \ {g}],
                                                       "delete_leave", "delete_entry"))

DeleteLeave(w) ==
    LET p == proc[w]
    IN  /\ At(w, "delete_leave")
        /\ \E g \in p.todo :
              LET err == DeleteMemberError(g, p.req.user)
              IN  /\ DeleteValue(g, p.req.user)
                  /\ Become(w, IF err = "LastMember"
                               THEN Answer(p, err)
                               ELSE NextGroup([p EXCEPT !.todo = @ \ {g}],
                                              "delete_leave", "delete_entry"))

DeleteEntry(w) ==
    LET p == proc[w]
    IN  /\ At(w, "delete_entry")
        /\ DelAccount(p.req.user)
        /\ Become(w, Answer(p, DelAccountCode(p.req.user)))

-----------------------------------------------------------------------------
AccountStep(w) ==
    \/ LastIDFailed(w) \/ LastIDAdd(w)
    \/ NewAccountFind(w) \/ NewAccountNoOU(w)
    \/ NewAccountUID(w) \/ NewAccountRetry(w) \/ NewAccountUIDAgain(w)
    \/ AccountByGID(w)
    \/ AccountGroup(w) \/ AccountGroupMade(w) \/ AccountGroupOwn(w) \/ AccountGroupGID(w)
    \/ NewAccountAdd(w) \/ NewAccountNotJoined(w) \/ NewAccountLast(w)
    \/ UpdateFind(w) \/ UpdateTaken(w) \/ UpdateRename(w) \/ UpdateGroups(w)
    \/ UpdateLeave(w) \/ UpdateJoin(w) \/ UpdateModify(w)
    \/ DeleteGroups(w) \/ DeleteLeave(w) \/ DeleteEntry(w)
=============================================================================
