------------------------------- MODULE Groups -------------------------------
(***************************************************************************)
(* groups.go, group_members.go and the id helpers of utils.go: the number  *)
(* allocation that accounts and groups share, and the functions that       *)
(* create, delete, rename and fill groups.  Every action is one LDAP round *)
(* trip of one worker.                                                     *)
(***************************************************************************)
EXTENDS Worker

IsProtectedGroup(g) == g \in {UsersGroup, AdminsGroup}

GroupLabel ==
    {"highest_cached", "highest_scan", "new_group_find", "new_group_add", "new_group_last",
     "delete_group", "update_group_rename", "update_group_modify",
     "add_member_check", "add_member", "delete_member"}

-----------------------------------------------------------------------------
(* getHighestID: the serial of the device if it has one, else the highest  *)
(* number found in the entries themselves.                                 *)

GetHighestID(p, kind, back) ==
    [p EXCEPT !.pc = "highest_cached", !.kind = kind, !.ret["getHighestID"] = back]

\* Mutant: the device is never consulted.
HighestCachedIgnored(w) ==
    /\ At(w, "highest_cached")
    /\ Become(w, Goto(proc[w], "highest_scan"))
    /\ UNCHANGED directory

HighestCached(w) ==
    LET p == proc[w]
        serial == lastID[p.kind]
    IN  /\ At(w, "highest_cached")
        /\ \/ /\ serial >= MinID
              /\ Become(w, Return([p EXCEPT !.high = serial], "getHighestID", "ok"))
           \/ /\ serial < MinID
              /\ Become(w, Goto(p, "highest_scan"))
        /\ UNCHANGED directory

\* Mutant: the scan does not start from MinID, and finds nothing at first.
HighestScanUnset(w) ==
    LET p == proc[w]
        seen == IDsInUse(p.kind)
        found == IF seen = {} THEN {-1} ELSE seen
    IN  /\ At(w, "highest_scan")
        /\ \E h \in found :
              /\ \A i \in found : i <= h
              /\ Become(w, Return([p EXCEPT !.high = h], "getHighestID", "ok"))
        /\ UNCHANGED directory

HighestScan(w) ==
    LET p == proc[w]
        seen == IDsInUse(p.kind) \cup {MinID}
    IN  /\ At(w, "highest_scan")
        /\ \/ /\ OU(p.kind) \notin ous
              /\ Become(w, Return(p, "getHighestID", "NoSuchObject"))
           \/ /\ OU(p.kind) \in ous
              /\ \E h \in seen :
                    /\ \A i \in seen : i <= h
                    /\ Become(w, Return([p EXCEPT !.high = h], "getHighestID", "ok"))
        /\ UNCHANGED directory

-----------------------------------------------------------------------------
(* NewGroup, as the program calls it: strict is false everywhere.          *)

NewGroup(p, name, members, back) ==
    [p EXCEPT !.pc = "new_group_find", !.name = name, !.members = members,
              !.ret["NewGroup"] = back]

NewGroupFind(w) ==
    LET p == proc[w]
    IN  /\ At(w, "new_group_find")
        /\ \/ /\ "groups" \notin ous
              /\ Become(w, Return(p, "NewGroup", "NoSuchObject"))
           \/ /\ "groups" \in ous /\ GroupExists(p.name)
              /\ Become(w, Return(p, "NewGroup", "GroupExists"))
           \/ /\ "groups" \in ous /\ ~GroupExists(p.name)
              /\ Become(w, GetHighestID(p, "GID", "new_group_add"))
        /\ UNCHANGED directory

\* getHighestID failed, or there is no member to create the entry with: no
\* round trip is left to make.
NewGroupRefused(w) ==
    LET p == proc[w]
    IN  /\ At(w, "new_group_add")
        /\ \/ p.err # "ok" /\ Become(w, Return(p, "NewGroup", p.err))
           \/ p.err = "ok" /\ p.members = {} /\ Become(w, Return(p, "NewGroup", "Validation"))
        /\ UNCHANGED directory

NewGroupAdd(w) ==
    LET p == proc[w]
        code == AddGroupCode(p.name)
    IN  /\ At(w, "new_group_add")
        /\ p.err = "ok" /\ p.members # {}
        /\ AddGroup(p.name, [gid |-> p.high + 1, members |-> p.members])
        /\ Become(w, IF code = "ok" THEN Goto([p EXCEPT !.newGID = p.high + 1], "new_group_last")
                                    ELSE Return(p, "NewGroup", code))

\* Mutant: the counter is not moved.
NewGroupLastForgotten(w) ==
    /\ At(w, "new_group_last")
    /\ Become(w, Return(proc[w], "NewGroup", "ok"))
    /\ UNCHANGED directory

NewGroupLast(w) ==
    LET p == proc[w]
    IN  /\ At(w, "new_group_last")
        /\ ReplaceSerial("GID", p.newGID)
        /\ Become(w, Return(p, "NewGroup",
                            IF ReplaceSerialCode("GID") = "ok" THEN "ok" ELSE "Failed"))

-----------------------------------------------------------------------------
(* DeleteGroup and UpdateGroup. *)

\* Mutant: the default groups are not protected.
DeleteGroupUnprotected(p) ==
    IF p.req.group = NoName THEN Answer(p, "Validation") ELSE Goto(p, "delete_group")

DeleteGroup(p) ==
    IF p.req.group = NoName \/ IsProtectedGroup(p.req.group)
    THEN Answer(p, "Validation")
    ELSE Goto(p, "delete_group")

DeleteGroupEntry(w) ==
    LET p == proc[w]
    IN  /\ At(w, "delete_group")
        /\ DelGroup(p.req.group)
        /\ Become(w, Answer(p, IF DelGroupCode(p.req.group) = "ok" THEN "ok" ELSE "NoGroup"))

UpdateGroup(p) ==
    CASE p.req.group = NoName -> Answer(p, "Validation")
      [] p.req.group # NoName /\ p.req.to \notin {NoName, p.req.group} ->
            Goto(p, "update_group_rename")
      [] OTHER -> Goto([p EXCEPT !.group = p.req.group], "update_group_modify")

UpdateGroupRename(w) ==
    LET p == proc[w]
        code == RenameGroupCode(p.req.group, p.req.to)
    IN  /\ At(w, "update_group_rename")
        /\ RenameGroup(p.req.group, p.req.to)
        /\ Become(w, IF code = "ok"
                     THEN Goto([p EXCEPT !.group = p.req.to], "update_group_modify")
                     ELSE Answer(p, code))

UpdateGroupModify(w) ==
    LET p == proc[w]
        entry == group[p.group]
    IN  /\ At(w, "update_group_modify")
        /\ ModifyGroup(p.group, IF p.req.gid >= MinID THEN [entry EXCEPT !.gid = p.req.gid]
                                                      ELSE entry)
        /\ Become(w, Answer(p, IF ModifyGroupCode(p.group) = "ok" THEN "ok" ELSE "Failed"))

-----------------------------------------------------------------------------
(* AddGroupMember and DeleteGroupMember.  The check that the user exists   *)
(* is a check that it is in the default user group.                        *)

AddGroupMember(p, g, u, allowNonExistent, back) ==
    [p EXCEPT !.group = g, !.user = u, !.ret["AddGroupMember"] = back,
              !.pc = IF allowNonExistent \/ IsProtectedGroup(g) THEN "add_member"
                                                                ELSE "add_member_check"]

AddMemberCheck(w) ==
    LET p == proc[w]
    IN  /\ At(w, "add_member_check")
        /\ \/ /\ "groups" \notin ous \/ ~GroupExists(UsersGroup)
              /\ Become(w, Return(p, "AddGroupMember", "Failed"))
           \/ /\ "groups" \in ous /\ GroupExists(UsersGroup) /\ ~IsMember(p.user, UsersGroup)
              /\ Become(w, Return(p, "AddGroupMember", "NoAccount"))
           \/ /\ "groups" \in ous /\ GroupExists(UsersGroup) /\ IsMember(p.user, UsersGroup)
              /\ Become(w, Goto(p, "add_member"))
        /\ UNCHANGED directory

\* The error AddGroupMember makes of the server's answer.
AddMemberError(g, u) ==
    CASE AddValueCode(g, u) = "ok" -> "ok"
      [] AddValueCode(g, u) = "ValueExists" -> "MemberExists"
      [] OTHER -> "NoSuchObject"

AddMember(w) ==
    LET p == proc[w]
    IN  /\ At(w, "add_member")
        /\ AddValue(p.group, p.user)
        /\ Become(w, Return(p, "AddGroupMember", AddMemberError(p.group, p.user)))

\* The error DeleteGroupMember makes of the server's answer.
DeleteMemberError(g, u) ==
    CASE DeleteValueCode(g, u) = "ok" -> "ok"
      [] DeleteValueCode(g, u) = "ObjectClassViolation" -> "LastMember"
      [] OTHER -> "NoMember"

\* The server passes the caller's IsAdmin claim as allowDeleteOfDefaultGroups.
DeleteGroupMember(p) ==
    IF \/ p.req.group = NoName \/ p.req.user = NoName
       \/ ~p.req.admin /\ IsProtectedGroup(p.req.group)
    THEN Answer(p, "Validation")
    ELSE Goto(p, "delete_member")

DeleteMember(w) ==
    LET p == proc[w]
    IN  /\ At(w, "delete_member")
        /\ DeleteValue(p.req.group, p.req.user)
        /\ Become(w, Answer(p, DeleteMemberError(p.req.group, p.req.user)))

-----------------------------------------------------------------------------
\* How the rpcs of the group service start.
ServeNewGroup(p) ==
    IF p.req.group = NoName THEN Answer(p, "Validation")
                            ELSE NewGroup(p, p.req.group, p.req.members, "reply")
ServeAddGroupMember(p) ==
    IF p.req.group = NoName \/ p.req.user = NoName
    THEN Answer(p, "Validation")
    ELSE AddGroupMember(p, p.req.group, p.req.user, FALSE, "reply")

GroupStep(w) ==
    \/ HighestCached(w)
    \/ HighestScan(w)
    \/ NewGroupFind(w)
    \/ NewGroupRefused(w)
    \/ NewGroupAdd(w)
    \/ NewGroupLast(w)
    \/ DeleteGroupEntry(w)
    \/ UpdateGroupRename(w)
    \/ UpdateGroupModify(w)
    \/ AddMemberCheck(w)
    \/ AddMember(w)
    \/ DeleteMember(w)
=============================================================================
