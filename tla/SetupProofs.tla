----------------------------- MODULE SetupProofs -----------------------------
(***************************************************************************)
(* Why a replica that serves has found or made everything it relies on.    *)
(*                                                                         *)
(* SetupLDAP tolerates the answer that an entry exists already, whoever    *)
(* made it: an earlier life of the replica that crashed halfway, or        *)
(* another replica that is halfway now.  That is sound because the entries *)
(* are made in an order in which each one's existence implies the ones     *)
(* before it, and because none of them goes away again.  The invariant has *)
(* these two parts: what the entries imply of each other (Founded), and    *)
(* which of them a worker has seen at each of its labels (Standing), which *)
(* holds on whatever the other workers do because entries only Grow.       *)
(***************************************************************************)
EXTENDS ManagerProofs

-----------------------------------------------------------------------------
(* The inductive invariant. *)

\* No client removes the initial administrator, nor from the default groups.
AdminStays ==
    \A r \in Requests :
        /\ r.op = "DeleteAccount" => r.user # Admin
        /\ r.op = "UpdateAccount" /\ r.user = Admin => r.to \in {NoName, Admin}
        /\ r.op = "DeleteGroupMember" /\ r.user = Admin => ~IsProtectedGroup(r.group)

Setting(p) == p.req.op = "SetupLDAP"

\* Where the worker is, or will be once getHighestID has returned.
Place(p) == IF p.pc \in {"highest_cached", "highest_scan"} THEN p.ret["getHighestID"] ELSE p.pc

MakingPlace == {"new_group_find", "new_group_add", "new_group_last"}
JoinPlace == {"add_member_check", "add_member"}
NumberedPlace ==
    {"account_by_gid", "account_group", "account_group_made", "account_group_own",
     "account_group_gid", "new_account_add", "new_account_joined"}
AccountPlace == NumberedPlace \cup {"new_account_find", "new_account_uid"}
RenamePlace == {"update_taken", "update_rename", "update_groups", "update_leave", "update_join"}
DeletePlace == {"delete_groups", "delete_leave", "delete_entry"}
FallbackPlace == {"account_group_made", "account_group_own", "account_group_gid"}

\* What only a directory without units makes NewAccount do.
UnreachedPlace == {"new_account_no_ou", "new_account_retry", "new_account_uid_again"}

\* In NewGroup; in NewAccount, or a function it has called; with a number.
Making(p) == Place(p) \in MakingPlace
ForAccount(p) ==
    \/ Making(p) /\ p.ret["NewGroup"] \in {"account_group_made", "account_group_own"}
    \/ Place(p) \in JoinPlace /\ p.ret["AddGroupMember"] = "new_account_joined"
InNewAccount(p) == Place(p) \in AccountPlace \/ ForAccount(p)
Numbered(p) == Place(p) \in NumberedPlace \/ ForAccount(p)

\* Nothing below MinID is ever recorded.
NumbersFit(p) ==
    /\ p.pc \in {"last_id_add", "new_group_add", "new_account_uid"} => p.high >= MinID /\ p.err = "ok"
    /\ p.pc = "new_group_last" => p.newGID >= MinID
    /\ Numbered(p) => p.uid >= MinID

\* SetupLDAP: who calls what, and for whom.
SetupCalls(p) ==
    /\ Place(p) \in SetupLabel \cup MakingPlace \cup JoinPlace \cup AccountPlace
                    \cup {"last_id_add", "reply"}
    /\ p.user \in {NoName, Admin}
    /\ p.members \subseteq {Admin}
    /\ Making(p) =>
          /\ p.members = {Admin}
          /\ \/ p.ret["NewGroup"] = "account_group_made" /\ p.name = UsersGroup
             \/ p.ret["NewGroup"] = "account_group_own" /\ p.name \in User
             \/ p.ret["NewGroup"] = "setup_admins_made" /\ p.name = AdminsGroup
    /\ InNewAccount(p) => p.ret["NewAccount"] \in {"setup_admin_made", "setup_admin_forced"}
    /\ Place(p) \in JoinPlace => p.ret["AddGroupMember"] = "new_account_joined"

\* What a client's request may be at.
ClientPermits(r, label) ==
    /\ label \notin SetupLabel \cup FallbackPlace \cup {"last_id_add"}
    /\ label = "delete_member" /\ r.user = Admin => ~IsProtectedGroup(r.group)
    /\ label = "update_find" /\ r.user = Admin => r.to \in {NoName, Admin}
    /\ label \in RenamePlace \cup DeletePlace => r.user # Admin

ClientCalls(p) ==
    /\ p.ret["NewGroup"] = "reply" /\ p.ret["NewAccount"] = "reply"
    /\ ClientPermits(p.req, Place(p))

Local(p) ==
    /\ Place(p) \notin UnreachedPlace
    /\ p.pc \in {"highest_cached", "highest_scan"} =>
          Place(p) \in {"new_group_add", "new_account_uid", "last_id_add"}
    /\ p.pc = "highest_scan" => Place(p) = "last_id_add"
    /\ Place(p) \in JoinPlace => p.ret["AddGroupMember"] \in {"reply", "new_account_joined"}
    /\ Place(p) = "last_id_add" =>
          \/ p.kind = "GID" /\ p.ret["setupLastID"] = "setup_last_gid"
          \/ p.kind = "UID" /\ p.ret["setupLastID"] = "setup_last_uid"
    /\ p.pc \in {"setup_last_gid", "setup_last_uid"} => p.err \in Tolerated
    /\ NumbersFit(p)
    /\ IF Setting(p) THEN SetupCalls(p) ELSE ClientCalls(p)

HasUnits == {"users", "groups"} \subseteq ous
HasSerials == \A kind \in IDKind : lastID[kind] >= MinID
Ready == HasUnits /\ HasSerials /\ GroupExists(AdminsGroup)

\* What the worker has seen, or made, of the directory.
UnitsSeen(p) ==
    /\ p.pc = "setup_users_ou" => "groups" \in ous
    /\ p.pc \notin {"idle", "setup_groups_ou", "setup_users_ou"} => HasUnits
SerialsSeen(p) ==
    /\ (Place(p) = "last_id_add" /\ p.kind = "UID") \/ p.pc = "setup_last_gid" =>
          lastID["GID"] >= MinID
    /\ Place(p) \notin {"idle", "setup_groups_ou", "setup_users_ou", "last_id_add", "setup_last_gid"} =>
          HasSerials
GroupsSeen(p) ==
    /\ Place(p) \in FallbackPlace \cup {"new_account_add"} => GroupExists(UsersGroup)
    /\ Making(p) /\ p.ret["NewGroup"] = "account_group_own" => GroupExists(UsersGroup)
    /\ p.pc = "new_group_last" /\ IsProtectedGroup(p.name) => GroupExists(p.name)
AdminSeen(p) ==
    /\ Place(p) \in JoinPlace \cup {"new_account_joined"} => AccountExists(Admin)
    /\ Making(p) /\ p.ret["NewGroup"] = "setup_admins_made" => AccountExists(Admin)
    /\ p.pc \in {"setup_admin_made", "setup_admin_forced"} /\ p.err \in {"ok", "AccountExists"} =>
          AccountExists(Admin)
    /\ InNewAccount(p) /\ p.ret["NewAccount"] = "setup_admin_forced" => GroupExists(AdminsGroup)
    /\ p.pc = "setup_admin_forced" => GroupExists(AdminsGroup)
    /\ p.pc \in {"setup_admins_made", "reply"} /\ p.err = "ok" => GroupExists(AdminsGroup)

Standing(p) ==
    /\ UnitsSeen(p) /\ SerialsSeen(p) /\ GroupsSeen(p)
    /\ IF Setting(p) THEN AdminSeen(p) ELSE p.pc # "idle" => Ready

\* What the entries imply of each other.
Founded ==
    /\ \A kind \in IDKind : lastID[kind] = 0 \/ lastID[kind] >= MinID
    /\ AccountExists(Admin) => GroupExists(UsersGroup)
    /\ GroupExists(UsersGroup) => IsMember(Admin, UsersGroup)
    /\ GroupExists(AdminsGroup) => IsMember(Admin, AdminsGroup) /\ AccountExists(Admin)

SetupInv ==
    /\ TypeInv
    /\ Founded
    /\ \A w \in Worker : Local(proc[w]) /\ Standing(proc[w])
    /\ (\E r \in Replica : mode[r] = "serving") => Ready

-----------------------------------------------------------------------------
(* Entries only grow. *)

Grow ==
    /\ ous \subseteq ous'
    /\ \A kind \in IDKind : lastID[kind] >= MinID => lastID'[kind] >= MinID
    /\ \A g \in {UsersGroup, AdminsGroup} : GroupExists(g) => GroupExists(g)'
    /\ AccountExists(Admin) => AccountExists(Admin)'

LEMMA GrowStanding ==
    ASSUME Grow, NEW p, Standing(p)
    PROVE  Standing(p)'
<1>1. /\ HasUnits => HasUnits'
      /\ HasSerials => HasSerials'
      /\ "groups" \in ous => "groups" \in ous'
      /\ lastID["GID"] >= MinID => lastID'["GID"] >= MinID
      /\ GroupExists(UsersGroup) => GroupExists(UsersGroup)'
      /\ GroupExists(AdminsGroup) => GroupExists(AdminsGroup)'
      /\ AccountExists(Admin) => AccountExists(Admin)'
  BY DEF Grow, HasUnits, HasSerials, IDKind
<1>2. Ready => Ready'
  BY <1>1 DEF Ready
<1>3. UnitsSeen(p)'
  BY <1>1 DEF Standing, UnitsSeen
<1>4. SerialsSeen(p)'
  BY <1>1 DEF Standing, SerialsSeen, Place
<1>5. GroupsSeen(p)'
  BY <1>1 DEF Standing, GroupsSeen, Place, Making, IsProtectedGroup
<1>6. Setting(p) => AdminSeen(p)'
  BY <1>1 DEF Standing, AdminSeen, Place, Making, InNewAccount, ForAccount
<1>7. QED
  BY <1>2, <1>3, <1>4, <1>5, <1>6 DEF Standing, Setting

-----------------------------------------------------------------------------
(* What each kind of round trip does to the entries. *)

Sound == Founded' /\ Grow

LEMMA DirectorySound ==
    ASSUME DirectoryTypeOK, Founded
    PROVE  /\ UNCHANGED directory => Sound
           /\ \A ou : AddOU(ou) => Sound
           /\ \A k \in IDKind, i \in Nat :
                 i >= MinID /\ (AddDevice(k, i) \/ ReplaceSerial(k, i)) => Sound
           /\ \A u \in User, e \in AccountEntry :
                 /\ AddAccount(u, e)
                 /\ u = Admin => GroupExists(UsersGroup)
                 => Sound
           /\ \A u \in User, e \in AccountEntry :
                 (AccountExists(u) => e.uid # 0) /\ ModifyAccount(u, e) => Sound
           /\ \A u, v \in User :
                 u # Admin /\ AccountExists(Admin) /\ RenameAccount(u, v) => Sound
           /\ \A u \in User : u # Admin /\ DelAccount(u) => Sound
           /\ \A g : \A e \in GroupEntry :
                 /\ AddGroup(g, e) /\ e.gid # 0
                 /\ GroupExists(g) \/ /\ IsProtectedGroup(g) => Admin \in e.members
                                      /\ g = AdminsGroup => AccountExists(Admin)
                 => Sound
           /\ \A g \in Group, e \in GroupEntry :
                 /\ ModifyGroup(g, e)
                 /\ GroupExists(g) => e.gid # 0 /\ e.members = group[g].members
                 => Sound
           /\ \A g, h \in Group :
                 /\ ~IsProtectedGroup(g) /\ RenameGroup(g, h)
                 /\ GroupExists(UsersGroup) /\ GroupExists(AdminsGroup)
                 => Sound
           /\ \A g \in Group : ~IsProtectedGroup(g) /\ DelGroup(g) => Sound
           /\ \A g, u : u \in User /\ AddValue(g, u) => Sound
           /\ \A g, u :
                 (u = Admin => ~IsProtectedGroup(g)) /\ DeleteValue(g, u) => Sound
<1> USE DirectoryAssumption, WorkerAssumption
<1> USE DEF DirectoryTypeOK, Founded, Grow, Sound, AccountExists, GroupExists, IsMember,
            AccountEntry, GroupEntry
<1>1. ASSUME UNCHANGED directory PROVE Sound
  BY <1>1 DEF directory
<1>2. ASSUME NEW ou, AddOU(ou) PROVE Sound
  BY <1>2 DEF AddOU
<1>3. ASSUME NEW k \in IDKind, NEW i \in Nat, i >= MinID, AddDevice(k, i) \/ ReplaceSerial(k, i)
      PROVE  Sound
  BY <1>3 DEF AddDevice, ReplaceSerial, IDKind
<1>4. ASSUME NEW u \in User, NEW e \in AccountEntry, AddAccount(u, e),
             u = Admin => GroupExists(UsersGroup)
      PROVE  Sound
  BY <1>4 DEF AddAccount, AddAccountCode
<1>5. ASSUME NEW u \in User, NEW e \in AccountEntry, AccountExists(u) => e.uid # 0,
             ModifyAccount(u, e)
      PROVE  Sound
  BY <1>5 DEF ModifyAccount
<1>6. ASSUME NEW u \in User, NEW v \in User, u # Admin, AccountExists(Admin), RenameAccount(u, v)
      PROVE  Sound
  <2>1. AccountExists(Admin)'
    BY <1>6 DEF RenameAccount, RenameAccountCode
  <2>2. \A g \in Group : /\ group'[g].gid = group[g].gid
                         /\ Admin \in group[g].members => Admin \in group'[g].members
    BY <1>6 DEF RenameAccount
  <2>3. UNCHANGED <<ous, lastID>>
    BY <1>6 DEF RenameAccount
  <2>4. QED
    BY <1>6, <2>1, <2>2, <2>3
<1>7. ASSUME NEW u \in User, u # Admin, DelAccount(u) PROVE Sound
  <2>1. AccountExists(Admin)' <=> AccountExists(Admin)
    BY <1>7 DEF DelAccount
  <2>2. \A g \in Group : /\ group'[g].gid = group[g].gid
                         /\ Admin \in group[g].members => Admin \in group'[g].members
    BY <1>7 DEF DelAccount
  <2>3. UNCHANGED <<ous, lastID>>
    BY <1>7 DEF DelAccount
  <2>4. QED
    BY <1>7, <2>1, <2>2, <2>3
<1>8. ASSUME NEW g, NEW e \in GroupEntry, AddGroup(g, e), e.gid # 0,
             GroupExists(g) \/ /\ IsProtectedGroup(g) => Admin \in e.members
                               /\ g = AdminsGroup => AccountExists(Admin)
      PROVE  Sound
  BY <1>8 DEF AddGroup, AddGroupCode, IsProtectedGroup
<1>9. ASSUME NEW g \in Group, NEW e \in GroupEntry, ModifyGroup(g, e),
             GroupExists(g) => e.gid # 0 /\ e.members = group[g].members
      PROVE  Sound
  BY <1>9 DEF ModifyGroup
<1>10. ASSUME NEW g \in Group, NEW h \in Group, ~IsProtectedGroup(g), RenameGroup(g, h),
              GroupExists(UsersGroup), GroupExists(AdminsGroup)
       PROVE  Sound
  BY <1>10 DEF RenameGroup, RenameGroupCode, IsProtectedGroup
<1>11. ASSUME NEW g \in Group, ~IsProtectedGroup(g), DelGroup(g) PROVE Sound
  BY <1>11 DEF DelGroup, IsProtectedGroup
<1>12. ASSUME NEW g, NEW u \in User, AddValue(g, u) PROVE Sound
  BY <1>12 DEF AddValue
<1>13. ASSUME NEW g, NEW u, u = Admin => ~IsProtectedGroup(g), DeleteValue(g, u) PROVE Sound
  BY <1>13 DEF DeleteValue, IsProtectedGroup
<1>14. QED
  BY <1>1, <1>2, <1>3, <1>4, <1>5, <1>6, <1>7, <1>8, <1>9, <1>10, <1>11, <1>12, <1>13

\* A client is only served by a replica that was set up.
LEMMA ClientSeesAll ==
    ASSUME Founded, NEW p, Standing(p), ~Setting(p), p.pc # "idle"
    PROVE  Ready /\ GroupExists(UsersGroup) /\ GroupExists(AdminsGroup) /\ AccountExists(Admin)
  BY DEF Standing, Ready, Founded

LEMMA SettingPlaces ==
    ASSUME NEW p, Local(p), Setting(p)
    PROVE  Place(p) \notin RenamePlace \cup DeletePlace \cup
              {"delete_group", "update_group_rename", "update_group_modify", "delete_member",
               "update_find", "update_modify"}
  BY DEF Local, SetupCalls, RenamePlace, DeletePlace, SetupLabel, MakingPlace, JoinPlace,
         AccountPlace, NumberedPlace

LEMMA StepSound ==
    ASSUME NoProtectedRename, DirectoryTypeOK, Founded, NEW w \in Worker,
           Known(proc[w]), Local(proc[w]), Standing(proc[w]), Step(w)
    PROVE  Sound
<1> DEFINE p == proc[w]
<1>0. /\ MinID \in Nat \ {0} /\ Fits(p, p.pc) /\ p.high \in Nat /\ p.newGID \in Nat
      /\ p.uid \in Nat /\ p.gid \in Nat /\ p.req.gid \in Nat /\ p.req.uid \in Nat
      /\ p.members \in SUBSET User /\ p.kind \in IDKind /\ "UID" \in IDKind /\ "GID" \in IDKind
      /\ p.user \in User \cup {NoName}
  BY DirectoryAssumption DEF Known, ProcState, Request, IDKind
<1>1. CASE NewGroupAdd(w)
  <2>1. p.pc = "new_group_add" /\ Making(p) /\ p.high >= MinID
    BY <1>1 DEF NewGroupAdd, At, Making, Place, MakingPlace, Local, NumbersFit
  <2> DEFINE e == [gid |-> p.high + 1, members |-> p.members]
  <2>2. AddGroup(p.name, e) /\ e \in GroupEntry /\ e.gid # 0 /\ e.members = p.members
    BY <1>0, <1>1 DEF NewGroupAdd, GroupEntry
  <2>3. CASE Setting(p)
    <3>1. /\ p.members = {Admin}
          /\ \/ p.name = UsersGroup \/ p.name \in User
             \/ p.name = AdminsGroup /\ p.ret["NewGroup"] = "setup_admins_made"
      BY <2>1, <2>3 DEF Local, SetupCalls
    <3>2. p.name = AdminsGroup => AccountExists(Admin)
      BY <2>1, <2>3, <3>1, DirectoryAssumption DEF Standing, AdminSeen
    <3> HIDE DEF e
    <3>3. QED
      BY <2>2, <3>1, <3>2, DirectorySound
  <2>4. CASE ~Setting(p)
    <3>1. GroupExists(UsersGroup) /\ GroupExists(AdminsGroup) /\ AccountExists(Admin)
      BY <2>1, <2>4, ClientSeesAll
    <3> HIDE DEF e
    <3>2. QED
      BY <2>2, <3>1, DirectorySound DEF IsProtectedGroup
  <2>5. QED
    BY <2>3, <2>4
<1>2. CASE NewGroupLast(w)
  <2>1. p.newGID >= MinID
    BY <1>2 DEF NewGroupLast, At, Local, NumbersFit
  <2>2. QED
    BY <1>0, <1>2, <2>1, DirectorySound DEF NewGroupLast
<1>3. CASE LastIDAdd(w)
  <2>1. p.high >= MinID
    BY <1>3 DEF LastIDAdd, At, Local, NumbersFit
  <2>2. QED
    BY <1>0, <1>3, <2>1, DirectorySound DEF LastIDAdd
<1>4. CASE NewAccountAdd(w)
  <2>1. GroupExists(UsersGroup) /\ p.user \in User
    BY <1>0, <1>4 DEF NewAccountAdd, At, Standing, GroupsSeen, Place, Fits, UserLabel
  <2>2. [uid |-> p.uid, gid |-> p.gid] \in AccountEntry
    BY <1>0 DEF AccountEntry
  <2>3. QED
    BY <1>4, <2>1, <2>2, DirectorySound DEF NewAccountAdd
<1>5. CASE NewAccountLast(w)
  <2>1. p.uid >= MinID
    BY <1>5 DEF NewAccountLast, At, Local, NumbersFit, Numbered, Place, NumberedPlace
  <2>2. QED
    BY <1>0, <1>5, <2>1, DirectorySound DEF NewAccountLast
<1>6. CASE AddMember(w) \/ UpdateJoin(w) \/ SetupAdminForced(w)
  <2>1. AddMember(w) \/ UpdateJoin(w) => p.user \in User
    BY <1>0 DEF AddMember, UpdateJoin, At, Fits, UserLabel
  <2>2. QED
    BY <1>6, <2>1, DirectorySound, WorkerAssumption DEF AddMember, UpdateJoin, SetupAdminForced
<1>7. CASE SetupGroupsOU(w) \/ SetupUsersOU(w)
  BY <1>7, DirectorySound DEF SetupGroupsOU, SetupUsersOU
<1>8. CASE UNCHANGED directory
  BY <1>8, DirectorySound
<1>9. CASE \/ DeleteGroupEntry(w) \/ UpdateGroupRename(w) \/ UpdateGroupModify(w) \/ DeleteMember(w)
           \/ UpdateRename(w) \/ UpdateLeave(w) \/ UpdateModify(w) \/ DeleteLeave(w)
           \/ DeleteEntry(w)
  <2>1. p.pc \in RenamePlace \cup DeletePlace \cup
           {"delete_group", "update_group_rename", "update_group_modify", "delete_member",
            "update_modify"}
    BY <1>9 DEF DeleteGroupEntry, UpdateGroupRename, UpdateGroupModify, DeleteMember,
       UpdateRename, UpdateLeave, UpdateModify, DeleteLeave, DeleteEntry, At, RenamePlace,
       DeletePlace
  <2>2. Place(p) = p.pc /\ p.pc # "idle"
    BY <2>1 DEF Place, RenamePlace, DeletePlace
  <2>3. ~Setting(p)
    BY <2>1, <2>2, SettingPlaces
  <2>4. GroupExists(UsersGroup) /\ GroupExists(AdminsGroup) /\ AccountExists(Admin)
    BY <2>2, <2>3, ClientSeesAll
  <2>5. ClientPermits(p.req, p.pc)
    BY <2>2, <2>3 DEF Local, ClientCalls
  <2>6. p.pc \in RenamePlace \cup DeletePlace => p.req.user # Admin
    BY <2>5 DEF ClientPermits
  <2>7. CASE DeleteGroupEntry(w)
    <3>1. p.req.group \in Group /\ ~IsProtectedGroup(p.req.group)
      BY <1>0, <2>7 DEF DeleteGroupEntry, At, Fits
    <3>2. QED
      BY <2>7, <3>1, DirectorySound DEF DeleteGroupEntry
  <2>8. CASE UpdateGroupRename(w)
    <3>1. p.req.group \in Group /\ p.req.to \in Group /\ ~IsProtectedGroup(p.req.group)
      BY <1>0, <2>8 DEF UpdateGroupRename, At, Fits
    <3>2. QED
      BY <2>4, <2>8, <3>1, DirectorySound DEF UpdateGroupRename
  <2>9. CASE UpdateGroupModify(w)
    <3>1. p.group \in Group /\ group[p.group] \in GroupEntry
      BY <1>0, <2>9 DEF UpdateGroupModify, At, Fits, DirectoryTypeOK
    <3> DEFINE e == IF p.req.gid >= MinID THEN [group[p.group] EXCEPT !.gid = p.req.gid]
                                          ELSE group[p.group]
    <3>2. ModifyGroup(p.group, e)
      BY <2>9 DEF UpdateGroupModify
    <3>3. /\ e \in GroupEntry
          /\ GroupExists(p.group) => e.gid # 0 /\ e.members = group[p.group].members
      BY <1>0, <3>1 DEF GroupEntry, GroupExists
    <3> HIDE DEF e
    <3>4. QED
      BY <3>1, <3>2, <3>3, DirectorySound
  <2>10. CASE DeleteMember(w)
    <3>1. p.req.user = Admin => ~IsProtectedGroup(p.req.group)
      BY <2>5, <2>10 DEF DeleteMember, At, ClientPermits
    <3>2. QED
      BY <2>10, <3>1, DirectorySound DEF DeleteMember
  <2>11. CASE UpdateRename(w)
    <3>1. p.req.user \in User /\ p.user \in User /\ p.req.user # Admin
      BY <1>0, <2>6, <2>11 DEF UpdateRename, At, Fits, UserLabel, RequestUserLabel, RenamePlace
    <3>2. QED
      BY <2>4, <2>11, <3>1, DirectorySound DEF UpdateRename
  <2>12. CASE UpdateLeave(w) \/ DeleteLeave(w)
    <3>1. p.req.user # Admin
      BY <2>6, <2>12 DEF UpdateLeave, DeleteLeave, At, RenamePlace, DeletePlace
    <3>2. QED
      BY <2>12, <3>1, DirectorySound DEF UpdateLeave, DeleteLeave
  <2>13. CASE DeleteEntry(w)
    <3>1. p.req.user \in User /\ p.req.user # Admin
      BY <1>0, <2>6, <2>13 DEF DeleteEntry, At, Fits, RequestUserLabel, DeletePlace
    <3>2. QED
      BY <2>13, <3>1, DirectorySound DEF DeleteEntry
  <2>14. CASE UpdateModify(w)
    <3>1. p.user \in User /\ account[p.user] \in AccountEntry
      BY <1>0, <2>14 DEF UpdateModify, At, Fits, UserLabel, DirectoryTypeOK
    <3> DEFINE e == [uid |-> IF p.req.admin /\ p.req.uid >= MinID THEN p.req.uid
                                                                  ELSE account[p.user].uid,
                     gid |-> IF p.req.admin /\ p.req.gid >= MinID THEN p.req.gid
                                                                  ELSE account[p.user].gid]
    <3>2. ModifyAccount(p.user, e)
      BY <2>14 DEF UpdateModify
    <3>3. e \in AccountEntry /\ (AccountExists(p.user) => e.uid # 0)
      BY <1>0, <3>1 DEF AccountEntry, AccountExists
    <3> HIDE DEF e
    <3>4. QED
      BY <3>1, <3>2, <3>3, DirectorySound
  <2>15. QED
    BY <1>9, <2>7, <2>8, <2>9, <2>10, <2>11, <2>12, <2>13, <2>14
<1>10. CASE GroupStep(w)
  BY <1>1, <1>2, <1>6, <1>8, <1>9, <1>10
  DEF GroupStep, HighestCached, HighestScan, NewGroupFind, NewGroupRefused, AddMemberCheck
<1>11. CASE AccountStep(w)
  BY <1>3, <1>4, <1>5, <1>6, <1>8, <1>9, <1>11
  DEF AccountStep, LastIDFailed, NewAccountFind, NewAccountNoOU, NewAccountUID, NewAccountRetry,
      NewAccountUIDAgain, AccountByGID, AccountGroup, AccountGroupMade, AccountGroupOwn,
      AccountGroupGID, NewAccountNotJoined, UpdateFind, UpdateTaken, UpdateGroups, DeleteGroups
<1>12. CASE SetupStep(w)
  BY <1>6, <1>7, <1>8, <1>12
  DEF SetupStep, SetupLastGID, SetupLastUID, SetupAdminsGroup, SetupAdminMade, SetupAdminsMade,
      SetupAdminNotForced
<1>13. QED
  BY <1>10, <1>11, <1>12 DEF Step

-----------------------------------------------------------------------------
(* How a worker's locals move. *)

Kept(p, q) ==
    /\ q.req = p.req /\ q.name = p.name /\ q.members = p.members /\ q.newGID = p.newGID
    /\ q.user = p.user /\ q.uid = p.uid /\ q.high = p.high

LEMMA MoveFields ==
    ASSUME NEW p \in ProcState(Label)
    PROVE  /\ \A err : LET q == Answer(p, err)
                       IN  /\ q.pc = "reply" /\ q.err = err /\ q.ret = p.ret
                           /\ q.kind = p.kind /\ Kept(p, q)
           /\ \A f, err : LET q == Return(p, f, err)
                          IN  /\ q.pc = p.ret[f] /\ q.err = err /\ q.ret = p.ret
                              /\ q.kind = p.kind /\ Kept(p, q)
           /\ \A l : LET q == Goto(p, l)
                     IN  /\ q.pc = l /\ q.err = "ok" /\ q.ret = p.ret
                         /\ q.kind = p.kind /\ Kept(p, q)
  BY DEF ProcState, Kept, Answer, Return, Goto

LEMMA CallFields ==
    ASSUME NEW p \in ProcState(Label)
    PROVE  /\ \A k, l : LET q == GetHighestID(p, k, l)
                        IN  /\ q.pc = "highest_cached" /\ q.kind = k /\ Kept(p, q)
                            /\ q.err = p.err
                            /\ \A f \in Function :
                                  q.ret[f] = IF f = "getHighestID" THEN l ELSE p.ret[f]
           /\ \A k, l : LET q == SetupLastID(p, k, l)
                        IN  /\ q.pc = "highest_cached" /\ q.kind = k /\ Kept(p, q)
                            /\ q.err = p.err
                            /\ q.ret["setupLastID"] = l /\ q.ret["getHighestID"] = "last_id_add"
                            /\ \A f \in Function \ {"setupLastID", "getHighestID"} :
                                  q.ret[f] = p.ret[f]
           /\ \A g, S, l : LET q == NewGroup(p, g, S, l)
                           IN  /\ q.pc = "new_group_find" /\ q.name = g /\ q.members = S
                               /\ q.req = p.req /\ q.user = p.user /\ q.uid = p.uid
                               /\ q.kind = p.kind /\ q.err = p.err
                               /\ \A f \in Function :
                                     q.ret[f] = IF f = "NewGroup" THEN l ELSE p.ret[f]
           /\ \A u, l : LET q == NewAccount(p, u, l)
                        IN  /\ q.pc = "new_account_find" /\ q.user = u
                            /\ q.req = p.req /\ q.members = p.members /\ q.err = p.err
                            /\ \A f \in Function :
                                  q.ret[f] = IF f = "NewAccount" THEN l ELSE p.ret[f]
           /\ \A g, u, b, l : LET q == AddGroupMember(p, g, u, b, l)
                              IN  /\ q.pc \in JoinPlace /\ q.user = u
                                  /\ q.req = p.req /\ q.members = p.members /\ q.uid = p.uid
                                  /\ \A f \in Function :
                                        q.ret[f] = IF f = "AddGroupMember" THEN l ELSE p.ret[f]
<1>1. "getHighestID" \in Function /\ "setupLastID" \in Function
  BY DEF Function
<1>2. \A k, l : LET q == GetHighestID(p, k, l)
                IN  /\ q.pc = "highest_cached" /\ q.kind = k /\ Kept(p, q)
                    /\ q.err = p.err
                    /\ \A f \in Function :
                          q.ret[f] = IF f = "getHighestID" THEN l ELSE p.ret[f]
  BY DEF ProcState, Kept, GetHighestID
<1>3. \A k, l : LET q == SetupLastID(p, k, l)
                IN  /\ q.pc = "highest_cached" /\ q.kind = k /\ Kept(p, q)
                    /\ q.err = p.err
                    /\ q.ret["setupLastID"] = l /\ q.ret["getHighestID"] = "last_id_add"
                    /\ \A f \in Function \ {"setupLastID", "getHighestID"} :
                          q.ret[f] = p.ret[f]
  BY <1>1 DEF ProcState, Kept, SetupLastID, GetHighestID
<1>4. \A g, S, l : LET q == NewGroup(p, g, S, l)
                   IN  /\ q.pc = "new_group_find" /\ q.name = g /\ q.members = S
                       /\ q.req = p.req /\ q.user = p.user /\ q.uid = p.uid
                       /\ q.kind = p.kind /\ q.err = p.err
                       /\ \A f \in Function :
                             q.ret[f] = IF f = "NewGroup" THEN l ELSE p.ret[f]
  BY DEF ProcState, NewGroup
<1>5. \A u, l : LET q == NewAccount(p, u, l)
                IN  /\ q.pc = "new_account_find" /\ q.user = u
                    /\ q.req = p.req /\ q.members = p.members /\ q.err = p.err
                    /\ \A f \in Function :
                          q.ret[f] = IF f = "NewAccount" THEN l ELSE p.ret[f]
  BY DEF ProcState, NewAccount
<1>6. \A g, u, b, l : LET q == AddGroupMember(p, g, u, b, l)
                      IN  /\ q.pc \in JoinPlace /\ q.user = u
                          /\ q.req = p.req /\ q.members = p.members /\ q.uid = p.uid
                          /\ \A f \in Function :
                                q.ret[f] = IF f = "AddGroupMember" THEN l ELSE p.ret[f]
  BY DEF ProcState, AddGroupMember, JoinPlace
<1>7. QED
  BY <1>2, <1>3, <1>4, <1>5, <1>6

-----------------------------------------------------------------------------
(* Every step leaves its worker with what it has seen, and where it may be. *)

Good(q) == Local(q) /\ (Setting(q) => Standing(q))

Lands(w) ==
    \E q : Become(w, q) /\ q.req = proc[w].req /\ Local(q) /\ (Setting(q) => Standing(q)')

LEMMA GoodLands ==
    ASSUME Grow, NEW w, NEW q, Become(w, q), q.req = proc[w].req, Good(q)
    PROVE  Lands(w)
  BY GrowStanding DEF Good, Lands, Setting

\* What a worker past the two units knows, whoever it works for.
LEMMA SeesUnits ==
    ASSUME DirectoryTypeOK, NEW p, Standing(p),
           p.pc \notin {"idle", "setup_groups_ou", "setup_users_ou"}
    PROVE  /\ HasUnits
           /\ Place(p) \notin {"idle", "setup_groups_ou", "setup_users_ou", "last_id_add",
                               "setup_last_gid"} => HasSerials
           /\ ~Setting(p) => HasSerials
  BY DEF Standing, UnitsSeen, SerialsSeen, Ready

\* getHighestID: once the devices are there it never scans.
LEMMA HighestGood ==
    ASSUME DirectoryTypeOK, Grow, NEW w \in Worker, Known(proc[w]), Local(proc[w]), Standing(proc[w]),
           HighestCached(w) \/ HighestScan(w)
    PROVE  Lands(w)
<1> DEFINE p == proc[w]
<1>0. /\ p \in ProcState(Label) /\ p.kind \in IDKind /\ MinID \in Nat
      /\ p.pc \in {"highest_cached", "highest_scan"} /\ Place(p) = p.ret["getHighestID"]
      /\ Place(p) \in {"new_group_add", "new_account_uid", "last_id_add"}
      /\ p.pc = "highest_scan" => Place(p) = "last_id_add"
      /\ "getHighestID" \in Function
  BY DirectoryAssumption DEF Known, ProcState, HighestCached, HighestScan, At, Local, Place, Function
<1>1. HasUnits /\ (Place(p) # "last_id_add" => HasSerials) /\ (~Setting(p) => HasSerials)
  BY <1>0, SeesUnits
<1>2. ASSUME NEW i \in Nat, i >= MinID,
             Become(w, Return([p EXCEPT !.high = i], "getHighestID", "ok"))
      PROVE  Lands(w)
  <2> DEFINE r == [p EXCEPT !.high = i]
             q == Return(r, "getHighestID", "ok")
  <2>1. r \in ProcState(Label) /\ r.high = i /\ r.ret = p.ret /\ r.req = p.req /\ r.kind = p.kind
        /\ r.name = p.name /\ r.members = p.members /\ r.user = p.user /\ r.uid = p.uid
    BY <1>0, <1>2 DEF ProcState
  <2> HIDE DEF r
  <2>2. q.pc = Place(p) /\ q.err = "ok" /\ q.high = i /\ q.ret = p.ret /\ q.req = p.req
        /\ q.kind = p.kind
        /\ q.name = p.name /\ q.members = p.members /\ q.user = p.user /\ q.uid = p.uid
    BY <1>0, <2>1, MoveFields DEF Kept
  <2> HIDE DEF q
  <2>3. Place(q) = Place(p)
    BY <1>0, <2>2 DEF Place
  <2>4. Making(q) = Making(p) /\ InNewAccount(q) = InNewAccount(p) /\ Numbered(q) = Numbered(p)
        /\ Setting(q) = Setting(p) /\ (InNewAccount(p) <=> InNewAccount(q))
    BY <2>2, <2>3 DEF Making, InNewAccount, Numbered, ForAccount, Setting
  <2>5. Local(q)
    <3>1. NumbersFit(q)
      BY <1>0, <1>2, <2>2, <2>3, <2>4 DEF Local, NumbersFit
    <3>2. Setting(p) => SetupCalls(q)
      BY <2>2, <2>3, <2>4 DEF Local, SetupCalls
    <3>3. ~Setting(p) => ClientCalls(q)
      BY <2>2, <2>3, <2>4 DEF Local, ClientCalls
    <3>4. QED
      BY <1>0, <2>2, <2>3, <2>4, <3>1, <3>2, <3>3 DEF Local
  <2>6. Standing(p) /\ Setting(p) => Standing(q)
    BY <1>0, <1>1, <2>2, <2>3, <2>4
    DEF Standing, UnitsSeen, SerialsSeen, GroupsSeen, AdminSeen
  <2>7. QED
    BY <1>2, <2>2, <2>4, <2>5, <2>6, GoodLands DEF Good, q, r
<1>3. CASE HighestCached(w) /\ lastID[p.kind] >= MinID
  <2>1. lastID[p.kind] \in Nat
    BY <1>0 DEF DirectoryTypeOK
  <2>2. QED
    BY <1>0, <1>2, <1>3, <2>1 DEF HighestCached
<1>4. CASE HighestCached(w) /\ lastID[p.kind] < MinID
  <2>1. lastID[p.kind] \in Nat
    BY <1>0 DEF DirectoryTypeOK
  <2>2. ~HasSerials
    BY <1>0, <1>4, <2>1 DEF HasSerials
  <2>3. Setting(p) /\ Place(p) = "last_id_add"
    BY <1>1, <2>2
  <2> DEFINE q == Goto(p, "highest_scan")
  <2>4. q.pc = "highest_scan" /\ q.ret = p.ret /\ q.kind = p.kind /\ Kept(p, q)
    BY <1>0, MoveFields
  <2>5. Become(w, q)
    BY <1>0, <1>4, <2>1 DEF HighestCached
  <2> HIDE DEF q
  <2>6. Place(q) = Place(p) /\ Setting(q) = Setting(p)
    BY <1>0, <2>4 DEF Place, Setting, Kept
  <2>7. ~Making(q) /\ ~InNewAccount(q) /\ ~Numbered(q)
    BY <2>3, <2>6 DEF Making, InNewAccount, Numbered, ForAccount, MakingPlace, JoinPlace,
                      AccountPlace, NumberedPlace
  <2>8. Local(q)
    BY <2>3, <2>4, <2>6, <2>7 DEF Local, NumbersFit, SetupCalls, Kept, UnreachedPlace, JoinPlace
  <2>9. Standing(q)
    BY <1>0, <1>1, <2>3, <2>4, <2>6, <2>7
    DEF Standing, UnitsSeen, SerialsSeen, GroupsSeen, AdminSeen, FallbackPlace, JoinPlace
  <2>10. QED
    BY <2>4, <2>5, <2>8, <2>9, GoodLands DEF Good, Kept
<1>5. CASE HighestScan(w)
  <2>1. OU(p.kind) \in ous
    BY <1>0, <1>1 DEF HasUnits, OU
  <2>2. IDsInUse(p.kind) \cup {MinID} \subseteq Nat
    BY <1>0 DEF IDsInUse, DirectoryTypeOK, AccountEntry, GroupEntry
  <2>3. PICK h \in IDsInUse(p.kind) \cup {MinID} :
           /\ \A i \in IDsInUse(p.kind) \cup {MinID} : i <= h
           /\ Become(w, Return([p EXCEPT !.high = h], "getHighestID", "ok"))
    BY <1>5, <2>1 DEF HighestScan
  <2>4. h \in Nat /\ h >= MinID
    BY <1>0, <2>2, <2>3
  <2>5. QED
    BY <1>2, <2>3, <2>4
<1>6. QED
  <2>1. lastID[p.kind] \in Nat
    BY <1>0 DEF DirectoryTypeOK
  <2>2. QED
    BY <1>0, <1>3, <1>4, <1>5, <2>1

\* NewGroup goes back to a caller that can tell what its answer means.
LEMMA NewGroupReturns ==
    ASSUME NEW p \in ProcState(Label), Local(p), Standing(p), Making(p), HasUnits, HasSerials,
           NEW err,
           p.ret["NewGroup"] = "account_group_made" => GroupExists(UsersGroup),
           p.ret["NewGroup"] = "setup_admins_made" /\ err = "ok" => GroupExists(AdminsGroup)
    PROVE  Good(Return(p, "NewGroup", err)) /\ Return(p, "NewGroup", err).req = p.req
<1> DEFINE q == Return(p, "NewGroup", err)
<1>1. /\ q.pc = p.ret["NewGroup"] /\ q.err = err /\ q.ret = p.ret /\ q.kind = p.kind
      /\ Kept(p, q)
  BY MoveFields
<1> HIDE DEF q
<1>2. Setting(q) = Setting(p)
  BY <1>1 DEF Setting, Kept
<1>3. CASE ~Setting(p)
  <2>1. q.pc = "reply" /\ Place(q) = "reply"
    BY <1>1, <1>3 DEF Local, ClientCalls, Place
  <2>2. ~Making(q) /\ ~InNewAccount(q) /\ ~Numbered(q)
    BY <2>1 DEF Making, InNewAccount, Numbered, ForAccount, MakingPlace, JoinPlace,
                AccountPlace, NumberedPlace
  <2>3. Local(q)
    BY <1>1, <1>2, <1>3, <2>1, <2>2
    DEF Local, NumbersFit, ClientCalls, ClientPermits, Kept, UnreachedPlace, JoinPlace, SetupLabel,
        FallbackPlace, RenamePlace, DeletePlace
  <2>4. QED
    BY <1>1, <1>2, <1>3, <2>3 DEF Good, Kept, q
<1>4. CASE Setting(p)
  <2>1. /\ q.pc \in {"account_group_made", "account_group_own", "setup_admins_made"}
        /\ Place(q) = q.pc
        /\ ForAccount(p) <=> q.pc \in {"account_group_made", "account_group_own"}
    BY <1>1, <1>4
    DEF Local, SetupCalls, Place, Making, ForAccount, MakingPlace, JoinPlace
  <2>2. /\ ~Making(q) /\ ~ForAccount(q)
        /\ InNewAccount(q) <=> InNewAccount(p)
        /\ Numbered(q) <=> Numbered(p)
    BY <2>1 DEF Making, InNewAccount, Numbered, ForAccount, MakingPlace, JoinPlace,
                AccountPlace, NumberedPlace
  <2>3. NumbersFit(q)
    BY <1>1, <2>1, <2>2 DEF Local, NumbersFit, Kept
  <2>4. SetupCalls(q)
    BY <1>1, <1>4, <2>1, <2>2
    DEF Local, SetupCalls, Kept, SetupLabel, AccountPlace, NumberedPlace, JoinPlace
  <2>5. Local(q)
    BY <1>1, <1>2, <1>4, <2>1, <2>3, <2>4 DEF Local, UnreachedPlace, JoinPlace
  <2>6. q.pc = "account_group_own" => GroupExists(UsersGroup)
    BY <1>1 DEF Standing, GroupsSeen
  <2>7. Standing(q)
    BY <1>1, <1>2, <1>4, <2>1, <2>2, <2>6
    DEF Standing, UnitsSeen, SerialsSeen, GroupsSeen, AdminSeen, FallbackPlace, JoinPlace
  <2>8. QED
    BY <1>1, <2>5, <2>7 DEF Good, Kept, q
<1>5. QED
  BY <1>3, <1>4

\* NewGroup has made the entry: what it saw before still stands.
LEMMA AddedStanding ==
    ASSUME Grow, NEW p, Standing(p), p.pc = "new_group_add", HasUnits, HasSerials,
           NEW q, q.pc = "new_group_last", q.ret = p.ret, q.name = p.name, q.req = p.req,
           IsProtectedGroup(q.name) => GroupExists(q.name)', Setting(p)
    PROVE  Standing(q)'
<1>1. HasUnits' /\ HasSerials'
  BY DEF Grow, HasUnits, HasSerials
<1>2. /\ GroupExists(UsersGroup) => GroupExists(UsersGroup)'
      /\ GroupExists(AdminsGroup) => GroupExists(AdminsGroup)'
      /\ AccountExists(Admin) => AccountExists(Admin)'
  BY DEF Grow
<1>3. UnitsSeen(q)' /\ SerialsSeen(q)'
  BY <1>1 DEF UnitsSeen, SerialsSeen, Place
<1>4. Making(p) /\ Making(q) /\ (InNewAccount(q) <=> InNewAccount(p))
  BY DEF Making, InNewAccount, ForAccount, Place, MakingPlace, JoinPlace, AccountPlace, NumberedPlace
<1>5. GroupsSeen(q)'
  BY <1>2, <1>4 DEF Standing, GroupsSeen, Place, Making, FallbackPlace
<1>6. AdminSeen(q)'
  BY <1>2, <1>4 DEF Standing, AdminSeen, Place, Making, InNewAccount, ForAccount, JoinPlace,
                    MakingPlace, AccountPlace, NumberedPlace
<1>7. QED
  BY <1>3, <1>5, <1>6 DEF Standing, Setting

LEMMA NewGroupGood ==
    ASSUME DirectoryTypeOK, Founded, Founded', Grow, NEW w \in Worker, Known(proc[w]),
           Local(proc[w]), Standing(proc[w]),
           NewGroupFind(w) \/ NewGroupRefused(w) \/ NewGroupAdd(w) \/ NewGroupLast(w)
    PROVE  Lands(w)
<1> DEFINE p == proc[w]
<1>0. /\ p \in ProcState(Label) /\ MinID \in Nat \ {0} /\ p.high \in Nat
      /\ p.pc \in MakingPlace /\ Place(p) = p.pc /\ Making(p)
      /\ "getHighestID" \in Function /\ "NewGroup" \in Function
  BY DirectoryAssumption
  DEF Known, ProcState, NewGroupFind, NewGroupRefused, NewGroupAdd, NewGroupLast, At, Place,
      Making, MakingPlace, Function
<1>1. HasUnits /\ HasSerials
  BY <1>0, SeesUnits DEF MakingPlace
<1>2. ~Setting(p) => Ready /\ GroupExists(UsersGroup) /\ GroupExists(AdminsGroup)
  BY <1>0, ClientSeesAll DEF MakingPlace
<1>3. /\ p.ret["NewGroup"] = "account_group_made" => p.name = UsersGroup
      /\ p.ret["NewGroup"] = "setup_admins_made" => p.name = AdminsGroup
      /\ Setting(p) => p.members = {Admin}
  BY <1>0 DEF Local, SetupCalls, ClientCalls
<1>4. ASSUME NEW err, Become(w, Return(p, "NewGroup", err)), GroupExists(p.name) PROVE Lands(w)
  BY <1>0, <1>1, <1>3, <1>4, NewGroupReturns, GoodLands
<1>5. CASE NewGroupFind(w) /\ GroupExists(p.name)
  BY <1>1, <1>4, <1>5 DEF NewGroupFind, HasUnits
<1>6. CASE NewGroupFind(w) /\ ~GroupExists(p.name)
  <2> DEFINE q == GetHighestID(p, "GID", "new_group_add")
  <2>1. /\ q.pc = "highest_cached" /\ q.kind = "GID" /\ Kept(p, q)
        /\ q.ret["getHighestID"] = "new_group_add"
        /\ \A f \in Function \ {"getHighestID"} : q.ret[f] = p.ret[f]
    BY <1>0, CallFields
  <2>2. Become(w, q)
    BY <1>1, <1>6 DEF NewGroupFind, HasUnits
  <2> HIDE DEF q
  <2>3. /\ Place(q) = "new_group_add" /\ Setting(q) = Setting(p)
        /\ \A f \in {"NewGroup", "NewAccount"} : q.ret[f] = p.ret[f]
    BY <2>1 DEF Place, Setting, Kept, Function
  <2>4. Making(q) /\ ForAccount(q) = ForAccount(p)
        /\ (InNewAccount(q) <=> InNewAccount(p)) /\ (Numbered(q) <=> Numbered(p))
    BY <1>0, <2>3 DEF Making, InNewAccount, Numbered, ForAccount, MakingPlace, JoinPlace,
                      AccountPlace, NumberedPlace
  <2>5. NumbersFit(q)
    BY <2>1, <2>4 DEF Local, NumbersFit, Kept
  <2>6. Setting(p) => SetupCalls(q)
    BY <1>0, <2>1, <2>3, <2>4 DEF Local, SetupCalls, Kept, MakingPlace, JoinPlace
  <2>7. ~Setting(p) => ClientCalls(q)
    BY <2>1, <2>3 DEF Local, ClientCalls, ClientPermits, Kept, SetupLabel, FallbackPlace,
                      RenamePlace, DeletePlace
  <2>8. Local(q)
    BY <2>1, <2>3, <2>5, <2>6, <2>7 DEF Local, UnreachedPlace, JoinPlace
  <2>9. Setting(p) => Standing(q)
    BY <1>0, <1>1, <2>1, <2>3, <2>4
    DEF Standing, UnitsSeen, SerialsSeen, GroupsSeen, AdminSeen, FallbackPlace, JoinPlace
  <2>10. QED
    BY <2>1, <2>2, <2>3, <2>8, <2>9, GoodLands DEF Good, Kept
<1>7. CASE NewGroupRefused(w)
  <2>1. p.pc = "new_group_add" /\ p.err = "ok"
    BY <1>7 DEF NewGroupRefused, At, Local, NumbersFit
  <2>2. ~Setting(p) /\ Become(w, Return(p, "NewGroup", "Validation"))
    BY <1>3, <1>7, <2>1 DEF NewGroupRefused
  <2>3. p.ret["NewGroup"] = "reply"
    BY <2>2 DEF Local, ClientCalls
  <2>4. QED
    BY <1>0, <1>1, <2>2, <2>3, NewGroupReturns, GoodLands
<1>8. CASE NewGroupAdd(w) /\ AddGroupCode(p.name) # "ok"
  <2>1. GroupExists(p.name)
    BY <1>1, <1>8 DEF AddGroupCode, HasUnits
  <2>2. QED
    BY <1>4, <1>8, <2>1 DEF NewGroupAdd
<1>9. CASE NewGroupAdd(w) /\ AddGroupCode(p.name) = "ok"
  <2>1. p.high >= MinID /\ p.high + 1 \in Nat /\ p.pc = "new_group_add"
    BY <1>0, <1>9 DEF NewGroupAdd, At, Local, NumbersFit
  <2> DEFINE r == [p EXCEPT !.newGID = p.high + 1]
             q == Goto(r, "new_group_last")
  <2>2. r \in ProcState(Label) /\ r.newGID = p.high + 1 /\ r.ret = p.ret /\ r.req = p.req
        /\ r.kind = p.kind /\ r.name = p.name /\ r.members = p.members /\ r.user = p.user
        /\ r.uid = p.uid
    BY <1>0, <2>1 DEF ProcState
  <2> HIDE DEF r
  <2>3. q.pc = "new_group_last" /\ q.newGID = p.high + 1 /\ q.ret = p.ret /\ q.req = p.req
        /\ q.kind = p.kind /\ q.name = p.name /\ q.members = p.members /\ q.user = p.user
        /\ q.uid = p.uid
    BY <2>2, MoveFields DEF Kept
  <2>4. Become(w, q)
    BY <1>9 DEF NewGroupAdd, r
  <2> HIDE DEF q
  <2>5. /\ Place(q) = "new_group_last" /\ Setting(q) = Setting(p) /\ Making(q)
        /\ ForAccount(q) <=> ForAccount(p)
        /\ InNewAccount(q) <=> InNewAccount(p)
        /\ Numbered(q) <=> Numbered(p)
    BY <1>0, <2>1, <2>3
    DEF Place, Setting, Making, InNewAccount, Numbered, ForAccount, MakingPlace, JoinPlace,
        AccountPlace, NumberedPlace
  <2>6. NumbersFit(q)
    BY <1>0, <2>1, <2>3, <2>5 DEF Local, NumbersFit
  <2>7. Setting(p) => SetupCalls(q)
    BY <1>0, <2>3, <2>5 DEF Local, SetupCalls, MakingPlace, JoinPlace
  <2>8. ~Setting(p) => ClientCalls(q)
    BY <2>3, <2>5 DEF Local, ClientCalls, ClientPermits, SetupLabel, FallbackPlace,
                      RenamePlace, DeletePlace
  <2>9. Local(q)
    BY <2>3, <2>5, <2>6, <2>7, <2>8 DEF Local, UnreachedPlace, JoinPlace
  <2>10. ASSUME NEW g, g = p.name, IsProtectedGroup(g) PROVE GroupExists(g)'
    <3>1. AddGroup(g, [gid |-> p.high + 1, members |-> p.members]) /\ g \in Group
      BY <1>9, <2>10, DirectoryAssumption DEF NewGroupAdd, IsProtectedGroup
    <3>2. group'[g].gid = p.high + 1
      BY <1>9, <2>10, <3>1 DEF AddGroup, DirectoryTypeOK
    <3>3. QED
      BY <1>0, <3>2 DEF GroupExists
  <2>11. PICK y : y = q
    OBVIOUS
  <2>12. IsProtectedGroup(y.name) => GroupExists(y.name)'
    BY <2>3, <2>10, <2>11
  <2>13. Setting(p) => Standing(y)'
    BY <1>1, <2>1, <2>3, <2>11, <2>12, AddedStanding
  <2>14. QED
    BY <2>3, <2>4, <2>5, <2>9, <2>11, <2>13 DEF Lands
<1>10. CASE NewGroupLast(w)
  <2>1. p.pc = "new_group_last" /\ lastID["GID"] # 0
    BY <1>0, <1>1, <1>10 DEF NewGroupLast, At, HasSerials, IDKind
  <2>2. Become(w, Return(p, "NewGroup", "ok"))
    BY <1>10, <2>1 DEF NewGroupLast, ReplaceSerialCode
  <2>3. IsProtectedGroup(p.name) => GroupExists(p.name)
    BY <2>1 DEF Standing, GroupsSeen
  <2>4. QED
    BY <1>0, <1>1, <1>3, <2>2, <2>3, NewGroupReturns, GoodLands DEF IsProtectedGroup
<1>11. QED
  BY <1>5, <1>6, <1>7, <1>8, <1>9, <1>10

\* Where a client's request is free to go.
LooseLabel ==
    Label \ ({"highest_cached", "highest_scan", "new_account_uid", "setup_last_gid",
              "setup_last_uid", "last_id_add"}
             \cup UnreachedPlace \cup MakingPlace \cup JoinPlace \cup NumberedPlace)

LEMMA ClientMoves ==
    ASSUME NEW p, NEW q, ~Setting(p), ClientCalls(p),
           q.req = p.req, q.ret = p.ret, q.pc \in LooseLabel, ClientPermits(p.req, q.pc)
    PROVE  Good(q)
<1>1. Place(q) = q.pc /\ ~Making(q) /\ ~ForAccount(q) /\ ~Numbered(q)
  BY DEF Place, Making, ForAccount, Numbered, LooseLabel
<1>2. NumbersFit(q)
  BY <1>1 DEF NumbersFit, LooseLabel, MakingPlace
<1>3. ClientCalls(q) /\ ~Setting(q)
  BY <1>1 DEF ClientCalls, Setting
<1>4. Local(q)
  BY <1>1, <1>2, <1>3 DEF Local, LooseLabel
<1>5. QED
  BY <1>3, <1>4 DEF Good

\* A handler's last step, and its Goto.
LEMMA ClientAnswers ==
    ASSUME NEW p \in ProcState(Label), ~Setting(p), ClientCalls(p)
    PROVE  /\ \A err : Good(Answer(p, err)) /\ Answer(p, err).req = p.req
           /\ \A l \in LooseLabel : ClientPermits(p.req, l) =>
                 Good(Goto(p, l)) /\ Goto(p, l).req = p.req
<1>1. "reply" \in LooseLabel /\ ClientPermits(p.req, "reply")
  BY DEF LooseLabel, UnreachedPlace, MakingPlace, JoinPlace, NumberedPlace, Label, ClientPermits,
         SetupLabel, FallbackPlace, RenamePlace, DeletePlace
<1>2. QED
  BY <1>1, MoveFields, ClientMoves DEF Kept

\* The assignments of the handlers of groups.go and of UpdateAccount and DeleteAccount.
LEMMA ClientAssigns ==
    ASSUME NEW p, Known(p), ~Setting(p), ClientCalls(p)
    PROVE  LET Open(r) == /\ r \in ProcState(Label) /\ r.req = p.req /\ r.pc = p.pc
                          /\ ~Setting(r) /\ ClientCalls(r)
           IN  /\ \A S \in SUBSET Group : /\ Open([p EXCEPT !.todo = S])
                                          /\ [p EXCEPT !.todo = S].todo = S
               /\ \A g \in Group : Open([p EXCEPT !.group = g])
               /\ \A u \in User : Open([p EXCEPT !.user = u])
<1>1. p \in ProcState(Label)
  BY DEF Known
<1>2. ASSUME NEW r \in ProcState(Label), r.req = p.req, r.pc = p.pc, r.ret = p.ret
      PROVE  ~Setting(r) /\ ClientCalls(r)
  BY <1>2 DEF Setting, ClientCalls, Place
<1>3. /\ \A S \in SUBSET Group : LET r == [p EXCEPT !.todo = S]
                                 IN  /\ r \in ProcState(Label) /\ r.req = p.req /\ r.pc = p.pc
                                     /\ r.ret = p.ret /\ r.todo = S
      /\ \A g \in Group : LET r == [p EXCEPT !.group = g]
                          IN  /\ r \in ProcState(Label) /\ r.req = p.req /\ r.pc = p.pc
                              /\ r.ret = p.ret
      /\ \A u \in User : LET r == [p EXCEPT !.user = u]
                         IN  /\ r \in ProcState(Label) /\ r.req = p.req /\ r.pc = p.pc
                             /\ r.ret = p.ret
  BY <1>1 DEF ProcState
<1>4. QED
  BY <1>2, <1>3

LEMMA ChangeGroupGood ==
    ASSUME DirectoryTypeOK, Grow, NEW w \in Worker, Known(proc[w]), Local(proc[w]),
           \/ DeleteGroupEntry(w) \/ UpdateGroupRename(w) \/ UpdateGroupModify(w)
           \/ DeleteMember(w)
    PROVE  Lands(w)
<1> DEFINE p == proc[w]
<1>0. /\ p \in ProcState(Label) /\ Fits(p, p.pc)
      /\ p.pc \in {"delete_group", "update_group_rename", "update_group_modify", "delete_member"}
  BY DEF Known, DeleteGroupEntry, UpdateGroupRename, UpdateGroupModify, DeleteMember, At
<1>1. ~Setting(p) /\ ClientCalls(p)
  BY <1>0, SettingPlaces DEF Local, Place
<1>2. CASE DeleteGroupEntry(w) \/ UpdateGroupModify(w) \/ DeleteMember(w)
  BY <1>0, <1>1, <1>2, ClientAnswers, GoodLands DEF DeleteGroupEntry, UpdateGroupModify, DeleteMember
<1>3. CASE UpdateGroupRename(w)
  <2>1. p.req.to \in Group
    BY <1>0, <1>3 DEF UpdateGroupRename, At, Fits
  <2> DEFINE r == [p EXCEPT !.group = p.req.to]
  <2>2. r \in ProcState(Label) /\ r.req = p.req /\ ~Setting(r) /\ ClientCalls(r)
    BY <1>1, <2>1, ClientAssigns
  <2>3. "update_group_modify" \in LooseLabel /\ ClientPermits(p.req, "update_group_modify")
    BY DEF LooseLabel, UnreachedPlace, MakingPlace, JoinPlace, NumberedPlace, Label, GroupLabel,
           ClientPermits, SetupLabel, FallbackPlace, RenamePlace, DeletePlace
  <2> HIDE DEF r
  <2>4. Good(Goto(r, "update_group_modify")) /\ Goto(r, "update_group_modify").req = p.req
    BY <2>2, <2>3, ClientAnswers
  <2>5. QED
    BY <1>0, <1>1, <1>3, <2>4, ClientAnswers, GoodLands DEF UpdateGroupRename, r
<1>4. QED
  BY <1>2, <1>3

\* AddGroupMember, called by its rpc or by NewAccount.
LEMMA AddMemberGood ==
    ASSUME DirectoryTypeOK, Grow, NEW w \in Worker, Known(proc[w]), Local(proc[w]), Standing(proc[w]),
           AddMemberCheck(w) \/ AddMember(w)
    PROVE  Lands(w)
<1> DEFINE p == proc[w]
<1>0. /\ p \in ProcState(Label) /\ p.pc \in JoinPlace /\ Place(p) = p.pc
      /\ p.ret["AddGroupMember"] \in {"reply", "new_account_joined"}
  BY DEF Known, AddMemberCheck, AddMember, At, JoinPlace, Place, Local
<1>1. HasUnits /\ HasSerials
  BY <1>0, SeesUnits DEF JoinPlace
<1>2. ASSUME NEW q, Become(w, q), Kept(p, q), q.ret = p.ret, q.kind = p.kind,
             \/ q.pc = p.ret["AddGroupMember"]
             \/ q.pc \in JoinPlace
      PROVE  Lands(w)
  <2>1. Place(q) = q.pc /\ Setting(q) = Setting(p) /\ q.req = p.req
    BY <1>0, <1>2 DEF Place, Setting, Kept, JoinPlace
  <2>2. /\ ~Making(q)
        /\ InNewAccount(q) <=> InNewAccount(p)
        /\ Numbered(q) <=> Numbered(p)
        /\ q.pc \in {"reply", "new_account_joined", "add_member", "add_member_check"}
        /\ Setting(p) => q.pc # "reply"
    BY <1>0, <1>2, <2>1
    DEF Making, InNewAccount, Numbered, ForAccount, MakingPlace, JoinPlace, AccountPlace,
        NumberedPlace, Local, SetupCalls
  <2>3. NumbersFit(q)
    BY <1>2, <2>2 DEF Local, NumbersFit, Kept
  <2>4. Setting(p) => SetupCalls(q)
    BY <1>0, <1>2, <2>1, <2>2 DEF Local, SetupCalls, Kept, JoinPlace, AccountPlace, NumberedPlace
  <2>5. ~Setting(p) => ClientCalls(q)
    BY <1>2, <2>1, <2>2
    DEF Local, ClientCalls, ClientPermits, Kept, SetupLabel, FallbackPlace, RenamePlace, DeletePlace
  <2>6. Local(q)
    BY <1>0, <1>2, <2>1, <2>2, <2>3, <2>4, <2>5 DEF Local, UnreachedPlace
  <2>7. Setting(p) => Standing(q)
    BY <1>0, <1>1, <2>1, <2>2, <1>2
    DEF Standing, UnitsSeen, SerialsSeen, GroupsSeen, AdminSeen, FallbackPlace
  <2>8. QED
    BY <1>2, <2>1, <2>6, <2>7, GoodLands DEF Good
<1>3. \A err : LET q == Return(p, "AddGroupMember", err)
               IN  Kept(p, q) /\ q.ret = p.ret /\ q.kind = p.kind /\ q.pc = p.ret["AddGroupMember"]
  BY <1>0, MoveFields
<1>4. LET q == Goto(p, "add_member")
      IN  Kept(p, q) /\ q.ret = p.ret /\ q.kind = p.kind /\ q.pc \in JoinPlace
  BY <1>0, MoveFields DEF JoinPlace
<1>5. ASSUME NEW err, Become(w, Return(p, "AddGroupMember", err)) PROVE Lands(w)
  BY <1>2, <1>3, <1>5
<1>6. ASSUME Become(w, Goto(p, "add_member")) PROVE Lands(w)
  BY <1>2, <1>4, <1>6
<1>7. QED
  BY <1>5, <1>6 DEF AddMemberCheck, AddMember

-----------------------------------------------------------------------------
(* NewAccount. *)

\* At a label of NewAccount itself.
Inside(p) ==
    /\ Known(p) /\ Local(p) /\ Standing(p) /\ HasUnits /\ HasSerials
    /\ p.pc \in AccountPlace

LEMMA InsideFacts ==
    ASSUME NEW p, Inside(p)
    PROVE  /\ p \in ProcState(Label) /\ Place(p) = p.pc /\ p.pc # "idle" /\ InNewAccount(p)
           /\ p.user \in User
           /\ Setting(p) => p.user = Admin
           /\ p.pc \in NumberedPlace => p.uid >= MinID
           /\ p.pc \in FallbackPlace => Setting(p)
<1>1. Place(p) = p.pc /\ p.pc # "idle" /\ InNewAccount(p)
  BY DEF Inside, Place, InNewAccount, AccountPlace, NumberedPlace
<1>2. p.user \in User
  BY DEF Inside, Known, Fits, UserLabel, AccountPlace, NumberedPlace
<1>3. Setting(p) => p.user = Admin
  BY <1>2, DirectoryAssumption DEF Inside, Local, SetupCalls
<1>4. p.pc \in NumberedPlace => p.uid >= MinID
  BY <1>1 DEF Inside, Local, NumbersFit, Numbered
<1>5. p.pc \in FallbackPlace => Setting(p)
  BY <1>1 DEF Inside, Local, ClientCalls, ClientPermits
<1>6. QED
  BY <1>1, <1>2, <1>3, <1>4, <1>5 DEF Inside, Known

LEMMA AccountReturns ==
    ASSUME NEW p, Inside(p), NEW err,
           Setting(p) /\ err \in {"ok", "AccountExists"} => AccountExists(Admin)
    PROVE  Good(Return(p, "NewAccount", err)) /\ Return(p, "NewAccount", err).req = p.req
<1> DEFINE q == Return(p, "NewAccount", err)
<1>0. p \in ProcState(Label) /\ Place(p) = p.pc /\ InNewAccount(p)
  BY InsideFacts
<1>1. q.pc = p.ret["NewAccount"] /\ q.err = err /\ q.ret = p.ret /\ q.kind = p.kind /\ Kept(p, q)
  BY <1>0, MoveFields
<1> HIDE DEF q
<1>2. /\ Setting(q) = Setting(p)
      /\ Setting(p) => q.pc \in {"setup_admin_made", "setup_admin_forced"}
      /\ ~Setting(p) => q.pc = "reply"
  BY <1>0, <1>1 DEF Inside, Local, SetupCalls, ClientCalls, Setting, Kept
<1>3. Place(q) = q.pc
  BY <1>2 DEF Place
<1>4. ~Making(q) /\ ~InNewAccount(q) /\ ~Numbered(q)
  BY <1>2, <1>3 DEF Making, InNewAccount, Numbered, ForAccount, MakingPlace, JoinPlace,
                    AccountPlace, NumberedPlace
<1>5. NumbersFit(q)
  BY <1>2, <1>4 DEF NumbersFit
<1>6. Setting(p) => SetupCalls(q)
  BY <1>1, <1>2, <1>3, <1>4 DEF Inside, Local, SetupCalls, Kept, SetupLabel, JoinPlace
<1>7. ~Setting(p) => ClientCalls(q)
  BY <1>1, <1>2, <1>3
  DEF Inside, Local, ClientCalls, ClientPermits, Kept, SetupLabel, FallbackPlace, RenamePlace,
      DeletePlace
<1>8. Local(q)
  BY <1>2, <1>3, <1>5, <1>6, <1>7 DEF Local, UnreachedPlace, JoinPlace
<1>9. Setting(p) => Standing(q)
  BY <1>0, <1>1, <1>2, <1>3, <1>4
  DEF Inside, Standing, UnitsSeen, SerialsSeen, GroupsSeen, AdminSeen, FallbackPlace, JoinPlace
<1>10. QED
  BY <1>1, <1>2, <1>8, <1>9 DEF Good, Kept, q

LEMMA AccountMoves ==
    ASSUME NEW p, Inside(p), NEW q,
           q.req = p.req, q.ret = p.ret, q.user = p.user, q.members = p.members, q.uid >= MinID,
           q.pc \in {"account_by_gid", "account_group", "account_group_gid", "new_account_add"},
           q.pc \in {"account_group_gid", "new_account_add"} => GroupExists(UsersGroup),
           q.pc = "account_group_gid" => Setting(p)
    PROVE  Good(q)
<1>0. p \in ProcState(Label) /\ Place(p) = p.pc /\ InNewAccount(p)
  BY InsideFacts
<1>1. Place(q) = q.pc /\ Setting(q) = Setting(p)
  BY DEF Place, Setting
<1>2. ~Making(q) /\ InNewAccount(q) /\ Numbered(q)
  BY <1>1 DEF Making, InNewAccount, Numbered, ForAccount, MakingPlace, AccountPlace, NumberedPlace
<1>3. NumbersFit(q)
  BY <1>2 DEF NumbersFit
<1>4. Setting(p) => SetupCalls(q)
  BY <1>0, <1>1, <1>2 DEF Inside, Local, SetupCalls, AccountPlace, NumberedPlace, JoinPlace
<1>5. ~Setting(p) => ClientCalls(q)
  BY <1>1 DEF Inside, Local, ClientCalls, ClientPermits, SetupLabel, FallbackPlace, RenamePlace,
              DeletePlace
<1>6. Local(q)
  BY <1>1, <1>3, <1>4, <1>5 DEF Local, UnreachedPlace, JoinPlace
<1>7. Setting(p) => Standing(q)
  BY <1>0, <1>1, <1>2
  DEF Inside, Standing, UnitsSeen, SerialsSeen, GroupsSeen, AdminSeen, FallbackPlace, JoinPlace
<1>8. QED
  BY <1>1, <1>6, <1>7 DEF Good

\* SetupLDAP alone may have to make the groups of the first account.
LEMMA AccountMakes ==
    ASSUME NEW p, Inside(p), Setting(p), p.pc \in NumberedPlace, NEW g, NEW l,
           \/ l = "account_group_made" /\ g = UsersGroup
           \/ l = "account_group_own" /\ g = p.user /\ GroupExists(UsersGroup)
    PROVE  LET q == NewGroup(p, g, {p.user}, l) IN Good(q) /\ q.req = p.req
<1> DEFINE q == NewGroup(p, g, {p.user}, l)
<1>0. p \in ProcState(Label) /\ Place(p) = p.pc /\ InNewAccount(p) /\ p.user = Admin /\ p.uid >= MinID
  BY InsideFacts
<1>1. /\ q.pc = "new_group_find" /\ q.name = g /\ q.members = {Admin}
      /\ q.req = p.req /\ q.user = p.user /\ q.uid = p.uid
      /\ \A f \in Function : q.ret[f] = IF f = "NewGroup" THEN l ELSE p.ret[f]
  BY <1>0, CallFields
<1> HIDE DEF q
<1>2. /\ Place(q) = "new_group_find" /\ Setting(q)
      /\ q.ret["NewGroup"] = l /\ q.ret["NewAccount"] = p.ret["NewAccount"]
  BY <1>1 DEF Place, Setting, Function
<1>3. Making(q) /\ InNewAccount(q) /\ Numbered(q)
  BY <1>2 DEF Making, InNewAccount, Numbered, ForAccount, MakingPlace
<1>4. NumbersFit(q)
  BY <1>0, <1>1 DEF NumbersFit
<1>5. SetupCalls(q)
  BY <1>0, <1>1, <1>2, <1>3, WorkerAssumption DEF Inside, Local, SetupCalls, MakingPlace, JoinPlace
<1>6. Local(q)
  BY <1>1, <1>2, <1>4, <1>5 DEF Local, UnreachedPlace, JoinPlace
<1>7. Standing(q)
  BY <1>0, <1>1, <1>2, <1>3
  DEF Inside, Standing, UnitsSeen, SerialsSeen, GroupsSeen, AdminSeen, FallbackPlace, JoinPlace
<1>8. QED
  BY <1>1, <1>6, <1>7 DEF Good, q

LEMMA AccountCounts ==
    ASSUME NEW p, Inside(p), p.pc = "new_account_find"
    PROVE  LET q == GetHighestID(p, "UID", "new_account_uid") IN Good(q) /\ q.req = p.req
<1> DEFINE q == GetHighestID(p, "UID", "new_account_uid")
<1>0. p \in ProcState(Label) /\ Place(p) = p.pc /\ InNewAccount(p)
  BY InsideFacts
<1>1. /\ q.pc = "highest_cached" /\ Kept(p, q) /\ q.ret["getHighestID"] = "new_account_uid"
      /\ \A f \in {"NewGroup", "NewAccount"} : q.ret[f] = p.ret[f]
  BY <1>0, CallFields DEF Function
<1> HIDE DEF q
<1>2. Place(q) = "new_account_uid" /\ Setting(q) = Setting(p)
  BY <1>1 DEF Place, Setting, Kept
<1>3. ~Making(q) /\ InNewAccount(q) /\ ~Numbered(q)
  BY <1>2 DEF Making, InNewAccount, Numbered, ForAccount, MakingPlace, JoinPlace, AccountPlace,
              NumberedPlace
<1>4. NumbersFit(q)
  BY <1>1, <1>3 DEF NumbersFit
<1>5. Setting(p) => SetupCalls(q)
  BY <1>0, <1>1, <1>2, <1>3 DEF Inside, Local, SetupCalls, Kept, AccountPlace, JoinPlace
<1>6. ~Setting(p) => ClientCalls(q)
  BY <1>1, <1>2
  DEF Inside, Local, ClientCalls, ClientPermits, Kept, SetupLabel, FallbackPlace, RenamePlace,
      DeletePlace
<1>7. Local(q)
  BY <1>1, <1>2, <1>4, <1>5, <1>6 DEF Local, UnreachedPlace, JoinPlace
<1>8. Setting(p) => Standing(q)
  BY <1>0, <1>1, <1>2, <1>3
  DEF Inside, Standing, UnitsSeen, SerialsSeen, GroupsSeen, AdminSeen, FallbackPlace, JoinPlace
<1>9. QED
  BY <1>1, <1>2, <1>7, <1>8 DEF Good, Kept, q

\* The entry is there, and so is the administrator if it is the administrator's.
LEMMA AccountJoins ==
    ASSUME Grow, NEW p, Inside(p), p.pc = "new_account_add",
           Setting(p) => AccountExists(Admin)',
           NEW g, NEW b
    PROVE  LET q == AddGroupMember(p, g, p.user, b, "new_account_joined")
           IN  q.req = p.req /\ Local(q) /\ (Setting(q) => Standing(q)')
<1> DEFINE x == AddGroupMember(p, g, p.user, b, "new_account_joined")
<1>0. /\ p \in ProcState(Label) /\ Place(p) = p.pc /\ InNewAccount(p) /\ p.uid >= MinID
  BY InsideFacts DEF NumberedPlace
<1>1. PICK q : q = x
  OBVIOUS
<1>2. /\ q.pc \in JoinPlace /\ q.user = p.user /\ q.req = p.req /\ q.members = p.members
      /\ q.uid = p.uid /\ q.ret["AddGroupMember"] = "new_account_joined"
      /\ q.ret["NewAccount"] = p.ret["NewAccount"] /\ q.ret["NewGroup"] = p.ret["NewGroup"]
  BY <1>0, <1>1, CallFields DEF Function
<1> HIDE DEF x
<1>3. Place(q) = q.pc /\ Setting(q) = Setting(p)
  BY <1>2 DEF Place, Setting, JoinPlace
<1>4. ~Making(q) /\ InNewAccount(q) /\ Numbered(q)
  BY <1>2, <1>3 DEF Making, InNewAccount, Numbered, ForAccount, MakingPlace, JoinPlace
<1>5. NumbersFit(q)
  BY <1>0, <1>2, <1>4 DEF NumbersFit, JoinPlace
<1>6. Setting(p) => SetupCalls(q)
  BY <1>0, <1>2, <1>3, <1>4 DEF Inside, Local, SetupCalls
<1>7. ~Setting(p) => ClientCalls(q)
  BY <1>2, <1>3
  DEF Inside, Local, ClientCalls, ClientPermits, JoinPlace, SetupLabel, FallbackPlace, RenamePlace,
      DeletePlace
<1>8. Local(q)
  BY <1>2, <1>3, <1>5, <1>6, <1>7 DEF Local, UnreachedPlace, JoinPlace
<1>9. ASSUME Setting(q) PROVE Standing(q)'
  <2>1. HasUnits' /\ HasSerials'
    BY DEF Inside, Grow, HasUnits, HasSerials
  <2>2. Setting(p) /\ AccountExists(Admin)'
    BY <1>3, <1>9
  <2>3. p.ret["NewAccount"] = "setup_admin_forced" => GroupExists(AdminsGroup)'
    BY <1>0, <2>2 DEF Inside, Standing, AdminSeen, Grow
  <2>4. UnitsSeen(q)' /\ SerialsSeen(q)'
    BY <1>2, <1>3, <2>1 DEF UnitsSeen, SerialsSeen, Place, JoinPlace
  <2>5. GroupsSeen(q)'
    BY <1>2, <1>3, <1>4 DEF GroupsSeen, Place, Making, FallbackPlace, JoinPlace
  <2>6. AdminSeen(q)'
    BY <1>2, <1>4, <2>2, <2>3 DEF AdminSeen, Place, Making, InNewAccount, ForAccount, JoinPlace
  <2>7. QED
    BY <1>9, <2>4, <2>5, <2>6 DEF Standing, Setting
<1>10. QED
  BY <1>1, <1>2, <1>8, <1>9 DEF x

LEMMA NewAccountGood ==
    ASSUME DirectoryTypeOK, Founded, Grow, NEW w \in Worker, Known(proc[w]), Local(proc[w]),
           Standing(proc[w]),
           \/ NewAccountFind(w) \/ NewAccountNoOU(w) \/ NewAccountUID(w) \/ NewAccountRetry(w)
           \/ NewAccountUIDAgain(w) \/ AccountByGID(w) \/ AccountGroup(w) \/ AccountGroupMade(w)
           \/ AccountGroupOwn(w) \/ AccountGroupGID(w) \/ NewAccountAdd(w)
           \/ NewAccountNotJoined(w) \/ NewAccountLast(w)
    PROVE  Lands(w)
<1> DEFINE p == proc[w]
<1>0. p.pc \in AccountPlace
  <2>1. Place(p) \notin UnreachedPlace
    BY DEF Local
  <2>2. ~(NewAccountNoOU(w) \/ NewAccountRetry(w) \/ NewAccountUIDAgain(w))
    BY <2>1 DEF NewAccountNoOU, NewAccountRetry, NewAccountUIDAgain, At, Place, UnreachedPlace
  <2>3. QED
    BY <2>2
    DEF NewAccountFind, NewAccountUID, AccountByGID, AccountGroup, AccountGroupMade,
        AccountGroupOwn, AccountGroupGID, NewAccountAdd, NewAccountNotJoined, NewAccountLast, At,
        AccountPlace, NumberedPlace
<1>1. /\ p \in ProcState(Label) /\ Inside(p) /\ p.user \in User /\ Place(p) = p.pc
      /\ Setting(p) => p.user = Admin
      /\ p.pc \in NumberedPlace => p.uid >= MinID
      /\ p.pc \in FallbackPlace => Setting(p)
      /\ MinID \in Nat \ {0} /\ p.high \in Nat /\ p.req.uid \in Nat
      /\ HasUnits /\ HasSerials
  <2>1. HasUnits
    BY <1>0, SeesUnits DEF AccountPlace, NumberedPlace
  <2>2. Place(p) = p.pc
    BY <1>0 DEF Place, AccountPlace, NumberedPlace
  <2>3. HasSerials
    BY <1>0, <2>2, SeesUnits DEF AccountPlace, NumberedPlace
  <2>4. Inside(p)
    BY <1>0, <2>1, <2>3 DEF Inside
  <2>5. MinID \in Nat \ {0} /\ p.high \in Nat /\ p.req.uid \in Nat
    BY DirectoryAssumption DEF Known, ProcState, Request
  <2>6. QED
    BY <2>1, <2>2, <2>3, <2>4, <2>5, InsideFacts
<1>2. ~Setting(p) => GroupExists(UsersGroup)
  BY <1>0, ClientSeesAll DEF AccountPlace, NumberedPlace
<1>3. ASSUME NEW err, Become(w, Return(p, "NewAccount", err)),
             Setting(p) /\ err \in {"ok", "AccountExists"} => AccountExists(Admin)
      PROVE  Lands(w)
  BY <1>1, <1>3, AccountReturns, GoodLands
\* ChooseGroup, with the number chosen.
<1>4. ASSUME NEW i \in Nat, i >= MinID, Become(w, ChooseGroup([p EXCEPT !.uid = i]))
      PROVE  Lands(w)
  <2> DEFINE r == [p EXCEPT !.uid = i]
  <2>1. r \in ProcState(Label) /\ r.req = p.req /\ r.ret = p.ret /\ r.user = p.user
        /\ r.members = p.members /\ r.uid = i
    BY <1>1, <1>4 DEF ProcState
  <2> HIDE DEF r
  <2>2. PICK q : q = ChooseGroup(r)
    OBVIOUS
  <2>3. /\ q.req = p.req /\ q.ret = p.ret /\ q.user = p.user /\ q.members = p.members
        /\ q.uid = i /\ q.pc \in {"account_by_gid", "account_group"}
    BY <2>1, <2>2, MoveFields DEF ChooseGroup, Kept
  <2>4. Good(q)
    BY <1>1, <1>4, <2>3, AccountMoves
  <2>5. QED
    BY <1>4, <2>2, <2>3, <2>4, GoodLands DEF r
\* UseGroup: the default group is there.
<1>5. ASSUME NEW g, Become(w, UseGroup(p, g)), GroupExists(UsersGroup), p.uid >= MinID
      PROVE  Lands(w)
  <2> DEFINE q == UseGroup(p, g)
  <2>1. /\ q.req = p.req /\ q.ret = p.ret /\ q.user = p.user /\ q.members = p.members
        /\ q.uid = p.uid /\ q.pc = "new_account_add"
    BY <1>1 DEF UseGroup, Goto, ProcState
  <2> HIDE DEF q
  <2>2. Good(q)
    BY <1>1, <1>5, <2>1, AccountMoves
  <2>3. QED
    BY <1>5, <2>1, <2>2, GoodLands DEF q
<1>6. ASSUME NEW g, Become(w, Goto([p EXCEPT !.group = g], "account_group_gid")),
             p.pc \in FallbackPlace, p.uid >= MinID
      PROVE  Lands(w)
  <2> DEFINE q == Goto([p EXCEPT !.group = g], "account_group_gid")
  <2>1. /\ q.req = p.req /\ q.ret = p.ret /\ q.user = p.user /\ q.members = p.members
        /\ q.uid = p.uid /\ q.pc = "account_group_gid"
    BY <1>1 DEF Goto, ProcState
  <2> HIDE DEF q
  <2>2. GroupExists(UsersGroup)
    BY <1>1, <1>6 DEF Standing, GroupsSeen
  <2>3. Good(q)
    BY <1>1, <1>6, <2>1, <2>2, AccountMoves
  <2>4. QED
    BY <1>6, <2>1, <2>3, GoodLands DEF q
<1>7. CASE NewAccountFind(w)
  <2>1. p.pc = "new_account_find" /\ {"users", "groups"} \subseteq ous
    BY <1>1, <1>7 DEF NewAccountFind, At, HasUnits
  <2>2. CASE AccountExists(p.user)
    BY <1>1, <1>3, <1>7, <2>1, <2>2 DEF NewAccountFind
  <2>3. CASE ~AccountExists(p.user) /\ p.req.uid >= MinID
    BY <1>1, <1>4, <1>7, <2>1, <2>3 DEF NewAccountFind, ChooseUID
  <2>4. CASE ~AccountExists(p.user) /\ ~(p.req.uid >= MinID)
    BY <1>1, <1>7, <2>1, <2>4, AccountCounts, GoodLands DEF NewAccountFind, ChooseUID
  <2>5. QED
    BY <2>2, <2>3, <2>4
<1>8. CASE NewAccountUID(w)
  <2>1. p.err = "ok" /\ p.high + 1 \in Nat /\ p.high + 1 >= MinID
    BY <1>1, <1>8 DEF NewAccountUID, At, Local, NumbersFit
  <2>2. QED
    BY <1>4, <1>8, <2>1 DEF NewAccountUID
<1>9. CASE AccountByGID(w)
  <2>1. {"users", "groups"} \subseteq ous
    BY <1>1 DEF HasUnits
  <2>2. QED
    BY <1>3, <1>9, <2>1 DEF AccountByGID
<1>10. CASE AccountGroup(w)
  <2>1. p.pc = "account_group" /\ p.pc \in NumberedPlace
    BY <1>10 DEF AccountGroup, At, NumberedPlace
  <2>2. CASE GroupFound(UsersGroup)
    BY <1>1, <1>5, <1>10, <2>1, <2>2 DEF AccountGroup, GroupFound
  <2>3. CASE ~GroupFound(UsersGroup)
    <3>1. Setting(p)
      BY <1>1, <1>2, <2>3 DEF GroupFound, HasUnits
    <3>2. QED
      BY <1>1, <1>10, <2>1, <2>3, <3>1, AccountMakes, GoodLands DEF AccountGroup
  <2>4. QED
    BY <2>2, <2>3
<1>11. CASE AccountGroupMade(w) \/ AccountGroupOwn(w) \/ AccountGroupGID(w)
  <2>1. p.pc \in FallbackPlace /\ p.pc \in NumberedPlace
    BY <1>11 DEF AccountGroupMade, AccountGroupOwn, AccountGroupGID, At, FallbackPlace, NumberedPlace
  <2>2. Setting(p) /\ p.uid >= MinID /\ GroupExists(UsersGroup)
    BY <1>1, <2>1 DEF Standing, GroupsSeen
  <2>3. CASE AccountGroupMade(w) /\ p.err = "ok"
    BY <1>6, <2>1, <2>2, <2>3 DEF AccountGroupMade
  <2>4. CASE AccountGroupMade(w) /\ p.err # "ok"
    BY <1>1, <2>1, <2>2, <2>4, AccountMakes, GoodLands DEF AccountGroupMade
  <2>5. CASE AccountGroupOwn(w)
    BY <1>3, <1>6, <2>1, <2>2, <2>5 DEF AccountGroupOwn
  <2>6. CASE AccountGroupGID(w)
    BY <1>3, <1>5, <2>1, <2>2, <2>6 DEF AccountGroupGID
  <2>7. QED
    BY <1>11, <2>3, <2>4, <2>5, <2>6
<1>12. CASE NewAccountAdd(w)
  <2>1. p.pc = "new_account_add" /\ p.uid >= MinID /\ p.uid \in Nat
    BY <1>1, <1>12 DEF NewAccountAdd, At, NumberedPlace, ProcState
  <2>2. AddAccountCode(p.user) = "EntryExists" => AccountExists(p.user)
    BY DEF AddAccountCode
  <2>3. CASE AddAccountCode(p.user) = "ok"
    <3>1. Setting(p) => AccountExists(Admin)'
      <4>1. Setting(p) => AddAccount(Admin, [uid |-> p.uid, gid |-> p.gid])
        BY <1>1, <1>12 DEF NewAccountAdd
      <4>2. Setting(p) => account'[Admin].uid = p.uid
        BY <1>1, <2>3, <4>1, WorkerAssumption DEF AddAccount, DirectoryTypeOK
      <4>3. QED
        BY <1>1, <2>1, <4>2 DEF AccountExists
    <3>2. Become(w, AddGroupMember(p, p.group, p.user, FALSE, "new_account_joined"))
      BY <1>12, <2>3 DEF NewAccountAdd
    <3>3. PICK x : x = p
      OBVIOUS
    <3>4. Setting(x) => AccountExists(Admin)'
      BY <3>1, <3>3
    <3>5. LET q == AddGroupMember(x, x.group, x.user, FALSE, "new_account_joined")
          IN  q.req = x.req /\ Local(q) /\ (Setting(q) => Standing(q)')
      BY <1>1, <2>1, <3>3, <3>4, AccountJoins
    <3>6. PICK q : /\ q = AddGroupMember(x, x.group, x.user, FALSE, "new_account_joined")
                   /\ q.req = x.req /\ Local(q) /\ (Setting(q) => Standing(q)')
      BY <3>5
    <3>7. QED
      BY <3>2, <3>3, <3>6 DEF Lands
  <2>4. CASE AddAccountCode(p.user) = "EntryExists"
    BY <1>1, <1>3, <1>12, <2>2, <2>4 DEF NewAccountAdd
  <2>5. CASE AddAccountCode(p.user) = "NoSuchObject"
    BY <1>3, <1>12, <2>5 DEF NewAccountAdd
  <2>6. QED
    BY <2>3, <2>4, <2>5 DEF AddAccountCode
<1>13. CASE NewAccountNotJoined(w) \/ NewAccountLast(w)
  <2>1. Setting(p) => AccountExists(Admin)
    BY <1>1, <1>13 DEF NewAccountNotJoined, NewAccountLast, At, Standing, AdminSeen
  <2>2. QED
    BY <1>3, <1>13, <2>1 DEF NewAccountNotJoined, NewAccountLast
<1>14. QED
  <2>1. ~(NewAccountNoOU(w) \/ NewAccountRetry(w) \/ NewAccountUIDAgain(w))
    BY <1>0 DEF NewAccountNoOU, NewAccountRetry, NewAccountUIDAgain, At, AccountPlace, NumberedPlace
  <2>2. QED
    BY <1>7, <1>8, <1>9, <1>10, <1>11, <1>12, <1>13, <2>1

-----------------------------------------------------------------------------
(* UpdateAccount and DeleteAccount, which only clients call. *)

LEMMA ChangeAccountGood ==
    ASSUME DirectoryTypeOK, Grow, NEW w \in Worker, Known(proc[w]), Local(proc[w]),
           \/ UpdateFind(w) \/ UpdateTaken(w) \/ UpdateRename(w) \/ UpdateGroups(w)
           \/ UpdateLeave(w) \/ UpdateJoin(w) \/ UpdateModify(w)
           \/ DeleteGroups(w) \/ DeleteLeave(w) \/ DeleteEntry(w)
    PROVE  Lands(w)
<1> DEFINE p == proc[w]
<1>0. /\ p \in ProcState(Label) /\ Fits(p, p.pc) /\ p.todo \in SUBSET Group
      /\ p.pc \in RenamePlace \cup DeletePlace \cup {"update_find", "update_modify"}
  BY DEF Known, ProcState, UpdateFind, UpdateTaken, UpdateRename, UpdateGroups, UpdateLeave,
     UpdateJoin, UpdateModify, DeleteGroups, DeleteLeave, DeleteEntry, At, RenamePlace, DeletePlace
<1>1. Place(p) = p.pc
  BY <1>0 DEF Place, RenamePlace, DeletePlace
<1>2. ~Setting(p)
  BY <1>0, <1>1, SettingPlaces
<1>3. ClientCalls(p) /\ ClientPermits(p.req, p.pc)
  BY <1>1, <1>2 DEF Local, ClientCalls
<1>4. ASSUME NEW err, Become(w, Answer(p, err)) PROVE Lands(w)
  BY <1>0, <1>2, <1>3, <1>4, ClientAnswers, GoodLands
\* As a Goto of what became of p.
<1>5. ASSUME NEW r \in ProcState(Label), r.req = p.req, ~Setting(r), ClientCalls(r),
             NEW l \in RenamePlace \cup DeletePlace \cup {"update_modify"},
             l = "update_modify" \/ p.req.user # Admin,
             Become(w, Goto(r, l))
      PROVE  Lands(w)
  <2>1. l \in LooseLabel
    BY DEF RenamePlace, DeletePlace, LooseLabel, UnreachedPlace, MakingPlace, JoinPlace,
           NumberedPlace, Label, AccountLabel
  <2>2. ClientPermits(p.req, l)
    BY <1>5 DEF ClientPermits, SetupLabel, FallbackPlace, RenamePlace, DeletePlace
  <2>3. QED
    BY <1>5, <2>1, <2>2, ClientAnswers, GoodLands
<1>6. p.pc \in RenamePlace \cup DeletePlace => p.req.user # Admin
  BY <1>3 DEF ClientPermits
<1>7. ASSUME NEW S \in SUBSET Group, p.pc \in RenamePlace \cup DeletePlace,
             \/ Become(w, NextGroup([p EXCEPT !.todo = S], "update_leave", "update_modify"))
             \/ Become(w, NextGroup([p EXCEPT !.todo = S], "delete_leave", "delete_entry"))
      PROVE  Lands(w)
  <2> DEFINE r == [p EXCEPT !.todo = S]
  <2>1. r \in ProcState(Label) /\ r.req = p.req /\ ~Setting(r) /\ ClientCalls(r)
    BY <1>2, <1>3, ClientAssigns
  <2> HIDE DEF r
  <2>2. PICK l \in {"update_leave", "update_modify", "delete_leave", "delete_entry"} :
           Become(w, Goto(r, l))
    BY <1>7 DEF NextGroup, r
  <2>3. QED
    BY <1>5, <1>6, <1>7, <2>1, <2>2 DEF RenamePlace, DeletePlace
<1>8. CASE UpdateFind(w)
  <2>1. p.pc = "update_find" /\ p.req.to \in User \cup {NoName} /\ p.req.user \in User
    BY <1>0, <1>8 DEF UpdateFind, At, Fits, RequestUserLabel
  <2>2. p.req.to \notin {NoName, p.req.user} => p.req.user # Admin
    BY <1>3, <2>1 DEF ClientPermits
  <2>3. \A u \in User : LET r == [p EXCEPT !.user = u]
                        IN  r \in ProcState(Label) /\ r.req = p.req /\ ~Setting(r) /\ ClientCalls(r)
    BY <1>2, <1>3, ClientAssigns
  <2>4. CASE Become(w, Goto([p EXCEPT !.user = p.req.to], "update_taken"))
             /\ p.req.to \notin {NoName, p.req.user}
    BY <1>5, <2>1, <2>2, <2>3, <2>4 DEF RenamePlace
  <2>5. CASE Become(w, Goto([p EXCEPT !.user = p.req.user], "update_modify"))
    BY <1>5, <2>1, <2>3, <2>5
  <2>6. QED
    BY <1>4, <1>8, <2>4, <2>5 DEF UpdateFind
<1>9. CASE UpdateTaken(w) \/ UpdateRename(w)
  BY <1>0, <1>2, <1>3, <1>4, <1>5, <1>6, <1>9 DEF UpdateTaken, UpdateRename, At, RenamePlace
<1>10. CASE UpdateGroups(w) \/ DeleteGroups(w)
  <2>1. \A u : GroupsOf(u) \in SUBSET Group
    BY DEF GroupsOf
  <2>2. p.pc \in RenamePlace \cup DeletePlace
    BY <1>10 DEF UpdateGroups, DeleteGroups, At, RenamePlace, DeletePlace
  <2>3. QED
    BY <1>4, <1>7, <1>10, <2>1, <2>2 DEF UpdateGroups, DeleteGroups
<1>11. CASE UpdateLeave(w)
  <2>1. PICK g \in p.todo : Become(w, IF DeleteMemberError(g, p.req.user) \in {"ok", "NoMember"}
                                      THEN Goto([p EXCEPT !.group = g], "update_join")
                                      ELSE Answer(p, "Failed"))
    BY <1>11 DEF UpdateLeave
  <2> DEFINE r == [p EXCEPT !.group = g]
  <2>2. r \in ProcState(Label) /\ r.req = p.req /\ ~Setting(r) /\ ClientCalls(r)
    BY <1>0, <1>2, <1>3, <2>1, ClientAssigns
  <2>3. p.req.user # Admin
    BY <1>6, <1>11 DEF UpdateLeave, At, RenamePlace
  <2> HIDE DEF r
  <2>4. CASE Become(w, Goto(r, "update_join"))
    BY <1>5, <2>2, <2>3, <2>4 DEF RenamePlace
  <2>5. QED
    BY <1>4, <2>1, <2>4 DEF r
<1>12. CASE UpdateJoin(w)
  <2>1. p.todo \ {p.group} \in SUBSET Group /\ p.pc \in RenamePlace
    BY <1>0, <1>12 DEF UpdateJoin, At, RenamePlace
  <2>2. QED
    BY <1>4, <1>7, <1>12, <2>1 DEF UpdateJoin
<1>13. CASE DeleteLeave(w)
  <2>1. PICK g \in p.todo : Become(w, IF DeleteMemberError(g, p.req.user) = "LastMember"
                                      THEN Answer(p, "LastMember")
                                      ELSE NextGroup([p EXCEPT !.todo = p.todo \ {g}],
                                                     "delete_leave", "delete_entry"))
    BY <1>13 DEF DeleteLeave
  <2>2. p.todo \ {g} \in SUBSET Group /\ p.pc \in DeletePlace
    BY <1>0, <1>13 DEF DeleteLeave, At, DeletePlace
  <2>3. QED
    BY <1>4, <1>7, <2>1, <2>2
<1>14. CASE UpdateModify(w) \/ DeleteEntry(w)
  BY <1>4, <1>14 DEF UpdateModify, DeleteEntry
<1>15. QED
  BY <1>8, <1>9, <1>10, <1>11, <1>12, <1>13, <1>14

-----------------------------------------------------------------------------
(* SetupLDAP and setupLastID. *)

LEMMA CounterLocal ==
    ASSUME NEW p \in ProcState(Label), Local(p), Setting(p), NEW k, NEW l,
           \/ k = "GID" /\ l = "setup_last_gid"
           \/ k = "UID" /\ l = "setup_last_uid"
    PROVE  LET q == SetupLastID(p, k, l)
           IN  /\ Local(q) /\ q.req = p.req /\ Setting(q)
               /\ q.pc = "highest_cached" /\ Place(q) = "last_id_add" /\ q.kind = k
<1> DEFINE q == SetupLastID(p, k, l)
<1>1. /\ q.pc = "highest_cached" /\ q.kind = k /\ Kept(p, q)
      /\ q.ret["setupLastID"] = l /\ q.ret["getHighestID"] = "last_id_add"
  BY CallFields
<1> HIDE DEF q
<1>2. Place(q) = "last_id_add" /\ Setting(q)
  BY <1>1 DEF Place, Setting, Kept
<1>3. ~Making(q) /\ ~InNewAccount(q) /\ ~Numbered(q)
  BY <1>2 DEF Making, InNewAccount, Numbered, ForAccount, MakingPlace, JoinPlace, AccountPlace,
              NumberedPlace
<1>4. NumbersFit(q)
  BY <1>1, <1>3 DEF NumbersFit
<1>5. SetupCalls(q)
  BY <1>1, <1>2, <1>3 DEF Local, SetupCalls, Kept, JoinPlace
<1>6. Local(q)
  BY <1>1, <1>2, <1>4, <1>5 DEF Local, UnreachedPlace, JoinPlace
<1>7. QED
  BY <1>1, <1>2, <1>6 DEF Kept, q

\* The labels of SetupLDAP itself.
LEMMA SetupMoves ==
    ASSUME NEW p, Local(p), Setting(p), NEW q, Kept(p, q), q.ret = p.ret,
           q.pc \in SetupLabel \cup {"reply"},
           q.pc \in {"setup_last_gid", "setup_last_uid"} => q.err \in Tolerated
    PROVE  /\ Local(q) /\ q.req = p.req /\ Setting(q) /\ Place(q) = q.pc
           /\ ~Making(q) /\ ~InNewAccount(q) /\ ~Numbered(q)
<1>1. Place(q) = q.pc /\ Setting(q) /\ q.req = p.req
  BY DEF Place, Setting, Kept, SetupLabel
<1>2. ~Making(q) /\ ~InNewAccount(q) /\ ~Numbered(q)
  BY <1>1 DEF Making, InNewAccount, Numbered, ForAccount, MakingPlace, JoinPlace, AccountPlace,
              NumberedPlace, SetupLabel
<1>3. NumbersFit(q)
  BY <1>2 DEF NumbersFit, SetupLabel
<1>4. SetupCalls(q)
  BY <1>1, <1>2 DEF Local, SetupCalls, Kept, JoinPlace, SetupLabel
<1>5. Local(q)
  BY <1>1, <1>3, <1>4 DEF Local, UnreachedPlace, JoinPlace, SetupLabel
<1>6. QED
  BY <1>1, <1>2, <1>5

\* What is seen at those labels, in the state before or after a step.
LEMMA SetupStands ==
    ASSUME NEW q, Setting(q), Place(q) = q.pc, ~Making(q), ~InNewAccount(q),
           q.pc \in SetupLabel \cup {"reply"}
    PROVE  /\ q.pc = "setup_users_ou" /\ "groups" \in ous => Standing(q)
           /\ q.pc = "setup_last_gid" /\ HasUnits /\ lastID["GID"] >= MinID => Standing(q)
           /\ /\ HasUnits /\ HasSerials /\ q.pc \in {"setup_last_uid", "setup_admins_group"}
              => Standing(q)
           /\ /\ HasUnits /\ HasSerials /\ q.pc = "reply"
              /\ q.err = "ok" => GroupExists(AdminsGroup)
              => Standing(q)
  BY DEF Standing, UnitsSeen, SerialsSeen, GroupsSeen, AdminSeen, FallbackPlace, JoinPlace,
         SetupLabel

LEMMA SetupStandsNext ==
    ASSUME NEW q, Setting(q), Place(q) = q.pc, ~Making(q), ~InNewAccount(q),
           q.pc \in SetupLabel \cup {"reply"}
    PROVE  /\ q.pc = "setup_users_ou" /\ "groups" \in ous' => Standing(q)'
           /\ q.pc = "setup_last_gid" /\ HasUnits' /\ lastID'["GID"] >= MinID => Standing(q)'
           /\ HasUnits' /\ HasSerials' /\ q.pc = "setup_last_uid" => Standing(q)'
  BY DEF Standing, Setting, Place, Making, InNewAccount, ForAccount, UnitsSeen, SerialsSeen,
         GroupsSeen, AdminSeen, FallbackPlace, JoinPlace, SetupLabel

LEMMA CounterStands ==
    ASSUME NEW q, Setting(q), q.pc = "highest_cached", Place(q) = "last_id_add"
    PROVE  /\ HasUnits /\ lastID["GID"] >= MinID => Standing(q)
           /\ q.kind = "GID" /\ HasUnits' => Standing(q)'
<1>1. ~Making(q) /\ ~InNewAccount(q)
  BY DEF Making, InNewAccount, ForAccount, MakingPlace, JoinPlace, AccountPlace, NumberedPlace
<1>2. HasUnits /\ lastID["GID"] >= MinID => Standing(q)
  BY <1>1 DEF Standing, UnitsSeen, SerialsSeen, GroupsSeen, AdminSeen, FallbackPlace, JoinPlace
<1>3. q.kind = "GID" /\ HasUnits' => Standing(q)'
  BY <1>1 DEF Standing, Setting, Place, Making, InNewAccount, ForAccount, UnitsSeen, SerialsSeen,
         GroupsSeen, AdminSeen, FallbackPlace, JoinPlace
<1>4. QED
  BY <1>2, <1>3

LEMMA LastIDGood ==
    ASSUME DirectoryTypeOK, Founded, Grow, NEW w \in Worker, Known(proc[w]), Local(proc[w]),
           Standing(proc[w]), LastIDFailed(w) \/ LastIDAdd(w)
    PROVE  Lands(w)
<1> DEFINE p == proc[w]
<1>0. /\ p \in ProcState(Label) /\ p.pc = "last_id_add" /\ Place(p) = "last_id_add"
      /\ p.err = "ok" /\ p.high >= MinID /\ p.high \in Nat /\ MinID \in Nat \ {0}
      /\ "setupLastID" \in Function
  BY DirectoryAssumption
  DEF Known, ProcState, LastIDFailed, LastIDAdd, At, Place, Local, NumbersFit, Function
<1>1. Setting(p)
  BY <1>0 DEF Local, ClientCalls, ClientPermits
<1>2. /\ \/ p.kind = "GID" /\ p.ret["setupLastID"] = "setup_last_gid"
         \/ p.kind = "UID" /\ p.ret["setupLastID"] = "setup_last_uid"
      /\ HasUnits /\ (p.kind = "UID" => lastID["GID"] >= MinID)
  BY <1>0 DEF Local, Standing, UnitsSeen, SerialsSeen
<1>3. LastIDAdd(w)
  BY <1>0 DEF LastIDFailed
<1>4. lastID'[p.kind] >= MinID
  <2>1. lastID[p.kind] # 0 => lastID[p.kind] >= MinID
    BY <1>2 DEF Founded, IDKind
  <2>2. QED
    BY <1>0, <1>2, <1>3, <2>1 DEF LastIDAdd, AddDevice, AddDeviceCode, DirectoryTypeOK, IDKind
<1>5. PICK q : q = Return(p, "setupLastID", AddDeviceCode(p.kind))
  OBVIOUS
<1>6. /\ q.pc = p.ret["setupLastID"] /\ q.ret = p.ret /\ Kept(p, q) /\ q.err \in Tolerated
  BY <1>0, <1>5, MoveFields DEF AddDeviceCode, Tolerated
<1>7. /\ Local(q) /\ q.req = p.req /\ Setting(q) /\ Place(q) = q.pc
      /\ ~Making(q) /\ ~InNewAccount(q) /\ q.pc \in SetupLabel
  BY <1>1, <1>2, <1>6, SetupMoves DEF SetupLabel
<1>8. HasUnits'
  BY <1>2 DEF Grow, HasUnits
<1>9. Standing(q)'
  <2>1. CASE p.kind = "GID"
    <3>1. q.pc = "setup_last_gid" /\ lastID'["GID"] >= MinID
      BY <1>2, <1>4, <1>6, <2>1
    <3>2. QED
      BY <1>7, <1>8, <3>1, SetupStandsNext
  <2>2. CASE p.kind = "UID"
    <3>1. q.pc = "setup_last_uid" /\ lastID'["GID"] >= MinID /\ lastID'["UID"] >= MinID
      BY <1>2, <1>4, <1>6, <2>2 DEF Grow, IDKind
    <3>2. HasSerials'
      BY <3>1 DEF HasSerials, IDKind
    <3>3. QED
      BY <1>7, <1>8, <3>1, <3>2, SetupStandsNext
  <2>3. QED
    BY <1>2, <2>1, <2>2
<1>10. QED
  BY <1>3, <1>5, <1>7, <1>9 DEF Lands, LastIDAdd

LEMMA AdminAccountGood ==
    ASSUME NEW p \in ProcState(Label), Local(p), Setting(p), HasUnits, HasSerials, NEW l,
           \/ l = "setup_admin_made"
           \/ l = "setup_admin_forced" /\ GroupExists(AdminsGroup)
    PROVE  LET q == NewAccount(p, Admin, l) IN Good(q) /\ q.req = p.req
<1> DEFINE q == NewAccount(p, Admin, l)
<1>1. /\ q.pc = "new_account_find" /\ q.user = Admin /\ q.req = p.req /\ q.members = p.members
      /\ q.ret["NewAccount"] = l
  BY CallFields DEF Function
<1> HIDE DEF q
<1>2. Place(q) = "new_account_find" /\ Setting(q)
  BY <1>1 DEF Place, Setting
<1>3. ~Making(q) /\ InNewAccount(q) /\ ~Numbered(q)
  BY <1>2 DEF Making, InNewAccount, Numbered, ForAccount, MakingPlace, JoinPlace, AccountPlace,
              NumberedPlace
<1>4. NumbersFit(q)
  BY <1>1, <1>3 DEF NumbersFit
<1>5. SetupCalls(q)
  BY <1>1, <1>2, <1>3 DEF Local, SetupCalls, AccountPlace, JoinPlace
<1>6. Local(q)
  BY <1>1, <1>2, <1>4, <1>5 DEF Local, UnreachedPlace, JoinPlace
<1>7. Standing(q)
  BY <1>1, <1>2, <1>3
  DEF Standing, UnitsSeen, SerialsSeen, GroupsSeen, AdminSeen, FallbackPlace, JoinPlace
<1>8. QED
  BY <1>1, <1>6, <1>7 DEF Good, q

LEMMA AdminGroupGood ==
    ASSUME NEW p \in ProcState(Label), Local(p), Setting(p), HasUnits, HasSerials,
           AccountExists(Admin)
    PROVE  LET q == NewGroup(p, AdminsGroup, {Admin}, "setup_admins_made")
           IN  Good(q) /\ q.req = p.req
<1> DEFINE q == NewGroup(p, AdminsGroup, {Admin}, "setup_admins_made")
<1>1. /\ q.pc = "new_group_find" /\ q.name = AdminsGroup /\ q.members = {Admin}
      /\ q.req = p.req /\ q.user = p.user /\ q.ret["NewGroup"] = "setup_admins_made"
  BY CallFields DEF Function
<1> HIDE DEF q
<1>2. Place(q) = "new_group_find" /\ Setting(q)
  BY <1>1 DEF Place, Setting
<1>3. Making(q) /\ ~InNewAccount(q) /\ ~Numbered(q)
  BY <1>1, <1>2 DEF Making, InNewAccount, Numbered, ForAccount, MakingPlace, JoinPlace,
                    AccountPlace, NumberedPlace
<1>4. NumbersFit(q)
  BY <1>1, <1>3 DEF NumbersFit
<1>5. SetupCalls(q)
  BY <1>1, <1>2, <1>3 DEF Local, SetupCalls, MakingPlace, JoinPlace
<1>6. Local(q)
  BY <1>1, <1>2, <1>4, <1>5 DEF Local, UnreachedPlace, JoinPlace
<1>7. Standing(q)
  BY <1>1, <1>2, <1>3
  DEF Standing, UnitsSeen, SerialsSeen, GroupsSeen, AdminSeen, FallbackPlace, JoinPlace
<1>8. QED
  BY <1>1, <1>6, <1>7 DEF Good, q

LEMMA SetupGood ==
    ASSUME DirectoryTypeOK, Grow, NEW w \in Worker, Known(proc[w]), Local(proc[w]),
           Standing(proc[w]), SetupStep(w)
    PROVE  Lands(w)
<1> DEFINE p == proc[w]
<1>0. /\ p \in ProcState(Label) /\ p.pc \in SetupLabel /\ Place(p) = p.pc
      /\ MinID \in Nat \ {0}
  BY DirectoryAssumption
  DEF Known, SetupStep, SetupGroupsOU, SetupUsersOU, SetupLastGID, SetupLastUID, SetupAdminsGroup,
      SetupAdminMade, SetupAdminsMade, SetupAdminNotForced, SetupAdminForced, At, SetupLabel, Place
<1>1. Setting(p)
  BY <1>0 DEF Local, ClientCalls, ClientPermits
<1>2. UnitsSeen(p) /\ SerialsSeen(p) /\ AdminSeen(p)
  BY <1>1 DEF Standing
<1>3. p.pc \notin {"setup_groups_ou", "setup_users_ou"} => HasUnits
  BY <1>0, <1>2 DEF UnitsSeen, SetupLabel
<1>4. p.pc \notin {"setup_groups_ou", "setup_users_ou", "setup_last_gid"} => HasSerials
  BY <1>0, <1>2 DEF SerialsSeen, SetupLabel
\* The answer of SetupLDAP.
<1>5. ASSUME NEW err, Become(w, Answer(p, err)), err = "ok" => GroupExists(AdminsGroup),
             HasUnits, HasSerials
      PROVE  Lands(w)
  <2> DEFINE q == Answer(p, err)
  <2>1. q.pc = "reply" /\ q.err = err /\ q.ret = p.ret /\ Kept(p, q)
    BY <1>0, MoveFields
  <2> HIDE DEF q
  <2>2. /\ Local(q) /\ q.req = p.req /\ Setting(q) /\ Place(q) = q.pc
        /\ ~Making(q) /\ ~InNewAccount(q)
    BY <1>1, <2>1, SetupMoves
  <2>3. Standing(q)
    BY <1>5, <2>1, <2>2, SetupStands
  <2>4. QED
    BY <1>5, <2>2, <2>3, GoodLands DEF Good, q
<1>6. CASE SetupGroupsOU(w)
  <2>1. PICK q : q = Goto(p, "setup_users_ou")
    OBVIOUS
  <2>2. q.pc = "setup_users_ou" /\ q.ret = p.ret /\ Kept(p, q)
    BY <1>0, <2>1, MoveFields
  <2>3. /\ Local(q) /\ q.req = p.req /\ Setting(q) /\ Place(q) = q.pc
        /\ ~Making(q) /\ ~InNewAccount(q) /\ q.pc \in SetupLabel
    BY <1>1, <2>2, SetupMoves DEF SetupLabel
  <2>4. "groups" \in ous'
    BY <1>6 DEF SetupGroupsOU, AddOU
  <2>5. Standing(q)'
    BY <2>2, <2>3, <2>4, SetupStandsNext
  <2>6. QED
    BY <1>6, <2>1, <2>3, <2>5 DEF Lands, SetupGroupsOU
<1>7. CASE SetupUsersOU(w)
  <2>1. PICK q : q = SetupLastID(p, "GID", "setup_last_gid")
    OBVIOUS
  <2>2. /\ Local(q) /\ q.req = p.req /\ Setting(q)
        /\ q.pc = "highest_cached" /\ Place(q) = "last_id_add" /\ q.kind = "GID"
    BY <1>0, <1>1, <2>1, CounterLocal
  <2>3. "groups" \in ous
    BY <1>2, <1>7 DEF SetupUsersOU, At, UnitsSeen
  <2>4. HasUnits'
    BY <1>7, <2>3 DEF SetupUsersOU, AddOU, HasUnits
  <2>5. Standing(q)'
    BY <2>2, <2>4, CounterStands
  <2>6. QED
    BY <1>7, <2>1, <2>2, <2>5 DEF Lands, SetupUsersOU
<1>8. CASE SetupLastGID(w)
  <2>1. p.pc = "setup_last_gid" /\ p.err \in Tolerated /\ lastID["GID"] >= MinID
    BY <1>2, <1>8 DEF SetupLastGID, At, Local, SerialsSeen
  <2> DEFINE q == SetupLastID(p, "UID", "setup_last_uid")
  <2>2. /\ Local(q) /\ q.req = p.req /\ Setting(q)
        /\ q.pc = "highest_cached" /\ Place(q) = "last_id_add" /\ q.kind = "UID"
    BY <1>0, <1>1, CounterLocal
  <2>3. Become(w, q)
    BY <1>8, <2>1 DEF SetupLastGID
  <2> HIDE DEF q
  <2>4. Standing(q)
    BY <1>3, <2>1, <2>2, CounterStands
  <2>5. QED
    BY <2>2, <2>3, <2>4, GoodLands DEF Good
<1>9. CASE SetupLastUID(w)
  <2>1. p.pc = "setup_last_uid" /\ p.err \in Tolerated
    BY <1>9 DEF SetupLastUID, At, Local
  <2> DEFINE q == Goto(p, "setup_admins_group")
  <2>2. q.pc = "setup_admins_group" /\ q.ret = p.ret /\ Kept(p, q)
    BY <1>0, MoveFields
  <2>3. Become(w, q)
    BY <1>9, <2>1 DEF SetupLastUID
  <2> HIDE DEF q
  <2>4. /\ Local(q) /\ q.req = p.req /\ Setting(q) /\ Place(q) = q.pc
        /\ ~Making(q) /\ ~InNewAccount(q) /\ q.pc \in SetupLabel
    BY <1>1, <2>2, SetupMoves DEF SetupLabel
  <2>5. Standing(q)
    BY <1>3, <1>4, <2>1, <2>2, <2>4, SetupStands
  <2>6. QED
    BY <2>3, <2>4, <2>5, GoodLands DEF Good
<1>10. CASE SetupAdminsGroup(w)
  <2>1. HasUnits /\ HasSerials
    BY <1>3, <1>4, <1>10 DEF SetupAdminsGroup, At
  <2>2. QED
    BY <1>0, <1>1, <1>5, <1>10, <2>1, AdminAccountGood, GoodLands DEF SetupAdminsGroup
<1>11. CASE SetupAdminMade(w)
  <2>1. HasUnits /\ HasSerials /\ p.pc = "setup_admin_made"
    BY <1>3, <1>4, <1>11 DEF SetupAdminMade, At
  <2>2. p.err \in {"ok", "AccountExists"} => AccountExists(Admin)
    BY <1>2, <2>1 DEF AdminSeen
  <2>3. CASE p.err \in {"ok", "AccountExists"}
    BY <1>0, <1>1, <1>11, <2>1, <2>2, <2>3, AdminGroupGood, GoodLands DEF SetupAdminMade
  <2>4. CASE p.err \notin {"ok", "AccountExists"}
    BY <1>5, <1>11, <2>1, <2>4 DEF SetupAdminMade
  <2>5. QED
    BY <2>3, <2>4
<1>12. CASE SetupAdminsMade(w)
  <2>1. HasUnits /\ HasSerials /\ p.pc = "setup_admins_made"
    BY <1>3, <1>4, <1>12 DEF SetupAdminsMade, At
  <2>2. p.err = "ok" => GroupExists(AdminsGroup)
    BY <1>2, <2>1 DEF AdminSeen
  <2>3. QED
    BY <1>5, <1>12, <2>1, <2>2 DEF SetupAdminsMade
<1>13. CASE SetupAdminNotForced(w) \/ SetupAdminForced(w)
  <2>1. HasUnits /\ HasSerials /\ p.pc = "setup_admin_forced"
    BY <1>3, <1>4, <1>13 DEF SetupAdminNotForced, SetupAdminForced, At
  <2>2. GroupExists(AdminsGroup)
    BY <1>2, <2>1 DEF AdminSeen
  <2>3. QED
    BY <1>5, <1>13, <2>1, <2>2 DEF SetupAdminNotForced, SetupAdminForced
<1>14. QED
  BY <1>6, <1>7, <1>8, <1>9, <1>10, <1>11, <1>12, <1>13 DEF SetupStep

-----------------------------------------------------------------------------
(* The whole. *)

LEMMA StepLands ==
    ASSUME DirectoryTypeOK, Founded, Founded', Grow, NEW w \in Worker, Known(proc[w]),
           Local(proc[w]), Standing(proc[w]), Step(w)
    PROVE  Lands(w)
<1>1. CASE GroupStep(w)
  BY <1>1, HighestGood, NewGroupGood, ChangeGroupGood, AddMemberGood DEF GroupStep
<1>2. CASE AccountStep(w)
  BY <1>2, LastIDGood, NewAccountGood, ChangeAccountGood DEF AccountStep
<1>3. CASE SetupStep(w)
  BY <1>3, SetupGood
<1>4. QED
  BY <1>1, <1>2, <1>3 DEF Step

LEMMA ReadyStands ==
    ASSUME Ready', Founded', NEW q, ~Setting(q)
    PROVE  Standing(q)'
<1>0. HasUnits' /\ HasSerials' /\ GroupExists(AdminsGroup)'
  BY DEF Ready
<1>1. AccountExists(Admin)' /\ GroupExists(UsersGroup)'
  BY <1>0 DEF Founded
<1>2. UnitsSeen(q)'
  BY <1>0 DEF UnitsSeen, HasUnits
<1>3. SerialsSeen(q)'
  BY <1>0 DEF SerialsSeen, Place, HasSerials, IDKind
<1>4. GroupsSeen(q)'
  BY <1>0, <1>1 DEF GroupsSeen, Place, Making, IsProtectedGroup
<1>5. QED
  BY <1>2, <1>3, <1>4 DEF Standing, Setting

LEMMA IdleGood == Local(Idle) /\ ~Setting(Idle) /\ Standing(Idle) /\ Standing(Idle)'
<1> DEFINE x == Idle
<1>0. /\ x.pc = "idle" /\ x.req.op = "none" /\ \A f \in Function : x.ret[f] = "reply"
  BY DEF Idle, NoRequest
<1> HIDE DEF x
<1>1. Place(x) = "idle" /\ ~Setting(x) /\ x.ret["NewGroup"] = "reply" /\ x.ret["NewAccount"] = "reply"
  BY <1>0 DEF Place, Setting, Function
<1>2. ~Making(x) /\ ~InNewAccount(x) /\ ~Numbered(x)
  BY <1>1 DEF Making, InNewAccount, Numbered, ForAccount, MakingPlace, JoinPlace, AccountPlace,
              NumberedPlace
<1>3. NumbersFit(x)
  BY <1>0, <1>2 DEF NumbersFit
<1>4. ClientCalls(x)
  BY <1>1 DEF ClientCalls, ClientPermits, SetupLabel, FallbackPlace, RenamePlace, DeletePlace
<1>5. Local(x)
  BY <1>0, <1>1, <1>3, <1>4 DEF Local, UnreachedPlace, JoinPlace
<1>6. Standing(x)
  BY <1>0, <1>1, <1>2 DEF Standing, UnitsSeen, SerialsSeen, GroupsSeen, FallbackPlace
<1>7. PICK y : y = x
  OBVIOUS
<1>8. Standing(y)'
  BY <1>0, <1>1, <1>2, <1>7
  DEF Standing, UnitsSeen, SerialsSeen, GroupsSeen, FallbackPlace, Setting, Place, Making,
      InNewAccount, ForAccount
<1>9. QED
  BY <1>1, <1>5, <1>6, <1>7, <1>8 DEF x

LEMMA ServeGood ==
    ASSUME AdminStays, NEW r \in Requests
    PROVE  Local(Serve(r)) /\ ~Setting(Serve(r))
<1> DEFINE p == [Idle EXCEPT !.req = r]
<1>1. r \in Request /\ WellFormed(r)
  BY ManagerAssumption DEF WellFormed
<1>2. r.op \in {"NewGroup", "DeleteGroup", "UpdateGroup", "AddGroupMember",
                "DeleteGroupMember", "NewAccount", "UpdateAccount", "DeleteAccount"}
  BY <1>1 DEF Request, WellFormed
<1>3. Known(p) /\ p.req = r /\ p.pc = "idle" /\ \A f \in Function : p.ret[f] = "reply"
  BY <1>1, IdleKnown DEF Idle
<1>4. p \in ProcState(Label) /\ ~Setting(p)
  BY <1>2, <1>3 DEF Known, Setting
<1> HIDE DEF p
<1>5. ClientCalls(p)
  BY <1>3 DEF ClientCalls, ClientPermits, Place, SetupLabel, FallbackPlace, RenamePlace,
              DeletePlace, Function
<1>6. \A err : Good(Answer(p, err)) /\ Answer(p, err).req = r
  BY <1>3, <1>4, <1>5, ClientAnswers
<1>7. {"delete_group", "update_group_rename", "update_group_modify", "delete_member",
       "update_find", "delete_groups"} \subseteq LooseLabel
  BY DEF LooseLabel, UnreachedPlace, MakingPlace, JoinPlace, NumberedPlace, Label, GroupLabel,
         AccountLabel
<1>8. ASSUME NEW l \in {"delete_group", "update_group_rename", "update_group_modify",
                        "delete_member", "update_find", "delete_groups"},
             l = "delete_member" => r.op = "DeleteGroupMember",
             l = "update_find" => r.op = "UpdateAccount",
             l = "delete_groups" => r.op = "DeleteAccount",
             NEW x \in ProcState(Label), x.req = r, ~Setting(x), ClientCalls(x)
      PROVE  Good(Goto(x, l)) /\ Goto(x, l).req = r
  <2>1. ClientPermits(r, l)
    BY <1>8 DEF AdminStays, ClientPermits, SetupLabel, FallbackPlace, RenamePlace, DeletePlace
  <2>2. QED
    BY <1>7, <1>8, <2>1, ClientAnswers
\* The calls of the other functions.
<1>9. ASSUME NEW q, q.req = r,
             q.pc \in {"new_group_find", "new_account_find"} \cup JoinPlace,
             q.ret["NewGroup"] = "reply", q.ret["NewAccount"] = "reply",
             q.ret["AddGroupMember"] = "reply"
      PROVE  Local(q)
  <2>1. Place(q) = q.pc /\ ~Setting(q)
    BY <1>2, <1>9 DEF Place, Setting, JoinPlace
  <2>2. ~Numbered(q)
    BY <1>9, <2>1 DEF Numbered, ForAccount, NumberedPlace, JoinPlace
  <2>3. NumbersFit(q)
    BY <1>9, <2>2 DEF NumbersFit, JoinPlace
  <2>4. ClientCalls(q)
    BY <1>9, <2>1 DEF ClientCalls, ClientPermits, SetupLabel, FallbackPlace, RenamePlace,
                      DeletePlace, JoinPlace
  <2>5. QED
    BY <1>9, <2>1, <2>3, <2>4 DEF Local, UnreachedPlace, JoinPlace
<1>10. Local(ServeNewGroup(p)) /\ ServeNewGroup(p).req = r
  <2> DEFINE q == NewGroup(p, r.group, r.members, "reply")
  <2>1. q.req = r /\ Local(q)
    BY <1>3, <1>4, <1>9, CallFields DEF Function
  <2>2. QED
    BY <1>3, <1>6, <2>1 DEF ServeNewGroup, Good
<1>11. Local(ServeAddGroupMember(p)) /\ ServeAddGroupMember(p).req = r
  <2> DEFINE q == AddGroupMember(p, r.group, r.user, FALSE, "reply")
  <2>1. /\ q.pc \in JoinPlace /\ q.req = p.req
        /\ \A f \in Function : q.ret[f] = IF f = "AddGroupMember" THEN "reply" ELSE p.ret[f]
    BY <1>4 DEF AddGroupMember, ProcState, JoinPlace
  <2>2. Local(q)
    BY <1>3, <1>9, <2>1 DEF Function
  <2>3. QED
    BY <1>3, <1>6, <2>1, <2>2 DEF ServeAddGroupMember, Good
<1>12. Local(NewAccount(p, r.user, "reply")) /\ NewAccount(p, r.user, "reply").req = r
  BY <1>3, <1>4, <1>9, CallFields DEF Function
<1>13. Local(DeleteGroup(p)) /\ DeleteGroup(p).req = r
  BY <1>3, <1>4, <1>5, <1>6, <1>8 DEF DeleteGroup, Good
<1>14. ASSUME r.op = "DeleteGroupMember"
       PROVE  Local(DeleteGroupMember(p)) /\ DeleteGroupMember(p).req = r
  BY <1>3, <1>4, <1>5, <1>6, <1>8, <1>14 DEF DeleteGroupMember, Good
<1>15. ASSUME r.op = "UpdateAccount"
       PROVE  Local(Goto(p, "update_find")) /\ Goto(p, "update_find").req = r
  BY <1>3, <1>4, <1>5, <1>8, <1>15 DEF Good
<1>16. ASSUME r.op = "DeleteAccount"
       PROVE  Local(DeleteAccount(p)) /\ DeleteAccount(p).req = r
  BY <1>3, <1>4, <1>5, <1>6, <1>8, <1>16 DEF DeleteAccount, Good
<1>17. Local(UpdateGroup(p)) /\ UpdateGroup(p).req = r
  <2>1. CASE r.group = NoName
    BY <1>3, <1>6, <2>1 DEF UpdateGroup, Good
  <2>2. CASE r.group # NoName /\ r.to \notin {NoName, r.group}
    BY <1>3, <1>4, <1>5, <1>8, <2>2 DEF UpdateGroup, Good
  <2>3. CASE r.group # NoName /\ r.to \in {NoName, r.group}
    <3> DEFINE x == [p EXCEPT !.group = r.group]
    <3>1. x \in ProcState(Label) /\ x.req = r /\ ~Setting(x) /\ ClientCalls(x)
      BY <1>1, <1>3, <1>4, <1>5, <2>3, ClientAssigns DEF Request
    <3> HIDE DEF x
    <3>2. Good(Goto(x, "update_group_modify")) /\ Goto(x, "update_group_modify").req = r
      BY <1>8, <3>1
    <3>3. UpdateGroup(p) = Goto(x, "update_group_modify")
      BY <1>3, <2>3 DEF UpdateGroup, x
    <3>4. QED
      BY <3>2, <3>3 DEF Good
  <2>4. QED
    BY <2>1, <2>2, <2>3
<1>18. Local(Serve(r)) /\ Serve(r).req = r
  BY <1>2, <1>10, <1>11, <1>12, <1>13, <1>14, <1>15, <1>16, <1>17 DEF Serve, p
<1>19. QED
  BY <1>2, <1>18 DEF Setting

LEMMA SetupInvInit == Start \in {"down", "ready"} /\ Init => SetupInv
<1> SUFFICES ASSUME Start \in {"down", "ready"}, Init PROVE SetupInv
  OBVIOUS
<1>1. /\ TypeInv /\ DirectoryTypeOK
      /\ Admin \in User /\ MinID \in Nat \ {0} /\ MinID + 1 \in Nat /\ MinID + 2 \in Nat
  BY TypeInvInit, DirectoryAssumption, WorkerAssumption DEF TypeInv, TypeOK
<1>2. \A w \in Worker : Local(proc[w]) /\ Standing(proc[w])
  BY IdleGood DEF Init
<1>3. CASE Start = "down"
  <2>1. EmptyDirectory /\ mode \in [Replica -> {"down"}]
    BY <1>3 DEF Init
  <2>2. Founded
    BY <1>1, <2>1, DirectoryAssumption
    DEF EmptyDirectory, Founded, AccountExists, GroupExists, NoAccount, NoGroup
  <2>3. \A r \in Replica : mode[r] # "serving"
    BY <2>1
  <2>4. QED
    BY <1>1, <1>2, <2>2, <2>3 DEF SetupInv
<1>4. CASE Start = "ready"
  <2>1. ReadyDirectory(Admin)
    BY <1>4 DEF Init
  <2>2. /\ group[UsersGroup] = [gid |-> MinID + 1, members |-> {Admin}]
        /\ group[AdminsGroup] = [gid |-> MinID + 2, members |-> {Admin}]
        /\ account[Admin] = [uid |-> MinID + 1, gid |-> MinID + 1]
        /\ lastID["UID"] = MinID + 1 /\ lastID["GID"] = MinID + 2 /\ ous = {"users", "groups"}
    BY <1>1, <2>1, DirectoryAssumption DEF ReadyDirectory, IDKind
  <2>3. GroupExists(UsersGroup) /\ GroupExists(AdminsGroup) /\ AccountExists(Admin)
        /\ IsMember(Admin, UsersGroup) /\ IsMember(Admin, AdminsGroup)
    BY <1>1, <2>2 DEF GroupExists, AccountExists, IsMember
  <2>4. HasUnits /\ HasSerials
    BY <1>1, <2>2 DEF HasUnits, HasSerials, IDKind
  <2>5. Founded
    BY <2>3, <2>4 DEF Founded, HasSerials
  <2>6. QED
    BY <1>1, <1>2, <2>3, <2>4, <2>5 DEF SetupInv, Ready
<1>5. QED
  BY <1>3, <1>4

LEMMA SetupInvStep ==
    ASSUME NoProtectedRename, AdminStays
    PROVE  SetupInv /\ [Next]_vars => SetupInv'
<1> SUFFICES ASSUME SetupInv, [Next]_vars PROVE SetupInv'
  OBVIOUS
<1>1. /\ TypeInv /\ TypeInv' /\ DirectoryTypeOK /\ proc \in [Worker -> ProcState(Label)]
      /\ mode \in [Replica -> {"down", "starting", "serving", "failed"}]
      /\ \A w \in Worker : ReplicaOf[w] \in Replica
  BY TypeInvStep, ManagerAssumption DEF SetupInv, TypeInv, TypeOK
<1>2. \A w \in Worker : Known(proc[w]) /\ Local(proc[w]) /\ Standing(proc[w])
  BY DEF SetupInv, TypeInv
<1>3. Founded' /\ Grow
  <2>1. CASE UNCHANGED directory
    BY <1>1, <2>1, DirectorySound DEF SetupInv, Sound
  <2>2. ASSUME NEW w \in Worker, Step(w) PROVE Sound
    BY <1>1, <1>2, <2>2, StepSound DEF SetupInv
  <2>3. QED
    BY <2>1, <2>2 DEF Next, vars, Boot, Accept, Reply, Crash, Sound
<1>4. Ready => Ready'
  BY <1>3 DEF Grow, Ready, HasUnits, HasSerials
\* Whoever does not step still stands where it stood.
<1>5. ASSUME NEW v \in Worker, proc'[v] = proc[v] PROVE Local(proc'[v]) /\ Standing(proc[v])'
  <2>1. PICK q : q = proc[v]
    OBVIOUS
  <2>2. Standing(q)'
    BY <1>2, <1>3, <2>1, GrowStanding
  <2>3. proc'[v] = q
    BY <1>5, <2>1
  <2>4. QED
    BY <1>2, <2>1, <2>2, <2>3
<1>6. ASSUME NEW w \in Worker, NEW q, Become(w, q), Local(q), Standing(q)'
      PROVE  \A v \in Worker : (Local(proc[v]) /\ Standing(proc[v]))'
  <2>1. ASSUME NEW v \in Worker PROVE (Local(proc[v]) /\ Standing(proc[v]))'
    <3>1. CASE v = w
      <4>1. proc'[v] = q
        BY <1>1, <1>6, <3>1 DEF Become
      <4>2. QED
        BY <1>6, <4>1
    <3>2. CASE v # w
      <4>1. proc'[v] = proc[v]
        BY <1>1, <1>6, <3>2 DEF Become
      <4>2. QED
        BY <1>5, <4>1
    <3>3. QED
      BY <3>1, <3>2
  <2>2. QED
    BY <2>1
<1>7. CASE UNCHANGED vars
  <2>1. \A v \in Worker : (Local(proc[v]) /\ Standing(proc[v]))'
    BY <1>5, <1>7 DEF vars
  <2>2. QED
    BY <1>1, <1>3, <1>4, <1>7, <2>1 DEF SetupInv, vars
<1>8. ASSUME NEW w \in Worker, Boot(w) PROVE SetupInv'
  <2> DEFINE p == [Idle EXCEPT !.req.op = "SetupLDAP"]
  <2>1. PICK q : q = SetupLDAP(p)
    OBVIOUS
  <2>2. /\ q.pc = "setup_groups_ou" /\ Setting(q) /\ q.user = NoName /\ q.members = {}
        /\ \A f \in Function : q.ret[f] = "reply"
    BY <2>1 DEF SetupLDAP, Goto, Idle, NoRequest, Setting
  <2>3. Place(q) = "setup_groups_ou" /\ ~Making(q) /\ ~InNewAccount(q) /\ ~Numbered(q)
    BY <2>2 DEF Place, Making, InNewAccount, Numbered, ForAccount, MakingPlace, JoinPlace,
                AccountPlace, NumberedPlace
  <2>4. NumbersFit(q)
    BY <2>2, <2>3 DEF NumbersFit
  <2>5. SetupCalls(q)
    BY <2>2, <2>3 DEF SetupCalls, SetupLabel, JoinPlace
  <2>6. Local(q)
    BY <2>2, <2>3, <2>4, <2>5 DEF Local, UnreachedPlace, JoinPlace
  <2>7. Standing(q)
    BY <2>2, <2>3 DEF Standing, UnitsSeen, SerialsSeen, GroupsSeen, AdminSeen, FallbackPlace, JoinPlace
  <2>8. Standing(q)'
    BY <1>3, <2>7, GrowStanding
  <2>9. \A v \in Worker : (Local(proc[v]) /\ Standing(proc[v]))'
    BY <1>6, <1>8, <2>1, <2>6, <2>8 DEF Boot
  <2>10. (\E r \in Replica : mode'[r] = "serving") => \E r \in Replica : mode[r] = "serving"
    BY <1>1, <1>8 DEF Boot
  <2>11. QED
    BY <1>1, <1>3, <1>4, <2>9, <2>10 DEF SetupInv
<1>9. ASSUME NEW w \in Worker, Accept(w) PROVE SetupInv'
  <2>1. PICK r \in Requests : Become(w, Serve(r))
    BY <1>9 DEF Accept
  <2>2. Ready
    BY <1>1, <1>9 DEF Accept, SetupInv
  <2>3. PICK q : q = Serve(r)
    OBVIOUS
  <2>4. Local(q) /\ ~Setting(q)
    BY <2>3, ServeGood
  <2>5. Standing(q)'
    BY <1>3, <1>4, <2>2, <2>4, ReadyStands
  <2>6. \A v \in Worker : (Local(proc[v]) /\ Standing(proc[v]))'
    BY <1>6, <2>1, <2>3, <2>4, <2>5
  <2>7. QED
    BY <1>1, <1>3, <1>4, <2>2, <2>6 DEF SetupInv
<1>10. ASSUME NEW w \in Worker, Reply(w) PROVE SetupInv'
  <2>1. Become(w, Idle) /\ proc[w].pc = "reply"
    BY <1>10 DEF Reply, At
  <2>2. \A v \in Worker : (Local(proc[v]) /\ Standing(proc[v]))'
    BY <1>6, <2>1, IdleGood
  <2>3. Setting(proc[w]) /\ proc[w].err = "ok" => Ready
    <3>1. Place(proc[w]) = "reply"
      BY <2>1 DEF Place
    <3>2. HasUnits /\ HasSerials
      BY <1>1, <1>2, <2>1, <3>1, SeesUnits
    <3>3. QED
      BY <1>2, <2>1, <3>2 DEF Standing, AdminSeen, Ready
  <2>4. (\E r \in Replica : mode'[r] = "serving") =>
           \/ \E r \in Replica : mode[r] = "serving"
           \/ Setting(proc[w]) /\ proc[w].err = "ok"
    BY <1>1, <1>10 DEF Reply, Setting
  <2>5. QED
    BY <1>1, <1>3, <1>4, <2>2, <2>3, <2>4 DEF SetupInv
<1>11. ASSUME NEW w \in Worker, Step(w) PROVE SetupInv'
  <2>1. PICK q : /\ Become(w, q) /\ q.req = proc[w].req /\ Local(q)
                 /\ Setting(q) => Standing(q)'
    BY <1>1, <1>2, <1>3, <1>11, StepLands DEF Lands, SetupInv
  <2>2. ~Setting(q) => Standing(q)'
    <3>1. proc[w].pc # "idle"
      BY <1>11
      DEF Step, GroupStep, AccountStep, SetupStep, At,
          HighestCached, HighestScan, NewGroupFind, NewGroupRefused, NewGroupAdd, NewGroupLast,
          DeleteGroupEntry, UpdateGroupRename, UpdateGroupModify, AddMemberCheck, AddMember,
          DeleteMember, LastIDFailed, LastIDAdd, NewAccountFind, NewAccountNoOU, NewAccountUID,
          NewAccountRetry, NewAccountUIDAgain, AccountByGID, AccountGroup, AccountGroupMade,
          AccountGroupOwn, AccountGroupGID, NewAccountAdd, NewAccountNotJoined, NewAccountLast,
          UpdateFind, UpdateTaken, UpdateRename, UpdateGroups, UpdateLeave, UpdateJoin,
          UpdateModify, DeleteGroups, DeleteLeave, DeleteEntry, SetupGroupsOU, SetupUsersOU,
          SetupLastGID, SetupLastUID, SetupAdminsGroup, SetupAdminMade, SetupAdminsMade,
          SetupAdminNotForced, SetupAdminForced
    <3>2. ~Setting(q) => Ready
      BY <1>2, <2>1, <3>1, ClientSeesAll DEF Setting, SetupInv
    <3>3. QED
      BY <1>3, <1>4, <3>2, ReadyStands
  <2>3. \A v \in Worker : (Local(proc[v]) /\ Standing(proc[v]))'
    BY <1>6, <2>1, <2>2
  <2>4. UNCHANGED mode
    BY <1>11 DEF Step
  <2>5. QED
    BY <1>1, <1>3, <1>4, <2>3, <2>4 DEF SetupInv
<1>12. ASSUME NEW r \in Replica, Crash(r) PROVE SetupInv'
  <2>1. ASSUME NEW v \in Worker PROVE (Local(proc[v]) /\ Standing(proc[v]))'
    <3>1. proc'[v] = Idle \/ proc'[v] = proc[v]
      BY <1>12 DEF Crash
    <3>2. QED
      BY <1>5, <3>1, IdleGood
  <2>2. (\E x \in Replica : mode'[x] = "serving") => \E x \in Replica : mode[x] = "serving"
    BY <1>1, <1>12 DEF Crash
  <2>3. QED
    BY <1>1, <1>3, <1>4, <2>1, <2>2 DEF SetupInv
<1>13. QED
  BY <1>7, <1>8, <1>9, <1>10, <1>11, <1>12 DEF Next

\* As long as no client removes the administrator or renames a default group, a
\* replica that serves has the units, the counters and an administrator that is
\* an account and a user: however many replicas set the directory up at the same
\* time, and wherever in SetupLDAP any of them has crashed before.
THEOREM ServingReplicasAreSetUp ==
    ASSUME Start \in {"down", "ready"}, NoProtectedRename, AdminStays
    PROVE  Spec => []ServingMeansSetUp
<1>1. Init => SetupInv
  BY SetupInvInit
<1>2. SetupInv /\ [Next]_vars => SetupInv'
  BY SetupInvStep
<1>3. SetupInv => ServingMeansSetUp
  <2>1. SUFFICES ASSUME SetupInv, \E r \in Replica : mode[r] = "serving"
                 PROVE  /\ ous = {"users", "groups"}
                        /\ \A k \in IDKind : lastID[k] >= MinID
                        /\ \E u \in group[AdminsGroup].members :
                              AccountExists(u) /\ IsMember(u, UsersGroup)
    BY DEF ServingMeansSetUp
  <2>2. Ready /\ Founded /\ ous \subseteq {"users", "groups"}
    BY <2>1 DEF SetupInv, TypeInv, TypeOK, DirectoryTypeOK
  <2>3. ous = {"users", "groups"} /\ \A k \in IDKind : lastID[k] >= MinID
    BY <2>2 DEF Ready, HasUnits, HasSerials
  <2>4. /\ Admin \in group[AdminsGroup].members
        /\ AccountExists(Admin) /\ IsMember(Admin, UsersGroup)
    BY <2>2 DEF Ready, Founded, IsMember
  <2>5. QED
    BY <2>3, <2>4
<1>4. QED
  BY <1>1, <1>2, <1>3, PTL DEF Spec
=============================================================================
