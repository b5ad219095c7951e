-------------------------------- MODULE Setup --------------------------------
(***************************************************************************)
(* setup.go: SetupLDAP, run by every replica before it serves.  It is made *)
(* of steps that tolerate what an earlier or a concurrent run has already  *)
(* done.                                                                   *)
(***************************************************************************)
EXTENDS Accounts

CONSTANT ForceCreateAdmin   \* --force-create-admin

ASSUME SetupAssumption == ForceCreateAdmin \in BOOLEAN

SetupLabel ==
    {"setup_groups_ou", "setup_users_ou", "setup_last_gid", "setup_last_uid",
     "setup_admins_group", "setup_admin_made", "setup_admins_made", "setup_admin_forced"}

SetupLDAP(p) == Goto(p, "setup_groups_ou")

\* Any answer to the Add but "already exists" would be fatal; there is none.
SetupGroupsOU(w) ==
    /\ At(w, "setup_groups_ou")
    /\ AddOU("groups")
    /\ Become(w, Goto(proc[w], "setup_users_ou"))

\* Mutant: setupLastGID is forgotten.
SetupUsersOUNoGID(w) ==
    /\ At(w, "setup_users_ou")
    /\ AddOU("users")
    /\ Become(w, SetupLastID(proc[w], "UID", "setup_last_uid"))

SetupUsersOU(w) ==
    /\ At(w, "setup_users_ou")
    /\ AddOU("users")
    /\ Become(w, SetupLastID(proc[w], "GID", "setup_last_gid"))

\* Mutant: what an earlier run has already made is an error.
ToleratedNothing == {"ok"}

Tolerated == {"ok", "EntryExists", "NoSuchObject"}

SetupLastGID(w) ==
    LET p == proc[w]
    IN  /\ At(w, "setup_last_gid")
        /\ Become(w, IF p.err \in Tolerated THEN SetupLastID(p, "UID", "setup_last_uid")
                                            ELSE Answer(p, "Failed"))
        /\ UNCHANGED directory

SetupLastUID(w) ==
    LET p == proc[w]
    IN  /\ At(w, "setup_last_uid")
        /\ Become(w, IF p.err \in Tolerated THEN Goto(p, "setup_admins_group")
                                            ELSE Answer(p, "Failed"))
        /\ UNCHANGED directory

-----------------------------------------------------------------------------
(* setupAdminsGroup *)

\* Mutant: the administrators' group is made without the administrator.
SetupAdminsGroupAlone(w) ==
    LET p == proc[w]
    IN  /\ At(w, "setup_admins_group")
        /\ Become(w, IF GroupExists(AdminsGroup)
                     THEN Answer(p, "ok")
                     ELSE NewGroup(p, AdminsGroup, {Admin}, "setup_admins_made"))
        /\ UNCHANGED directory

SetupAdminsGroup(w) ==
    LET p == proc[w]
    IN  /\ At(w, "setup_admins_group")
        /\ \/ /\ "groups" \notin ous
              /\ Become(w, Answer(p, "Failed"))
           \/ /\ "groups" \in ous /\ ~GroupExists(AdminsGroup)
              /\ Become(w, NewAccount(p, Admin, "setup_admin_made"))
           \/ /\ GroupExists(AdminsGroup)
              /\ group[AdminsGroup].members = {} \/ ForceCreateAdmin
              /\ Become(w, NewAccount(p, Admin, "setup_admin_forced"))
           \/ /\ GroupExists(AdminsGroup)
              /\ group[AdminsGroup].members # {} /\ ~ForceCreateAdmin
              /\ Become(w, Answer(p, "ok"))
        /\ UNCHANGED directory

SetupAdminMade(w) ==
    LET p == proc[w]
    IN  /\ At(w, "setup_admin_made")
        /\ Become(w, IF p.err \in {"ok", "AccountExists"}
                     THEN NewGroup(p, AdminsGroup, {Admin}, "setup_admins_made")
                     ELSE Answer(p, "Failed"))
        /\ UNCHANGED directory

SetupAdminsMade(w) ==
    LET p == proc[w]
    IN  /\ At(w, "setup_admins_made")
        /\ Become(w, Answer(p, IF p.err = "ok" THEN "ok" ELSE "Failed"))
        /\ UNCHANGED directory

SetupAdminNotForced(w) ==
    LET p == proc[w]
    IN  /\ At(w, "setup_admin_forced") /\ p.err \notin {"ok", "AccountExists"}
        /\ Become(w, Answer(p, "Failed"))
        /\ UNCHANGED directory

\* AddGroupMember of a protected group goes straight to the server.
SetupAdminForced(w) ==
    LET p == proc[w]
    IN  /\ At(w, "setup_admin_forced") /\ p.err \in {"ok", "AccountExists"}
        /\ AddValue(AdminsGroup, Admin)
        /\ Become(w, Answer(p, IF AddMemberError(AdminsGroup, Admin) \in {"ok", "MemberExists"}
                               THEN "ok" ELSE "Failed"))

SetupStep(w) ==
    \/ SetupGroupsOU(w) \/ SetupUsersOU(w)
    \/ SetupLastGID(w) \/ SetupLastUID(w)
    \/ SetupAdminsGroup(w) \/ SetupAdminMade(w) \/ SetupAdminsMade(w)
    \/ SetupAdminNotForced(w) \/ SetupAdminForced(w)
=============================================================================
