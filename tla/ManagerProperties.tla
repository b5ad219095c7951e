-------------------------- MODULE ManagerProperties --------------------------
(***************************************************************************)
(* What ldap-manager should keep true of the directory and of its answers. *)
(***************************************************************************)
EXTENDS LDAPManager

\* Nothing is under way anywhere.
Quiet == /\ \A w \in Worker : At(w, "idle")
         /\ \A r \in Replica : mode[r] = "serving"
Answering(w, op, err) == At(w, "reply") /\ proc[w].req.op = op /\ proc[w].err = err

\* No two accounts share a uidNumber: username and uidNumber "identify a unique
\* user" (accounts.go:516).
UIDsUnique ==
    \A u, v \in User :
        AccountExists(u) /\ AccountExists(v) /\ account[u].uid = account[v].uid => u = v

\* No two groups share a gidNumber, although they take them from one counter in
\* a search and an update that are two round trips (groups.go:93 and 149).
GIDsUnique ==
    \A g, h \in Group :
        GroupExists(g) /\ GroupExists(h) /\ group[g].gid = group[h].gid => g = h

\* The numbers of accounts and of groups.
NumbersUnique == UIDsUnique /\ GIDsUnique

\* The counters prevent "the re-use of a UID from a deleted account" and "of a
\* GID from a deleted group" (setup.go:60 and 67).
NumbersNotReused == \A kind \in {"UID", "GID"} : IDsInUse(kind) \cap retired[kind] = {}

\* Between requests a device "records the last GID used" (setup.go:60): no entry
\* bears a higher number than the counter.
NumbersRecorded ==
    \A kind \in {"UID", "GID"} :
        Quiet /\ lastID[kind] # 0 => \A i \in IDsInUse(kind) : i <= lastID[kind]

\* The default groups, on which every later NewAccount and AddGroupMember
\* relies, never disappear: deleting them "is not allowed" (groups.go:162).
ProtectedGroupsStay ==
    [][\A g \in {UsersGroup, AdminsGroup} : GroupExists(g) => GroupExists(g)']_vars

\* Every group member is an account.
MembersExist == \A g \in Group : \A u \in group[g].members : AccountExists(u)

\* Between requests every group member is an account: UpdateAccount is to "migrate
\* user from all his groups" (accounts.go:457).
NoDanglingMembers == Quiet => MembersExist

\* "After a user is deleted it is not longer a member of any group"
\* (group_members_test.go:63), and so when the deletion is reported, whatever
\* other groups it had to be taken out of and whatever errors were passed over.
DeletedLeavesGroups ==
    \A w \in Worker : Answering(w, "DeleteAccount", "ok") => GroupsOf(proc[w].req.user) = {}

\* NewAccount adds the entry first (accounts.go:382) and the membership second:
\* the second must not fail, or the caller is told of a failure and the account
\* stays behind, without a counter update.
JoinCannotFail ==
    \A w \in Worker : At(w, "new_account_joined") => proc[w].err \in {"ok", "MemberExists"}

\* A new account is "in the users group" (accounts_test.go:259), whatever group
\* getGroupForAccount had to fall back to.
CreatedIsUser ==
    \A w \in Worker : Answering(w, "NewAccount", "ok") => IsMember(proc[w].user, UsersGroup)

\* Between requests "every user is member of the users group" (group_members_test.go:22):
\* AddGroupMember takes that membership for the existence of the account, so an
\* account without it is refused by every other group.
AccountsAreUsers == Quiet => \A u \in User : AccountExists(u) => IsMember(u, UsersGroup)

\* The gidNumber that an account was given is the number of a group, also when
\* its group was made, or found made by another request, on the way.
AccountGIDsResolve ==
    Quiet => \A u \in User : AccountExists(u) => account[u].gid \in IDsInUse("GID")

\* A replica that serves has found or made what setup_test.go looks for: the
\* units, the counters and an administrator that is an account and a user.
ServingMeansSetUp ==
    (\E r \in Replica : mode[r] = "serving") =>
        /\ ous = {"users", "groups"}
        /\ \A k \in IDKind : lastID[k] >= MinID
        /\ \E u \in group[AdminsGroup].members : AccountExists(u) /\ IsMember(u, UsersGroup)

\* SetupLDAP can be run again after a crash at any point of it, next to another
\* replica that runs it too, either of which the other one's entries may refuse:
\* from some moment on a replica serves and goes on serving.  A lone replica is
\* the case where the other one's work is that of its own earlier lives.
SomeReplicaServes == <>[](\E r \in Replica : mode[r] = "serving")

\* Every request that is accepted is answered, whatever the others do to the
\* groups that the loops of UpdateAccount and DeleteAccount walk through.
RequestsAnswered == \A w \in Worker : ~At(w, "idle") ~> At(w, "idle")
=============================================================================
