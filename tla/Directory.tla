------------------------------ MODULE Directory ------------------------------
(***************************************************************************)
(* The OpenLDAP server as ldap-manager uses it.  The server is not part of *)
(* the repository: this module states what its answers must be for the     *)
(* code to behave as it does, one operator pair per kind of round trip     *)
(* (the result code of the operation, and its effect).  Every operation is *)
(* atomic at the server.  The groups are groupOfUniqueNames entries, the   *)
(* RFC2307bis schema that config.go and the command line select by         *)
(* default, so a group cannot lose its last member.                        *)
(***************************************************************************)
EXTENDS Integers, FiniteSets

CONSTANTS
    User,         \* account names
    Group,        \* group names; a fallback group bears an account's name
    UsersGroup,   \* DefaultUserGroup
    AdminsGroup,  \* DefaultAdminGroup
    NoName,       \* the empty string
    MinID,        \* MinUID = MinGID
    RefInt        \* does the server run the referential-integrity overlay?

ASSUME DirectoryAssumption ==
    /\ UsersGroup \in Group
    /\ AdminsGroup \in Group
    /\ UsersGroup # AdminsGroup
    /\ User \subseteq Group
    /\ {UsersGroup, AdminsGroup} \cap User = {}
    /\ NoName \notin Group
    /\ MinID \in Nat \ {0}
    /\ RefInt \in BOOLEAN

VARIABLES
    ous,      \* the organizational units that exist
    account,  \* entries of the users OU, by uid
    group,    \* entries of the groups OU, by cn
    lastID,   \* serialNumber of cn=lastUID and cn=lastGID, 0: no such device
    retired   \* history: the numbers that deleted entries had

directory == <<ous, account, group, lastID, retired>>

IDKind == {"UID", "GID"}
OU(kind) == IF kind = "UID" THEN "users" ELSE "groups"

AccountEntry == [uid : Nat, gid : Nat]
GroupEntry == [gid : Nat, members : SUBSET User]
NoAccount == [uid |-> 0, gid |-> 0]
NoGroup == [gid |-> 0, members |-> {}]

AccountExists(u) == account[u].uid # 0
GroupExists(g) == group[g].gid # 0
IsMember(u, g) == u \in group[g].members
GroupsOf(u) == {g \in Group : IsMember(u, g)}

IDsInUse(kind) ==
    IF kind = "UID" THEN {account[u].uid : u \in {v \in User : AccountExists(v)}}
                    ELSE {group[g].gid : g \in {h \in Group : GroupExists(h)}}

DirectoryTypeOK ==
    /\ ous \subseteq {"users", "groups"}
    /\ account \in [User -> AccountEntry]
    /\ group \in [Group -> GroupEntry]
    /\ lastID \in [IDKind -> Nat]
    /\ retired \in [IDKind -> SUBSET Nat]

\* A fresh container: the base entry and nothing below it.
EmptyDirectory ==
    /\ ous = {}
    /\ account = [u \in User |-> NoAccount]
    /\ group = [g \in Group |-> NoGroup]
    /\ lastID = [k \in IDKind |-> 0]
    /\ retired = [k \in IDKind |-> {}]

\* What one undisturbed SetupLDAP makes of it: the initial administrator has
\* the first uidNumber, the two default groups the first two gidNumbers.
ReadyDirectory(admin) ==
    /\ ous = {"users", "groups"}
    /\ account = [u \in User |-> IF u = admin THEN [uid |-> MinID + 1, gid |-> MinID + 1]
                                              ELSE NoAccount]
    /\ group = [g \in Group |->
                   CASE g = UsersGroup -> [gid |-> MinID + 1, members |-> {admin}]
                     [] g = AdminsGroup -> [gid |-> MinID + 2, members |-> {admin}]
                     [] OTHER -> NoGroup]
    /\ lastID = [k \in IDKind |-> IF k = "UID" THEN MinID + 1 ELSE MinID + 2]
    /\ retired = [k \in IDKind |-> {}]

-----------------------------------------------------------------------------
(* Organizational units and the lastUID / lastGID devices. *)

AddOUCode(ou) == IF ou \in ous THEN "EntryExists" ELSE "ok"
AddOU(ou) ==
    /\ ous' = ous \cup {ou}
    /\ UNCHANGED <<account, group, lastID, retired>>

AddDeviceCode(kind) == IF lastID[kind] # 0 THEN "EntryExists" ELSE "ok"
AddDevice(kind, id) ==
    /\ lastID' = IF AddDeviceCode(kind) = "ok" THEN [lastID EXCEPT ![kind] = id] ELSE lastID
    /\ UNCHANGED <<ous, account, group, retired>>

ReplaceSerialCode(kind) == IF lastID[kind] = 0 THEN "NoSuchObject" ELSE "ok"
ReplaceSerial(kind, id) ==
    /\ lastID' = IF ReplaceSerialCode(kind) = "ok" THEN [lastID EXCEPT ![kind] = id] ELSE lastID
    /\ UNCHANGED <<ous, account, group, retired>>

-----------------------------------------------------------------------------
(* Account entries. *)

AddAccountCode(u) ==
    CASE "users" \notin ous -> "NoSuchObject"
      [] "users" \in ous /\ AccountExists(u) -> "EntryExists"
      [] OTHER -> "ok"
AddAccount(u, entry) ==
    /\ account' = IF AddAccountCode(u) = "ok" THEN [account EXCEPT ![u] = entry] ELSE account
    /\ UNCHANGED <<ous, group, lastID, retired>>

ModifyAccountCode(u) == IF AccountExists(u) THEN "ok" ELSE "NoSuchObject"
ModifyAccount(u, entry) ==
    /\ account' = IF AccountExists(u) THEN [account EXCEPT ![u] = entry] ELSE account
    /\ UNCHANGED <<ous, group, lastID, retired>>

\* ModifyDN.  With the overlay the server rewrites the member values too.
RenameAccountCode(u, v) ==
    CASE ~AccountExists(u) -> "NoSuchObject"
      [] AccountExists(u) /\ AccountExists(v) -> "EntryExists"
      [] OTHER -> "ok"
RenameAccount(u, v) ==
    /\ IF RenameAccountCode(u, v) = "ok"
       THEN /\ account' = [account EXCEPT ![v] = account[u], ![u] = NoAccount]
            /\ group' = [g \in Group |->
                            IF RefInt /\ IsMember(u, g)
                            THEN [group[g] EXCEPT !.members = (@ \ {u}) \cup {v}]
                            ELSE group[g]]
       ELSE UNCHANGED <<account, group>>
    /\ UNCHANGED <<ous, lastID, retired>>

\* With the overlay the server also drops the member values, except a last one.
DelAccountCode(u) == IF AccountExists(u) THEN "ok" ELSE "NoSuchObject"
DelAccount(u) ==
    /\ IF AccountExists(u)
       THEN /\ account' = [account EXCEPT ![u] = NoAccount]
            /\ group' = [g \in Group |->
                            IF RefInt /\ group[g].members # {u}
                            THEN [group[g] EXCEPT !.members = @ \ {u}]
                            ELSE group[g]]
            /\ retired' = [retired EXCEPT !["UID"] = @ \cup {account[u].uid}]
       ELSE UNCHANGED <<account, group, retired>>
    /\ UNCHANGED <<ous, lastID>>

-----------------------------------------------------------------------------
(* Group entries. *)

AddGroupCode(g) ==
    CASE "groups" \notin ous -> "NoSuchObject"
      [] "groups" \in ous /\ GroupExists(g) -> "EntryExists"
      [] OTHER -> "ok"
AddGroup(g, entry) ==
    /\ group' = IF AddGroupCode(g) = "ok" THEN [group EXCEPT ![g] = entry] ELSE group
    /\ UNCHANGED <<ous, account, lastID, retired>>

ModifyGroupCode(g) == IF GroupExists(g) THEN "ok" ELSE "NoSuchObject"
ModifyGroup(g, entry) ==
    /\ group' = IF GroupExists(g) THEN [group EXCEPT ![g] = entry] ELSE group
    /\ UNCHANGED <<ous, account, lastID, retired>>

RenameGroupCode(g, h) ==
    CASE ~GroupExists(g) -> "NoSuchObject"
      [] GroupExists(g) /\ GroupExists(h) -> "EntryExists"
      [] OTHER -> "ok"
RenameGroup(g, h) ==
    /\ group' = IF RenameGroupCode(g, h) = "ok"
                THEN [group EXCEPT ![h] = group[g], ![g] = NoGroup]
                ELSE group
    /\ UNCHANGED <<ous, account, lastID, retired>>

DelGroupCode(g) == IF GroupExists(g) THEN "ok" ELSE "NoSuchObject"
DelGroup(g) ==
    /\ IF GroupExists(g)
       THEN /\ group' = [group EXCEPT ![g] = NoGroup]
            /\ retired' = [retired EXCEPT !["GID"] = @ \cup {group[g].gid}]
       ELSE UNCHANGED <<group, retired>>
    /\ UNCHANGED <<ous, account, lastID>>

AddValueCode(g, u) ==
    CASE ~GroupExists(g) -> "NoSuchObject"
      [] GroupExists(g) /\ IsMember(u, g) -> "ValueExists"
      [] OTHER -> "ok"
AddValue(g, u) ==
    /\ group' = IF AddValueCode(g, u) = "ok" THEN [group EXCEPT ![g].members = @ \cup {u}]
                                             ELSE group
    /\ UNCHANGED <<ous, account, lastID, retired>>

DeleteValueCode(g, u) ==
    CASE ~GroupExists(g) -> "NoSuchObject"
      [] GroupExists(g) /\ ~IsMember(u, g) -> "NoSuchAttribute"
      [] GroupExists(g) /\ group[g].members = {u} -> "ObjectClassViolation"
      [] OTHER -> "ok"
DeleteValue(g, u) ==
    /\ group' = IF DeleteValueCode(g, u) = "ok" THEN [group EXCEPT ![g].members = @ \ {u}]
                                                ELSE group
    /\ UNCHANGED <<ous, account, lastID, retired>>
=============================================================================
