------------------------------ MODULE MCManager ------------------------------
(***************************************************************************)
(* Small instances of the manager for TLC: who the clients are and which   *)
(* requests they send.                                                     *)
(***************************************************************************)
EXTENDS ManagerProperties, TLC

CONSTANTS admin, ann, bob, users, admins, staff, w1, w2, r1, r2

OneReplica == [w \in Worker |-> r1]
ReplicaEach == (w1 :> r1) @@ (w2 :> r2)

Rpc(op) == [NoRequest EXCEPT !.op = op]
Create(u) == [Rpc("NewAccount") EXCEPT !.user = u]
Rename(u, v) == [Rpc("UpdateAccount") EXCEPT !.user = u, !.to = v]
Remove(u) == [Rpc("DeleteAccount") EXCEPT !.user = u]
Join(u, g) == [Rpc("AddGroupMember") EXCEPT !.user = u, !.group = g]
Leave(u, g) == [Rpc("DeleteGroupMember") EXCEPT !.user = u, !.group = g]
Found(g, S) == [Rpc("NewGroup") EXCEPT !.group = g, !.members = S]
Disband(g) == [Rpc("DeleteGroup") EXCEPT !.group = g]
RenameGrp(g, h) == [Rpc("UpdateGroup") EXCEPT !.group = g, !.to = h]

CreateAs(u, id) == [Create(u) EXCEPT !.uid = id]
CreateIn(u, id) == [Create(u) EXCEPT !.gid = id]
Renumber(u, id) == [Rpc("UpdateAccount") EXCEPT !.user = u, !.uid = id]

NoRequests == {}
FirstAccounts == {Create(ann), Create(bob), Join(ann, staff), Found(admins, {ann})}
\* One group never has only one member to lose: admin stays in it.
Arrivals == {Create(ann), Create(bob), Join(ann, staff), Found(staff, {admin})}
Departures == {Remove(ann), Remove(bob), Leave(ann, staff), Disband(staff), Disband(users)}
Renames == {Rename(ann, bob), RenameGrp(staff, bob)}
Everyday == Arrivals \cup Departures \cup {RenameGrp(staff, bob)}
Busy == Arrivals \cup Departures \cup Renames
        \cup {CreateAs(bob, 1), CreateIn(ann, 2), Renumber(ann, 4), Found(staff, {}),
             Leave(admin, admins), Disband(NoName)}
=============================================================================
