----------------------------- MODULE MCSessions -----------------------------
(***************************************************************************)
(* Small instances of Sessions: who has an account and what clients send.  *)
(***************************************************************************)
EXTENDS Sessions, TLC

CONSTANTS admin, ann, bob, p1, p2, w1, w2

TwoAccounts == admin :> p1 @@ ann :> p1 @@ bob :> NoName

Ask(op) == [op |-> op, user |-> NoName, to |-> NoName, pw |-> NoName]
Login(u, p) == [Ask("Login") EXCEPT !.user = u, !.pw = p]
Change(u, p) == [Ask("ChangePassword") EXCEPT !.user = u, !.pw = p]
On(op, u) == [Ask(op) EXCEPT !.user = u]
Rename(u, v) == [On("UpdateAccount", u) EXCEPT !.to = v]
Create(u, p) == [On("NewAccount", u) EXCEPT !.pw = p]

Logins == {Login(admin, p1), Login(ann, p1), Login(ann, p2), Login(bob, p1)}
Everything ==
    Logins \cup
    {Login(NoName, p1), Change(ann, p2), Change(bob, p1), Change(NoName, p1),
     Rename(ann, bob), Rename(admin, bob), [On("UpdateAccount", ann) EXCEPT !.pw = p2],
     Create(bob, p1), On("DeleteAccount", ann), On("AddGroupMember", ann),
     On("AddGroupMember", bob), On("DeleteGroupMember", ann), On("DeleteGroupMember", admin)}
=============================================================================
