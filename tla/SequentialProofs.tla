--------------------------- MODULE SequentialProofs ---------------------------
(***************************************************************************)
(* What holds of the directory when requests are served one at a time.     *)
(*                                                                         *)
(* NewGroup and NewAccount search for the highest number, add an entry     *)
(* that bears the next one and move the counter, in round trips of their   *)
(* own; NewAccount and DeleteAccount change an account and its memberships *)
(* in round trips of their own.  Nothing in the code keeps two requests    *)
(* from interleaving there (the run shared_uid), nor a crash from falling  *)
(* in between.  Without either, the invariants say what the one request    *)
(* under way has yet to do: the number it has yet to record, the account   *)
(* whose memberships it has yet to add or has begun to remove.             *)
(***************************************************************************)
EXTENDS ManagerProofs

\* A directory that was set up, and one goroutine that serves it undisturbed.
OneAtATime == Start = "ready" /\ MaxCrashes = 0 /\ \E w \in Worker : Worker = {w}

\* What stays so.
Undisturbed == crashes = 0 /\ \A r \in Replica : mode[r] = "serving"

LEMMA UndisturbedInit == Start = "ready" /\ Init => Undisturbed
  BY DEF Init, Undisturbed

\* No replica boots and none crashes: what a worker does is serve requests.
LEMMA UndisturbedSteps ==
    ASSUME MaxCrashes = 0, Undisturbed, Next, \A w \in Worker : proc[w].req.op # "SetupLDAP"
    PROVE  /\ Undisturbed'
           /\ \E w \in Worker : Accept(w) \/ Step(w) \/ Reply(w)
<1>1. \A r : ~Crash(r)
  BY DEF Crash, Undisturbed
<1>2. \A w \in Worker : ~Boot(w)
  BY ManagerAssumption DEF Boot, Undisturbed
<1>3. PICK w \in Worker : Accept(w) \/ Step(w) \/ Reply(w)
  BY <1>1, <1>2 DEF Next
<1>4. UNCHANGED <<mode, crashes>>
  BY <1>3 DEF Accept, Step, Reply
<1>5. QED
  BY <1>3, <1>4 DEF Undisturbed

-----------------------------------------------------------------------------
(* The numbers: the inductive invariant. *)

\* Every client leaves the choice of the numbers to ldap-manager.
AsksNoNumbers == \A r \in Requests : r.uid < MinID /\ r.gid < MinID

\* Where a request without numbers is only on a directory without counters.
ScanLabel ==
    {"highest_scan", "last_id_add", "new_account_retry", "new_account_uid_again",
     "account_by_gid"}

\* The worker has added an entry whose number it has yet to record.
Unrecorded(p, kind) ==
    IF kind = "GID"
    THEN p.pc = "new_group_last"
    ELSE \/ p.pc = "new_account_joined"
         \/ p.pc = "add_member" /\ p.ret["AddGroupMember"] = "new_account_joined"

Client(p) ==
    /\ p.req.uid < MinID /\ p.req.gid < MinID /\ p.req.op # "SetupLDAP"
    /\ p.ret["NewGroup"] = "reply" /\ p.ret["NewAccount"] = "reply"

\* From the search for the highest number to the update of the counter, the
\* number of the request is the one after the last that was recorded.
Counting(p, last) ==
    /\ Client(p)
    /\ p.pc \notin ScanLabel \cup SetupLabel \cup FallbackLabel
    /\ p.pc = "highest_cached" =>
          \/ p.ret["getHighestID"] = "new_group_add" /\ p.kind = "GID"
          \/ p.ret["getHighestID"] = "new_account_uid" /\ p.kind = "UID"
    /\ p.pc = "new_group_add" => p.err = "ok" /\ p.high = last["GID"]
    /\ p.pc = "new_account_uid" => p.err = "ok" /\ p.high = last["UID"]
    /\ p.pc \in {"account_group", "new_account_add"} => p.uid = last["UID"] + 1
    /\ Unrecorded(p, "UID") => p.uid = last["UID"] + 1
    /\ Unrecorded(p, "GID") => p.newGID = last["GID"] + 1

Below(p) ==
    \A kind \in IDKind : \A i \in IDsInUse(kind) :
        i <= lastID[kind] \/ (Unrecorded(p, kind) /\ i = lastID[kind] + 1)

\* NumbersUnique and NumbersNotReused, said of the entries; no deleted number is
\* beyond the counter.
Orderly ==
    /\ \A u, v \in User : account[u].uid # 0 /\ account[u].uid = account[v].uid => u = v
    /\ \A g, h \in Group : group[g].gid # 0 /\ group[g].gid = group[h].gid => g = h
    /\ \A u \in User : account[u].uid # 0 => account[u].uid \notin retired["UID"]
    /\ \A g \in Group : group[g].gid # 0 => group[g].gid \notin retired["GID"]
    /\ \A kind \in IDKind : lastID[kind] >= MinID /\ \A i \in retired[kind] : i <= lastID[kind]

NumberInv ==
    /\ JoinInv
    /\ Undisturbed
    /\ Orderly
    /\ \A w \in Worker : Counting(proc[w], lastID) /\ Below(proc[w])

-----------------------------------------------------------------------------
(* What the round trips do to the numbers. *)

\* Nothing is added that would have to be recorded.
Settled ==
    /\ Orderly'
    /\ lastID' = lastID
    /\ \A kind \in IDKind : IDsInUse(kind)' \subseteq IDsInUse(kind)

LEMMA InUse ==
    /\ \A i : i \in IDsInUse("UID") <=> \E u \in User : account[u].uid = i /\ i # 0
    /\ \A i : i \in IDsInUse("GID") <=> \E g \in Group : group[g].gid = i /\ i # 0
  BY DEF IDsInUse, AccountExists, GroupExists

LEMMA OrderlyNumbers == Orderly => NumbersUnique /\ NumbersNotReused
<1>1. Orderly => UIDsUnique /\ GIDsUnique
  BY DEF Orderly, UIDsUnique, GIDsUnique, AccountExists, GroupExists
<1>2. Orderly => NumbersNotReused
  BY InUse DEF Orderly, NumbersNotReused
<1>3. QED
  BY <1>1, <1>2 DEF NumbersUnique

\* Entries change, their numbers do not.
LEMMA SameNumbers ==
    ASSUME Orderly, lastID' = lastID, retired' = retired,
           \A u \in User : account'[u].uid = account[u].uid,
           \A g \in Group : group'[g].gid = group[g].gid
    PROVE  Settled
<1>1. /\ \A i : i \in IDsInUse("UID")' <=> \E u \in User : account'[u].uid = i /\ i # 0
      /\ \A i : i \in IDsInUse("GID")' <=> \E g \in Group : group'[g].gid = i /\ i # 0
  BY DEF IDsInUse, AccountExists, GroupExists
<1>2. Orderly'
  BY DEF Orderly
<1>3. QED
  BY <1>1, <1>2, InUse DEF Settled, IDKind

LEMMA RenamedNumbers ==
    ASSUME DirectoryTypeOK, Orderly
    PROVE  /\ \A u, v \in User : RenameAccount(u, v) => Settled
           /\ \A g, h \in Group : RenameGroup(g, h) => Settled
<1>0. /\ \A i : i \in IDsInUse("UID")' <=> \E u \in User : account'[u].uid = i /\ i # 0
      /\ \A i : i \in IDsInUse("GID")' <=> \E g \in Group : group'[g].gid = i /\ i # 0
  BY DEF IDsInUse, AccountExists, GroupExists
<1>1. ASSUME NEW u \in User, NEW v \in User, RenameAccount(u, v) PROVE Settled
  <2>1. lastID' = lastID /\ retired' = retired /\ \A g \in Group : group'[g].gid = group[g].gid
    BY <1>1 DEF RenameAccount, DirectoryTypeOK, GroupEntry
  <2>2. CASE RenameAccountCode(u, v) # "ok"
    BY <1>1, <2>1, <2>2, SameNumbers DEF RenameAccount
  <2>3. CASE RenameAccountCode(u, v) = "ok"
    <3>1. account[v].uid = 0 /\ u # v
      BY <2>3 DEF RenameAccountCode, AccountExists
    <3>2. \A t \in User : account'[t].uid = IF t = u THEN 0
                                            ELSE IF t = v THEN account[u].uid ELSE account[t].uid
      BY <1>1, <2>3, <3>1 DEF RenameAccount, DirectoryTypeOK, NoAccount
    <3>3. Orderly'
      BY <2>1, <3>1, <3>2 DEF Orderly
    <3>4. \A i : i \in IDsInUse("UID")' => i \in IDsInUse("UID")
      BY <1>0, <3>2, InUse
    <3>5. \A i : i \in IDsInUse("GID")' => i \in IDsInUse("GID")
      BY <1>0, <2>1, InUse
    <3>6. QED
      BY <2>1, <3>3, <3>4, <3>5 DEF Settled, IDKind
  <2>4. QED
    BY <2>2, <2>3
<1>2. ASSUME NEW g \in Group, NEW h \in Group, RenameGroup(g, h) PROVE Settled
  <2>1. lastID' = lastID /\ retired' = retired /\ account' = account
    BY <1>2 DEF RenameGroup
  <2>2. CASE RenameGroupCode(g, h) # "ok"
    BY <1>2, <2>1, <2>2, SameNumbers DEF RenameGroup
  <2>3. CASE RenameGroupCode(g, h) = "ok"
    <3>1. group[h].gid = 0 /\ g # h
      BY <2>3 DEF RenameGroupCode, GroupExists
    <3>2. \A t \in Group : group'[t].gid = IF t = g THEN 0
                                           ELSE IF t = h THEN group[g].gid ELSE group[t].gid
      BY <1>2, <2>3, <3>1 DEF RenameGroup, DirectoryTypeOK, NoGroup
    <3>3. Orderly'
      BY <2>1, <3>1, <3>2 DEF Orderly
    <3>4. \A i : i \in IDsInUse("GID")' => i \in IDsInUse("GID")
      BY <1>0, <3>2, InUse
    <3>5. \A i : i \in IDsInUse("UID")' => i \in IDsInUse("UID")
      BY <1>0, <2>1, InUse
    <3>6. QED
      BY <2>1, <3>3, <3>4, <3>5 DEF Settled, IDKind
  <2>4. QED
    BY <2>2, <2>3
<1>3. QED
  BY <1>1, <1>2

\* A number that is retired was in use, and thus recorded.
LEMMA DeletedNumbers ==
    ASSUME DirectoryTypeOK, Orderly,
           \A kind \in IDKind : \A i \in IDsInUse(kind) : i <= lastID[kind]
    PROVE  /\ \A u \in User : DelAccount(u) => Settled
           /\ \A g \in Group : DelGroup(g) => Settled
<1>0. /\ \A i : i \in IDsInUse("UID")' <=> \E u \in User : account'[u].uid = i /\ i # 0
      /\ \A i : i \in IDsInUse("GID")' <=> \E g \in Group : group'[g].gid = i /\ i # 0
  BY DEF IDsInUse, AccountExists, GroupExists
<1>1. ASSUME NEW u \in User, DelAccount(u) PROVE Settled
  <2>1. lastID' = lastID /\ \A g \in Group : group'[g].gid = group[g].gid
    BY <1>1 DEF DelAccount, DirectoryTypeOK, GroupEntry
  <2>2. CASE ~AccountExists(u)
    BY <1>1, <2>1, <2>2, SameNumbers DEF DelAccount
  <2>3. CASE AccountExists(u)
    <3>1. account[u].uid # 0 /\ account[u].uid <= lastID["UID"]
      BY <2>3, InUse DEF AccountExists, IDKind
    <3>2. \A t \in User : account'[t].uid = IF t = u THEN 0 ELSE account[t].uid
      BY <1>1, <2>3 DEF DelAccount, DirectoryTypeOK, NoAccount
    <3>3. retired'["GID"] = retired["GID"] /\ retired'["UID"] = retired["UID"] \cup {account[u].uid}
      BY <1>1, <2>3 DEF DelAccount, DirectoryTypeOK, IDKind
    <3>4. Orderly'
      BY <2>1, <3>1, <3>2, <3>3 DEF Orderly, IDKind
    <3>5. \A i : i \in IDsInUse("UID")' => i \in IDsInUse("UID")
      BY <1>0, <3>2, InUse
    <3>6. \A i : i \in IDsInUse("GID")' => i \in IDsInUse("GID")
      BY <1>0, <2>1, InUse
    <3>7. QED
      BY <2>1, <3>4, <3>5, <3>6 DEF Settled, IDKind
  <2>4. QED
    BY <2>2, <2>3
<1>2. ASSUME NEW g \in Group, DelGroup(g) PROVE Settled
  <2>1. lastID' = lastID /\ account' = account
    BY <1>2 DEF DelGroup
  <2>2. CASE ~GroupExists(g)
    BY <1>2, <2>1, <2>2, SameNumbers DEF DelGroup
  <2>3. CASE GroupExists(g)
    <3>1. group[g].gid # 0 /\ group[g].gid <= lastID["GID"]
      BY <2>3, InUse DEF GroupExists, IDKind
    <3>2. \A t \in Group : group'[t].gid = IF t = g THEN 0 ELSE group[t].gid
      BY <1>2, <2>3 DEF DelGroup, DirectoryTypeOK, NoGroup
    <3>3. retired'["UID"] = retired["UID"] /\ retired'["GID"] = retired["GID"] \cup {group[g].gid}
      BY <1>2, <2>3 DEF DelGroup, DirectoryTypeOK, IDKind
    <3>4. Orderly'
      BY <2>1, <3>1, <3>2, <3>3 DEF Orderly, IDKind
    <3>5. \A i : i \in IDsInUse("GID")' => i \in IDsInUse("GID")
      BY <1>0, <3>2, InUse
    <3>6. \A i : i \in IDsInUse("UID")' => i \in IDsInUse("UID")
      BY <1>0, <2>1, InUse
    <3>7. QED
      BY <2>1, <3>4, <3>5, <3>6 DEF Settled, IDKind
  <2>4. QED
    BY <2>2, <2>3
<1>3. QED
  BY <1>1, <1>2

LEMMA KeptNumbers ==
    ASSUME DirectoryTypeOK, Orderly
    PROVE  /\ UNCHANGED directory => Settled
           /\ \A g, u : AddValue(g, u) \/ DeleteValue(g, u) => Settled
           /\ \A u \in User : \A e : e.uid = account[u].uid /\ ModifyAccount(u, e) => Settled
           /\ \A g \in Group : \A e : e.gid = group[g].gid /\ ModifyGroup(g, e) => Settled
<1> USE DEF DirectoryTypeOK, GroupEntry, AccountEntry
<1>1. UNCHANGED directory => Settled
  BY SameNumbers DEF directory
<1>2. ASSUME NEW g, NEW u, AddValue(g, u) \/ DeleteValue(g, u) PROVE Settled
  BY <1>2, SameNumbers DEF AddValue, DeleteValue
<1>3. ASSUME NEW u \in User, NEW e, e.uid = account[u].uid, ModifyAccount(u, e) PROVE Settled
  BY <1>3, SameNumbers DEF ModifyAccount
<1>4. ASSUME NEW g \in Group, NEW e, e.gid = group[g].gid, ModifyGroup(g, e) PROVE Settled
  BY <1>4, SameNumbers DEF ModifyGroup
<1>5. QED
  BY <1>1, <1>2, <1>3, <1>4

\* An entry is added that bears the number after the last that was recorded.
LEMMA AddedNumbers ==
    ASSUME DirectoryTypeOK, Orderly,
           \A kind \in IDKind : \A i \in IDsInUse(kind) : i <= lastID[kind]
    PROVE  /\ \A u \in User : \A e :
                 e.uid = lastID["UID"] + 1 /\ AddAccountCode(u) = "ok" /\ AddAccount(u, e) =>
                    /\ Orderly' /\ lastID' = lastID
                    /\ \A i \in IDsInUse("UID")' : i <= lastID["UID"] \/ i = lastID["UID"] + 1
                    /\ \A i \in IDsInUse("GID")' : i <= lastID["GID"]
           /\ \A g, e :
                 e.gid = lastID["GID"] + 1 /\ AddGroupCode(g) = "ok" /\ AddGroup(g, e) =>
                    /\ Orderly' /\ lastID' = lastID
                    /\ \A i \in IDsInUse("UID")' : i <= lastID["UID"]
                    /\ \A i \in IDsInUse("GID")' : i <= lastID["GID"] \/ i = lastID["GID"] + 1
<1>0. /\ \A i : i \in IDsInUse("UID")' <=> \E u \in User : account'[u].uid = i /\ i # 0
      /\ \A i : i \in IDsInUse("GID")' <=> \E g \in Group : group'[g].gid = i /\ i # 0
  BY DEF IDsInUse, AccountExists, GroupExists
<1>1. /\ \A u \in User : account[u].uid \in Nat /\ account[u].uid <= lastID["UID"]
      /\ \A g \in Group : group[g].gid \in Nat /\ group[g].gid <= lastID["GID"]
      /\ lastID["UID"] \in Nat /\ lastID["GID"] \in Nat
  BY InUse DEF DirectoryTypeOK, AccountEntry, GroupEntry, IDKind
<1>2. ASSUME NEW u \in User, NEW e, e.uid = lastID["UID"] + 1, AddAccountCode(u) = "ok",
             AddAccount(u, e)
      PROVE  /\ Orderly' /\ lastID' = lastID
             /\ \A i \in IDsInUse("UID")' : i <= lastID["UID"] \/ i = lastID["UID"] + 1
             /\ \A i \in IDsInUse("GID")' : i <= lastID["GID"]
  <2>1. /\ lastID' = lastID /\ retired' = retired /\ group' = group
        /\ \A t \in User : account'[t].uid = IF t = u THEN lastID["UID"] + 1 ELSE account[t].uid
    BY <1>2 DEF AddAccount, DirectoryTypeOK
  <2>2. lastID["UID"] + 1 \notin retired["UID"]
    BY <1>1 DEF Orderly, DirectoryTypeOK, IDKind
  <2>3. Orderly'
    BY <1>1, <2>1, <2>2 DEF Orderly
  <2>4. QED
    BY <1>0, <1>1, <2>1, <2>3
<1>3. ASSUME NEW g, NEW e, e.gid = lastID["GID"] + 1, AddGroupCode(g) = "ok",
             AddGroup(g, e)
      PROVE  /\ Orderly' /\ lastID' = lastID
             /\ \A i \in IDsInUse("UID")' : i <= lastID["UID"]
             /\ \A i \in IDsInUse("GID")' : i <= lastID["GID"] \/ i = lastID["GID"] + 1
  <2>1. /\ lastID' = lastID /\ retired' = retired /\ account' = account
        /\ \A t \in Group : group'[t].gid = IF t = g THEN lastID["GID"] + 1 ELSE group[t].gid
    BY <1>3 DEF AddGroup, DirectoryTypeOK
  <2>2. lastID["GID"] + 1 \notin retired["GID"]
    BY <1>1 DEF Orderly, DirectoryTypeOK, IDKind
  <2>3. Orderly'
    BY <1>1, <2>1, <2>2 DEF Orderly
  <2>4. QED
    BY <1>0, <1>1, <2>1, <2>3
<1>4. QED
  BY <1>2, <1>3

\* The counter moves on to it.
LEMMA RecordedNumbers ==
    ASSUME DirectoryTypeOK, Orderly, NEW kind \in IDKind, ReplaceSerial(kind, lastID[kind] + 1)
    PROVE  /\ Orderly'
           /\ \A k \in IDKind : lastID'[k] = IF k = kind THEN lastID[k] + 1 ELSE lastID[k]
           /\ \A k : IDsInUse(k)' = IDsInUse(k)
<1>1. MinID \in Nat \ {0} /\ \A k \in IDKind : lastID[k] \in Nat /\ lastID[k] >= MinID
  BY DirectoryAssumption DEF Orderly, DirectoryTypeOK
<1>2. \A k \in IDKind : lastID'[k] = IF k = kind THEN lastID[k] + 1 ELSE lastID[k]
  BY <1>1 DEF ReplaceSerial, ReplaceSerialCode, DirectoryTypeOK
<1>3. account' = account /\ group' = group /\ retired' = retired
  BY DEF ReplaceSerial
<1>4. \A k \in IDKind : lastID'[k] >= MinID /\ \A i \in retired'[k] : i <= lastID'[k]
  <2>1. \A k \in IDKind : \A i \in retired[k] : i \in Nat /\ i <= lastID[k]
    BY DEF Orderly, DirectoryTypeOK
  <2>2. QED
    BY <1>1, <1>2, <1>3, <2>1
<1>5. Orderly'
  BY <1>3, <1>4 DEF Orderly
<1>6. \A k : IDsInUse(k)' = IDsInUse(k)
  BY <1>3 DEF IDsInUse, AccountExists, GroupExists
<1>7. QED
  BY <1>2, <1>5, <1>6

-----------------------------------------------------------------------------
(* What the steps of the worker do to its number. *)

\* Where the request has no number in hand.
FreeLabel ==
    Label \ (ScanLabel \cup SetupLabel \cup FallbackLabel \cup
             {"highest_cached", "new_group_add", "new_group_last", "new_account_uid",
              "account_group", "new_account_add", "add_member", "new_account_joined"})

Free(p) == Client(p) /\ p.pc \in FreeLabel

\* What is shown of every step of worker w.
NumberStep(w) == Orderly' /\ \E q : Become(w, q) /\ Counting(q, lastID') /\ Below(q)'

LEMMA FreeCounting ==
    ASSUME NEW p, Free(p)
    PROVE  /\ \A last : Counting(p, last)
           /\ \A kind : ~Unrecorded(p, kind)
  BY DEF Free, FreeLabel, Counting, Unrecorded

LEMMA FreeMoves ==
    ASSUME NEW p, Known(p), Client(p)
    PROVE  /\ \A err : Free(Answer(p, err))
           /\ \A err : Free(Return(p, "NewGroup", err))
           /\ \A err : Free(Return(p, "NewAccount", err))
           /\ \A err : p.ret["AddGroupMember"] = "reply" => Free(Return(p, "AddGroupMember", err))
           /\ \A l \in FreeLabel : Free(Goto(p, l))
<1>1. "reply" \in FreeLabel
  BY DEF FreeLabel, Label, ScanLabel, SetupLabel, FallbackLabel
<1>2. ASSUME NEW err PROVE Free(Answer(p, err))
  <2>1. Answer(p, err).pc = "reply" /\ Answer(p, err).ret = p.ret /\ Answer(p, err).req = p.req
    BY DEF Answer, Known, ProcState
  <2>2. QED
    BY <1>1, <2>1 DEF Free, Client
<1>3. ASSUME NEW err, NEW f, p.ret[f] = "reply" PROVE Free(Return(p, f, err))
  <2>1. /\ Return(p, f, err).pc = "reply" /\ Return(p, f, err).ret = p.ret
        /\ Return(p, f, err).req = p.req
    BY <1>3 DEF Return, Known, ProcState
  <2>2. QED
    BY <1>1, <2>1 DEF Free, Client
<1>4. ASSUME NEW l \in FreeLabel PROVE Free(Goto(p, l))
  <2>1. Goto(p, l).pc = l /\ Goto(p, l).ret = p.ret /\ Goto(p, l).req = p.req
    BY DEF Goto, Known, ProcState
  <2>2. QED
    BY <2>1 DEF Free, Client
<1>5. QED
  BY <1>2, <1>3, <1>4 DEF Client

LEMMA LocalClient ==
    ASSUME NEW p, Known(p), Client(p)
    PROVE  /\ \A i : /\ Client([p EXCEPT !.high = i])
                     /\ Client([p EXCEPT !.newGID = i])
                     /\ Client([p EXCEPT !.uid = i])
           /\ \A S : Client([p EXCEPT !.todo = S])
           /\ \A g : Client([p EXCEPT !.group = g])
           /\ \A u : Client([p EXCEPT !.user = u])
           /\ \A g, i : Client([p EXCEPT !.group = g, !.gid = i])
  BY DEF Known, ProcState, Client

\* A step that adds no number and ends without one in hand.
LEMMA FreeStep ==
    ASSUME NEW w \in Worker, Below(proc[w]), \A kind : ~Unrecorded(proc[w], kind), Settled,
           NEW q, Become(w, q), Free(q)
    PROVE  NumberStep(w)
<1>1. Counting(q, lastID')
  BY FreeCounting
<1>2. Below(q)'
  BY DEF Below, Settled
<1>3. QED
  BY <1>1, <1>2 DEF NumberStep, Settled
\* One that ends with the number in hand.
LEMMA CountingStep ==
    ASSUME NEW w \in Worker, Below(proc[w]), \A kind : ~Unrecorded(proc[w], kind), Settled,
           NEW q, Become(w, q), Counting(q, lastID)
    PROVE  NumberStep(w)
<1>1. Counting(q, lastID')
  BY DEF Settled
<1>2. Below(q)'
  BY DEF Below, Settled
<1>3. QED
  BY <1>1, <1>2 DEF NumberStep, Settled

LEMMA HighestCounting ==
    ASSUME NEW p, Known(p), Client(p), NEW last
    PROVE  /\ Counting(GetHighestID(p, "GID", "new_group_add"), last)
           /\ Counting(GetHighestID(p, "UID", "new_account_uid"), last)
<1>1. ASSUME NEW kind, NEW l, <<kind, l>> \in {<<"GID", "new_group_add">>, <<"UID", "new_account_uid">>}
      PROVE  Counting(GetHighestID(p, kind, l), last)
  <2> DEFINE q == GetHighestID(p, kind, l)
  <2>1. /\ q.pc = "highest_cached" /\ q.kind = kind /\ q.req = p.req
        /\ \A f \in Function : q.ret[f] = IF f = "getHighestID" THEN l ELSE p.ret[f]
    BY DEF GetHighestID, Known, ProcState
  <2>2. {"getHighestID", "NewGroup", "NewAccount"} \subseteq Function
    BY DEF Function
  <2>3. Client(q)
    BY <2>1, <2>2 DEF Client
  <2>4. QED
    BY <1>1, <2>1, <2>2, <2>3
    DEF Counting, ScanLabel, SetupLabel, FallbackLabel, Unrecorded
<1>2. QED
  BY <1>1

LEMMA GroupStepNumbers ==
    ASSUME DirectoryTypeOK, SetUp, NEW w \in Worker, Known(proc[w]), Joining(proc[w]), Orderly,
           Counting(proc[w], lastID), Below(proc[w]), GroupStep(w)
    PROVE  NumberStep(w)
<1> DEFINE p == proc[w]
<1>0. /\ Known(p) /\ Client(p) /\ p.high \in Nat /\ p.req.gid \in Nat /\ MinID \in Nat \ {0}
      /\ p.ret["AddGroupMember"] \in {"reply", "new_account_joined"}
      /\ Fits(p, p.pc)
  BY DirectoryAssumption DEF Known, ProcState, Request, Counting, Joining, Returns, ReturnsTo, Function
<1>1. /\ lastID["UID"] \in Nat /\ lastID["UID"] >= MinID
      /\ lastID["GID"] \in Nat /\ lastID["GID"] >= MinID
  BY DEF DirectoryTypeOK, Orderly, IDKind
<1>2. {"idle", "reply", "update_group_modify"} \subseteq FreeLabel
  BY DEF FreeLabel, Label, GroupLabel, ScanLabel, SetupLabel, FallbackLabel
<1>3. (\A kind : ~Unrecorded(p, kind)) =>
         \A kind \in IDKind : \A i \in IDsInUse(kind) : i <= lastID[kind]
  BY DEF Below
<1>4. CASE HighestCached(w)
  <2>1. PICK q : q = Return([p EXCEPT !.high = lastID[p.kind]], "getHighestID", "ok")
    OBVIOUS
  <2>2. p.pc = "highest_cached"
    BY <1>4 DEF HighestCached, At
  <2>3. lastID[p.kind] >= MinID /\ p.kind \in IDKind /\ p.kind \in {"UID", "GID"}
    BY <1>1, <2>2 DEF Counting, IDKind
  <2>4. Become(w, q) /\ Settled
    BY <1>4, <2>1, <2>3, <1>1, <1>0, KeptNumbers DEF HighestCached
  <2>5. q.pc = p.ret["getHighestID"] /\ q.err = "ok" /\ q.high = lastID[p.kind] /\ Client(q)
    BY <1>0, <2>1 DEF Return, Known, ProcState, Client
  <2>6. Counting(q, lastID)
    BY <2>2, <2>5 DEF Counting, ScanLabel, SetupLabel, FallbackLabel, Unrecorded
  <2>7. QED
    BY <2>2, <2>4, <2>6, CountingStep DEF Unrecorded
<1>5. CASE HighestScan(w)
  BY <1>5 DEF HighestScan, At, Counting, ScanLabel
<1>6. CASE NewGroupFind(w)
  <2>1. Settled /\ \A kind : ~Unrecorded(p, kind)
    BY <1>6, KeptNumbers DEF NewGroupFind, At, Unrecorded
  <2>2. CASE GroupExists(p.name) \/ "groups" \notin ous
    <3>1. PICK err : Become(w, Return(p, "NewGroup", err))
      BY <1>6, <2>2 DEF NewGroupFind
    <3>2. QED
      BY <1>0, <2>1, <3>1, FreeMoves, FreeStep
  <2>3. CASE ~(GroupExists(p.name) \/ "groups" \notin ous)
    <3>1. Become(w, GetHighestID(p, "GID", "new_group_add"))
      BY <1>6, <2>3 DEF NewGroupFind
    <3>2. QED
      BY <1>0, <2>1, <3>1, HighestCounting, CountingStep
  <2>4. QED
    BY <2>2, <2>3
<1>7. CASE NewGroupRefused(w)
  <2>1. Settled /\ \A kind : ~Unrecorded(p, kind)
    BY <1>7, KeptNumbers DEF NewGroupRefused, At, Unrecorded
  <2>2. PICK err : Become(w, Return(p, "NewGroup", err))
    BY <1>7 DEF NewGroupRefused
  <2>3. QED
    BY <1>0, <2>1, <2>2, FreeMoves, FreeStep
<1>8. CASE NewGroupAdd(w)
  <2>0. p.pc = "new_group_add" /\ p.high = lastID["GID"] /\ \A kind : ~Unrecorded(p, kind)
    BY <1>8 DEF NewGroupAdd, At, Counting, Unrecorded
  <2>1. CASE AddGroupCode(p.name) = "ok"
    <3>1. PICK q : q = Goto([p EXCEPT !.newGID = p.high + 1], "new_group_last")
      OBVIOUS
    <3>2. /\ Orderly' /\ lastID' = lastID
          /\ \A i \in IDsInUse("UID")' : i <= lastID["UID"]
          /\ \A i \in IDsInUse("GID")' : i <= lastID["GID"] \/ i = lastID["GID"] + 1
      BY <1>3, <1>8, <2>0, <2>1, AddedNumbers DEF NewGroupAdd
    <3>3. Become(w, q)
      BY <1>8, <2>1, <3>1 DEF NewGroupAdd
    <3>4. q.pc = "new_group_last" /\ q.newGID = lastID["GID"] + 1 /\ Client(q)
      BY <1>0, <2>0, <3>1 DEF Goto, Known, ProcState, Client
    <3>5. Unrecorded(q, "GID") /\ ~Unrecorded(q, "UID")
      BY <3>4 DEF Unrecorded
    <3>6. Counting(q, lastID')
      BY <3>2, <3>4, <3>5 DEF Counting, ScanLabel, SetupLabel, FallbackLabel
    <3>7. Below(q)'
      BY <3>2, <3>5 DEF Below, IDKind
    <3>8. QED
      BY <3>2, <3>3, <3>6, <3>7 DEF NumberStep
  <2>2. CASE AddGroupCode(p.name) # "ok"
    <3>1. Settled
      BY <1>8, <2>2, SameNumbers DEF NewGroupAdd, AddGroup
    <3>2. QED
      BY <1>0, <1>8, <2>0, <2>2, <3>1, FreeMoves, FreeStep DEF NewGroupAdd
  <2>3. QED
    BY <2>1, <2>2
<1>9. CASE NewGroupLast(w)
  <2>1. PICK q : Become(w, q) /\ \E err : q = Return(p, "NewGroup", err)
    BY <1>9 DEF NewGroupLast
  <2>2. Unrecorded(p, "GID") /\ ~Unrecorded(p, "UID") /\ p.newGID = lastID["GID"] + 1
    BY <1>9 DEF NewGroupLast, At, Unrecorded, Counting
  <2>3. /\ Orderly' /\ lastID'["GID"] = lastID["GID"] + 1 /\ lastID'["UID"] = lastID["UID"]
        /\ \A k : IDsInUse(k)' = IDsInUse(k)
    BY <1>9, <2>2, RecordedNumbers DEF NewGroupLast, IDKind
  <2>4. Counting(q, lastID')
    BY <1>0, <2>1, FreeMoves, FreeCounting
  <2>5. \A i \in IDsInUse("GID") : i \in Nat
    BY InUse DEF DirectoryTypeOK, GroupEntry
  <2>6. Below(q)'
    BY <1>1, <2>2, <2>3, <2>5 DEF Below, IDKind
  <2>7. QED
    BY <2>1, <2>3, <2>4, <2>6 DEF NumberStep
<1>10. CASE DeleteGroupEntry(w) \/ UpdateGroupRename(w) \/ UpdateGroupModify(w) \/ DeleteMember(w)
  <2>1. \A kind : ~Unrecorded(p, kind)
    BY <1>10 DEF DeleteGroupEntry, UpdateGroupRename, UpdateGroupModify, DeleteMember, At, Unrecorded
  <2>2. Settled
    <3>1. CASE DeleteGroupEntry(w)
      <4>1. p.req.group \in Group
        BY <1>0, <3>1 DEF DeleteGroupEntry, At, Fits
      <4>2. QED
        BY <1>3, <2>1, <3>1, <4>1, DeletedNumbers DEF DeleteGroupEntry
    <3>2. CASE UpdateGroupRename(w)
      <4>1. p.req.group \in Group /\ p.req.to \in Group
        BY <1>0, <3>2 DEF UpdateGroupRename, At, Fits
      <4>2. QED
        BY <3>2, <4>1, RenamedNumbers DEF UpdateGroupRename
    <3>3. CASE UpdateGroupModify(w)
      <4>1. p.group \in Group /\ ~(p.req.gid >= MinID)
        BY <1>0, <3>3 DEF UpdateGroupModify, At, Fits, Client
      <4>2. QED
        BY <3>3, <4>1, KeptNumbers DEF UpdateGroupModify
    <3>4. CASE DeleteMember(w)
      BY <3>4, KeptNumbers DEF DeleteMember
    <3>5. QED
      BY <1>10, <3>1, <3>2, <3>3, <3>4
  <2>3. PICK q : Become(w, q) /\ Free(q)
    <3>1. CASE UpdateGroupRename(w)
      <4>1. Known([p EXCEPT !.group = p.req.to]) /\ Client([p EXCEPT !.group = p.req.to])
        BY <1>0, <3>1, LocalKnown, LocalClient DEF UpdateGroupRename, At, Fits
      <4>2. QED
        BY <1>0, <1>2, <3>1, <4>1, FreeMoves DEF UpdateGroupRename
    <3>2. CASE DeleteGroupEntry(w) \/ UpdateGroupModify(w) \/ DeleteMember(w)
      BY <1>0, <3>2, FreeMoves DEF DeleteGroupEntry, UpdateGroupModify, DeleteMember
    <3>3. QED
      BY <1>10, <3>1, <3>2
  <2>4. QED
    BY <2>1, <2>2, <2>3, FreeStep
<1>11. CASE AddMemberCheck(w)
  <2>1. Settled /\ \A kind : ~Unrecorded(p, kind)
    BY <1>11, KeptNumbers DEF AddMemberCheck, At, Unrecorded
  <2>2. p.ret["AddGroupMember"] = "reply"
    BY <1>0, <1>11 DEF AddMemberCheck, At, Joining
  <2>3. PICK q : Become(w, q) /\ \/ \E err : q = Return(p, "AddGroupMember", err)
                                 \/ q = Goto(p, "add_member")
    BY <1>11 DEF AddMemberCheck
  <2>4. CASE q = Goto(p, "add_member")
    <3>1. q.pc = "add_member" /\ q.ret["AddGroupMember"] = "reply" /\ Client(q)
      BY <1>0, <2>2, <2>4 DEF Goto, Known, ProcState, Client
    <3>2. Counting(q, lastID)
      BY <3>1 DEF Counting, Unrecorded, ScanLabel, SetupLabel, FallbackLabel
    <3>3. QED
      BY <2>1, <2>3, <3>2, CountingStep
  <2>5. CASE \E err : q = Return(p, "AddGroupMember", err)
    BY <1>0, <2>1, <2>2, <2>3, <2>5, FreeMoves, FreeStep
  <2>6. QED
    BY <2>3, <2>4, <2>5
<1>12. CASE AddMember(w)
  <2>1. PICK q : q = Return(p, "AddGroupMember", AddMemberError(p.group, p.user))
    OBVIOUS
  <2>2. Become(w, q) /\ Settled
    BY <1>12, <2>1, KeptNumbers DEF AddMember
  <2>3. CASE p.ret["AddGroupMember"] = "reply"
    <3>1. Free(q) /\ \A kind : ~Unrecorded(p, kind)
      BY <1>0, <1>12, <2>1, <2>3, FreeMoves DEF AddMember, At, Unrecorded
    <3>2. QED
      BY <2>2, <3>1, FreeStep
  <2>4. CASE p.ret["AddGroupMember"] = "new_account_joined"
    <3>1. /\ Unrecorded(p, "UID") /\ ~Unrecorded(p, "GID") /\ p.uid = lastID["UID"] + 1
      BY <1>12, <2>4 DEF AddMember, At, Unrecorded, Counting
    <3>2. q.pc = "new_account_joined" /\ q.uid = p.uid /\ Client(q)
      BY <1>0, <2>1, <2>4 DEF Return, Known, ProcState, Client
    <3>3. Unrecorded(q, "UID") /\ ~Unrecorded(q, "GID")
      BY <3>2 DEF Unrecorded
    <3>4. Counting(q, lastID')
      BY <2>2, <3>1, <3>2, <3>3 DEF Settled, Counting, ScanLabel, SetupLabel, FallbackLabel
    <3>5. Below(q)'
      BY <2>2, <3>1, <3>3 DEF Below, Settled, IDKind
    <3>6. QED
      BY <2>2, <3>4, <3>5 DEF NumberStep, Settled
  <2>5. QED
    BY <1>0, <2>3, <2>4
<1>13. QED
  BY <1>4, <1>5, <1>6, <1>7, <1>8, <1>9, <1>10, <1>11, <1>12 DEF GroupStep

LEMMA AccountStepNumbers ==
    ASSUME DirectoryTypeOK, SetUp, NEW w \in Worker, Known(proc[w]), Joining(proc[w]), Orderly,
           Counting(proc[w], lastID), Below(proc[w]), AccountStep(w)
    PROVE  NumberStep(w)
<1> DEFINE p == proc[w]
<1>0. /\ Known(p) /\ Client(p) /\ p.high \in Nat /\ MinID \in Nat \ {0}
      /\ p.req.gid \in Nat /\ ~(p.req.gid >= MinID)
      /\ p.req.uid \in Nat /\ ~(p.req.uid >= MinID)
      /\ p.pc \notin ScanLabel \cup SetupLabel \cup FallbackLabel
      /\ Fits(p, p.pc)
  BY DirectoryAssumption DEF Known, ProcState, Request, Counting, Client
<1>1. /\ lastID["UID"] \in Nat /\ lastID["UID"] >= MinID
      /\ lastID["GID"] \in Nat /\ lastID["GID"] >= MinID
  BY DEF DirectoryTypeOK, Orderly, IDKind
<1>2. {"update_taken", "update_rename", "update_groups", "update_leave", "update_join",
       "update_modify", "delete_leave", "delete_entry"} \subseteq FreeLabel
  BY DEF FreeLabel, Label, AccountLabel, ScanLabel, SetupLabel, FallbackLabel
<1>3. (\A kind : ~Unrecorded(p, kind)) =>
         \A kind \in IDKind : \A i \in IDsInUse(kind) : i <= lastID[kind]
  BY DEF Below
<1>4. ~(\/ LastIDFailed(w) \/ LastIDAdd(w) \/ NewAccountNoOU(w) \/ NewAccountRetry(w)
        \/ NewAccountUIDAgain(w) \/ AccountByGID(w) \/ AccountGroupMade(w) \/ AccountGroupOwn(w)
        \/ AccountGroupGID(w))
  BY <1>0
  DEF LastIDFailed, LastIDAdd, NewAccountNoOU, NewAccountRetry, NewAccountUIDAgain,
      AccountByGID, AccountGroupMade, AccountGroupOwn, AccountGroupGID, At, ScanLabel,
      FallbackLabel
<1>5. CASE NewAccountFind(w)
  <2>1. Settled /\ \A kind : ~Unrecorded(p, kind)
    BY <1>5, KeptNumbers DEF NewAccountFind, At, Unrecorded
  <2>2. \/ Become(w, Return(p, "NewAccount", "AccountExists"))
        \/ Become(w, GetHighestID(p, "UID", "new_account_uid"))
    BY <1>0, <1>5 DEF NewAccountFind, SetUp, ChooseUID
  <2>3. QED
    BY <1>0, <2>1, <2>2, FreeMoves, FreeStep, HighestCounting, CountingStep
<1>6. CASE NewAccountUID(w)
  <2>1. Settled /\ p.pc = "new_account_uid" /\ \A kind : ~Unrecorded(p, kind)
    BY <1>6, KeptNumbers DEF NewAccountUID, At, Unrecorded
  <2>2. p.err = "ok" /\ p.high = lastID["UID"]
    BY <2>1 DEF Counting
  <2>3. PICK q : q = ChooseGroup([p EXCEPT !.uid = p.high + 1])
    OBVIOUS
  <2>4. Become(w, q)
    BY <1>6, <2>2, <2>3 DEF NewAccountUID
  <2>5. q.pc = "account_group" /\ q.uid = lastID["UID"] + 1 /\ Client(q)
    BY <1>0, <2>2, <2>3 DEF ChooseGroup, Goto, Known, ProcState, Client
  <2>6. Counting(q, lastID)
    BY <2>5 DEF Counting, Unrecorded, ScanLabel, SetupLabel, FallbackLabel
  <2>7. QED
    BY <2>1, <2>4, <2>6, CountingStep
<1>7. CASE AccountGroup(w)
  <2>1. Settled /\ p.pc = "account_group" /\ \A kind : ~Unrecorded(p, kind)
    BY <1>7, KeptNumbers DEF AccountGroup, At, Unrecorded
  <2>2. PICK q : q = UseGroup(p, UsersGroup)
    OBVIOUS
  <2>3. Become(w, q)
    BY <1>7, <2>2 DEF AccountGroup, GroupFound, SetUp
  <2>4. q.pc = "new_account_add" /\ q.uid = p.uid /\ Client(q)
    BY <1>0, <2>2 DEF UseGroup, Goto, Known, ProcState, Client
  <2>5. Counting(q, lastID)
    BY <2>1, <2>4 DEF Counting, Unrecorded, ScanLabel, SetupLabel, FallbackLabel
  <2>6. QED
    BY <2>1, <2>3, <2>5, CountingStep
<1>8. CASE NewAccountAdd(w)
  <2>1. /\ p.pc = "new_account_add" /\ p.uid = lastID["UID"] + 1 /\ p.group = UsersGroup
        /\ p.user \in User /\ \A kind : ~Unrecorded(p, kind)
    BY <1>0, <1>8 DEF NewAccountAdd, At, Unrecorded, Counting, Joining, Fits, UserLabel
  <2>2. CASE AddAccountCode(p.user) = "ok"
    <3>1. PICK q : q = AddGroupMember(p, p.group, p.user, FALSE, "new_account_joined")
      OBVIOUS
    <3>2. Become(w, q)
      BY <1>8, <2>2, <3>1 DEF NewAccountAdd
    <3>3. /\ Orderly' /\ lastID' = lastID
          /\ \A i \in IDsInUse("UID")' : i <= lastID["UID"] \/ i = lastID["UID"] + 1
          /\ \A i \in IDsInUse("GID")' : i <= lastID["GID"]
      BY <1>3, <1>8, <2>1, <2>2, AddedNumbers DEF NewAccountAdd
    <3>4. /\ q.pc = "add_member" /\ q.uid = p.uid /\ q.req = p.req
          /\ \A f \in Function :
                q.ret[f] = IF f = "AddGroupMember" THEN "new_account_joined" ELSE p.ret[f]
      BY <2>1, <3>1 DEF AddGroupMember, IsProtectedGroup, Known, ProcState
    <3>5. Client(q) /\ q.ret["AddGroupMember"] = "new_account_joined"
      BY <1>0, <3>4 DEF Client, Function
    <3>6. Unrecorded(q, "UID") /\ ~Unrecorded(q, "GID")
      BY <3>4, <3>5 DEF Unrecorded
    <3>7. Counting(q, lastID')
      BY <2>1, <3>3, <3>4, <3>5, <3>6 DEF Counting, ScanLabel, SetupLabel, FallbackLabel
    <3>8. Below(q)'
      BY <3>3, <3>6 DEF Below, IDKind
    <3>9. QED
      BY <3>2, <3>3, <3>7, <3>8 DEF NumberStep
  <2>3. CASE AddAccountCode(p.user) # "ok"
    <3>1. Settled
      BY <1>8, <2>3, SameNumbers DEF NewAccountAdd, AddAccount
    <3>2. PICK err : Become(w, Return(p, "NewAccount", err))
      BY <1>8, <2>3 DEF NewAccountAdd
    <3>3. QED
      BY <1>0, <2>1, <3>1, <3>2, FreeMoves, FreeStep
  <2>4. QED
    BY <2>2, <2>3
<1>9. ~NewAccountNotJoined(w)
  BY DEF NewAccountNotJoined, At, Joining
<1>10. CASE NewAccountLast(w)
  <2>1. PICK q : Become(w, q) /\ \E err : q = Return(p, "NewAccount", err)
    BY <1>10 DEF NewAccountLast
  <2>2. Unrecorded(p, "UID") /\ ~Unrecorded(p, "GID") /\ p.uid = lastID["UID"] + 1
    BY <1>10 DEF NewAccountLast, At, Unrecorded, Counting
  <2>3. /\ Orderly' /\ lastID'["UID"] = lastID["UID"] + 1 /\ lastID'["GID"] = lastID["GID"]
        /\ \A k : IDsInUse(k)' = IDsInUse(k)
    BY <1>10, <2>2, RecordedNumbers DEF NewAccountLast, IDKind
  <2>4. Counting(q, lastID')
    BY <1>0, <2>1, FreeMoves, FreeCounting
  <2>5. \A i \in IDsInUse("UID") : i \in Nat
    BY InUse DEF DirectoryTypeOK, AccountEntry
  <2>6. Below(q)'
    BY <1>1, <2>2, <2>3, <2>5 DEF Below, IDKind
  <2>7. QED
    BY <2>1, <2>3, <2>4, <2>6 DEF NumberStep
<1>11. \A S \in SUBSET Group : Known([p EXCEPT !.todo = S]) /\ Client([p EXCEPT !.todo = S])
  BY <1>0, LocalKnown, LocalClient
<1>12. CASE UpdateFind(w) \/ UpdateTaken(w) \/ UpdateRename(w) \/ UpdateModify(w) \/ DeleteEntry(w)
  <2>1. \A kind : ~Unrecorded(p, kind)
    BY <1>12 DEF UpdateFind, UpdateTaken, UpdateRename, UpdateModify, DeleteEntry, At, Unrecorded
  <2>2. Settled
    <3>1. CASE UpdateFind(w) \/ UpdateTaken(w)
      BY <3>1, KeptNumbers DEF UpdateFind, UpdateTaken
    <3>2. CASE UpdateRename(w)
      <4>1. p.req.user \in User /\ p.user \in User
        BY <1>0, <3>2 DEF UpdateRename, At, Fits, UserLabel, RequestUserLabel
      <4>2. QED
        BY <3>2, <4>1, RenamedNumbers DEF UpdateRename
    <3>3. CASE UpdateModify(w)
      <4>1. p.user \in User
        BY <1>0, <3>3 DEF UpdateModify, At, Fits, UserLabel
      <4>2. PICK e : e.uid = account[p.user].uid /\ ModifyAccount(p.user, e)
        BY <1>0, <3>3 DEF UpdateModify
      <4>3. QED
        BY <4>1, <4>2, KeptNumbers
    <3>4. CASE DeleteEntry(w)
      <4>1. p.req.user \in User
        BY <1>0, <3>4 DEF DeleteEntry, At, Fits, RequestUserLabel
      <4>2. QED
        BY <1>3, <2>1, <3>4, <4>1, DeletedNumbers DEF DeleteEntry
    <3>5. QED
      BY <1>12, <3>1, <3>2, <3>3, <3>4
  <2>3. PICK q : Become(w, q) /\ Free(q)
    <3>1. CASE UpdateFind(w)
      <4>1. p.req.user \in User /\ p.req.to \in User \cup {NoName}
        BY <1>0, <3>1 DEF UpdateFind, At, Fits, RequestUserLabel
      <4>2. QED
        BY <1>0, <1>2, <3>1, <4>1, LocalKnown, LocalClient, FreeMoves DEF UpdateFind
    <3>2. CASE UpdateTaken(w) \/ UpdateRename(w) \/ UpdateModify(w) \/ DeleteEntry(w)
      BY <1>0, <1>2, <3>2, FreeMoves DEF UpdateTaken, UpdateRename, UpdateModify, DeleteEntry
    <3>3. QED
      BY <1>12, <3>1, <3>2
  <2>4. QED
    BY <2>1, <2>2, <2>3, FreeStep
<1>13. CASE UpdateGroups(w) \/ UpdateLeave(w) \/ UpdateJoin(w) \/ DeleteGroups(w) \/ DeleteLeave(w)
  <2>1. \A kind : ~Unrecorded(p, kind)
    BY <1>13 DEF UpdateGroups, UpdateLeave, UpdateJoin, DeleteGroups, DeleteLeave, At, Unrecorded
  <2>2. Settled
    BY <1>13, KeptNumbers DEF UpdateGroups, UpdateLeave, UpdateJoin, DeleteGroups, DeleteLeave
  <2>3. PICK q : Become(w, q) /\ Free(q)
    <3>1. CASE UpdateLeave(w)
      <4>1. PICK g \in p.todo : \E err : \/ Become(w, Goto([p EXCEPT !.group = g], "update_join"))
                                         \/ Become(w, Answer(p, err))
        BY <3>1 DEF UpdateLeave
      <4>2. g \in Group
        BY <1>0 DEF Known, ProcState
      <4>3. QED
        BY <1>0, <1>2, <4>1, <4>2, LocalKnown, LocalClient, FreeMoves
    <3>2. CASE UpdateGroups(w) \/ UpdateJoin(w) \/ DeleteGroups(w) \/ DeleteLeave(w)
      <4>1. (\A u : GroupsOf(u) \in SUBSET Group) /\ \A g : p.todo \ {g} \in SUBSET Group
        BY <1>0 DEF GroupsOf, Known, ProcState
      <4>2. QED
        BY <1>0, <1>2, <1>11, <3>2, <4>1, FreeMoves
        DEF UpdateGroups, UpdateJoin, DeleteGroups, DeleteLeave, NextGroup
    <3>3. QED
      BY <1>13, <3>1, <3>2
  <2>4. QED
    BY <2>1, <2>2, <2>3, FreeStep
<1>14. QED
  BY <1>4, <1>5, <1>6, <1>7, <1>8, <1>9, <1>10, <1>12, <1>13 DEF AccountStep

-----------------------------------------------------------------------------
(* The whole. *)

LEMMA IdleFree == Free(Idle)
<1>1. /\ Idle.pc = "idle" /\ Idle.ret["NewGroup"] = "reply" /\ Idle.ret["NewAccount"] = "reply"
      /\ Idle.req.uid = 0 /\ Idle.req.gid = 0 /\ Idle.req.op = "none"
  BY DEF Idle, Function, NoRequest
<1>2. QED
  BY <1>1, DirectoryAssumption
  DEF Free, Client, FreeLabel, Label, ScanLabel, SetupLabel, FallbackLabel

\* No handler starts with a number in hand.
LEMMA ServeCounting ==
    ASSUME AsksNoNumbers, NEW r \in Requests
    PROVE  /\ \A last : Counting(Serve(r), last)
           /\ \A kind : ~Unrecorded(Serve(r), kind)
<1> DEFINE p == [Idle EXCEPT !.req = r]
           Fine(q) == (\A last : Counting(q, last)) /\ \A kind : ~Unrecorded(q, kind)
<1>1. /\ r \in Request /\ WellFormed(r)
      /\ r.op \in {"NewGroup", "DeleteGroup", "UpdateGroup", "AddGroupMember",
                   "DeleteGroupMember", "NewAccount", "UpdateAccount", "DeleteAccount"}
  BY ManagerAssumption DEF WellFormed, Request
<1>2. Known(p)
  BY <1>1, IdleKnown
<1>3. /\ Client(p) /\ p.req = r /\ p.ret["AddGroupMember"] = "reply"
      /\ p.ret["NewGroup"] = "reply" /\ p.ret["NewAccount"] = "reply"
  BY <1>1 DEF Client, Idle, Function, AsksNoNumbers
<1>4. {"delete_group", "update_group_rename", "update_group_modify", "delete_member",
       "update_find", "delete_groups", "new_group_find", "new_account_find", "add_member_check"}
         \subseteq FreeLabel
  BY DEF FreeLabel, Label, GroupLabel, AccountLabel, ScanLabel, SetupLabel, FallbackLabel
<1> HIDE DEF p
<1>5. Fine(DeleteGroup(p)) /\ Fine(DeleteGroupMember(p)) /\ Fine(DeleteAccount(p))
      /\ Fine(Goto(p, "update_find"))
  BY <1>2, <1>3, <1>4, FreeMoves, FreeCounting DEF DeleteGroup, DeleteGroupMember, DeleteAccount
<1>6. Fine(UpdateGroup(p))
  <2>1. r.group # NoName => /\ Known([p EXCEPT !.group = r.group])
                            /\ Client([p EXCEPT !.group = r.group])
    BY <1>1, <1>2, <1>3, LocalKnown, LocalClient DEF Request
  <2>2. QED
    BY <1>2, <1>3, <1>4, <2>1, FreeMoves, FreeCounting DEF UpdateGroup
<1>7. ASSUME NEW g, NEW S PROVE Fine(NewGroup(p, g, S, "reply"))
  <2> DEFINE q == NewGroup(p, g, S, "reply")
  <2>1. q.pc = "new_group_find" /\ q.req = p.req
        /\ \A f \in Function : q.ret[f] = IF f = "NewGroup" THEN "reply" ELSE p.ret[f]
    BY <1>2 DEF NewGroup, Known, ProcState
  <2>2. Free(q)
    BY <1>3, <1>4, <2>1 DEF Free, Client, Function
  <2>3. QED
    BY <2>2, FreeCounting
<1>8. ASSUME NEW u PROVE Fine(NewAccount(p, u, "reply"))
  <2> DEFINE q == NewAccount(p, u, "reply")
  <2>1. q.pc = "new_account_find" /\ q.req = p.req
        /\ \A f \in Function : q.ret[f] = IF f = "NewAccount" THEN "reply" ELSE p.ret[f]
    BY <1>2 DEF NewAccount, Known, ProcState
  <2>2. Free(q)
    BY <1>3, <1>4, <2>1 DEF Free, Client, Function
  <2>3. QED
    BY <2>2, FreeCounting
<1>9. ASSUME NEW g, NEW u PROVE Fine(AddGroupMember(p, g, u, FALSE, "reply"))
  <2> DEFINE q == AddGroupMember(p, g, u, FALSE, "reply")
  <2>1. q.pc \in {"add_member", "add_member_check"} /\ q.req = p.req
        /\ \A f \in Function : q.ret[f] = IF f = "AddGroupMember" THEN "reply" ELSE p.ret[f]
    BY <1>2 DEF AddGroupMember, Known, ProcState
  <2>2. Client(q) /\ q.ret["AddGroupMember"] = "reply"
    BY <1>3, <2>1 DEF Client, Function
  <2>3. QED
    BY <2>1, <2>2 DEF Counting, Unrecorded, ScanLabel, SetupLabel, FallbackLabel
<1>10. Fine(ServeNewGroup(p)) /\ Fine(ServeAddGroupMember(p))
  BY <1>2, <1>3, <1>7, <1>9, FreeMoves, FreeCounting DEF ServeNewGroup, ServeAddGroupMember
<1>11. Fine(Serve(r))
  BY <1>1, <1>5, <1>6, <1>8, <1>10 DEF Serve, p
<1>12. QED
  BY <1>11

LEMMA NumberInvInit == OneAtATime /\ Init => NumberInv
<1> SUFFICES ASSUME OneAtATime, Init PROVE NumberInv
  OBVIOUS
<1>1. JoinInv /\ Undisturbed
  BY JoinInvInit, UndisturbedInit DEF OneAtATime
<1>2. ReadyDirectory(Admin) /\ \A w \in Worker : proc[w] = Idle
  BY DEF Init, OneAtATime
<1>3. /\ \A u \in User : account[u].uid = IF u = Admin THEN MinID + 1 ELSE 0
      /\ \A g \in Group : group[g].gid = CASE g = UsersGroup -> MinID + 1
                                           [] g = AdminsGroup -> MinID + 2
                                           [] OTHER -> 0
      /\ lastID["UID"] = MinID + 1 /\ lastID["GID"] = MinID + 2
      /\ retired["UID"] = {} /\ retired["GID"] = {} /\ MinID \in Nat \ {0}
  BY <1>2, DirectoryAssumption DEF ReadyDirectory, NoAccount, NoGroup, IDKind
<1>4. Orderly
  BY <1>3 DEF Orderly, IDKind
<1>5. \A kind \in IDKind : \A i \in IDsInUse(kind) : i <= lastID[kind]
  BY <1>3, InUse DEF IDKind
<1>6. QED
  BY <1>1, <1>2, <1>4, <1>5, IdleFree, FreeCounting DEF NumberInv, Below

LEMMA NumberInvStep ==
    ASSUME OneAtATime, NoProtectedRename, AsksNoNumbers
    PROVE  NumberInv /\ [Next]_vars => NumberInv'
<1> SUFFICES ASSUME NumberInv, [Next]_vars PROVE NumberInv'
  OBVIOUS
<1>1. /\ JoinInv /\ DirectoryTypeOK /\ SetUp /\ proc \in [Worker -> ProcState(Label)]
      /\ \A w \in Worker : Known(proc[w]) /\ Joining(proc[w])
  BY DEF NumberInv, JoinInv, TypeInv, TypeOK
<1>2. JoinInv'
  BY <1>1, JoinInvStep
<1>3. CASE UNCHANGED vars
  <2>1. Undisturbed' /\ Orderly'
    BY <1>3 DEF NumberInv, Undisturbed, Orderly, vars, directory
  <2>2. \A w \in Worker : Counting(proc'[w], lastID') /\ Below(proc[w])'
    BY <1>3 DEF NumberInv, Below, IDsInUse, AccountExists, GroupExists, vars, directory
  <2>3. QED
    BY <1>2, <2>1, <2>2 DEF NumberInv
<1>4. CASE Next
  <2>1. \A w \in Worker : proc[w].req.op # "SetupLDAP"
    BY DEF NumberInv, Counting, Client
  <2>2. Undisturbed' /\ \E w \in Worker : Accept(w) \/ Step(w) \/ Reply(w)
    BY <1>4, <2>1, UndisturbedSteps DEF NumberInv, OneAtATime
  <2>3. PICK w \in Worker : Accept(w) \/ Step(w) \/ Reply(w)
    BY <2>2
  <2>4. \A v \in Worker : v = w
    BY DEF OneAtATime
  <2>5. Orderly /\ Counting(proc[w], lastID) /\ Below(proc[w])
    BY DEF NumberInv
  <2>6. CASE Step(w)
    <3>1. ~SetupStep(w)
      BY <2>5
      DEF Counting, SetupStep, SetupGroupsOU, SetupUsersOU, SetupLastGID, SetupLastUID,
          SetupAdminsGroup, SetupAdminMade, SetupAdminsMade, SetupAdminNotForced,
          SetupAdminForced, At, SetupLabel
    <3>2. NumberStep(w)
      BY <1>1, <2>5, <2>6, <3>1, GroupStepNumbers, AccountStepNumbers DEF Step
    <3>3. PICK q : Become(w, q) /\ Counting(q, lastID') /\ Below(q)'
      BY <3>2 DEF NumberStep
    <3>4. proc'[w] = q
      BY <1>1, <3>3 DEF Become
    <3>5. \A v \in Worker : Counting(proc'[v], lastID') /\ Below(proc[v])'
      BY <2>4, <3>3, <3>4 DEF Below
    <3>6. QED
      BY <1>2, <2>2, <3>2, <3>5 DEF NumberInv, NumberStep
  <2>7. CASE Accept(w) \/ Reply(w)
    <3>1. UNCHANGED directory
      BY <2>7 DEF Accept, Reply
    <3>2. Settled
      BY <1>1, <2>5, <3>1, KeptNumbers
    <3>3. \A kind : ~Unrecorded(proc[w], kind)
      BY <2>7 DEF Accept, Reply, At, Unrecorded
    <3>4. PICK q : Become(w, q) /\ Counting(q, lastID)
      BY <2>7, ServeCounting, IdleFree, FreeCounting DEF Accept, Reply
    <3>5. NumberStep(w)
      BY <2>5, <3>2, <3>3, <3>4, CountingStep
    <3>6. PICK s : Become(w, s) /\ Counting(s, lastID') /\ Below(s)'
      BY <3>5 DEF NumberStep
    <3>7. proc'[w] = s
      BY <1>1, <3>6 DEF Become
    <3>8. \A v \in Worker : Counting(proc'[v], lastID') /\ Below(proc[v])'
      BY <2>4, <3>6, <3>7 DEF Below
    <3>9. QED
      BY <1>2, <2>2, <3>5, <3>8 DEF NumberInv, NumberStep
  <2>8. QED
    BY <2>3, <2>6, <2>7
<1>5. QED
  BY <1>3, <1>4

\* As long as requests come one at a time, leave the choice of the numbers to
\* ldap-manager and are not interrupted by a crash, no two accounts share a
\* uidNumber and no two groups a gidNumber, whatever is created, deleted and
\* renamed.  The run shared_uid shows what two requests at a time do.
THEOREM LoneRequestsShareNoNumber ==
    ASSUME OneAtATime, NoProtectedRename, AsksNoNumbers
    PROVE  Spec => []NumbersUnique
<1>1. NumberInv => NumbersUnique
  BY OrderlyNumbers DEF NumberInv
<1>2. QED
  BY <1>1, NumberInvInit, NumberInvStep, PTL DEF Spec

\* Nor is the number of a deleted account or group ever given again: what
\* setup.go keeps the counters for.
THEOREM LoneRequestsReuseNoNumber ==
    ASSUME OneAtATime, NoProtectedRename, AsksNoNumbers
    PROVE  Spec => []NumbersNotReused
<1>1. NumberInv => NumbersNotReused
  BY OrderlyNumbers DEF NumberInv
<1>2. QED
  BY <1>1, NumberInvInit, NumberInvStep, PTL DEF Spec

\* And between requests the counters are up to date.
THEOREM LoneRequestsRecordNumbers ==
    ASSUME OneAtATime, NoProtectedRename, AsksNoNumbers
    PROVE  Spec => []NumbersRecorded
<1>1. NumberInv => NumbersRecorded
  <2> SUFFICES ASSUME NumberInv, NEW kind \in {"UID", "GID"}, Quiet, NEW i \in IDsInUse(kind)
               PROVE  i <= lastID[kind]
    BY DEF NumbersRecorded
  <2>1. PICK w \in Worker : At(w, "idle")
    BY DEF OneAtATime, Quiet
  <2>2. ~Unrecorded(proc[w], kind)
    BY <2>1 DEF At, Unrecorded
  <2>3. QED
    BY <2>2 DEF NumberInv, Below, IDKind
<1>2. QED
  BY <1>1, NumberInvInit, NumberInvStep, PTL DEF Spec

-----------------------------------------------------------------------------
(* The members: the inductive invariant. *)

\* The administrator stays and is in every group, so that no group is left with
\* one last member, which the server would refuse to delete halfway through
\* DeleteAccount; clients leave the users group to NewAccount and DeleteAccount;
\* and accounts are only renamed where the server keeps the memberships.
SteadyClients ==
    \A r \in Requests :
        /\ r.op = "NewGroup" => r.members \subseteq {Admin}
        /\ r.op = "AddGroupMember" => ~IsProtectedGroup(r.group)
        /\ r.op = "DeleteGroupMember" => r.user # Admin /\ r.group # UsersGroup
        /\ r.op = "DeleteAccount" => r.user # Admin
        /\ r.op = "UpdateAccount" => r.to \in {NoName, r.user} \/ (RefInt /\ r.user # Admin)

\* Where a request r of theirs may be.
Permits(r, label) ==
    /\ label \in Label \ (SetupLabel \cup FallbackLabel)
    /\ label = "update_find" => r.to \in {NoName, r.user} \/ (RefInt /\ r.user # Admin)
    /\ label \in RenameLabel => RefInt /\ r.user # Admin
    /\ label \in DeleteLabel => r.user # Admin
    /\ label = "delete_member" => r.user # Admin /\ r.group # UsersGroup

\* Where NewAccount has a number for the account.
NumberedLabel == {"account_group", "new_account_add"}

Steady(p) ==
    /\ p.req.op # "SetupLDAP" /\ p.members \subseteq {Admin}
    /\ p.ret["NewGroup"] = "reply" /\ p.ret["NewAccount"] = "reply"
    /\ p.ret["setupLastID"] \in {"reply", "new_account_retry"}
    /\ Permits(p.req, p.pc)
    /\ p.pc \in NumberedLabel => p.uid # 0

\* Where the worker relies on what it has found in the directory.
MindLabel ==
    {"add_member", "update_groups", "update_leave", "update_join", "delete_leave", "delete_entry"}

Minding(p) ==
    /\ p.pc = "add_member" => AccountExists(p.user)
    /\ p.pc \in {"update_groups", "update_leave", "update_join"} =>
          AccountExists(p.user) /\ ~AccountExists(p.req.user)
    /\ p.pc = "delete_leave" => GroupsOf(p.req.user) \subseteq p.todo
    /\ p.pc = "delete_entry" => GroupsOf(p.req.user) = {}

\* The account that has yet to become a user, or is about to be deleted.
InFlux(p) ==
    IF p.pc = "add_member" /\ p.ret["AddGroupMember"] = "new_account_joined" THEN {p.user}
    ELSE IF p.pc \in {"delete_leave", "delete_entry"} THEN {p.req.user} ELSE {}

Members ==
    /\ AccountExists(Admin)
    /\ \A g \in Group : GroupExists(g) => IsMember(Admin, g)
    /\ \A g \in Group : \A u \in group[g].members : AccountExists(u) /\ GroupExists(g)

Attached(F) == \A u \in User : AccountExists(u) => IsMember(u, UsersGroup) \/ u \in F

MemberInv ==
    /\ JoinInv
    /\ Undisturbed
    /\ Members
    /\ \A w \in Worker : Steady(proc[w]) /\ Minding(proc[w]) /\ Attached(InFlux(proc[w]))

-----------------------------------------------------------------------------
(* What the round trips do to the members. *)

LEMMA SameMembers ==
    ASSUME Members, NEW F, Attached(F), UNCHANGED <<account, group>>
    PROVE  Members' /\ Attached(F)'
  BY DEF Members, Attached, AccountExists, GroupExists, IsMember

LEMMA AccountMembers ==
    ASSUME DirectoryTypeOK, SetUp, Members, NEW F, Attached(F)
    PROVE  /\ \A u, e : e.uid # 0 /\ AddAccount(u, e) => Members' /\ Attached(F \cup {u})'
           /\ \A u, e : (AccountExists(u) => e.uid # 0) /\ ModifyAccount(u, e) =>
                 Members' /\ Attached(F)'
           /\ \A u, v \in User : u # Admin /\ RefInt /\ F = {} /\ RenameAccount(u, v) =>
                 Members' /\ Attached(F)'
           /\ \A u \in User : u # Admin /\ GroupsOf(u) = {} /\ DelAccount(u) =>
                 Members' /\ Attached(F \ {u})'
<1>0. UsersGroup \in Group /\ Admin \in User
  BY DirectoryAssumption, WorkerAssumption
<1>1. \A g \in Group : group[g].members \subseteq User
  BY DEF DirectoryTypeOK, GroupEntry
<1>2. ASSUME NEW u, NEW e, e.uid # 0, AddAccount(u, e) PROVE Members' /\ Attached(F \cup {u})'
  <2>1. /\ group' = group
        /\ \A t \in User : account'[t] = IF t = u /\ AddAccountCode(u) = "ok" THEN e
                                                                           ELSE account[t]
    BY <1>2 DEF AddAccount, DirectoryTypeOK
  <2>2. \A t \in User :
           AccountExists(t)' <=> AccountExists(t) \/ (t = u /\ AddAccountCode(u) = "ok")
    <3>1. AddAccountCode(u) = "ok" => ~AccountExists(u)
      BY DEF AddAccountCode
    <3>2. QED
      BY <1>2, <2>1 DEF AccountExists
  <2>3. Members'
    BY <1>0, <1>1, <2>1, <2>2 DEF Members, GroupExists, IsMember
  <2>4. Attached(F \cup {u})'
    BY <2>1, <2>2 DEF Attached, IsMember
  <2>5. QED
    BY <2>3, <2>4
<1>3. ASSUME NEW u, NEW e, AccountExists(u) => e.uid # 0, ModifyAccount(u, e)
      PROVE  Members' /\ Attached(F)'
  <2>1. group' = group /\ \A t \in User : AccountExists(t)' <=> AccountExists(t)
    BY <1>3 DEF ModifyAccount, AccountExists, DirectoryTypeOK
  <2>2. Members'
    BY <1>0, <1>1, <2>1 DEF Members, GroupExists, IsMember
  <2>3. Attached(F)'
    BY <2>1 DEF Attached, IsMember
  <2>4. QED
    BY <2>2, <2>3
<1>4. ASSUME NEW u \in User, NEW v \in User, u # Admin, RefInt, F = {}, RenameAccount(u, v)
      PROVE  Members' /\ Attached(F)'
  <2>1. CASE RenameAccountCode(u, v) # "ok"
    BY <1>4, <2>1, SameMembers DEF RenameAccount
  <2>2. CASE RenameAccountCode(u, v) = "ok"
    <3>1. AccountExists(u) /\ ~AccountExists(v) /\ u # v
      BY <2>2 DEF RenameAccountCode
    <3>2. \A t \in User : AccountExists(t)' <=> t # u /\ (t = v \/ AccountExists(t))
      BY <1>4, <2>2, <3>1 DEF RenameAccount, AccountExists, DirectoryTypeOK, NoAccount
    <3>3. \A g \in Group : /\ group'[g].gid = group[g].gid
                           /\ group'[g].members = IF u \in group[g].members
                                                  THEN (group[g].members \ {u}) \cup {v}
                                                  ELSE group[g].members
      BY <1>4, <2>2 DEF RenameAccount, IsMember, DirectoryTypeOK, GroupEntry
    <3>4. v # Admin
      BY <3>1 DEF Members
    <3>5. Members'
      BY <1>0, <1>4, <1>1, <3>1, <3>2, <3>3, <3>4 DEF Members, GroupExists, IsMember
    <3>6. Attached(F)'
      BY <1>0, <1>4, <3>1, <3>2, <3>3 DEF Attached, IsMember
    <3>7. QED
      BY <3>5, <3>6
  <2>3. QED
    BY <2>1, <2>2
<1>5. ASSUME NEW u \in User, u # Admin, GroupsOf(u) = {}, DelAccount(u)
      PROVE  Members' /\ Attached(F \ {u})'
  <2>1. \A g \in Group : u \notin group[g].members
    BY <1>5 DEF GroupsOf, IsMember
  <2>2. \A g \in Group : group'[g].gid = group[g].gid /\ group'[g].members = group[g].members
    <3>1. ASSUME NEW g \in Group
          PROVE  group'[g].gid = group[g].gid /\ group'[g].members \in {group[g].members,
                                                                       group[g].members \ {u}}
      BY <1>5 DEF DelAccount, DirectoryTypeOK, GroupEntry
    <3>2. QED
      BY <2>1, <3>1
  <2>3. \A t \in User : AccountExists(t)' <=> t # u /\ AccountExists(t)
    BY <1>5 DEF DelAccount, AccountExists, DirectoryTypeOK, NoAccount
  <2>4. Members'
    BY <1>0, <1>5, <1>1, <2>1, <2>2, <2>3 DEF Members, GroupExists, IsMember
  <2>5. Attached(F \ {u})'
    BY <1>0, <2>2, <2>3 DEF Attached, IsMember
  <2>6. QED
    BY <2>4, <2>5
<1>6. QED
  BY <1>2, <1>3, <1>4, <1>5

LEMMA GroupMembers ==
    ASSUME DirectoryTypeOK, SetUp, Members, NEW F, Attached(F)
    PROVE  /\ \A g, e : e.gid # 0 /\ e.members = {Admin} /\ AddGroup(g, e) =>
                 Members' /\ Attached(F)'
           /\ \A g \in Group : \A e :
                 /\ GroupExists(g) => e.gid # 0
                 /\ e.members = group[g].members
                 /\ ModifyGroup(g, e)
                 => Members' /\ Attached(F)'
           /\ \A g, h \in Group : g # UsersGroup /\ RenameGroup(g, h) => Members' /\ Attached(F)'
           /\ \A g \in Group : g # UsersGroup /\ DelGroup(g) => Members' /\ Attached(F)'
           /\ \A g, u : AccountExists(u) /\ AddValue(g, u) => Members' /\ Attached(F)'
           /\ \A u : AddValue(UsersGroup, u) /\ AccountExists(u) => Attached(F \ {u})'
           /\ \A g, u : u # Admin /\ (g # UsersGroup \/ u \in F) /\ DeleteValue(g, u) =>
                 Members' /\ Attached(F)'
<1>0. UsersGroup \in Group /\ Admin \in User
  BY DirectoryAssumption, WorkerAssumption
<1>1. ASSUME NEW g, NEW e, e.gid # 0, e.members = {Admin}, AddGroup(g, e)
      PROVE  Members' /\ Attached(F)'
  <2>1. account' = account /\ \A h \in Group : group'[h] = IF h = g /\ AddGroupCode(g) = "ok"
                                                           THEN e ELSE group[h]
    BY <1>1 DEF AddGroup, DirectoryTypeOK
  <2>2. AddGroupCode(g) = "ok" => ~GroupExists(g)
    BY DEF AddGroupCode, SetUp
  <2>3. Members'
    BY <1>0, <1>1, <2>1, <2>2 DEF Members, AccountExists, GroupExists, IsMember
  <2>4. Attached(F)'
    BY <1>0, <2>1, <2>2 DEF Attached, AccountExists, IsMember, SetUp
  <2>5. QED
    BY <2>3, <2>4
<1>2. ASSUME NEW g \in Group, NEW e, GroupExists(g) => e.gid # 0, e.members = group[g].members,
             ModifyGroup(g, e)
      PROVE  Members' /\ Attached(F)'
  <2>1. /\ account' = account
        /\ \A h \in Group : /\ group'[h].members = group[h].members
                            /\ group'[h].gid # 0 <=> group[h].gid # 0
    BY <1>2 DEF ModifyGroup, DirectoryTypeOK, GroupExists
  <2>2. Members'
    BY <2>1 DEF Members, AccountExists, GroupExists, IsMember
  <2>3. Attached(F)'
    BY <1>0, <2>1 DEF Attached, AccountExists, IsMember
  <2>4. QED
    BY <2>2, <2>3
<1>3. ASSUME NEW g \in Group, NEW h \in Group, g # UsersGroup, RenameGroup(g, h)
      PROVE  Members' /\ Attached(F)'
  <2>1. CASE RenameGroupCode(g, h) # "ok"
    BY <1>3, <2>1, SameMembers DEF RenameGroup
  <2>2. CASE RenameGroupCode(g, h) = "ok"
    <3>1. GroupExists(g) /\ ~GroupExists(h) /\ g # h /\ h # UsersGroup
      BY <2>2 DEF RenameGroupCode, SetUp
    <3>2. /\ account' = account
          /\ \A k \in Group : group'[k] = IF k = g THEN NoGroup
                                          ELSE IF k = h THEN group[g] ELSE group[k]
      BY <1>3, <2>2, <3>1 DEF RenameGroup, DirectoryTypeOK
    <3>3. Members'
      BY <3>1, <3>2 DEF Members, AccountExists, GroupExists, IsMember, NoGroup
    <3>4. Attached(F)'
      BY <1>0, <1>3, <3>1, <3>2 DEF Attached, AccountExists, IsMember
    <3>5. QED
      BY <3>3, <3>4
  <2>3. QED
    BY <2>1, <2>2
<1>4. ASSUME NEW g \in Group, g # UsersGroup, DelGroup(g) PROVE Members' /\ Attached(F)'
  <2>1. /\ account' = account
        /\ \A k \in Group : group'[k] = IF k = g /\ GroupExists(g) THEN NoGroup ELSE group[k]
    BY <1>4 DEF DelGroup, DirectoryTypeOK
  <2>2. Members'
    BY <2>1 DEF Members, AccountExists, GroupExists, IsMember, NoGroup
  <2>3. Attached(F)'
    BY <1>0, <1>4, <2>1 DEF Attached, AccountExists, IsMember
  <2>4. QED
    BY <2>2, <2>3
<1>5. ASSUME NEW g, NEW u, AddValue(g, u)
      PROVE  /\ account' = account
             /\ \A k \in Group : /\ group'[k].gid = group[k].gid
                                 /\ group'[k].members = IF k = g /\ AddValueCode(g, u) = "ok"
                                                        THEN group[k].members \cup {u}
                                                        ELSE group[k].members
  BY <1>5 DEF AddValue, DirectoryTypeOK, GroupEntry
<1>6. ASSUME NEW g, NEW u, AccountExists(u), AddValue(g, u) PROVE Members' /\ Attached(F)'
  <2>1. AddValueCode(g, u) = "ok" => GroupExists(g)
    BY DEF AddValueCode
  <2>2. account' = account /\ \A k \in Group : group'[k].gid = group[k].gid
    BY <1>5, <1>6
  <2>3. \A k \in Group : group[k].members \subseteq group'[k].members
    BY <1>5, <1>6
  <2>4. \A k \in Group : \A t \in group'[k].members :
           t \in group[k].members \/ (t = u /\ GroupExists(k))
    <3>1. \A k \in Group : k # g \/ AddValueCode(g, u) # "ok" => group'[k].members = group[k].members
      BY <1>5, <1>6
    <3>2. \A k \in Group : k = g /\ AddValueCode(g, u) = "ok" =>
                              group'[k].members = group[k].members \cup {u}
      BY <1>5, <1>6
    <3>3. QED
      BY <2>1, <3>1, <3>2
  <2>5. Members'
    BY <1>0, <1>6, <2>2, <2>3, <2>4 DEF Members, AccountExists, GroupExists, IsMember
  <2>6. Attached(F)'
    BY <1>0, <1>6, <2>2, <2>3 DEF Attached, AccountExists, IsMember
  <2>7. QED
    BY <2>5, <2>6
<1>7. ASSUME NEW u, AccountExists(u), AddValue(UsersGroup, u) PROVE Attached(F \ {u})'
  <2>1. AddValueCode(UsersGroup, u) = "ok" \/ IsMember(u, UsersGroup)
    BY DEF AddValueCode, SetUp
  <2>2. QED
    BY <1>0, <1>5, <1>7, <2>1 DEF Attached, AccountExists, IsMember
<1>8. ASSUME NEW g, NEW u, u # Admin, g # UsersGroup \/ u \in F, DeleteValue(g, u)
      PROVE  Members' /\ Attached(F)'
  <2>1. /\ account' = account
        /\ \A k \in Group : /\ group'[k].gid = group[k].gid
                            /\ group'[k].members = IF k = g /\ DeleteValueCode(g, u) = "ok"
                                                   THEN group[k].members \ {u}
                                                   ELSE group[k].members
    BY <1>8 DEF DeleteValue, DirectoryTypeOK, GroupEntry
  <2>2. Members'
    BY <1>8, <2>1 DEF Members, AccountExists, GroupExists, IsMember
  <2>3. Attached(F)'
    BY <1>0, <1>8, <2>1 DEF Attached, AccountExists, IsMember
  <2>4. QED
    BY <2>2, <2>3
<1>9. QED
  BY <1>1, <1>2, <1>3, <1>4, <1>6, <1>7, <1>8

-----------------------------------------------------------------------------
(* What the steps of the worker do to the members. *)

\* What is shown of every step of worker w.
MemberStep(w) ==
    Members' /\ \E q : Become(w, q) /\ Steady(q) /\ Minding(q)' /\ Attached(InFlux(q))'

LEMMA Unminding ==
    ASSUME NEW p, p.pc \notin MindLabel
    PROVE  Minding(p) /\ InFlux(p) = {}
  BY DEF Minding, InFlux, MindLabel

\* A step that ends where nothing in the directory is relied upon.
LEMMA CalmStep ==
    ASSUME NEW w \in Worker, Members', Attached({})', NEW q, Become(w, q), Steady(q),
           q.pc \notin MindLabel
    PROVE  MemberStep(w)
<1>1. Minding(q)' /\ InFlux(q) = {}
  BY DEF Minding, InFlux, MindLabel
<1>2. QED
  BY <1>1 DEF MemberStep

LEMMA SteadyMoves ==
    ASSUME NEW p, Known(p), Returns(p), Steady(p)
    PROVE  /\ \A err : Steady(Answer(p, err)) /\ Answer(p, err).pc = "reply"
           /\ \A f \in Function : \A err :
                 Steady(Return(p, f, err)) /\ Return(p, f, err).pc \notin MindLabel
           /\ \A l : Permits(p.req, l) /\ (l \in NumberedLabel => p.uid # 0) => Steady(Goto(p, l))
<1>1. ASSUME NEW err PROVE Steady(Answer(p, err)) /\ Answer(p, err).pc = "reply"
  <2>1. /\ Answer(p, err).pc = "reply" /\ Answer(p, err).ret = p.ret
        /\ Answer(p, err).req = p.req /\ Answer(p, err).members = p.members
    BY DEF Answer, Known, ProcState
  <2>2. Permits(p.req, "reply")
    BY DEF Permits, Label, SetupLabel, FallbackLabel, RenameLabel, DeleteLabel
  <2>3. QED
    BY <2>1, <2>2 DEF Steady, NumberedLabel
<1>2. ASSUME NEW f \in Function, NEW err
      PROVE  Steady(Return(p, f, err)) /\ Return(p, f, err).pc \notin MindLabel
  <2>1. /\ Return(p, f, err).pc = p.ret[f] /\ Return(p, f, err).ret = p.ret
        /\ Return(p, f, err).req = p.req /\ Return(p, f, err).members = p.members
    BY DEF Return, Known, ProcState
  <2>2. p.ret[f] \in {"reply", "new_group_add", "last_id_add", "new_account_uid",
                      "new_account_uid_again", "new_account_retry", "new_account_joined"}
    BY DEF Returns, ReturnsTo, Steady, Function
  <2>3. Permits(p.req, p.ret[f]) /\ p.ret[f] \notin MindLabel \cup NumberedLabel
    BY <2>2 DEF Permits, NumberedLabel, Label, GroupLabel, AccountLabel, SetupLabel, FallbackLabel, RenameLabel,
                DeleteLabel, MindLabel
  <2>4. QED
    BY <2>1, <2>3 DEF Steady
<1>3. ASSUME NEW l, Permits(p.req, l), l \in NumberedLabel => p.uid # 0
      PROVE  Steady(Goto(p, l))
  <2>1. /\ Goto(p, l).pc = l /\ Goto(p, l).ret = p.ret /\ Goto(p, l).uid = p.uid
        /\ Goto(p, l).req = p.req /\ Goto(p, l).members = p.members
    BY DEF Goto, Known, ProcState
  <2>2. QED
    BY <1>3, <2>1 DEF Steady
<1>4. QED
  BY <1>1, <1>2, <1>3

LEMMA LocalSteady ==
    ASSUME NEW p, Known(p), Steady(p)
    PROVE  /\ \A i : /\ Steady([p EXCEPT !.high = i])
                     /\ Steady([p EXCEPT !.newGID = i])
           /\ \A i \in Nat \ {0} : Steady([p EXCEPT !.uid = i])
           /\ \A S : Steady([p EXCEPT !.todo = S])
           /\ \A g : Steady([p EXCEPT !.group = g])
           /\ \A u : Steady([p EXCEPT !.user = u])
           /\ \A g, i : Steady([p EXCEPT !.group = g, !.gid = i])
  BY DEF Known, ProcState, Steady

\* The labels that every request may be at.
LEMMA PermittedLabels ==
    ASSUME NEW r
    PROVE  \A l \in Label \ (SetupLabel \cup FallbackLabel \cup RenameLabel \cup DeleteLabel
                             \cup {"update_find", "delete_member"}) : Permits(r, l)
  BY DEF Permits

LEMMA SteadyCalls ==
    ASSUME NEW p, Known(p), Returns(p), Steady(p)
    PROVE  /\ \A k : \A l : Steady(GetHighestID(p, k, l)) /\ GetHighestID(p, k, l).pc \notin MindLabel
           /\ \A k : /\ Steady(SetupLastID(p, k, "new_account_retry"))
                     /\ SetupLastID(p, k, "new_account_retry").pc \notin MindLabel
<1>1. Permits(p.req, "highest_cached") /\ "highest_cached" \notin MindLabel \cup NumberedLabel
  BY DEF NumberedLabel, Permits, Label, GroupLabel, SetupLabel, FallbackLabel, RenameLabel,
         DeleteLabel, MindLabel
<1>2. ASSUME NEW k, NEW l
      PROVE  Steady(GetHighestID(p, k, l)) /\ GetHighestID(p, k, l).pc \notin MindLabel
  <2> DEFINE q == GetHighestID(p, k, l)
  <2>1. /\ q.pc = "highest_cached" /\ q.req = p.req /\ q.members = p.members
        /\ \A f \in Function : q.ret[f] = IF f = "getHighestID" THEN l ELSE p.ret[f]
    BY DEF GetHighestID, Known, ProcState
  <2>2. QED
    BY <1>1, <2>1 DEF Steady, Function
<1>3. ASSUME NEW k
      PROVE  /\ Steady(SetupLastID(p, k, "new_account_retry"))
             /\ SetupLastID(p, k, "new_account_retry").pc \notin MindLabel
  <2> DEFINE q == SetupLastID(p, k, "new_account_retry")
  <2>1. /\ q.pc = "highest_cached" /\ q.req = p.req /\ q.members = p.members
        /\ \A f \in Function : q.ret[f] = CASE f = "getHighestID" -> "last_id_add"
                                            [] f = "setupLastID" -> "new_account_retry"
                                            [] OTHER -> p.ret[f]
    BY DEF SetupLastID, GetHighestID, Known, ProcState
  <2>2. QED
    BY <1>1, <2>1 DEF Steady, Function
<1>4. QED
  BY <1>2, <1>3

LEMMA ChooseSteady ==
    ASSUME NEW p, Known(p), Returns(p), Steady(p)
    PROVE  /\ Steady(ChooseUID(p)) /\ ChooseUID(p).pc \notin MindLabel
           /\ \A i \in Nat \ {0} : /\ Steady(ChooseGroup([p EXCEPT !.uid = i]))
                                   /\ ChooseGroup([p EXCEPT !.uid = i]).pc \notin MindLabel
<1>1. ASSUME NEW i \in Nat \ {0}
      PROVE  /\ Steady(ChooseGroup([p EXCEPT !.uid = i]))
             /\ ChooseGroup([p EXCEPT !.uid = i]).pc \notin MindLabel
  <2> DEFINE q == [p EXCEPT !.uid = i]
  <2>1. Known(q) /\ Returns(q) /\ Steady(q) /\ q.uid # 0
    BY LocalKnown, LocalReturns, LocalSteady DEF Known, ProcState
  <2>2. \A l \in {"account_by_gid", "account_group"} : Permits(q.req, l) /\ l \notin MindLabel
    BY DEF Permits, Label, AccountLabel, SetupLabel, FallbackLabel, RenameLabel, DeleteLabel,
           MindLabel
  <2> HIDE DEF q
  <2>3. \A l \in {"account_by_gid", "account_group"} : Steady(Goto(q, l)) /\ Goto(q, l).pc = l
    BY <2>1, <2>2, SteadyMoves DEF Goto, Known, ProcState
  <2>4. Steady(ChooseGroup(q)) /\ ChooseGroup(q).pc \notin MindLabel
    BY <2>2, <2>3 DEF ChooseGroup
  <2>5. QED
    BY <2>4 DEF q
<1>2. p.req.uid \in Nat /\ MinID \in Nat \ {0}
  BY DirectoryAssumption DEF Known, ProcState, Request
<1>3. QED
  BY <1>1, <1>2, SteadyCalls DEF ChooseUID

LEMMA GroupStepMembers ==
    ASSUME DirectoryTypeOK, SetUp, NoProtectedRename, NEW w \in Worker, Known(proc[w]),
           Joining(proc[w]), Members, Steady(proc[w]), Minding(proc[w]),
           Attached(InFlux(proc[w])), GroupStep(w)
    PROVE  MemberStep(w)
<1> DEFINE p == proc[w]
<1>0. /\ Known(p) /\ Returns(p) /\ Fits(p, p.pc) /\ Permits(p.req, p.pc)
      /\ p.ret["AddGroupMember"] \in {"reply", "new_account_joined"}
      /\ UsersGroup \in Group
  BY DirectoryAssumption DEF Known, Joining, Returns, ReturnsTo, Function, Steady
<1>1. p.pc \notin MindLabel => Attached({})
  BY Unminding
<1>2. /\ Permits(p.req, "highest_scan") /\ Permits(p.req, "new_group_last")
      /\ Permits(p.req, "update_group_modify") /\ Permits(p.req, "add_member")
  BY PermittedLabels
  DEF Label, GroupLabel, SetupLabel, FallbackLabel, RenameLabel, DeleteLabel
<1>3. {"highest_scan", "new_group_last", "update_group_modify", "add_member"} \cap NumberedLabel = {}
  BY DEF NumberedLabel
<1>4. CASE HighestCached(w) \/ HighestScan(w) \/ NewGroupFind(w) \/ NewGroupRefused(w)
           \/ NewGroupLast(w)
  <2>1. p.pc \notin MindLabel
    BY <1>4
    DEF HighestCached, HighestScan, NewGroupFind, NewGroupRefused, NewGroupLast, At, MindLabel
  <2>2. Members' /\ Attached({})'
    BY <1>1, <1>4, <2>1, SameMembers
    DEF HighestCached, HighestScan, NewGroupFind, NewGroupRefused, NewGroupLast, directory,
        ReplaceSerial
  <2>3. PICK q : Become(w, q) /\ Steady(q) /\ q.pc \notin MindLabel
    <3>1. \A i \in Nat : /\ Known([p EXCEPT !.high = i]) /\ Returns([p EXCEPT !.high = i])
                         /\ Steady([p EXCEPT !.high = i])
      BY <1>0, LocalKnown, LocalReturns, LocalSteady
    <3>2. {"getHighestID", "NewGroup"} \subseteq Function
      BY DEF Function
    <3>3. CASE HighestCached(w)
      <4>1. lastID[p.kind] \in Nat
        BY DEF DirectoryTypeOK, Known, ProcState
      <4>2. Steady(Goto(p, "highest_scan")) /\ Goto(p, "highest_scan").pc \notin MindLabel
        BY <1>0, <1>2, <1>3, SteadyMoves DEF Goto, Known, ProcState, MindLabel
      <4>3. QED
        BY <3>1, <3>2, <3>3, <4>1, <4>2, SteadyMoves DEF HighestCached
    <3>4. CASE HighestScan(w)
      <4>1. \A h \in IDsInUse(p.kind) \cup {MinID} : h \in Nat
        BY DirectoryAssumption
        DEF IDsInUse, DirectoryTypeOK, AccountEntry, GroupEntry
      <4>2. QED
        BY <1>0, <3>1, <3>2, <3>4, <4>1, SteadyMoves DEF HighestScan
    <3>5. CASE NewGroupFind(w)
      BY <1>0, <3>2, <3>5, SteadyMoves, SteadyCalls DEF NewGroupFind
    <3>6. CASE NewGroupRefused(w) \/ NewGroupLast(w)
      BY <1>0, <3>2, <3>6, SteadyMoves DEF NewGroupRefused, NewGroupLast
    <3>7. QED
      BY <1>4, <3>3, <3>4, <3>5, <3>6
  <2>4. QED
    BY <2>2, <2>3, CalmStep
<1>5. CASE NewGroupAdd(w)
  <2>1. p.pc \notin MindLabel /\ p.members = {Admin}
    BY <1>5 DEF NewGroupAdd, At, MindLabel, Steady
  <2>2. p.high + 1 \in Nat /\ p.high + 1 # 0
    BY DEF Known, ProcState
  <2>3. Members' /\ Attached({})'
    BY <1>1, <1>5, <2>1, <2>2, GroupMembers DEF NewGroupAdd
  <2>4. PICK q : Become(w, q) /\ Steady(q) /\ q.pc \notin MindLabel
    <3> DEFINE r == [p EXCEPT !.newGID = p.high + 1]
    <3>1. Known(r) /\ Returns(r) /\ Steady(r) /\ r.req = p.req
      BY <1>0, <2>2, LocalKnown, LocalReturns, LocalSteady DEF Known, ProcState
    <3>2. Steady(Goto(r, "new_group_last")) /\ Goto(r, "new_group_last").pc \notin MindLabel
      BY <1>2, <1>3, <3>1, SteadyMoves DEF Goto, Known, ProcState, MindLabel
    <3>3. QED
      BY <1>0, <1>5, <3>2, SteadyMoves DEF NewGroupAdd, Function
  <2>5. QED
    BY <2>3, <2>4, CalmStep
<1>6. CASE DeleteGroupEntry(w) \/ UpdateGroupRename(w) \/ UpdateGroupModify(w)
  <2>1. p.pc \notin MindLabel
    BY <1>6 DEF DeleteGroupEntry, UpdateGroupRename, UpdateGroupModify, At, MindLabel
  <2>2. Members' /\ Attached({})'
    <3>1. CASE DeleteGroupEntry(w)
      <4>1. p.req.group \in Group /\ p.req.group # UsersGroup
        BY <1>0, <3>1 DEF DeleteGroupEntry, At, Fits, IsProtectedGroup
      <4>2. QED
        BY <1>1, <2>1, <3>1, <4>1, GroupMembers DEF DeleteGroupEntry
    <3>2. CASE UpdateGroupRename(w)
      <4>1. p.req.group \in Group /\ p.req.to \in Group /\ p.req.group # UsersGroup
        BY <1>0, <3>2 DEF UpdateGroupRename, At, Fits, IsProtectedGroup
      <4>2. QED
        BY <1>1, <2>1, <3>2, <4>1, GroupMembers DEF UpdateGroupRename
    <3>3. CASE UpdateGroupModify(w)
      <4>1. p.group \in Group /\ MinID \in Nat \ {0} /\ p.req.gid \in Nat
        BY <1>0, <3>3, DirectoryAssumption
        DEF UpdateGroupModify, At, Fits, Known, ProcState, Request
      <4>2. PICK e : /\ GroupExists(p.group) => e.gid # 0
                     /\ e.members = group[p.group].members
                     /\ ModifyGroup(p.group, e)
        <5>1. ModifyGroup(p.group, IF p.req.gid >= MinID
                                   THEN [group[p.group] EXCEPT !.gid = p.req.gid]
                                   ELSE group[p.group])
          BY <3>3 DEF UpdateGroupModify
        <5>2. group[p.group] \in GroupEntry
          BY <4>1 DEF DirectoryTypeOK
        <5>3. QED
          BY <4>1, <5>1, <5>2 DEF GroupEntry, GroupExists
      <4>3. QED
        BY <1>1, <2>1, <4>1, <4>2, GroupMembers
    <3>4. QED
      BY <1>6, <3>1, <3>2, <3>3
  <2>3. PICK q : Become(w, q) /\ Steady(q) /\ q.pc \notin MindLabel
    <3>1. CASE UpdateGroupRename(w)
      <4> DEFINE r == [p EXCEPT !.group = p.req.to]
      <4>1. p.req.to \in Group
        BY <1>0, <3>1 DEF UpdateGroupRename, At, Fits
      <4>2. Known(r) /\ Returns(r) /\ Steady(r) /\ r.req = p.req
        BY <1>0, <4>1, LocalKnown, LocalReturns, LocalSteady DEF Known, ProcState
      <4>3. /\ Steady(Goto(r, "update_group_modify"))
            /\ Goto(r, "update_group_modify").pc \notin MindLabel
        BY <1>2, <1>3, <4>2, SteadyMoves DEF Goto, Known, ProcState, MindLabel
      <4>4. \A err : Steady(Answer(p, err)) /\ Answer(p, err).pc \notin MindLabel
        BY <1>0, SteadyMoves DEF MindLabel
      <4>5. QED
        BY <3>1, <4>3, <4>4 DEF UpdateGroupRename
    <3>2. CASE DeleteGroupEntry(w) \/ UpdateGroupModify(w)
      <4>1. PICK err : Become(w, Answer(p, err))
        BY <3>2 DEF DeleteGroupEntry, UpdateGroupModify
      <4>2. QED
        BY <1>0, <4>1, SteadyMoves DEF MindLabel
    <3>3. QED
      BY <1>6, <3>1, <3>2
  <2>4. QED
    BY <2>2, <2>3, CalmStep
<1>7. CASE AddMemberCheck(w)
  <2>1. p.pc \notin MindLabel /\ p.ret["AddGroupMember"] = "reply"
    BY <1>0, <1>7 DEF AddMemberCheck, At, MindLabel, Joining
  <2>2. Members' /\ Attached({})'
    BY <1>1, <1>7, <2>1, SameMembers DEF AddMemberCheck, directory
  <2>3. CASE IsMember(p.user, UsersGroup) /\ "groups" \in ous /\ GroupExists(UsersGroup)
    <3>1. PICK q : q = Goto(p, "add_member")
      OBVIOUS
    <3>2. Become(w, q)
      BY <1>7, <2>3, <3>1 DEF AddMemberCheck
    <3>3. Steady(q) /\ q.pc = "add_member" /\ q.user = p.user /\ q.ret = p.ret
      BY <1>0, <1>2, <1>3, <3>1, SteadyMoves DEF Goto, Known, ProcState
    <3>4. AccountExists(q.user)'
      BY <1>0, <1>7, <2>3, <3>3 DEF Members, IsMember, AddMemberCheck, directory, AccountExists
    <3>5. Minding(q)' /\ InFlux(q) = {}
      BY <2>1, <3>3, <3>4 DEF Minding, InFlux
    <3>6. QED
      BY <2>2, <3>2, <3>3, <3>5 DEF MemberStep
  <2>4. CASE ~(IsMember(p.user, UsersGroup) /\ "groups" \in ous /\ GroupExists(UsersGroup))
    <3>1. PICK err : Become(w, Return(p, "AddGroupMember", err))
      BY <1>7, <2>4 DEF AddMemberCheck
    <3>2. QED
      BY <1>0, <2>2, <3>1, SteadyMoves, CalmStep DEF Function
  <2>5. QED
    BY <2>3, <2>4
<1>8. CASE AddMember(w)
  <2>1. p.pc = "add_member" /\ AccountExists(p.user) /\ AddValue(p.group, p.user)
    BY <1>8 DEF AddMember, At, Minding
  <2>2. Members' /\ Attached({})'
    <3>1. CASE p.ret["AddGroupMember"] = "new_account_joined"
      <4>1. InFlux(p) = {p.user} /\ p.group = UsersGroup
        BY <2>1, <3>1 DEF InFlux, Joining
      <4>2. Attached({p.user} \ {p.user})' /\ Members'
        BY <2>1, <4>1, GroupMembers
      <4>3. QED
        BY <4>2
    <3>2. CASE p.ret["AddGroupMember"] = "reply"
      <4>1. InFlux(p) = {}
        BY <2>1, <3>2 DEF InFlux
      <4>2. QED
        BY <2>1, <4>1, GroupMembers
    <3>3. QED
      BY <1>0, <3>1, <3>2
  <2>3. PICK err : Become(w, Return(p, "AddGroupMember", err))
    BY <1>8 DEF AddMember
  <2>4. QED
    BY <1>0, <2>2, <2>3, SteadyMoves, CalmStep DEF Function
<1>9. CASE DeleteMember(w)
  <2>1. p.pc = "delete_member" /\ p.pc \notin MindLabel
    BY <1>9 DEF DeleteMember, At, MindLabel
  <2>2. p.req.user # Admin /\ p.req.group # UsersGroup
    BY <1>0, <2>1 DEF Permits
  <2>3. Members' /\ Attached({})'
    BY <1>1, <1>9, <2>1, <2>2, GroupMembers DEF DeleteMember
  <2>4. PICK err : Become(w, Answer(p, err))
    BY <1>9 DEF DeleteMember
  <2>5. QED
    BY <1>0, <2>3, <2>4, SteadyMoves, CalmStep DEF MindLabel
<1>10. QED
  BY <1>4, <1>5, <1>6, <1>7, <1>8, <1>9 DEF GroupStep

\* The steps of NewAccount.
LEMMA NewAccountMembers ==
    ASSUME DirectoryTypeOK, SetUp, NEW w \in Worker, Known(proc[w]), Joining(proc[w]), Members,
           Steady(proc[w]), Minding(proc[w]), Attached(InFlux(proc[w])),
           \/ LastIDFailed(w) \/ LastIDAdd(w)
           \/ NewAccountFind(w) \/ NewAccountNoOU(w)
           \/ NewAccountUID(w) \/ NewAccountRetry(w) \/ NewAccountUIDAgain(w)
           \/ AccountByGID(w)
           \/ AccountGroup(w) \/ AccountGroupMade(w) \/ AccountGroupOwn(w) \/ AccountGroupGID(w)
           \/ NewAccountAdd(w) \/ NewAccountNotJoined(w) \/ NewAccountLast(w)
    PROVE  MemberStep(w)
<1> DEFINE p == proc[w]
<1>0. /\ Known(p) /\ Returns(p) /\ Fits(p, p.pc) /\ UsersGroup \in Group
      /\ {"setupLastID", "NewAccount"} \subseteq Function
  BY DirectoryAssumption DEF Known, Joining, Function
<1>1. ~(\/ NewAccountNoOU(w) \/ AccountGroupMade(w) \/ AccountGroupOwn(w) \/ AccountGroupGID(w)
        \/ NewAccountNotJoined(w))
  BY DEF NewAccountNoOU, AccountGroupMade, AccountGroupOwn, AccountGroupGID,
         NewAccountNotJoined, At, Joining, FallbackLabel
<1>2. CASE NewAccountAdd(w)
  <2>1. /\ p.pc = "new_account_add" /\ p.group = UsersGroup /\ p.user \in User
        /\ InFlux(p) = {} /\ p.uid # 0
    BY <1>0, <1>2 DEF NewAccountAdd, At, Steady, NumberedLabel, Joining, Fits, UserLabel, InFlux
  <2>2. PICK e : e.uid = p.uid /\ e = [uid |-> p.uid, gid |-> p.gid]
    OBVIOUS
  <2>3. AddAccount(p.user, e)
    BY <1>2, <2>2 DEF NewAccountAdd
  <2>4. CASE AddAccountCode(p.user) = "ok"
    <3>1. PICK q : q = AddGroupMember(p, p.group, p.user, FALSE, "new_account_joined")
      OBVIOUS
    <3>2. Become(w, q)
      BY <1>2, <2>4, <3>1 DEF NewAccountAdd
    <3>3. /\ q.pc = "add_member" /\ q.user = p.user /\ q.req = p.req /\ q.members = p.members
          /\ \A f \in Function :
                q.ret[f] = IF f = "AddGroupMember" THEN "new_account_joined" ELSE p.ret[f]
      BY <2>1, <3>1 DEF AddGroupMember, IsProtectedGroup, Known, ProcState
    <3>4. Permits(p.req, "add_member")
      BY PermittedLabels
      DEF Label, GroupLabel, SetupLabel, FallbackLabel, RenameLabel, DeleteLabel
    <3>5. PICK u : u = p.user
      OBVIOUS
    <3>6. Steady(q) /\ InFlux(q) = {u}
      BY <3>3, <3>4, <3>5 DEF Steady, NumberedLabel, Function, InFlux
    <3>7. Members' /\ Attached({} \cup {u})'
      BY <2>1, <2>2, <2>3, <3>5, AccountMembers
    <3>8. AccountExists(u)'
      BY <2>1, <2>2, <2>3, <2>4, <3>5 DEF AddAccount, AccountExists, DirectoryTypeOK
    <3>9. Minding(q)'
      BY <3>3, <3>5, <3>8 DEF Minding
    <3>10. Attached({u})'
      BY <3>7
    <3>11. QED
      BY <3>2, <3>6, <3>7, <3>9, <3>10 DEF MemberStep
  <2>5. CASE AddAccountCode(p.user) # "ok"
    <3>1. Members' /\ Attached({})'
      BY <2>1, <2>3, <2>5, SameMembers DEF AddAccount
    <3>2. PICK err : Become(w, Return(p, "NewAccount", err))
      BY <1>2, <2>5 DEF NewAccountAdd
    <3>3. QED
      BY <1>0, <3>1, <3>2, SteadyMoves, CalmStep
  <2>6. QED
    BY <2>4, <2>5
<1>3. CASE \/ LastIDFailed(w) \/ LastIDAdd(w) \/ NewAccountFind(w) \/ NewAccountUID(w)
           \/ NewAccountRetry(w) \/ NewAccountUIDAgain(w) \/ AccountByGID(w) \/ AccountGroup(w)
           \/ NewAccountLast(w)
  <2>1. p.pc \notin MindLabel
    BY <1>3
    DEF LastIDFailed, LastIDAdd, NewAccountFind, NewAccountUID, NewAccountRetry,
        NewAccountUIDAgain, AccountByGID, AccountGroup, NewAccountLast, At, MindLabel
  <2>2. UNCHANGED <<account, group>>
    BY <1>3
    DEF LastIDFailed, LastIDAdd, NewAccountFind, NewAccountUID, NewAccountRetry,
        NewAccountUIDAgain, AccountByGID, AccountGroup, NewAccountLast, directory, AddDevice,
        ReplaceSerial
  <2>3. Members' /\ Attached({})'
    BY <2>1, <2>2, Unminding, SameMembers
  <2>4. PICK q : Become(w, q) /\ Steady(q) /\ q.pc \notin MindLabel
    <3>1. CASE LastIDFailed(w) \/ LastIDAdd(w) \/ AccountByGID(w) \/ NewAccountLast(w)
      BY <1>0, <3>1, SteadyMoves DEF LastIDFailed, LastIDAdd, AccountByGID, NewAccountLast
    <3>2. CASE NewAccountFind(w)
      BY <1>0, <3>2, SteadyMoves, ChooseSteady DEF NewAccountFind, SetUp
    <3>3. CASE NewAccountUID(w) \/ NewAccountRetry(w) \/ NewAccountUIDAgain(w)
      <4>1. p.high + 1 \in Nat \ {0}
        BY DEF Known, ProcState
      <4>2. QED
        BY <1>0, <3>3, <4>1, SteadyMoves, SteadyCalls, ChooseSteady
        DEF NewAccountUID, NewAccountRetry, NewAccountUIDAgain
    <3>4. CASE AccountGroup(w)
      <4> DEFINE q == UseGroup(p, UsersGroup)
      <4>1. Become(w, q)
        BY <3>4 DEF AccountGroup, GroupFound, SetUp
      <4>2. /\ q.pc = "new_account_add" /\ q.ret = p.ret /\ q.req = p.req
            /\ q.members = p.members /\ q.uid = p.uid
        BY DEF UseGroup, Goto, Known, ProcState
      <4>3. Permits(p.req, "new_account_add") /\ "new_account_add" \notin MindLabel
        BY PermittedLabels
        DEF Label, AccountLabel, SetupLabel, FallbackLabel, RenameLabel, DeleteLabel, MindLabel
      <4>4. p.uid # 0
        BY <3>4 DEF AccountGroup, At, Steady, NumberedLabel
      <4>5. QED
        BY <4>1, <4>2, <4>3, <4>4 DEF Steady
    <3>5. QED
      BY <1>3, <3>1, <3>2, <3>3, <3>4
  <2>5. QED
    BY <2>3, <2>4, CalmStep
<1>4. QED
  BY <1>1, <1>2, <1>3

\* The steps of UpdateAccount: a rename keeps the memberships, and then there is
\* nothing left under the old name for the loop over the groups to take away.
LEMMA UpdateAccountMembers ==
    ASSUME DirectoryTypeOK, SetUp, NEW w \in Worker, Known(proc[w]), Joining(proc[w]), Members,
           Steady(proc[w]), Minding(proc[w]), Attached(InFlux(proc[w])),
           \/ UpdateFind(w) \/ UpdateTaken(w) \/ UpdateRename(w) \/ UpdateGroups(w)
           \/ UpdateLeave(w) \/ UpdateJoin(w) \/ UpdateModify(w)
    PROVE  MemberStep(w)
<1> DEFINE p == proc[w]
<1>0. /\ Known(p) /\ Returns(p) /\ Fits(p, p.pc) /\ Permits(p.req, p.pc) /\ p.todo \subseteq Group
  BY DEF Known, ProcState, Joining, Steady
<1>1. InFlux(p) = {} /\ Attached({})
  BY DEF InFlux, UpdateFind, UpdateTaken, UpdateRename, UpdateGroups, UpdateLeave, UpdateJoin,
         UpdateModify, At
<1>2. p.pc \in RenameLabel => \A l \in RenameLabel \cup {"update_modify"} : Permits(p.req, l)
  BY <1>0 DEF Permits, RenameLabel, DeleteLabel, Label, AccountLabel, SetupLabel, FallbackLabel
<1>3. \A l \in RenameLabel \cup {"update_modify"} : l \notin NumberedLabel
  BY DEF RenameLabel, NumberedLabel
<1>4. \A err : Steady(Answer(p, err)) /\ Answer(p, err).pc \notin MindLabel
  BY <1>0, SteadyMoves DEF MindLabel
<1>5. CASE UpdateFind(w) \/ UpdateTaken(w)
  <2>1. Members' /\ Attached({})'
    BY <1>1, <1>5, SameMembers DEF UpdateFind, UpdateTaken, directory
  <2>2. PICK q : Become(w, q) /\ Steady(q) /\ q.pc \notin MindLabel
    <3>1. CASE UpdateFind(w)
      <4>1. p.pc = "update_find" /\ p.req.user \in User /\ p.req.to \in User \cup {NoName}
        BY <1>0, <3>1 DEF UpdateFind, At, Fits, RequestUserLabel
      <4>2. ASSUME NEW u \in User, NEW l, Permits(p.req, l), l \in {"update_taken", "update_modify"}
            PROVE  /\ Steady(Goto([p EXCEPT !.user = u], l))
                   /\ Goto([p EXCEPT !.user = u], l).pc \notin MindLabel
        <5> DEFINE r == [p EXCEPT !.user = u]
        <5>1. Known(r) /\ Returns(r) /\ Steady(r) /\ r.req = p.req /\ r \in ProcState(Label)
          BY <1>0, LocalKnown, LocalReturns, LocalSteady DEF Known, ProcState
        <5>2. Goto(r, l).pc = l
          BY <5>1 DEF Goto, ProcState
        <5>3. QED
          BY <4>2, <5>1, <5>2, SteadyMoves DEF MindLabel, NumberedLabel
      <4>3. Permits(p.req, "update_modify")
        BY PermittedLabels
        DEF Label, AccountLabel, SetupLabel, FallbackLabel, RenameLabel, DeleteLabel
      <4>4. p.req.to \notin {NoName, p.req.user} => Permits(p.req, "update_taken")
        BY <1>0, <4>1
        DEF Permits, RenameLabel, DeleteLabel, Label, AccountLabel, SetupLabel, FallbackLabel
      <4>5. QED
        BY <1>4, <3>1, <4>1, <4>2, <4>3, <4>4 DEF UpdateFind
    <3>2. CASE UpdateTaken(w)
      <4>1. Permits(p.req, "update_rename")
        BY <1>2, <3>2 DEF UpdateTaken, At, RenameLabel
      <4>2. Steady(Goto(p, "update_rename")) /\ Goto(p, "update_rename").pc \notin MindLabel
        BY <1>0, <4>1, SteadyMoves DEF Goto, Known, ProcState, MindLabel, NumberedLabel
      <4>3. QED
        BY <1>4, <3>2, <4>2 DEF UpdateTaken
    <3>3. QED
      BY <1>5, <3>1, <3>2
  <2>3. QED
    BY <2>1, <2>2, CalmStep
<1>6. CASE UpdateRename(w)
  <2>1. /\ p.pc = "update_rename" /\ RefInt /\ p.req.user # Admin
        /\ p.req.user \in User /\ p.user \in User
    BY <1>0, <1>6
    DEF UpdateRename, At, Permits, RenameLabel, Fits, UserLabel, RequestUserLabel
  <2>2. Members' /\ Attached({})'
    BY <1>1, <1>6, <2>1, AccountMembers DEF UpdateRename
  <2>3. CASE RenameAccountCode(p.req.user, p.user) = "ok"
    <3>1. PICK q : q = Goto(p, "update_groups")
      OBVIOUS
    <3>2. Become(w, q)
      BY <1>6, <2>3, <3>1 DEF UpdateRename
    <3>3. Steady(q) /\ q.pc = "update_groups" /\ q.user = p.user /\ q.req = p.req
      BY <1>0, <1>2, <1>3, <2>1, <3>1, SteadyMoves DEF Goto, Known, ProcState, RenameLabel
    <3>4. AccountExists(q.user)' /\ ~AccountExists(q.req.user)'
      BY <1>6, <2>1, <2>3, <3>3
      DEF UpdateRename, RenameAccount, RenameAccountCode, AccountExists, DirectoryTypeOK, NoAccount
    <3>5. Minding(q)' /\ InFlux(q) = {}
      BY <3>3, <3>4 DEF Minding, InFlux
    <3>6. QED
      BY <2>2, <3>2, <3>3, <3>5 DEF MemberStep
  <2>4. CASE RenameAccountCode(p.req.user, p.user) # "ok"
    <3>1. PICK err : Become(w, Answer(p, err))
      BY <1>6, <2>4 DEF UpdateRename
    <3>2. QED
      BY <1>4, <2>2, <3>1, CalmStep
  <2>5. QED
    BY <2>3, <2>4
<1>7. CASE UpdateGroups(w) \/ UpdateLeave(w) \/ UpdateJoin(w)
  <2>1. /\ p.pc \in {"update_groups", "update_leave", "update_join"}
        /\ AccountExists(p.user) /\ ~AccountExists(p.req.user)
    BY <1>7 DEF UpdateGroups, UpdateLeave, UpdateJoin, At, Minding
  <2>2. Members' /\ Attached({})' /\ account' = account
    <3>1. CASE UpdateGroups(w)
      BY <1>1, <3>1, SameMembers DEF UpdateGroups, directory
    <3>2. CASE UpdateLeave(w)
      <4>1. PICK g \in p.todo : DeleteValue(g, p.req.user)
        BY <3>2 DEF UpdateLeave
      <4>2. DeleteValueCode(g, p.req.user) # "ok"
        BY <1>0, <2>1 DEF DeleteValueCode, Members, IsMember
      <4>3. QED
        BY <1>1, <4>1, <4>2, SameMembers DEF DeleteValue
    <3>3. CASE UpdateJoin(w)
      <4>1. AddValue(p.group, p.user)
        BY <3>3 DEF UpdateJoin
      <4>2. QED
        BY <1>1, <2>1, <4>1, GroupMembers DEF AddValue
    <3>4. QED
      BY <1>7, <3>1, <3>2, <3>3
  <2>3. PICK q : /\ Become(w, q) /\ Steady(q) /\ q.user = p.user /\ q.req = p.req
                 /\ q.pc \in {"update_leave", "update_join", "update_modify", "reply"}
    <3>1. ASSUME NEW r, Known(r), Returns(r), Steady(r), r.req = p.req,
                 NEW l \in {"update_leave", "update_join", "update_modify"}
          PROVE  /\ Steady(Goto(r, l)) /\ Goto(r, l).pc = l
                 /\ Goto(r, l).user = r.user /\ Goto(r, l).req = p.req
      <4>1. Permits(r.req, l) /\ l \notin NumberedLabel
        BY <1>2, <1>3, <2>1, <3>1 DEF RenameLabel
      <4>2. QED
        BY <3>1, <4>1, SteadyMoves DEF Goto, Known, ProcState
    <3>2. \A err : /\ Steady(Answer(p, err)) /\ Answer(p, err).pc = "reply"
                   /\ Answer(p, err).user = p.user /\ Answer(p, err).req = p.req
      BY <1>0, SteadyMoves DEF Answer, Known, ProcState
    <3>3. \A S \in SUBSET Group :
             /\ Known([p EXCEPT !.todo = S]) /\ Returns([p EXCEPT !.todo = S])
             /\ Steady([p EXCEPT !.todo = S])
             /\ [p EXCEPT !.todo = S].user = p.user /\ [p EXCEPT !.todo = S].req = p.req
      BY <1>0, LocalKnown, LocalReturns, LocalSteady DEF Known, ProcState
    <3>4. CASE UpdateGroups(w) \/ UpdateJoin(w)
      <4>1. (\A u : GroupsOf(u) \in SUBSET Group) /\ \A g : p.todo \ {g} \in SUBSET Group
        BY <1>0 DEF GroupsOf
      <4>2. \A S \in SUBSET Group :
               \E q : /\ q = NextGroup([p EXCEPT !.todo = S], "update_leave", "update_modify")
                      /\ Steady(q) /\ q.user = p.user /\ q.req = p.req
                      /\ q.pc \in {"update_leave", "update_join", "update_modify", "reply"}
        <5> SUFFICES ASSUME NEW S \in SUBSET Group
                     PROVE  \E q : /\ q = NextGroup([p EXCEPT !.todo = S],
                                                     "update_leave", "update_modify")
                                   /\ Steady(q) /\ q.user = p.user /\ q.req = p.req
                                   /\ q.pc \in {"update_leave", "update_modify"}
          OBVIOUS
        <5> DEFINE r == [p EXCEPT !.todo = S]
        <5>1. Known(r) /\ Returns(r) /\ Steady(r) /\ r.user = p.user /\ r.req = p.req
          BY <3>3
        <5> HIDE DEF r
        <5>2. PICK l \in {"update_leave", "update_modify"} :
                 NextGroup(r, "update_leave", "update_modify") = Goto(r, l)
          BY DEF NextGroup
        <5>3. /\ Steady(Goto(r, l)) /\ Goto(r, l).pc = l
              /\ Goto(r, l).user = p.user /\ Goto(r, l).req = p.req
          BY <3>1, <5>1
        <5>4. QED
          BY <5>2, <5>3 DEF r
      <4>3. \/ \E err : Become(w, Answer(p, err))
            \/ \E S \in SUBSET Group :
                  Become(w, NextGroup([p EXCEPT !.todo = S], "update_leave", "update_modify"))
        BY <3>4, <4>1 DEF UpdateGroups, UpdateJoin
      <4>4. QED
        BY <3>2, <4>2, <4>3
    <3>5. CASE UpdateLeave(w)
      <4>1. PICK g \in p.todo : \E err : \/ Become(w, Goto([p EXCEPT !.group = g], "update_join"))
                                         \/ Become(w, Answer(p, err))
        BY <3>5 DEF UpdateLeave
      <4> DEFINE r == [p EXCEPT !.group = g]
      <4>2. Known(r) /\ Returns(r) /\ Steady(r) /\ r.req = p.req /\ r.user = p.user
        BY <1>0, <4>1, LocalKnown, LocalReturns, LocalSteady DEF Known, ProcState
      <4>3. /\ Steady(Goto(r, "update_join")) /\ Goto(r, "update_join").pc = "update_join"
            /\ Goto(r, "update_join").user = p.user /\ Goto(r, "update_join").req = p.req
        BY <3>1, <4>2
      <4>4. QED
        BY <3>2, <4>1, <4>3
    <3>6. QED
      BY <1>7, <3>4, <3>5
  <2>4. AccountExists(q.user)' /\ ~AccountExists(q.req.user)'
    BY <2>1, <2>2, <2>3 DEF AccountExists
  <2>5. Minding(q)' /\ InFlux(q) = {}
    BY <2>3, <2>4 DEF Minding, InFlux
  <2>6. QED
    BY <2>2, <2>3, <2>5 DEF MemberStep
<1>8. CASE UpdateModify(w)
  <2>1. PICK e : (AccountExists(p.user) => e.uid # 0) /\ ModifyAccount(p.user, e)
    <3>1. MinID \in Nat \ {0} /\ p.req.uid \in Nat
      BY DirectoryAssumption DEF Known, ProcState, Request
    <3>2. PICK e : /\ ModifyAccount(p.user, e)
                   /\ e.uid = IF p.req.admin /\ p.req.uid >= MinID THEN p.req.uid
                                                                  ELSE account[p.user].uid
      BY <1>8 DEF UpdateModify
    <3>3. QED
      BY <3>1, <3>2 DEF AccountExists
  <2>2. Members' /\ Attached({})'
    BY <1>1, <2>1, AccountMembers
  <2>3. PICK err : Become(w, Answer(p, err))
    BY <1>8 DEF UpdateModify
  <2>4. QED
    BY <1>4, <2>2, <2>3, CalmStep
<1>9. QED
  BY <1>5, <1>6, <1>7, <1>8

\* The steps of DeleteAccount: the memberships go first, and none of them is the
\* last one of its group, so that the entry that goes last has none left.
LEMMA DeleteAccountMembers ==
    ASSUME DirectoryTypeOK, SetUp, NEW w \in Worker, Known(proc[w]), Joining(proc[w]), Members,
           Steady(proc[w]), Minding(proc[w]), Attached(InFlux(proc[w])),
           DeleteGroups(w) \/ DeleteLeave(w) \/ DeleteEntry(w)
    PROVE  MemberStep(w)
<1> DEFINE p == proc[w]
           Going(r, u) == /\ Steady(r) /\ r.req.user = u
                          /\ r.pc \in {"delete_leave", "delete_entry"}
                          /\ r.pc = "delete_entry" <=> r.todo = {}
<1>0. /\ Known(p) /\ Returns(p) /\ Fits(p, p.pc) /\ Permits(p.req, p.pc) /\ p.todo \subseteq Group
  BY DEF Known, ProcState, Joining, Steady
<1>1. PICK u \in User : u = p.req.user /\ u # Admin
  BY <1>0
  DEF DeleteGroups, DeleteLeave, DeleteEntry, At, Fits, RequestUserLabel, Permits, DeleteLabel
<1>2. \A l \in {"delete_leave", "delete_entry"} : Permits(p.req, l) /\ l \notin NumberedLabel
  BY <1>1
  DEF Permits, RenameLabel, DeleteLabel, Label, AccountLabel, SetupLabel, FallbackLabel,
      NumberedLabel
<1>3. ASSUME NEW S \in SUBSET Group
      PROVE  \E q : /\ q = NextGroup([p EXCEPT !.todo = S], "delete_leave", "delete_entry")
                    /\ q.todo = S /\ Going(q, u)
  <2> DEFINE r == [p EXCEPT !.todo = S]
  <2>1. Known(r) /\ Returns(r) /\ Steady(r) /\ r.req = p.req /\ r.todo = S /\ r \in ProcState(Label)
    BY <1>0, LocalKnown, LocalReturns, LocalSteady DEF Known, ProcState
  <2> HIDE DEF r
  <2>2. PICK l \in {"delete_leave", "delete_entry"} :
           /\ NextGroup(r, "delete_leave", "delete_entry") = Goto(r, l)
           /\ l = "delete_entry" <=> r.todo = {}
    BY DEF NextGroup
  <2>3. /\ Goto(r, l).pc = l /\ Goto(r, l).todo = S /\ Goto(r, l).req = p.req
    BY <2>1 DEF Goto, ProcState
  <2>4. Steady(Goto(r, l))
    BY <1>2, <2>1, <2>2, SteadyMoves
  <2>5. QED
    BY <1>1, <2>1, <2>2, <2>3, <2>4 DEF r
<1>4. ASSUME NEW q, Become(w, q), Going(q, u), Members', Attached({u})', (GroupsOf(u) \subseteq q.todo)'
      PROVE  MemberStep(w)
  <2>1. InFlux(q) = {u} /\ Minding(q)' /\ Steady(q)
    BY <1>4 DEF InFlux, Minding
  <2>2. QED
    BY <1>4, <2>1 DEF MemberStep
<1>5. CASE DeleteGroups(w)
  <2>1. InFlux(p) = {} /\ UNCHANGED <<account, group>>
    BY <1>5 DEF DeleteGroups, At, InFlux, directory
  <2>2. Members' /\ Attached({})'
    BY <2>1, SameMembers
  <2>3. GroupsOf(u) \in SUBSET Group /\ GroupsOf(u)' = GroupsOf(u)
    BY <2>1 DEF GroupsOf, IsMember
  <2>4. PICK q : /\ q = NextGroup([p EXCEPT !.todo = GroupsOf(u)], "delete_leave", "delete_entry")
                 /\ q.todo = GroupsOf(u) /\ Going(q, u)
    BY <1>3, <2>3
  <2>5. Become(w, q)
    BY <1>1, <1>5, <2>4 DEF DeleteGroups, SetUp
  <2>6. Attached({u})'
    BY <2>2 DEF Attached
  <2>7. QED
    BY <1>4, <2>2, <2>3, <2>4, <2>5, <2>6
<1>6. CASE DeleteLeave(w)
  <2>1. p.pc = "delete_leave" /\ InFlux(p) = {u} /\ GroupsOf(u) \subseteq p.todo
    BY <1>1, <1>6 DEF DeleteLeave, At, InFlux, Minding
  <2>2. PICK g \in p.todo :
           /\ DeleteValue(g, u)
           /\ Become(w, IF DeleteMemberError(g, u) = "LastMember"
                        THEN Answer(p, DeleteMemberError(g, u))
                        ELSE NextGroup([p EXCEPT !.todo = @ \ {g}], "delete_leave", "delete_entry"))
    BY <1>1, <1>6 DEF DeleteLeave
  <2>3. g \in Group
    BY <1>0
  <2>4. Members' /\ Attached({u})'
    BY <1>1, <2>1, <2>2, GroupMembers
  <2>5. DeleteMemberError(g, u) # "LastMember"
    BY <1>1, <2>3 DEF DeleteMemberError, DeleteValueCode, Members, IsMember
  <2>6. GroupsOf(u)' \subseteq p.todo \ {g}
    <3>1. \A h \in Group : /\ h # g => group'[h] = group[h]
                           /\ group'[g].members = IF DeleteValueCode(g, u) = "ok"
                                                  THEN group[g].members \ {u}
                                                  ELSE group[g].members
      BY <2>2, <2>3 DEF DeleteValue, DirectoryTypeOK, GroupEntry
    <3>2. DeleteValueCode(g, u) # "ok" => u \notin group[g].members
      BY <1>1, <2>3 DEF DeleteValueCode, Members, IsMember
    <3>3. QED
      BY <2>1, <2>3, <3>1, <3>2 DEF GroupsOf, IsMember
  <2>7. PICK q : /\ q = NextGroup([p EXCEPT !.todo = p.todo \ {g}], "delete_leave", "delete_entry")
                 /\ q.todo = p.todo \ {g} /\ Going(q, u)
    BY <1>0, <1>3
  <2>8. Become(w, q)
    BY <2>2, <2>5, <2>7
  <2>9. QED
    BY <1>4, <2>4, <2>6, <2>7, <2>8
<1>7. CASE DeleteEntry(w)
  <2>1. p.pc = "delete_entry" /\ InFlux(p) = {u} /\ GroupsOf(u) = {} /\ DelAccount(u)
    BY <1>1, <1>7 DEF DeleteEntry, At, InFlux, Minding
  <2>2. Members' /\ Attached({u} \ {u})'
    BY <1>1, <2>1, AccountMembers
  <2>3. Attached({})'
    BY <2>2
  <2>4. PICK err : Become(w, Answer(p, err))
    BY <1>7 DEF DeleteEntry
  <2>5. Steady(Answer(p, err)) /\ Answer(p, err).pc \notin MindLabel
    BY <1>0, SteadyMoves DEF MindLabel
  <2>6. QED
    BY <2>2, <2>3, <2>4, <2>5, CalmStep
<1>8. QED
  BY <1>5, <1>6, <1>7

-----------------------------------------------------------------------------
(* The whole. *)

LEMMA IdleSteady == Steady(Idle) /\ Idle.pc \notin MindLabel
<1>1. /\ Idle.pc = "idle" /\ Idle.ret["NewGroup"] = "reply" /\ Idle.ret["NewAccount"] = "reply"
      /\ Idle.ret["setupLastID"] = "reply" /\ Idle.req.op = "none" /\ Idle.members = {}
  BY DEF Idle, Function, NoRequest
<1>2. Permits(Idle.req, "idle")
  BY DEF Permits, Label, SetupLabel, FallbackLabel, RenameLabel, DeleteLabel
<1>3. QED
  BY <1>1, <1>2 DEF Steady, NumberedLabel, MindLabel

\* A handler relies on nothing yet when it starts, except that the entry of a
\* default group is added to without a check, which no client asks for.
LEMMA ServeSteady ==
    ASSUME SteadyClients, NEW r \in Requests
    PROVE  Steady(Serve(r)) /\ Serve(r).pc \notin MindLabel
<1> DEFINE p == [Idle EXCEPT !.req = r]
           Fine(q) == Steady(q) /\ q.pc \notin MindLabel
<1>1. /\ r \in Request /\ WellFormed(r)
      /\ r.op \in {"NewGroup", "DeleteGroup", "UpdateGroup", "AddGroupMember",
                   "DeleteGroupMember", "NewAccount", "UpdateAccount", "DeleteAccount"}
  BY ManagerAssumption DEF WellFormed, Request
<1>2. Known(p) /\ Returns(p)
  BY <1>1, IdleKnown, IdleJoins
<1>3. /\ p.req = r /\ p.members = {} /\ p.ret["setupLastID"] = "reply"
      /\ p.ret["NewGroup"] = "reply" /\ p.ret["NewAccount"] = "reply" /\ p.pc = "idle"
  BY DEF Idle, Function
<1>4. Steady(p)
  <2>1. Permits(r, "idle")
    BY DEF Permits, Label, SetupLabel, FallbackLabel, RenameLabel, DeleteLabel
  <2>2. QED
    BY <1>1, <1>3, <2>1 DEF Steady, NumberedLabel
<1> HIDE DEF p
<1>5. \A err : Fine(Answer(p, err))
  BY <1>2, <1>4, SteadyMoves DEF MindLabel
<1>6. ASSUME NEW q, Known(q), Returns(q), Steady(q), q.req = r, NEW l,
             Permits(r, l), l \notin MindLabel \cup NumberedLabel
      PROVE  Fine(Goto(q, l))
  BY <1>6, SteadyMoves DEF Goto, Known, ProcState
<1>7. \A l \in {"delete_group", "update_group_rename", "update_group_modify", "new_group_find",
                "new_account_find", "add_member_check"} :
         Permits(r, l) /\ l \notin MindLabel \cup NumberedLabel
  BY PermittedLabels
  DEF Label, GroupLabel, AccountLabel, SetupLabel, FallbackLabel, RenameLabel, DeleteLabel,
      MindLabel, NumberedLabel
<1>8. /\ r.op = "UpdateAccount" => Permits(r, "update_find")
      /\ r.op = "DeleteAccount" => Permits(r, "delete_groups")
      /\ r.op = "DeleteGroupMember" => Permits(r, "delete_member")
      /\ \A l \in {"update_find", "delete_groups", "delete_member"} :
            l \notin MindLabel \cup NumberedLabel
  BY DEF SteadyClients, Permits, Label, GroupLabel, AccountLabel, SetupLabel, FallbackLabel,
         RenameLabel, DeleteLabel, MindLabel, NumberedLabel
<1>9. CASE r.op \in {"DeleteGroup", "DeleteGroupMember", "DeleteAccount", "UpdateAccount"}
  BY <1>2, <1>3, <1>4, <1>5, <1>6, <1>7, <1>8, <1>9
  DEF Serve, DeleteGroup, DeleteGroupMember, DeleteAccount, p
<1>10. CASE r.op = "UpdateGroup"
  <2>1. Fine(UpdateGroup(p))
    <3> DEFINE q == [p EXCEPT !.group = r.group]
    <3>1. r.group # NoName => Known(q) /\ Returns(q) /\ Steady(q)
      BY <1>1, <1>2, <1>4, LocalKnown, LocalReturns, LocalSteady DEF Request
    <3>2. q.req = r
      BY <1>2, <1>3 DEF Known, ProcState
    <3>3. QED
      BY <1>2, <1>3, <1>4, <1>5, <1>6, <1>7, <3>1, <3>2 DEF UpdateGroup
  <2>2. QED
    BY <1>10, <2>1 DEF Serve, p
<1>11. CASE r.op = "NewGroup"
  <2> DEFINE q == NewGroup(p, r.group, r.members, "reply")
  <2>1. /\ q.pc = "new_group_find" /\ q.req = r /\ q.members = r.members
        /\ \A f \in Function : q.ret[f] = IF f = "NewGroup" THEN "reply" ELSE p.ret[f]
    BY <1>2, <1>3 DEF NewGroup, Known, ProcState
  <2>2. r.members \subseteq {Admin}
    BY <1>11 DEF SteadyClients
  <2>3. Fine(q)
    BY <1>3, <1>7, <1>11, <2>1, <2>2 DEF Steady, Function
  <2>4. Fine(ServeNewGroup(p))
    BY <1>3, <1>5, <2>3 DEF ServeNewGroup
  <2>5. QED
    BY <1>11, <2>4 DEF Serve, p
<1>12. CASE r.op = "NewAccount"
  <2> DEFINE q == NewAccount(p, r.user, "reply")
  <2>1. /\ q.pc = "new_account_find" /\ q.req = r /\ q.members = {}
        /\ \A f \in Function : q.ret[f] = IF f = "NewAccount" THEN "reply" ELSE p.ret[f]
    BY <1>2, <1>3 DEF NewAccount, Known, ProcState
  <2>2. Fine(q)
    BY <1>3, <1>7, <1>12, <2>1 DEF Steady, Function
  <2>3. QED
    BY <1>12, <2>2 DEF Serve, p
<1>13. CASE r.op = "AddGroupMember"
  <2> DEFINE q == AddGroupMember(p, r.group, r.user, FALSE, "reply")
  <2>1. ~IsProtectedGroup(r.group)
    BY <1>13 DEF SteadyClients
  <2>2. /\ q.pc = "add_member_check" /\ q.req = r /\ q.members = {}
        /\ \A f \in Function : q.ret[f] = IF f = "AddGroupMember" THEN "reply" ELSE p.ret[f]
    BY <1>2, <1>3, <2>1 DEF AddGroupMember, Known, ProcState
  <2>3. Fine(q)
    BY <1>3, <1>7, <1>13, <2>2 DEF Steady, Function
  <2>4. Fine(ServeAddGroupMember(p))
    BY <1>3, <1>5, <2>3 DEF ServeAddGroupMember
  <2>5. QED
    BY <1>13, <2>4 DEF Serve, p
<1>14. QED
  BY <1>1, <1>9, <1>10, <1>11, <1>12, <1>13

LEMMA MemberInvInit == OneAtATime /\ Init => MemberInv
<1> SUFFICES ASSUME OneAtATime, Init PROVE MemberInv
  OBVIOUS
<1>1. JoinInv /\ Undisturbed
  BY JoinInvInit, UndisturbedInit DEF OneAtATime
<1>2. ReadyDirectory(Admin) /\ \A w \in Worker : proc[w] = Idle
  BY DEF Init, OneAtATime
<1>3. /\ \A u \in User : account[u].uid # 0 <=> u = Admin
      /\ \A g \in Group : /\ group[g].gid # 0 <=> g \in {UsersGroup, AdminsGroup}
                          /\ group[g].members = IF g \in {UsersGroup, AdminsGroup} THEN {Admin} ELSE {}
  BY <1>2, DirectoryAssumption DEF ReadyDirectory, NoAccount, NoGroup
<1>4. Members /\ Attached({})
  BY <1>3, DirectoryAssumption, WorkerAssumption
  DEF Members, Attached, AccountExists, GroupExists, IsMember
<1>5. QED
  BY <1>1, <1>2, <1>4, IdleSteady, Unminding DEF MemberInv

LEMMA MemberInvStep ==
    ASSUME OneAtATime, NoProtectedRename, SteadyClients
    PROVE  MemberInv /\ [Next]_vars => MemberInv'
<1> SUFFICES ASSUME MemberInv, [Next]_vars PROVE MemberInv'
  OBVIOUS
<1>1. /\ JoinInv /\ DirectoryTypeOK /\ SetUp /\ proc \in [Worker -> ProcState(Label)]
      /\ \A w \in Worker : Known(proc[w]) /\ Joining(proc[w])
  BY DEF MemberInv, JoinInv, TypeInv, TypeOK
<1>2. JoinInv'
  BY <1>1, JoinInvStep
<1>3. CASE UNCHANGED vars
  <2>1. Undisturbed' /\ Members'
    BY <1>3
    DEF MemberInv, Undisturbed, Members, AccountExists, GroupExists, IsMember, vars, directory
  <2>2. ASSUME NEW w \in Worker
        PROVE  Steady(proc[w])' /\ Minding(proc[w])' /\ Attached(InFlux(proc[w]))'
    <3>1. Steady(proc[w])' /\ Minding(proc[w])'
      BY <1>3
      DEF MemberInv, Steady, Minding, AccountExists, GroupsOf, IsMember, vars, directory
    <3>2. Attached(InFlux(proc[w]))'
      BY <1>3 DEF MemberInv, Attached, InFlux, AccountExists, IsMember, vars, directory
    <3>3. QED
      BY <3>1, <3>2
  <2>3. QED
    BY <1>2, <2>1, <2>2 DEF MemberInv
<1>4. CASE Next
  <2>1. \A w \in Worker : proc[w].req.op # "SetupLDAP"
    BY DEF MemberInv, Steady
  <2>2. Undisturbed' /\ \E w \in Worker : Accept(w) \/ Step(w) \/ Reply(w)
    BY <1>4, <2>1, UndisturbedSteps DEF MemberInv, OneAtATime
  <2>3. PICK w \in Worker : Accept(w) \/ Step(w) \/ Reply(w)
    BY <2>2
  <2>4. \A v \in Worker : v = w
    BY DEF OneAtATime
  <2>5. Members /\ Steady(proc[w]) /\ Minding(proc[w]) /\ Attached(InFlux(proc[w]))
    BY DEF MemberInv
  <2>6. ASSUME MemberStep(w) PROVE MemberInv'
    <3>1. PICK q : Become(w, q) /\ Steady(q) /\ Minding(q)' /\ Attached(InFlux(q))'
      BY <2>6 DEF MemberStep
    <3>2. proc'[w] = q
      BY <1>1, <3>1 DEF Become
    <3>3. Steady(proc[w])' /\ Minding(proc[w])'
      BY <3>1, <3>2 DEF Steady, Minding
    <3>4. Attached(InFlux(proc[w]))'
      BY <3>1, <3>2 DEF Attached, InFlux
    <3>5. QED
      BY <1>2, <2>2, <2>4, <2>6, <3>3, <3>4 DEF MemberInv, MemberStep
  <2>7. CASE Step(w)
    <3>1. ~SetupStep(w)
      BY <2>5
      DEF Steady, Permits, SetupStep, SetupGroupsOU, SetupUsersOU, SetupLastGID, SetupLastUID,
          SetupAdminsGroup, SetupAdminMade, SetupAdminsMade, SetupAdminNotForced,
          SetupAdminForced, At, SetupLabel
    <3>2. CASE GroupStep(w)
      BY <1>1, <2>5, <2>6, <3>2, GroupStepMembers
    <3>3. CASE AccountStep(w)
      BY <1>1, <2>5, <2>6, <3>3, NewAccountMembers, UpdateAccountMembers, DeleteAccountMembers
      DEF AccountStep
    <3>4. QED
      BY <2>7, <3>1, <3>2, <3>3 DEF Step
  <2>8. CASE Accept(w) \/ Reply(w)
    <3>1. UNCHANGED directory /\ proc[w].pc \notin MindLabel
      BY <2>8 DEF Accept, Reply, At, MindLabel
    <3>2. Members' /\ Attached({})'
      BY <2>5, <3>1, Unminding, SameMembers DEF directory
    <3>3. PICK q : Become(w, q) /\ Steady(q) /\ q.pc \notin MindLabel
      BY <2>8, ServeSteady, IdleSteady DEF Accept, Reply
    <3>4. QED
      BY <2>6, <3>2, <3>3, CalmStep
  <2>9. QED
    BY <2>3, <2>7, <2>8
<1>5. QED
  BY <1>3, <1>4

\* As long as requests come one at a time and are not interrupted by a crash,
\* between two of them every account is a member of the default user group:
\* AddGroupMember, which takes that membership for the account, refuses none of
\* them.  The clients are steady: they leave that group to NewAccount and
\* DeleteAccount, found groups with the administrator alone in them and never take
\* the administrator out of a group, and rename accounts only where the server
\* keeps referential integrity, the default groups never.  A group that loses its
\* last member with the account would stop DeleteAccount halfway (accounts.go:548),
\* an account that has left the default group already.
THEOREM LoneRequestsKeepUsers ==
    ASSUME OneAtATime, NoProtectedRename, SteadyClients
    PROVE  Spec => []AccountsAreUsers
<1>1. MemberInv => AccountsAreUsers
  <2> SUFFICES ASSUME MemberInv, Quiet, NEW u \in User, AccountExists(u)
               PROVE  IsMember(u, UsersGroup)
    BY DEF AccountsAreUsers
  <2>1. PICK w \in Worker : At(w, "idle")
    BY DEF OneAtATime, Quiet
  <2>2. InFlux(proc[w]) = {}
    BY <2>1 DEF At, InFlux
  <2>3. QED
    BY <2>2 DEF MemberInv, Attached
<1>2. QED
  BY <1>1, MemberInvInit, MemberInvStep, PTL DEF Spec

\* With clients that are steady in the same sense, every group member is an
\* account at every moment, also while the request is under way.  Renames without
\* the overlay are among what they must not ask for: they leave the old name behind
\* in every group, between requests too (NoDanglingMembers).
THEOREM LoneRequestsLeaveNoDangling ==
    ASSUME OneAtATime, NoProtectedRename, SteadyClients
    PROVE  Spec => []MembersExist
<1>1. MemberInv => MembersExist
  BY DEF MemberInv, Members, MembersExist
<1>2. QED
  BY <1>1, MemberInvInit, MemberInvStep, PTL DEF Spec

-----------------------------------------------------------------------------
(***************************************************************************)
(* Deletions.  Whatever the clients ask for, renames, groups with a last   *)
(* member and explicit numbers included, and wherever it crashes, a lone   *)
(* goroutine that reports a deletion has taken the account out of every    *)
(* group: the groups it has yet to leave are among those it has listed.    *)
(***************************************************************************)

Parting(p) ==
    p.req.op = "DeleteAccount" =>
        /\ p.pc \in DeleteLabel \cup {"reply"}
        /\ p.pc = "delete_leave" => GroupsOf(p.req.user) \subseteq p.todo
        /\ p.pc = "delete_entry" => GroupsOf(p.req.user) = {}
        /\ p.pc = "reply" /\ p.err = "ok" => GroupsOf(p.req.user) = {}

\* No entry, no members: a group that is gone needs no leaving.
NoGhosts == \A g \in Group : group[g].gid = 0 => group[g].members = {}

PartingInv == TypeInv /\ NoGhosts /\ \A w \in Worker : Parting(proc[w])

\* What every kind of round trip does to them.
LEMMA DirectoryGhosts ==
    ASSUME DirectoryTypeOK, NoGhosts
    PROVE  /\ UNCHANGED group => NoGhosts'
           /\ \A g, e : e.gid # 0 /\ AddGroup(g, e) => NoGhosts'
           /\ \A g, e : (GroupExists(g) => e.gid # 0) /\ ModifyGroup(g, e) => NoGhosts'
           /\ \A u, v : RenameAccount(u, v) \/ DelAccount(u) => NoGhosts'
           /\ \A g, h \in Group : RenameGroup(g, h) => NoGhosts'
           /\ \A g \in Group : DelGroup(g) => NoGhosts'
           /\ \A g, u : AddValue(g, u) \/ DeleteValue(g, u) => NoGhosts'
<1> USE DEF DirectoryTypeOK, GroupEntry, NoGhosts, NoGroup
<1>1. UNCHANGED group => NoGhosts'
  OBVIOUS
<1>2. ASSUME NEW g, NEW e, e.gid # 0, AddGroup(g, e) PROVE NoGhosts'
  BY <1>2 DEF AddGroup
<1>3. ASSUME NEW g, NEW e, GroupExists(g) => e.gid # 0, ModifyGroup(g, e) PROVE NoGhosts'
  BY <1>3 DEF ModifyGroup
<1>4. ASSUME NEW u, NEW v, RenameAccount(u, v) \/ DelAccount(u) PROVE NoGhosts'
  <2>1. \A g \in Group : /\ group'[g].gid = group[g].gid
                         /\ group[g].members = {} => group'[g].members = {}
    BY <1>4 DEF RenameAccount, DelAccount, IsMember
  <2> QED BY <2>1
<1>5. ASSUME NEW g \in Group, NEW h \in Group, RenameGroup(g, h) PROVE NoGhosts'
  BY <1>5 DEF RenameGroup
<1>6. ASSUME NEW g \in Group, DelGroup(g) PROVE NoGhosts'
  BY <1>6 DEF DelGroup
<1>7. ASSUME NEW g, NEW u, AddValue(g, u) \/ DeleteValue(g, u) PROVE NoGhosts'
  BY <1>7 DEF AddValue, AddValueCode, DeleteValue, GroupExists
<1>8. QED
  BY <1>1, <1>2, <1>3, <1>4, <1>5, <1>6, <1>7

LEMMA StepGhosts ==
    ASSUME DirectoryTypeOK, NoGhosts, NEW w \in Worker, Known(proc[w]), Step(w)
    PROVE  NoGhosts'
<1> DEFINE p == proc[w]
<1>0. /\ MinID \in Nat \ {0} /\ Fits(p, p.pc) /\ p.high \in Nat /\ p.req.gid \in Nat
  BY DirectoryAssumption DEF Known, ProcState, Request
<1>1. CASE NewGroupAdd(w)
  BY <1>0, <1>1, DirectoryGhosts DEF NewGroupAdd
<1>2. CASE DeleteGroupEntry(w) \/ UpdateGroupRename(w)
  BY <1>0, <1>2, DirectoryGhosts DEF DeleteGroupEntry, UpdateGroupRename, At, Fits
<1>3. CASE UpdateGroupModify(w)
  <2>1. p.group \in Group
    BY <1>0, <1>3 DEF UpdateGroupModify, At, Fits
  <2> DEFINE e == IF p.req.gid >= MinID THEN [group[p.group] EXCEPT !.gid = p.req.gid]
                                        ELSE group[p.group]
  <2>2. GroupExists(p.group) => e.gid # 0
    BY <1>0, <2>1 DEF GroupExists, DirectoryTypeOK, GroupEntry
  <2>3. ModifyGroup(p.group, e)
    BY <1>3 DEF UpdateGroupModify
  <2> HIDE DEF e
  <2>4. QED
    BY <2>2, <2>3, DirectoryGhosts
<1>4. CASE AddMember(w) \/ DeleteMember(w) \/ UpdateLeave(w) \/ UpdateJoin(w) \/ DeleteLeave(w)
           \/ SetupAdminForced(w)
  BY <1>4, DirectoryGhosts
  DEF AddMember, DeleteMember, UpdateLeave, UpdateJoin, DeleteLeave, SetupAdminForced
<1>5. CASE UpdateRename(w) \/ DeleteEntry(w)
  BY <1>5, DirectoryGhosts DEF UpdateRename, DeleteEntry
<1>6. CASE NewGroupLast(w) \/ LastIDAdd(w) \/ NewAccountAdd(w) \/ NewAccountLast(w)
           \/ UpdateModify(w) \/ SetupGroupsOU(w) \/ SetupUsersOU(w)
  BY <1>6, DirectoryGhosts
  DEF NewGroupLast, LastIDAdd, NewAccountAdd, NewAccountLast, UpdateModify, SetupGroupsOU,
      SetupUsersOU, ReplaceSerial, AddDevice, AddAccount, ModifyAccount, AddOU
<1>7. CASE UNCHANGED directory
  BY <1>7, DirectoryGhosts DEF directory
<1>8. CASE GroupStep(w)
  BY <1>1, <1>2, <1>3, <1>4, <1>6, <1>7, <1>8
  DEF GroupStep, HighestCached, HighestScan, NewGroupFind, NewGroupRefused, AddMemberCheck
<1>9. CASE AccountStep(w)
  BY <1>4, <1>5, <1>6, <1>7, <1>9
  DEF AccountStep, LastIDFailed, NewAccountFind, NewAccountNoOU, NewAccountUID, NewAccountRetry,
      NewAccountUIDAgain, AccountByGID, AccountGroup, AccountGroupMade, AccountGroupOwn,
      AccountGroupGID, NewAccountNotJoined, UpdateFind, UpdateTaken, UpdateGroups, DeleteGroups
<1>10. CASE SetupStep(w)
  BY <1>4, <1>6, <1>7, <1>10
  DEF SetupStep, SetupLastGID, SetupLastUID, SetupAdminsGroup, SetupAdminMade, SetupAdminsMade,
      SetupAdminNotForced
<1>11. QED
  BY <1>8, <1>9, <1>10 DEF Step

\* The three steps of DeleteAccount after the check of the name.
LEMMA DeleteParting ==
    ASSUME DirectoryTypeOK, NoGhosts, NEW w \in Worker, Known(proc[w]), Parting(proc[w]),
           proc[w].req.op = "DeleteAccount",
           DeleteGroups(w) \/ DeleteLeave(w) \/ DeleteEntry(w)
    PROVE  \E q : Become(w, q) /\ Parting(q)'
<1> DEFINE p == proc[w]
<1>1. /\ p \in ProcState(Label) /\ Fits(p, p.pc) /\ p.todo \subseteq Group
  BY DEF Known, ProcState
<1>2. PICK u \in User : u = p.req.user
  BY <1>1 DEF DeleteGroups, DeleteLeave, DeleteEntry, At, Fits, RequestUserLabel
<1>3. ASSUME NEW err, Become(w, Answer(p, err)), err = "ok" => GroupsOf(u)' = {}
      PROVE  \E q : Become(w, q) /\ Parting(q)'
  <2>1. PICK q : q = Answer(p, err)
    OBVIOUS
  <2>2. q.req.user = u /\ q.pc = "reply" /\ q.err = err
    BY <1>1, <1>2, <2>1 DEF Answer, ProcState
  <2>3. Parting(q)'
    BY <1>3, <2>2 DEF Parting
  <2> QED BY <1>3, <2>1, <2>3
<1>4. ASSUME NEW S \in SUBSET Group, GroupsOf(u)' \subseteq S,
             Become(w, NextGroup([p EXCEPT !.todo = S], "delete_leave", "delete_entry"))
      PROVE  \E q : Become(w, q) /\ Parting(q)'
  <2>1. PICK q : q = NextGroup([p EXCEPT !.todo = S], "delete_leave", "delete_entry")
    OBVIOUS
  <2>2. /\ q.req.user = u /\ q.todo = S
        /\ q.pc = IF S = {} THEN "delete_entry" ELSE "delete_leave"
    BY <1>1, <1>2, <2>1 DEF NextGroup, Goto, ProcState
  <2>3. Parting(q)'
    BY <1>4, <2>2 DEF Parting, DeleteLabel
  <2> QED BY <1>4, <2>1, <2>3
<1>5. CASE DeleteGroups(w)
  <2>1. GroupsOf(u) \in SUBSET Group /\ GroupsOf(u)' = GroupsOf(u)
    BY <1>5 DEF DeleteGroups, GroupsOf, IsMember, directory
  <2>2. CASE "groups" \in ous
    BY <1>2, <1>4, <1>5, <2>1, <2>2 DEF DeleteGroups
  <2>3. CASE "groups" \notin ous
    BY <1>3, <1>5, <2>3 DEF DeleteGroups
  <2> QED BY <2>2, <2>3
<1>6. CASE DeleteLeave(w)
  <2>1. GroupsOf(u) \subseteq p.todo
    BY <1>2, <1>6 DEF DeleteLeave, At, Parting
  <2>2. PICK g \in p.todo :
           /\ DeleteValue(g, u)
           /\ Become(w, IF DeleteMemberError(g, u) = "LastMember"
                        THEN Answer(p, DeleteMemberError(g, u))
                        ELSE NextGroup([p EXCEPT !.todo = @ \ {g}], "delete_leave", "delete_entry"))
    BY <1>2, <1>6 DEF DeleteLeave
  <2>3. g \in Group
    BY <1>1
  <2>4. CASE DeleteMemberError(g, u) = "LastMember"
    BY <1>3, <2>2, <2>4
  <2>5. CASE DeleteMemberError(g, u) # "LastMember"
    <3>1. /\ \A h \in Group \ {g} : group'[h] = group[h]
          /\ group'[g].members = IF DeleteValueCode(g, u) = "ok"
                                 THEN group[g].members \ {u}
                                 ELSE group[g].members
      BY <2>2, <2>3 DEF DeleteValue, DirectoryTypeOK, GroupEntry
    <3>2. DeleteValueCode(g, u) # "ok" => u \notin group[g].members
      BY <2>3, <2>5 DEF DeleteMemberError, DeleteValueCode, NoGhosts, IsMember, GroupExists
    <3>3. GroupsOf(u)' \subseteq p.todo \ {g}
      BY <2>1, <2>3, <3>1, <3>2 DEF GroupsOf, IsMember
    <3>4. p.todo \ {g} \in SUBSET Group
      BY <1>1
    <3>5. Become(w, NextGroup([p EXCEPT !.todo = p.todo \ {g}], "delete_leave", "delete_entry"))
      BY <2>2, <2>5
    <3> QED BY <1>4, <3>3, <3>4, <3>5
  <2> QED BY <2>4, <2>5
<1>7. CASE DeleteEntry(w)
  <2>1. GroupsOf(u) = {} /\ DelAccount(u) /\ Become(w, Answer(p, DelAccountCode(u)))
    BY <1>2, <1>7 DEF DeleteEntry, At, Parting
  <2>2. GroupsOf(u)' = {}
    <3>1. \A g \in Group : group'[g].members \subseteq group[g].members
      BY <2>1 DEF DelAccount, DirectoryTypeOK, GroupEntry
    <3> QED BY <2>1, <3>1 DEF GroupsOf, IsMember
  <2> QED BY <1>3, <2>1, <2>2
<1>8. QED
  BY <1>5, <1>6, <1>7

\* No other step ends up in DeleteAccount.
LEMMA StepParting ==
    ASSUME DirectoryTypeOK, NoGhosts, NEW w \in Worker, Known(proc[w]), Parting(proc[w]), Step(w)
    PROVE  \E q : Become(w, q) /\ Parting(q)'
<1>1. PICK q : Become(w, q) /\ q.req = proc[w].req
  BY StepLeads DEF Led
<1>2. CASE proc[w].req.op # "DeleteAccount"
  <2>1. q.req.op # "DeleteAccount"
    BY <1>1, <1>2
  <2> QED BY <1>1, <2>1 DEF Parting
<1>3. CASE proc[w].req.op = "DeleteAccount"
  <2>1. proc[w].pc \in DeleteLabel \cup {"reply"}
    BY <1>3 DEF Parting
  <2>2. ~GroupStep(w)
    BY <2>1
    DEF DeleteLabel, At, GroupStep, HighestCached, HighestScan, NewGroupFind, NewGroupRefused,
        NewGroupAdd, NewGroupLast, DeleteGroupEntry, UpdateGroupRename, UpdateGroupModify,
        AddMemberCheck, AddMember, DeleteMember
  <2>3. ~SetupStep(w)
    BY <2>1
    DEF DeleteLabel, At, SetupStep, SetupGroupsOU, SetupUsersOU, SetupLastGID, SetupLastUID,
        SetupAdminsGroup, SetupAdminMade, SetupAdminsMade, SetupAdminNotForced, SetupAdminForced
  <2>4. DeleteGroups(w) \/ DeleteLeave(w) \/ DeleteEntry(w)
    BY <2>1, <2>2, <2>3
    DEF DeleteLabel, At, Step, AccountStep, LastIDFailed, LastIDAdd, NewAccountFind,
        NewAccountNoOU, NewAccountUID, NewAccountRetry, NewAccountUIDAgain, AccountByGID,
        AccountGroup, AccountGroupMade, AccountGroupOwn, AccountGroupGID, NewAccountAdd,
        NewAccountNotJoined, NewAccountLast, UpdateFind, UpdateTaken, UpdateRename,
        UpdateGroups, UpdateLeave, UpdateJoin, UpdateModify
  <2> QED BY <1>3, <2>4, DeleteParting
<1>4. QED
  BY <1>2, <1>3

\* A deletion starts with the search for the groups, or is refused.
LEMMA ServeParting ==
    ASSUME NEW r \in Requests
    PROVE  \E q : q = Serve(r) /\ Parting(q)'
<1>1. PICK q : q = Serve(r)
  OBVIOUS
<1>2. q.req = r
  BY <1>1, ServeLeads
<1>3. CASE r.op # "DeleteAccount"
  BY <1>1, <1>2, <1>3 DEF Parting
<1>4. CASE r.op = "DeleteAccount"
  <2>1. PICK p : p = [Idle EXCEPT !.req = r]
    OBVIOUS
  <2>2. q = DeleteAccount(p)
    BY <1>1, <1>4, <2>1 DEF Serve
  <2>3. q.pc = "delete_groups" \/ (q.pc = "reply" /\ q.err = "Failed")
    BY <2>1, <2>2 DEF DeleteAccount, Answer, Goto, Idle
  <2> QED BY <1>1, <2>3 DEF Parting, DeleteLabel
<1>5. QED
  BY <1>3, <1>4

LEMMA PartingInvInit == Init => PartingInv
<1> SUFFICES ASSUME Init PROVE PartingInv
  OBVIOUS
<1>1. TypeInv
  BY TypeInvInit
<1>2. NoGhosts
  <2>1. EmptyDirectory \/ ReadyDirectory(Admin)
    BY DEF Init
  <2>2. EmptyDirectory => NoGhosts
    BY DEF EmptyDirectory, NoGhosts, NoGroup
  <2>3. ReadyDirectory(Admin) => NoGhosts
    BY DirectoryAssumption DEF ReadyDirectory, NoGhosts, NoGroup
  <2> QED BY <2>1, <2>2, <2>3
<1>3. \A w \in Worker : Parting(proc[w])
  BY IdleOpen DEF Init, Parting
<1> QED BY <1>1, <1>2, <1>3 DEF PartingInv

LEMMA PartingInvStep ==
    ASSUME \E w \in Worker : Worker = {w}
    PROVE  PartingInv /\ [Next]_vars => PartingInv'
<1> SUFFICES ASSUME PartingInv, [Next]_vars PROVE PartingInv'
  OBVIOUS
<1>1. /\ TypeInv /\ TypeInv' /\ DirectoryTypeOK /\ NoGhosts
      /\ proc \in [Worker -> ProcState(Label)]
      /\ \A w \in Worker : Known(proc[w]) /\ Parting(proc[w])
  BY TypeInvStep DEF PartingInv, TypeInv, TypeOK
<1>2. ASSUME NEW w \in Worker, NEW q, Become(w, q), Parting(q)', NoGhosts' PROVE PartingInv'
  BY <1>1, <1>2 DEF Become, PartingInv
<1>3. UNCHANGED directory => NoGhosts'
  BY <1>1, DirectoryGhosts DEF directory
<1>4. ASSUME NEW q, q.req.op # "DeleteAccount" PROVE Parting(q)'
  BY <1>4 DEF Parting
<1>5. CASE UNCHANGED vars
  BY <1>1, <1>3, <1>5 DEF PartingInv, Parting, GroupsOf, IsMember, vars, directory
<1>6. ASSUME NEW w \in Worker, Boot(w) PROVE PartingInv'
  <2>1. PICK q : q = SetupLDAP([Idle EXCEPT !.req.op = "SetupLDAP"])
    OBVIOUS
  <2>2. q.req.op # "DeleteAccount"
    BY <2>1, IdleOpen
  <2> QED BY <1>2, <1>3, <1>4, <1>6, <2>1, <2>2 DEF Boot
<1>7. ASSUME NEW w \in Worker, Accept(w) PROVE PartingInv'
  <2>1. PICK r \in Requests : Become(w, Serve(r))
    BY <1>7 DEF Accept
  <2>2. PICK q : q = Serve(r) /\ Parting(q)'
    BY ServeParting
  <2> QED BY <1>2, <1>3, <1>7, <2>1, <2>2 DEF Accept
<1>8. ASSUME NEW w \in Worker, Step(w) PROVE PartingInv'
  BY <1>1, <1>2, <1>8, StepGhosts, StepParting
<1>9. ASSUME NEW w \in Worker, Reply(w) PROVE PartingInv'
  <2>1. PICK q : q = Idle
    OBVIOUS
  <2>2. q.req.op # "DeleteAccount"
    BY <2>1, IdleOpen
  <2> QED BY <1>2, <1>3, <1>4, <1>9, <2>1, <2>2 DEF Reply
<1>10. ASSUME NEW r \in Replica, Crash(r) PROVE PartingInv'
  <2>1. UNCHANGED directory /\ \A w \in Worker : proc'[w] \in {Idle, proc[w]}
    BY <1>10 DEF Crash
  <2>2. ASSUME NEW w \in Worker PROVE Parting(proc[w])'
    <3>1. CASE proc'[w] = Idle
      BY <3>1, IdleOpen DEF Parting
    <3>2. CASE proc'[w] = proc[w]
      BY <1>1, <2>1, <3>2 DEF Parting, GroupsOf, IsMember, directory
    <3> QED BY <2>1, <3>1, <3>2
  <2> QED BY <1>1, <1>3, <2>1, <2>2 DEF PartingInv
<1>11. QED
  BY <1>5, <1>6, <1>7, <1>8, <1>9, <1>10 DEF Next

\* A goroutine that has the directory to itself and reports that an account was
\* deleted has taken it out of every group before, whatever requests, setups and
\* crashes came earlier: "after a user is deleted it is not longer a member of any
\* group" (group_members_test.go:63).
THEOREM LoneDeletionsLeaveGroups ==
    ASSUME \E w \in Worker : Worker = {w}
    PROVE  Spec => []DeletedLeavesGroups
<1>1. PartingInv => DeletedLeavesGroups
  BY DEF PartingInv, DeletedLeavesGroups, Answering, At, Parting
<1>2. QED
  BY <1>1, PartingInvInit, PartingInvStep, PTL DEF Spec
=============================================================================
