------------------------------- MODULE Listing -------------------------------
(***************************************************************************)
(* Lists by the page: GetUserList, GetGroupList and GetGroup (a list of    *)
(* members), asked for by a client that turns the pages until it has seen  *)
(* the end, while other requests add and remove entries.  A list of users  *)
(* or groups takes two searches, one for the entries and one for their     *)
(* number.                                                                 *)
(*                                                                         *)
(* Names are numbers in the place of strings, in alphabetical order.  The  *)
(* value of an entry is another attribute, which entries may share or lack *)
(* (0).                                                                    *)
(***************************************************************************)
EXTENDS Integers, SequencesExt

CONSTANTS
    Name, Value,
    PerPage,
    MaxChanges       \* bound on the entries added and removed during a walk

ASSUME ListingAssumption ==
    /\ Name \subseteq Nat \ {0} /\ Value \subseteq Nat
    /\ PerPage \in Nat \ {0}
    /\ MaxChanges \in Nat

VARIABLES
    entries,     \* what the directory holds: names with their values
    changes,     \* entries added and removed so far
    stable,      \* history: entries that have been there since the walk began
    torn,        \* history: entries removed between the two searches of one list
    walk         \* the client and the request it waits for

listVars == <<entries, changes, stable, torn, walk>>

Op == {"GetUserList", "GetGroupList", "GetGroup"}
Entries == UNION {[S -> Value] : S \in {T \in SUBSET Name : IsFiniteSet(T)}}

\* An attribute of a filter is compared in lower case with names some of which
\* have capitals; those are never found valid, and the filter is left out.
Attribute == {"uid", "givenName"}
isValidAttribute(attr) == attr \in {"uid", "cn", "mail", "sn"}
parseFilter(filter) == IF isValidAttribute(filter.attr) THEN filter.match ELSE Name

Question ==
    [op : Op, key : {"uid", "value"}, order : {"ASCENDING", "DESCENDING"},
     filter : [attr : Attribute, match : {Name, {n \in Name : n % 2 = 1}}]]

ListingTypeOK ==
    /\ entries \in Entries
    /\ changes \in 0..MaxChanges /\ torn \in 0..MaxChanges
    /\ stable \in SUBSET Name
    /\ walk \in [pc : {"search", "count", "reply", "read", "done"}, req : Question,
                 page : Nat \ {0}, found : Entries, total : Nat, list : Seq(Name),
                 shown : SUBSET Name]

Init ==
    /\ entries \in Entries
    /\ changes = 0 /\ torn = 0
    /\ stable = DOMAIN entries
    /\ walk \in [pc : {"search"}, req : Question, page : {1}, found : {<<>>}, total : {0},
                 list : {<<>>}, shown : {{}}]

-----------------------------------------------------------------------------
At(pc) == walk.pc = pc

\* What a list is asked for; the members of a group are not filtered.
Match(req) == IF req.op = "GetGroup" THEN Name ELSE parseFilter(req.filter)

Search ==
    LET found == [n \in DOMAIN entries \cap Match(walk.req) |-> entries[n]]
    IN  /\ At("search")
        /\ walk' = IF walk.req.op = "GetGroup"
                   THEN [walk EXCEPT !.pc = "reply", !.found = found,
                                     !.total = Cardinality(DOMAIN found)]
                   ELSE [walk EXCEPT !.pc = "count", !.found = found]
        /\ UNCHANGED <<entries, changes, stable, torn>>

\* countAccounts and countGroups: no filter.
Count ==
    /\ At("count")
    /\ walk' = [walk EXCEPT !.pc = "reply", !.total = Cardinality(DOMAIN entries)]
    /\ UNCHANGED <<entries, changes, stable, torn>>

\* What users are sorted by; groups and members are sorted by name.
Key(req, found, n) == IF req.op = "GetUserList" /\ req.key = "value" THEN found[n] ELSE n

\* Mutant: an entry without a value is kept as a key that leads to no user.
KeyedNil(req, found) ==
    LET keys == {Key(req, found, n) : n \in DOMAIN found}
    IN  {who \in [keys -> DOMAIN found \cup {0}] :
            \A k \in keys : IF k = 0 THEN who[k] = 0
                            ELSE who[k] # 0 /\ Key(req, found, who[k]) = k}

\* GetUserList makes a map from the values of the sort key, in which an entry
\* replaces an earlier one with the same value, and one without a value is left
\* out: the ways to choose an entry per value.
Keyed(req, found) ==
    LET keys == {Key(req, found, n) : n \in DOMAIN found} \ {0}
    IN  {who \in [keys -> DOMAIN found] : \A k \in keys : Key(req, found, who[k]) = k}

\* GetUserList sorts downwards when asked for ASCENDING, which is the default.
Precedes(req, j, k) ==
    LET down == req.order = IF req.op = "GetUserList" THEN "ASCENDING" ELSE "DESCENDING"
    IN  IF down THEN j > k ELSE j < k

\* Mutant: the order in which a Go map is walked.
OrdersUnsorted(req, keys) == SetToSeqs(keys)

Orders(req, keys) ==
    {order \in SetToSeqs(keys) :
        \A i, j \in DOMAIN order : i < j => Precedes(req, order[i], order[j])}

\* Mutant: a page that reaches past the end is cut to what is there.
ClipToEnd(s, start, end) == SubSeq(s, start + 1, IF end < Len(s) THEN end ELSE Len(s))

\* A page that ends at the last entry, or reaches past it, is not clipped at all.
Clip(s, start, end) ==
    IF start >= 0 /\ end < Len(s) /\ start < end THEN SubSeq(s, start + 1, end) ELSE s

Page(who, keys, page) ==
    LET clip == Clip(keys, (page - 1) * PerPage, page * PerPage)
    IN  [i \in DOMAIN clip |-> who[clip[i]]]

Reply ==
    /\ At("reply")
    /\ \E who \in Keyed(walk.req, walk.found) :
         \E keys \in Orders(walk.req, DOMAIN who) :
            walk' = [walk EXCEPT !.pc = "read", !.list = Page(who, keys, walk.page)]
    /\ UNCHANGED <<entries, changes, stable, torn>>

\* The client keeps what it has read and turns the page, until the page lies
\* behind the number of entries it was told.
TurnPage ==
    LET more == (walk.page - 1) * PerPage < walk.total
    IN  /\ At("read")
        /\ walk' = [walk EXCEPT !.pc = IF more THEN "search" ELSE "done",
                                !.page = IF more THEN @ + 1 ELSE @,
                                !.shown = @ \cup ToSet(walk.list),
                                !.found = <<>>, !.list = <<>>]
        /\ UNCHANGED <<entries, changes, stable, torn>>

Appear(n) ==
    /\ changes < MaxChanges /\ ~At("done")
    /\ n \notin DOMAIN entries
    /\ \E v \in Value : entries' = [m \in DOMAIN entries \cup {n} |->
                                       IF m = n THEN v ELSE entries[m]]
    /\ changes' = changes + 1
    /\ UNCHANGED <<stable, torn, walk>>

Vanish(n) ==
    /\ changes < MaxChanges /\ ~At("done")
    /\ n \in DOMAIN entries
    /\ entries' = [m \in DOMAIN entries \ {n} |-> entries[m]]
    /\ changes' = changes + 1
    /\ stable' = stable \ {n}
    /\ torn' = IF At("count") THEN torn + 1 ELSE torn
    /\ UNCHANGED walk

Next ==
    \/ Search \/ Count \/ Reply \/ TurnPage
    \/ \E n \in Name : Appear(n) \/ Vanish(n)

Spec == Init /\ [][Next]_listVars

-----------------------------------------------------------------------------
\* Sorted by another attribute than the name, an entry is a key of its own if no
\* other one has its value.
Distinct(n) ==
    walk.req.op = "GetUserList" /\ walk.req.key = "value" =>
        /\ changes = 0 /\ entries[n] # 0
        /\ \A m \in DOMAIN entries : entries[m] = entries[n] => m = n

\* A client that turns the pages to the end has seen every entry that was there
\* all the time, although removals move entries from pages it has yet to read
\* to pages it has read: the pages at the end show everything (accounts.go:193,
\* groups.go:260).  Removals between the two searches of one list can defeat
\* that, once they are more than a page.
WalkComplete ==
    At("done") /\ torn <= PerPage =>
        \A n \in stable :
            n \in parseFilter(walk.req.filter) /\ Distinct(n) => n \in walk.shown

\* "Sort for deterministic clipping" (accounts.go:178): as long as nothing has
\* changed, a page before the last one is full and shows nothing that an
\* earlier page has shown.
PagesFit ==
    /\ At("read") /\ changes = 0
    /\ walk.page * PerPage < Cardinality(DOMAIN walk.found)
    /\ \A n \in DOMAIN entries : Distinct(n)
    => /\ Len(walk.list) = PerPage
       /\ Cardinality(ToSet(walk.list)) = PerPage
       /\ ToSet(walk.list) \cap walk.shown = {}
=============================================================================
