---------------------------- MODULE ListingProofs ----------------------------
(***************************************************************************)
(* That turning the pages shows everything and that pages fit together,    *)
(* for any number of entries, any page size and any changes meanwhile.     *)
(*                                                                         *)
(* The first part is about the operators: the map by sort key, the sort    *)
(* and the clip.  A walk is complete because the last page that the client *)
(* asks for is not clipped: no more entries can be found than are counted  *)
(* later, but for those removed in between (CompleteInv).  Pages fit       *)
(* because an entry's place in the order is the number of entries ahead of *)
(* it, whichever request has sorted them (FitInv).                         *)
(***************************************************************************)
EXTENDS Listing, FiniteSetTheorems, SequenceTheorems, TLAPS

-----------------------------------------------------------------------------
(* The operators.                                                          *)

LEMMA NameFacts ==
    /\ PerPage \in Nat /\ PerPage > 0
    /\ Name \subseteq Nat /\ 0 \notin Name
  BY ListingAssumption

LEMMA EntriesFacts ==
    /\ \A f \in Entries :
          /\ DOMAIN f \subseteq Name /\ f \in [DOMAIN f -> Value]
          /\ IsFiniteSet(DOMAIN f) /\ Cardinality(DOMAIN f) \in Nat
    /\ \A S \in SUBSET Name : IsFiniteSet(S) => \A f \in [S -> Value] : f \in Entries
    /\ <<>> \in Entries
<1>1. \A S \in SUBSET Name : IsFiniteSet(S) => \A f \in [S -> Value] : f \in Entries
  BY DEF Entries
<1>2. <<>> \in Entries
  <2>1. <<>> \in [{} -> Value] /\ IsFiniteSet({})
    BY FS_EmptySet
  <2> QED BY <1>1, <2>1
<1>3. ASSUME NEW f \in Entries
      PROVE  /\ DOMAIN f \subseteq Name /\ f \in [DOMAIN f -> Value]
             /\ IsFiniteSet(DOMAIN f) /\ Cardinality(DOMAIN f) \in Nat
  <2>1. DOMAIN f \subseteq Name /\ f \in [DOMAIN f -> Value] /\ IsFiniteSet(DOMAIN f)
    BY DEF Entries
  <2> QED BY <2>1, FS_CardinalityType
<1> QED BY <1>1, <1>2, <1>3

LEMMA MatchFacts ==
    ASSUME NEW req \in Question
    PROVE  Match(req) \subseteq Name /\ parseFilter(req.filter) \subseteq Match(req)
  BY DEF Match, parseFilter, Question

\* Every key leads to an entry with that key.
LEMMA KeyedFacts ==
    ASSUME NEW req \in Question, NEW found \in Entries, NEW who \in Keyed(req, found)
    PROVE  /\ DOMAIN who \subseteq Nat
           /\ IsFiniteSet(DOMAIN who) /\ Cardinality(DOMAIN who) \in Nat
           /\ Cardinality(DOMAIN who) <= Cardinality(DOMAIN found)
           /\ \A k \in DOMAIN who : who[k] \in DOMAIN found /\ Key(req, found, who[k]) = k
           /\ \A n \in DOMAIN found :
                 Key(req, found, n) # 0 => Key(req, found, n) \in DOMAIN who
<1> DEFINE keys == {Key(req, found, n) : n \in DOMAIN found} \ {0}
<1>1. who \in [keys -> DOMAIN found] /\ \A k \in keys : Key(req, found, who[k]) = k
  BY DEF Keyed
<1>2. DOMAIN found \subseteq Name /\ found \in [DOMAIN found -> Value]
  BY EntriesFacts
<1>3. \A n \in DOMAIN found : Key(req, found, n) \in Nat
  BY <1>2, ListingAssumption DEF Key
<1>4. DOMAIN who \subseteq Nat
  BY <1>1, <1>3
<1>5. who \in Injection(DOMAIN who, DOMAIN found)
  BY <1>1 DEF Injection, IsInjective
<1>6. IsFiniteSet(DOMAIN found)
  BY EntriesFacts
<1>7. IsFiniteSet(DOMAIN who) /\ Cardinality(DOMAIN who) <= Cardinality(DOMAIN found)
  BY <1>5, <1>6, FS_Injection
<1>8. Cardinality(DOMAIN who) \in Nat
  BY <1>7, FS_CardinalityType
<1> QED BY <1>1, <1>4, <1>7, <1>8

LEMMA PrecedesFacts ==
    ASSUME NEW req
    PROVE  /\ \A j, k \in Nat : Precedes(req, j, k) => j # k /\ ~Precedes(req, k, j)
           /\ \A j, k \in Nat : j # k => Precedes(req, j, k) \/ Precedes(req, k, j)
  BY DEF Precedes

\* An order has all keys, in order.
LEMMA OrdersFacts ==
    ASSUME NEW req, NEW keys \in SUBSET Nat, IsFiniteSet(keys), NEW order \in Orders(req, keys)
    PROVE  /\ order \in Seq(keys) /\ Len(order) = Cardinality(keys)
           /\ \A k \in keys : \E i \in DOMAIN order : order[i] = k
           /\ \A i, j \in DOMAIN order : Precedes(req, order[i], order[j]) <=> i < j
           /\ \A i, j \in DOMAIN order : order[i] = order[j] => i = j
<1> DEFINE c == Cardinality(keys)
<1>1. c \in Nat
  BY FS_CardinalityType
<1>2. /\ order \in [1..c -> keys]
      /\ \A i, j \in 1..c : i # j => order[i] # order[j]
      /\ \A i, j \in DOMAIN order : i < j => Precedes(req, order[i], order[j])
  BY DEF Orders, SetToSeqs
<1>3. order \in Seq(keys) /\ Len(order) = c /\ DOMAIN order = 1..c
  BY <1>1, <1>2
<1>4. order \in Injection(1..c, keys)
  BY <1>2 DEF Injection, IsInjective
<1>5. IsFiniteSet(1..c) /\ Cardinality(1..c) = c
  BY <1>1, FS_Interval
<1>6. order \in Surjection(1..c, keys)
  BY <1>4, <1>5, FS_Injection
<1>7. \A k \in keys : \E i \in DOMAIN order : order[i] = k
  BY <1>3, <1>6 DEF Surjection
<1> HIDE DEF c
<1>8. ASSUME NEW i \in DOMAIN order, NEW j \in DOMAIN order
      PROVE  Precedes(req, order[i], order[j]) <=> i < j
  <2>0. i \in 1..c /\ j \in 1..c
    BY <1>3
  <2>1. order[i] \in Nat /\ order[j] \in Nat /\ i \in Nat /\ j \in Nat
    <3>1. order[i] \in keys /\ order[j] \in keys
      BY <1>2, <2>0
    <3>2. order[i] \in Nat /\ order[j] \in Nat
      BY <3>1
    <3>3. i \in Nat /\ j \in Nat
      BY <1>1, <2>0
    <3> QED BY <3>2, <3>3
  <2>2. CASE i < j
    BY <1>2, <2>2
  <2>3. CASE j < i
    <3>1. Precedes(req, order[j], order[i])
      BY <1>2, <2>3
    <3> QED BY <2>1, <2>3, <3>1, PrecedesFacts
  <2>4. CASE i = j
    BY <2>1, <2>4, PrecedesFacts
  <2> QED BY <2>1, <2>2, <2>3, <2>4
<1> QED BY <1>2, <1>3, <1>7, <1>8 DEF c

\* A page before the end is full; one that reaches it is everything.
LEMMA ClipFacts ==
    ASSUME NEW S, NEW s \in Seq(S), NEW page \in Nat \ {0}
    PROVE  LET start == (page - 1) * PerPage
               end == page * PerPage
               clip == Clip(s, start, end)
           IN  /\ clip \in Seq(S)
               /\ end >= Len(s) => clip = s
               /\ end < Len(s) =>
                     /\ Len(clip) = PerPage
                     /\ \A i \in 1..PerPage : clip[i] = s[start + i]
<1> DEFINE start == (page - 1) * PerPage
           end == page * PerPage
           clip == Clip(s, start, end)
<1>1. start \in Nat /\ end \in Nat /\ end = start + PerPage /\ PerPage \in Nat /\ PerPage > 0
  <2>1. PerPage \in Nat /\ PerPage > 0 /\ page \in Nat /\ page >= 1
    BY NameFacts
  <2>2. page * PerPage = (page - 1) * PerPage + PerPage
    BY <2>1
  <2>3. (page - 1) * PerPage \in Nat
    BY <2>1
  <2> QED BY <2>1, <2>2, <2>3
<1>2. Len(s) \in Nat /\ \A i \in 1..Len(s) : s[i] \in S
  OBVIOUS
<1> HIDE DEF start, end
<1>3. CASE end < Len(s)
  <2>1. clip = SubSeq(s, start + 1, end)
    BY <1>1, <1>2, <1>3 DEF Clip
  <2>2. \A i \in (start + 1)..end : s[i] \in S
    BY <1>1, <1>2, <1>3
  <2>3. /\ clip \in Seq(S)
        /\ Len(clip) = IF start + 1 <= end THEN end - (start + 1) + 1 ELSE 0
        /\ \A i \in 1..end - (start + 1) + 1 : clip[i] = s[start + 1 + i - 1]
    <3>1. start + 1 \in Int /\ end \in Int
      BY <1>1
    <3>2. PICK m \in Int : m = start + 1
      BY <3>1
    <3>3. /\ SubSeq(s, m, end) \in Seq(S)
          /\ Len(SubSeq(s, m, end)) = IF m <= end THEN end - m + 1 ELSE 0
          /\ \A i \in 1..end - m + 1 : SubSeq(s, m, end)[i] = s[m + i - 1]
      BY <2>2, <3>1, <3>2, SubSeqProperties
    <3> QED BY <2>1, <3>2, <3>3
  <2>4. Len(clip) = PerPage
    BY <1>1, <2>3
  <2>5. \A i \in 1..PerPage : clip[i] = s[start + i]
    <3> SUFFICES ASSUME NEW i \in 1..PerPage PROVE clip[i] = s[start + i]
      OBVIOUS
    <3>1. i \in 1..end - (start + 1) + 1 /\ start + 1 + i - 1 = start + i
      BY <1>1
    <3> QED BY <2>3, <3>1
  <2> QED BY <1>1, <1>2, <1>3, <2>3, <2>4, <2>5 DEF start, end
<1>4. CASE ~(end < Len(s))
  <2>1. clip = s
    BY <1>4 DEF Clip
  <2> QED BY <1>1, <1>2, <1>4, <2>1 DEF start, end
<1> QED BY <1>3, <1>4


LEMMA PageFacts ==
    ASSUME NEW page \in Nat \ {0}
    PROVE  /\ (page - 1) * PerPage \in Nat /\ page * PerPage \in Nat
           /\ page * PerPage = (page - 1) * PerPage + PerPage
           /\ (page + 1 - 1) * PerPage = page * PerPage
           /\ page + 1 \in Nat \ {0}
<1>1. PerPage \in Nat /\ page \in Nat /\ page >= 1
  BY NameFacts
<1>2. (page - 1) * PerPage \in Nat /\ page * PerPage \in Nat
  BY <1>1
<1>3. page * PerPage = (page - 1) * PerPage + PerPage
  BY <1>1
<1>4. page + 1 - 1 = page
  BY <1>1
<1> QED BY <1>1, <1>2, <1>3, <1>4

\* A reply has the entries of the keys from start to end, or of all keys.
LEMMA ReplyFacts ==
    ASSUME NEW req \in Question, NEW found \in Entries, NEW page \in Nat \ {0},
           NEW who \in Keyed(req, found), NEW keys \in Orders(req, DOMAIN who)
    PROVE  LET start == (page - 1) * PerPage
               end == page * PerPage
               list == Page(who, keys, page)
           IN  /\ list \in Seq(DOMAIN found)
               /\ Len(keys) <= end =>
                     /\ \A k \in DOMAIN who : \E i \in DOMAIN list : list[i] = who[k]
                     /\ \A i \in DOMAIN list : i <= end /\ list[i] = who[keys[i]]
                     /\ DOMAIN list = 1..Len(keys)
               /\ end < Len(keys) =>
                     /\ Len(list) = PerPage /\ DOMAIN list = 1..PerPage
                     /\ \A i \in 1..PerPage : list[i] = who[keys[start + i]]
<1> DEFINE start == (page - 1) * PerPage
           end == page * PerPage
           clip == Clip(keys, start, end)
           list == Page(who, keys, page)
<1>1. /\ DOMAIN who \in SUBSET Nat /\ IsFiniteSet(DOMAIN who)
      /\ \A k \in DOMAIN who : who[k] \in DOMAIN found
  BY KeyedFacts
<1>2. /\ keys \in Seq(DOMAIN who)
      /\ \A k \in DOMAIN who : \E i \in DOMAIN keys : keys[i] = k
  BY <1>1, OrdersFacts
<1>3. /\ clip \in Seq(DOMAIN who)
      /\ end >= Len(keys) => clip = keys
      /\ end < Len(keys) =>
            /\ Len(clip) = PerPage
            /\ \A i \in 1..PerPage : clip[i] = keys[start + i]
  BY <1>2, ClipFacts
<1>4. start \in Nat /\ end \in Nat /\ Len(keys) \in Nat /\ PerPage \in Nat
  BY <1>2, PageFacts, NameFacts
<1>0. list = [i \in DOMAIN clip |-> who[clip[i]]]
  BY DEF Page
<1> HIDE DEF start, end, clip
<1>5. /\ DOMAIN clip = 1..Len(clip) /\ Len(clip) \in Nat
      /\ \A i \in DOMAIN clip : clip[i] \in DOMAIN who
  BY <1>3
<1>6. DOMAIN list = 1..Len(clip) /\ \A i \in DOMAIN list : list[i] = who[clip[i]]
  BY <1>0, <1>5
<1> HIDE DEF list
<1>7. \A i \in 1..Len(clip) : list[i] \in DOMAIN found
  BY <1>1, <1>5, <1>6
<1>8. list \in Seq(DOMAIN found) /\ Len(list) = Len(clip)
  <2>1. list = [i \in 1..Len(clip) |-> list[i]]
    BY <1>0, <1>5
  <2>2. list \in [1..Len(clip) -> DOMAIN found]
    BY <1>7, <2>1
  <2> QED BY <1>5, <2>2
<1>9. ASSUME Len(keys) <= end
      PROVE  /\ \A k \in DOMAIN who : \E i \in DOMAIN list : list[i] = who[k]
             /\ \A i \in DOMAIN list : i <= end /\ list[i] = who[keys[i]]
             /\ DOMAIN list = 1..Len(keys)
  <2>1. clip = keys /\ DOMAIN keys = 1..Len(keys)
    BY <1>2, <1>3, <1>4, <1>9
  <2>2. DOMAIN list = 1..Len(keys) /\ \A i \in DOMAIN list : list[i] = who[keys[i]]
    BY <1>6, <2>1
  <2>3. \A i \in DOMAIN list : i <= end
    BY <1>4, <1>9, <2>2
  <2>4. \A k \in DOMAIN who : \E i \in DOMAIN list : list[i] = who[k]
    BY <1>2, <2>1, <2>2
  <2> QED BY <2>2, <2>3, <2>4
<1>10. ASSUME end < Len(keys)
       PROVE  /\ Len(list) = PerPage /\ DOMAIN list = 1..PerPage
              /\ \A i \in 1..PerPage : list[i] = who[keys[start + i]]
  <2>1. Len(clip) = PerPage /\ \A i \in 1..PerPage : clip[i] = keys[start + i]
    BY <1>3, <1>10
  <2> QED BY <1>6, <1>8, <2>1
<1> QED BY <1>8, <1>9, <1>10 DEF start, end, clip, list

\* The entries that come before one.
Ahead(req, found, n) ==
    {m \in DOMAIN found : Precedes(req, Key(req, found, m), Key(req, found, n))}

Apart(req, found) ==
    /\ \A n \in DOMAIN found : Key(req, found, n) # 0
    /\ \A m, n \in DOMAIN found : Key(req, found, m) = Key(req, found, n) => m = n

\* When every entry has a key of its own, none is left out, and one's place in
\* the order is the number of entries ahead of it.
LEMMA PlaceFacts ==
    ASSUME NEW req \in Question, NEW found \in Entries, Apart(req, found),
           NEW who \in Keyed(req, found), NEW keys \in Orders(req, DOMAIN who)
    PROVE  /\ Len(keys) = Cardinality(DOMAIN found)
           /\ \A i \in 1..Len(keys) : Cardinality(Ahead(req, found, who[keys[i]])) = i - 1
<1>1. /\ DOMAIN who \in SUBSET Nat /\ IsFiniteSet(DOMAIN who)
      /\ Cardinality(DOMAIN who) \in Nat
      /\ Cardinality(DOMAIN who) <= Cardinality(DOMAIN found)
      /\ \A k \in DOMAIN who : who[k] \in DOMAIN found /\ Key(req, found, who[k]) = k
      /\ \A n \in DOMAIN found : Key(req, found, n) \in DOMAIN who
  BY KeyedFacts DEF Apart
<1>2. /\ keys \in Seq(DOMAIN who) /\ Len(keys) = Cardinality(DOMAIN who)
      /\ \A k \in DOMAIN who : \E i \in DOMAIN keys : keys[i] = k
      /\ \A i, j \in DOMAIN keys : Precedes(req, keys[i], keys[j]) <=> i < j
      /\ \A i, j \in DOMAIN keys : keys[i] = keys[j] => i = j
  BY <1>1, OrdersFacts
<1>3. IsFiniteSet(DOMAIN found) /\ Cardinality(DOMAIN found) \in Nat
  BY EntriesFacts
<1>4. Len(keys) = Cardinality(DOMAIN found)
  <2> DEFINE key == [n \in DOMAIN found |-> Key(req, found, n)]
  <2>1. key \in Injection(DOMAIN found, DOMAIN who)
    BY <1>1 DEF Injection, IsInjective, Apart
  <2>2. Cardinality(DOMAIN found) <= Cardinality(DOMAIN who)
    BY <1>1, <2>1, FS_Injection
  <2> QED BY <1>1, <1>2, <1>3, <2>2
<1>5. ASSUME NEW i \in 1..Len(keys)
      PROVE  Cardinality(Ahead(req, found, who[keys[i]])) = i - 1
  <2> DEFINE ahead == Ahead(req, found, who[keys[i]])
             place == [j \in 1..(i - 1) |-> who[keys[j]]]
  <2>1. /\ DOMAIN keys = 1..Len(keys) /\ Len(keys) \in Nat /\ i \in Nat /\ i - 1 \in Nat
        /\ i \in DOMAIN keys
    BY <1>2
  <2>2. \A j \in 1..(i - 1) : j \in DOMAIN keys /\ j < i
    BY <2>1
  <2>3. \A j \in DOMAIN keys : keys[j] \in DOMAIN who
    BY <1>2
  <2>4. \A j \in DOMAIN keys :
           who[keys[j]] \in DOMAIN found /\ Key(req, found, who[keys[j]]) = keys[j]
    BY <1>1, <2>3
  <2>5. \A j \in DOMAIN keys : who[keys[j]] \in ahead <=> j < i
    BY <1>2, <2>1, <2>4 DEF Ahead
  <2>6. place \in [1..(i - 1) -> ahead]
    BY <2>2, <2>5
  <2>7. \A j, k \in 1..(i - 1) : place[j] = place[k] => j = k
    <3> SUFFICES ASSUME NEW j \in 1..(i - 1), NEW k \in 1..(i - 1), place[j] = place[k]
                 PROVE  j = k
      OBVIOUS
    <3>1. j \in DOMAIN keys /\ k \in DOMAIN keys /\ who[keys[j]] = who[keys[k]]
      BY <2>2
    <3>2. keys[j] = keys[k]
      BY <2>4, <3>1
    <3> QED BY <1>2, <3>1, <3>2
  <2>8. \A m \in ahead : \E j \in 1..(i - 1) : place[j] = m
    <3> SUFFICES ASSUME NEW m \in ahead PROVE \E j \in 1..(i - 1) : place[j] = m
      OBVIOUS
    <3>1. m \in DOMAIN found /\ Key(req, found, m) \in DOMAIN who
      BY <1>1 DEF Ahead
    <3>2. PICK j \in DOMAIN keys : keys[j] = Key(req, found, m)
      BY <1>2, <3>1
    <3>3. who[keys[j]] = m
      <4>1. who[keys[j]] \in DOMAIN found /\ Key(req, found, who[keys[j]]) = keys[j]
        BY <2>4
      <4> QED BY <3>1, <3>2, <4>1 DEF Apart
    <3>4. j < i
      BY <2>5, <3>3
    <3>5. j \in 1..(i - 1)
      BY <2>1, <3>2, <3>4
    <3> QED BY <3>3, <3>5
  <2>9. place \in Bijection(1..(i - 1), ahead)
    BY <2>6, <2>7, <2>8 DEF Bijection, Injection, Surjection, IsInjective
  <2>10. ExistsBijection(1..(i - 1), ahead)
    BY <2>9 DEF ExistsBijection
  <2> QED BY <2>1, <2>10, FS_CountingElements
<1> QED BY <1>4, <1>5

-----------------------------------------------------------------------------
(* Types.                                                                  *)

TypeInv == ListingTypeOK /\ torn <= changes

LEMMA FoundFacts ==
    ASSUME ListingTypeOK
    PROVE  LET found == [n \in DOMAIN entries \cap Match(walk.req) |-> entries[n]]
           IN  /\ found \in Entries
               /\ DOMAIN found = DOMAIN entries \cap Match(walk.req)
               /\ \A n \in DOMAIN found : found[n] = entries[n]
<1> DEFINE S == DOMAIN entries \cap Match(walk.req)
           found == [n \in S |-> entries[n]]
<1>1. /\ DOMAIN entries \subseteq Name /\ entries \in [DOMAIN entries -> Value]
      /\ IsFiniteSet(DOMAIN entries)
  BY EntriesFacts DEF ListingTypeOK
<1>2. S \in SUBSET Name /\ IsFiniteSet(S)
  BY <1>1, FS_Subset
<1>3. found \in [S -> Value]
  BY <1>1
<1> QED BY <1>2, <1>3, EntriesFacts

\* Pages consist of names.
LEMMA ReplyType ==
    ASSUME TypeInv, NEW who \in Keyed(walk.req, walk.found),
           NEW keys \in Orders(walk.req, DOMAIN who)
    PROVE  Page(who, keys, walk.page) \in Seq(Name)
<1>1. walk.req \in Question /\ walk.found \in Entries /\ walk.page \in Nat \ {0}
  BY DEF TypeInv, ListingTypeOK
<1>2. Page(who, keys, walk.page) \in Seq(DOMAIN walk.found)
  BY <1>1, ReplyFacts
<1>3. DOMAIN walk.found \subseteq Name
  BY <1>1, EntriesFacts
<1> QED BY <1>2, <1>3

LEMMA TypeInit == Init => TypeInv
<1> SUFFICES ASSUME Init PROVE TypeInv
  OBVIOUS
<1>1. entries \in Entries /\ changes = 0 /\ torn = 0 /\ stable = DOMAIN entries
  BY DEF Init
<1>2. changes \in 0..MaxChanges /\ torn \in 0..MaxChanges
  BY <1>1, ListingAssumption
<1>3. stable \in SUBSET Name
  BY <1>1, EntriesFacts
<1>4. walk \in [pc : {"search", "count", "reply", "read", "done"}, req : Question,
                page : Nat \ {0}, found : Entries, total : Nat, list : Seq(Name),
                shown : SUBSET Name]
  <2>1. PICK req \in Question :
           walk = [pc |-> "search", req |-> req, page |-> 1, found |-> <<>>, total |-> 0,
                   list |-> <<>>, shown |-> {}]
    BY DEF Init
  <2>2. <<>> \in Entries /\ <<>> \in Seq(Name) /\ 1 \in Nat \ {0}
    BY EntriesFacts
  <2> QED BY <2>1, <2>2
<1> QED BY <1>1, <1>2, <1>3, <1>4 DEF TypeInv, ListingTypeOK

\* The fields of the client that a step leaves alone.
LEMMA WalkFacts ==
    ASSUME TypeInv
    PROVE  /\ walk.pc \in {"search", "count", "reply", "read", "done"} /\ walk.req \in Question
           /\ walk.page \in Nat \ {0} /\ walk.found \in Entries /\ walk.total \in Nat
           /\ walk.list \in Seq(Name) /\ walk.shown \in SUBSET Name
           /\ entries \in Entries /\ stable \in SUBSET Name
           /\ changes \in Nat /\ torn \in Nat /\ torn <= changes
           /\ changes <= MaxChanges /\ MaxChanges \in Nat
  BY ListingAssumption DEF TypeInv, ListingTypeOK

\* Each step, field by field.
LEMMA SearchFacts ==
    ASSUME TypeInv, Search
    PROVE  /\ walk.pc = "search"
           /\ walk'.found = [n \in DOMAIN entries \cap Match(walk.req) |-> entries[n]]
           /\ walk'.pc = IF walk.req.op = "GetGroup" THEN "reply" ELSE "count"
           /\ walk.req.op = "GetGroup" => walk'.total = Cardinality(DOMAIN walk'.found)
           /\ walk.req.op # "GetGroup" => walk'.total = walk.total
           /\ walk'.req = walk.req /\ walk'.page = walk.page
           /\ walk'.list = walk.list /\ walk'.shown = walk.shown
           /\ UNCHANGED <<entries, changes, stable, torn>>
<1>1. PICK found : found = [n \in DOMAIN entries \cap Match(walk.req) |-> entries[n]]
  OBVIOUS
<1>2. walk \in [pc : {"search", "count", "reply", "read", "done"}, req : Question,
                page : Nat \ {0}, found : Entries, total : Nat, list : Seq(Name),
                shown : SUBSET Name]
  BY DEF TypeInv, ListingTypeOK
<1>3. /\ walk.pc = "search"
      /\ walk' = IF walk.req.op = "GetGroup"
                 THEN [walk EXCEPT !.pc = "reply", !.found = found,
                                   !.total = Cardinality(DOMAIN found)]
                 ELSE [walk EXCEPT !.pc = "count", !.found = found]
      /\ UNCHANGED <<entries, changes, stable, torn>>
  BY <1>1 DEF Search, At
<1>4. CASE walk.req.op = "GetGroup"
  <2>1. walk' = [walk EXCEPT !.pc = "reply", !.found = found,
                             !.total = Cardinality(DOMAIN found)]
    BY <1>3, <1>4
  <2> QED BY <1>1, <1>2, <1>3, <1>4, <2>1
<1>5. CASE walk.req.op # "GetGroup"
  <2>1. walk' = [walk EXCEPT !.pc = "count", !.found = found]
    BY <1>3, <1>5
  <2> QED BY <1>1, <1>2, <1>3, <1>5, <2>1
<1> QED BY <1>4, <1>5

LEMMA CountFacts ==
    ASSUME TypeInv, Count
    PROVE  /\ walk.pc = "count" /\ walk'.pc = "reply"
           /\ walk'.total = Cardinality(DOMAIN entries)
           /\ walk'.found = walk.found
           /\ walk'.req = walk.req /\ walk'.page = walk.page
           /\ walk'.list = walk.list /\ walk'.shown = walk.shown
           /\ UNCHANGED <<entries, changes, stable, torn>>
  BY DEF TypeInv, ListingTypeOK, Count, At

LEMMA ReplyStep ==
    ASSUME TypeInv, Reply
    PROVE  /\ walk.pc = "reply" /\ walk'.pc = "read"
           /\ \E who \in Keyed(walk.req, walk.found) :
                 \E keys \in Orders(walk.req, DOMAIN who) :
                    walk'.list = Page(who, keys, walk.page)
           /\ walk'.list \in Seq(Name)
           /\ walk'.found = walk.found /\ walk'.total = walk.total
           /\ walk'.req = walk.req /\ walk'.page = walk.page /\ walk'.shown = walk.shown
           /\ UNCHANGED <<entries, changes, stable, torn>>
<1>1. PICK who \in Keyed(walk.req, walk.found) : \E keys \in Orders(walk.req, DOMAIN who) :
         walk' = [walk EXCEPT !.pc = "read", !.list = Page(who, keys, walk.page)]
  BY DEF Reply
<1>2. PICK keys \in Orders(walk.req, DOMAIN who) :
         walk' = [walk EXCEPT !.pc = "read", !.list = Page(who, keys, walk.page)]
  BY <1>1
<1>3. walk \in [pc : {"search", "count", "reply", "read", "done"}, req : Question,
                page : Nat \ {0}, found : Entries, total : Nat, list : Seq(Name),
                shown : SUBSET Name]
  BY DEF TypeInv, ListingTypeOK
<1>4. Page(who, keys, walk.page) \in Seq(Name)
  BY ReplyType
<1>5. /\ walk'.pc = "read" /\ walk'.list = Page(who, keys, walk.page)
      /\ walk'.found = walk.found /\ walk'.total = walk.total
      /\ walk'.req = walk.req /\ walk'.page = walk.page /\ walk'.shown = walk.shown
  BY <1>2, <1>3
<1>6. walk.pc = "reply" /\ UNCHANGED <<entries, changes, stable, torn>>
  BY DEF Reply, At
<1> QED BY <1>4, <1>5, <1>6

LEMMA TurnPageFacts ==
    ASSUME TypeInv, TurnPage
    PROVE  /\ walk.pc = "read"
           /\ \/ /\ (walk.page - 1) * PerPage < walk.total
                 /\ walk'.pc = "search" /\ walk'.page = walk.page + 1
              \/ /\ ~((walk.page - 1) * PerPage < walk.total)
                 /\ walk'.pc = "done" /\ walk'.page = walk.page
           /\ walk'.shown = walk.shown \cup {walk.list[i] : i \in DOMAIN walk.list}
           /\ walk'.found = <<>> /\ walk'.list = <<>>
           /\ walk'.req = walk.req /\ walk'.total = walk.total
           /\ UNCHANGED <<entries, changes, stable, torn>>
<1>1. walk \in [pc : {"search", "count", "reply", "read", "done"}, req : Question,
                page : Nat \ {0}, found : Entries, total : Nat, list : Seq(Name),
                shown : SUBSET Name]
  BY DEF TypeInv, ListingTypeOK
<1>2. PICK more \in BOOLEAN : more <=> (walk.page - 1) * PerPage < walk.total
  OBVIOUS
<1>3. walk' = [walk EXCEPT !.pc = IF more THEN "search" ELSE "done",
                           !.page = IF more THEN @ + 1 ELSE @,
                           !.shown = @ \cup ToSet(walk.list),
                           !.found = <<>>, !.list = <<>>]
  BY <1>2 DEF TurnPage
<1>4. CASE more
  BY <1>1, <1>2, <1>3, <1>4 DEF ToSet, TurnPage, At
<1>5. CASE ~more
  BY <1>1, <1>2, <1>3, <1>5 DEF ToSet, TurnPage, At
<1> QED BY <1>4, <1>5

LEMMA AppearFacts ==
    ASSUME TypeInv, NEW n \in Name, Appear(n)
    PROVE  /\ entries' \in Entries /\ DOMAIN entries' = DOMAIN entries \cup {n}
           /\ changes' = changes + 1 /\ changes < MaxChanges
           /\ walk.pc # "done"
           /\ UNCHANGED <<stable, torn, walk>>
<1>1. entries \in Entries
  BY DEF TypeInv, ListingTypeOK
<1>2. /\ DOMAIN entries \subseteq Name /\ IsFiniteSet(DOMAIN entries)
      /\ entries \in [DOMAIN entries -> Value]
  BY <1>1, EntriesFacts
<1>3. PICK v \in Value : entries' = [m \in DOMAIN entries \cup {n} |->
                                        IF m = n THEN v ELSE entries[m]]
  BY DEF Appear
<1>4. entries' \in [DOMAIN entries \cup {n} -> Value]
  BY <1>2, <1>3
<1>5. IsFiniteSet(DOMAIN entries \cup {n})
  BY <1>2, FS_AddElement
<1>6. entries' \in Entries /\ DOMAIN entries' = DOMAIN entries \cup {n}
  BY <1>2, <1>4, <1>5, EntriesFacts
<1> QED BY <1>6 DEF Appear, At

LEMMA VanishFacts ==
    ASSUME TypeInv, NEW n \in Name, Vanish(n)
    PROVE  /\ entries' \in Entries /\ DOMAIN entries' = DOMAIN entries \ {n}
           /\ changes' = changes + 1 /\ changes < MaxChanges
           /\ stable' = stable \ {n}
           /\ torn' = IF walk.pc = "count" THEN torn + 1 ELSE torn
           /\ walk.pc # "done"
           /\ UNCHANGED walk
<1>1. entries \in Entries
  BY DEF TypeInv, ListingTypeOK
<1>2. /\ DOMAIN entries \subseteq Name /\ IsFiniteSet(DOMAIN entries)
      /\ entries \in [DOMAIN entries -> Value]
  BY <1>1, EntriesFacts
<1>3. entries' = [m \in DOMAIN entries \ {n} |-> entries[m]]
  BY DEF Vanish
<1>4. entries' \in [DOMAIN entries \ {n} -> Value]
  BY <1>2, <1>3
<1>5. IsFiniteSet(DOMAIN entries \ {n})
  BY <1>2, FS_RemoveElement
<1>6. entries' \in Entries /\ DOMAIN entries' = DOMAIN entries \ {n}
  BY <1>2, <1>4, <1>5, EntriesFacts
<1> QED BY <1>6 DEF Vanish, At

LEMMA TypeNext == TypeInv /\ [Next]_listVars => TypeInv'
<1> SUFFICES ASSUME TypeInv, [Next]_listVars PROVE TypeInv'
  OBVIOUS
<1> USE DEF TypeInv, ListingTypeOK
<1>1. CASE Search
  <2>1. walk'.found \in Entries /\ walk'.total \in Nat
    BY <1>1, SearchFacts, FoundFacts, EntriesFacts, WalkFacts
  <2>2. walk' \in [pc : {"search", "count", "reply", "read", "done"}, req : Question,
                   page : Nat \ {0}, found : Entries, total : Nat, list : Seq(Name),
                   shown : SUBSET Name]
    <3>1. walk' = [pc |-> walk'.pc, req |-> walk.req, page |-> walk.page,
                   found |-> walk'.found, total |-> walk'.total, list |-> walk.list,
                   shown |-> walk.shown]
      BY <1>1 DEF Search
    <3> QED BY <1>1, <2>1, <3>1, SearchFacts, WalkFacts
  <2> QED BY <1>1, <2>2, SearchFacts
<1>2. CASE Count
  <2>1. Cardinality(DOMAIN entries) \in Nat
    BY EntriesFacts
  <2> QED BY <1>2, <2>1, CountFacts DEF Count
<1>3. CASE Reply
  <2>1. PICK list \in Seq(Name) : walk' = [walk EXCEPT !.pc = "read", !.list = list]
    BY <1>3, ReplyType DEF Reply
  <2> QED BY <1>3, <2>1, ReplyStep
<1>4. CASE TurnPage
  <2>1. <<>> \in Entries /\ <<>> \in Seq(Name)
    BY EntriesFacts
  <2>2. walk'.shown \subseteq Name
    BY <1>4, TurnPageFacts, WalkFacts
  <2>3. walk.page + 1 \in Nat \ {0}
    BY WalkFacts
  <2> QED BY <1>4, <2>1, <2>2, <2>3, TurnPageFacts DEF TurnPage
<1>5. changes \in Nat /\ torn \in Nat /\ torn <= changes /\ MaxChanges \in Nat
  BY WalkFacts
<1>6. ASSUME NEW n \in Name, Appear(n) PROVE TypeInv'
  <2> HIDE DEF TypeInv, ListingTypeOK
  <2>1. /\ entries' \in Entries /\ changes' = changes + 1 /\ changes < MaxChanges
        /\ stable' = stable /\ torn' = torn /\ walk' = walk
    BY <1>6, AppearFacts
  <2>2. changes' \in 0..MaxChanges /\ torn' <= changes'
    BY <1>5, <2>1
  <2> QED BY <2>1, <2>2 DEF TypeInv, ListingTypeOK
<1>7. ASSUME NEW n \in Name, Vanish(n) PROVE TypeInv'
  <2> HIDE DEF TypeInv, ListingTypeOK
  <2>1. /\ entries' \in Entries /\ changes' = changes + 1 /\ changes < MaxChanges
        /\ stable' = stable \ {n} /\ torn' \in {torn, torn + 1} /\ walk' = walk
    BY <1>7, VanishFacts
  <2>2. changes' \in 0..MaxChanges /\ torn' \in 0..MaxChanges /\ torn' <= changes'
    BY <1>5, <2>1
  <2> QED BY <2>1, <2>2 DEF TypeInv, ListingTypeOK
<1>8. CASE UNCHANGED listVars
  BY <1>8 DEF listVars
<1> QED BY <1>1, <1>2, <1>3, <1>4, <1>6, <1>7, <1>8 DEF Next

\* The directory holds names with values, a client waits for a request that
\* the service knows, and the pages of a reply consist of names.
THEOREM ListingTypesCorrect == Spec => []ListingTypeOK
<1>1. TypeInv => ListingTypeOK
  BY DEF TypeInv
<1> QED BY TypeInit, TypeNext, <1>1, PTL DEF Spec

-----------------------------------------------------------------------------
(* The walk is complete.                                                   *)

Seen(S) == \A n \in stable \cap Match(walk.req) : Distinct(n) => n \in S
Hits == [n \in DOMAIN entries \cap Match(walk.req) |-> entries[n]]

Kept == stable \subseteq DOMAIN entries

FewMissing ==
    walk.pc = "count" => Cardinality(DOMAIN walk.found \ DOMAIN entries) <= torn

AllFound ==
    walk.pc \in {"count", "reply"} => stable \cap Match(walk.req) \subseteq DOMAIN walk.found

FewUncounted == walk.pc = "reply" => Cardinality(DOMAIN walk.found) <= walk.total + torn

FoundNow == changes = 0 /\ walk.pc \in {"count", "reply", "read"} => walk.found = Hits

LastPageComplete ==
    walk.pc = "read" /\ walk.total + torn <= walk.page * PerPage =>
        Seen({walk.list[i] : i \in DOMAIN walk.list})

EndComplete == walk.pc = "done" /\ torn <= PerPage => Seen(walk.shown)

CompleteInv ==
    /\ TypeInv
    /\ Kept /\ FewMissing /\ AllFound /\ FewUncounted /\ FoundNow
    /\ LastPageComplete /\ EndComplete

LEMMA CompleteInit == Init => CompleteInv
<1> SUFFICES ASSUME Init PROVE CompleteInv
  OBVIOUS
<1>1. TypeInv
  BY TypeInit
<1>2. walk.pc = "search" /\ stable = DOMAIN entries
  BY DEF Init
<1> QED BY <1>1, <1>2 DEF CompleteInv, Kept, FewMissing, AllFound, FewUncounted, FoundNow,
                          LastPageComplete, EndComplete

\* Without a change, the same entries have keys of their own.
LEMMA DistinctSame ==
    ASSUME walk'.req = walk.req, UNCHANGED <<entries, changes>>, NEW n
    PROVE  Distinct(n)' <=> Distinct(n)
  BY DEF Distinct

LEMMA DistinctChange ==
    ASSUME TypeInv, walk' = walk, changes' = changes + 1, NEW n, Distinct(n)'
    PROVE  Distinct(n)
<1>1. changes \in Nat /\ changes' # 0
  BY WalkFacts
<1> QED BY <1>1 DEF Distinct

LEMMA SearchCompletes ==
    ASSUME CompleteInv, TypeInv', Search
    PROVE  CompleteInv'
<1>1. TypeInv /\ Kept
  BY DEF CompleteInv
<1>2. /\ walk'.found = Hits /\ walk'.pc \in {"reply", "count"}
      /\ walk'.pc = "reply" => walk'.total = Cardinality(DOMAIN walk'.found)
      /\ walk'.req = walk.req
      /\ UNCHANGED <<entries, changes, stable, torn>>
  BY <1>1, SearchFacts DEF Hits
<1>3. DOMAIN Hits = DOMAIN entries \cap Match(walk.req)
  BY DEF Hits
<1>4. Hits' = Hits /\ torn \in Nat /\ torn' = torn
  BY <1>1, <1>2, WalkFacts DEF Hits
<1>5. FewMissing'
  <2>1. DOMAIN walk'.found \ DOMAIN entries' = {}
    BY <1>2, <1>3
  <2>2. Cardinality({}) = 0
    BY FS_EmptySet
  <2> QED BY <1>4, <2>1, <2>2 DEF FewMissing
<1>6. AllFound'
  BY <1>1, <1>2, <1>3 DEF AllFound, Kept
<1>7. FewUncounted'
  <2>1. Cardinality(DOMAIN walk'.found) \in Nat
    BY WalkFacts, EntriesFacts DEF TypeInv, ListingTypeOK
  <2> QED BY <1>2, <1>4, <2>1 DEF FewUncounted
<1>8. Kept' /\ FoundNow' /\ LastPageComplete' /\ EndComplete'
  BY <1>1, <1>2, <1>4 DEF Kept, FoundNow, LastPageComplete, EndComplete
<1> QED BY <1>5, <1>6, <1>7, <1>8 DEF CompleteInv

\* No more has been found than is counted later and was removed before.
LEMMA CountCompletes ==
    ASSUME CompleteInv, TypeInv', Count
    PROVE  CompleteInv'
<1>1. TypeInv /\ Kept /\ FewMissing /\ AllFound /\ FoundNow
  BY DEF CompleteInv
<1>2. /\ walk.pc = "count" /\ walk'.pc = "reply" /\ walk'.total = Cardinality(DOMAIN entries)
      /\ walk'.found = walk.found /\ walk'.req = walk.req
      /\ UNCHANGED <<entries, changes, stable, torn>>
  BY <1>1, CountFacts
<1>3. FewUncounted'
  <2>1. PICK F, E : F = DOMAIN walk.found /\ E = DOMAIN entries
    OBVIOUS
  <2>2. IsFiniteSet(F) /\ IsFiniteSet(E) /\ Cardinality(F) \in Nat /\ Cardinality(E) \in Nat
    BY <1>1, <2>1, WalkFacts, EntriesFacts
  <2>3. IsFiniteSet(F \ E) /\ Cardinality(F \ E) \in Nat
    BY <2>2, FS_Subset, FS_CardinalityType
  <2>4. Cardinality(F \cap E) <= Cardinality(E) /\ Cardinality(F \cap E) \in Nat
    BY <2>2, FS_Subset, FS_CardinalityType
  <2>5. Cardinality(F \ E) = Cardinality(F) - Cardinality(F \cap E)
    BY <2>2, FS_Difference
  <2>6. Cardinality(F \ E) <= torn /\ torn \in Nat
    BY <1>1, <1>2, <2>1, WalkFacts DEF FewMissing
  <2>7. Cardinality(F) <= Cardinality(E) + torn
    BY <2>2, <2>3, <2>4, <2>5, <2>6
  <2> QED BY <1>2, <2>1, <2>7 DEF FewUncounted
<1>4. Kept' /\ FewMissing' /\ AllFound' /\ LastPageComplete' /\ EndComplete'
  BY <1>1, <1>2 DEF Kept, FewMissing, AllFound, LastPageComplete, EndComplete
<1>5. FoundNow'
  BY <1>1, <1>2 DEF FoundNow, Hits
<1> QED BY <1>3, <1>4, <1>5 DEF CompleteInv

\* A reply that reaches the number of entries shows everything that was there.
LEMMA ReplyCompletes ==
    ASSUME CompleteInv, TypeInv', Reply
    PROVE  CompleteInv'
<1>1. TypeInv /\ Kept /\ AllFound /\ FewUncounted /\ FoundNow
  BY DEF CompleteInv
<1>2. /\ walk.pc = "reply" /\ walk'.pc = "read"
      /\ walk'.found = walk.found /\ walk'.total = walk.total
      /\ walk'.req = walk.req /\ walk'.page = walk.page
      /\ UNCHANGED <<entries, changes, stable, torn>>
  BY <1>1, ReplyStep
<1>3. LastPageComplete'
  <2> SUFFICES ASSUME walk.total + torn <= walk.page * PerPage,
                      NEW n \in stable \cap Match(walk.req), Distinct(n)
               PROVE  n \in {walk'.list[i] : i \in DOMAIN walk'.list}
    BY <1>2, DistinctSame DEF LastPageComplete, Seen
  <2>1. PICK who \in Keyed(walk.req, walk.found) : \E keys \in Orders(walk.req, DOMAIN who) :
           walk'.list = Page(who, keys, walk.page)
    BY <1>1, ReplyStep
  <2>2. PICK keys \in Orders(walk.req, DOMAIN who) : walk'.list = Page(who, keys, walk.page)
    BY <2>1
  <2>3. PICK req \in Question, found \in Entries, page \in Nat \ {0} :
           req = walk.req /\ found = walk.found /\ page = walk.page
    BY <1>1, WalkFacts
  <2>4. who \in Keyed(req, found) /\ keys \in Orders(req, DOMAIN who)
    BY <2>3
  <2>5. /\ DOMAIN who \in SUBSET Nat /\ IsFiniteSet(DOMAIN who)
        /\ Cardinality(DOMAIN who) \in Nat
        /\ Cardinality(DOMAIN who) <= Cardinality(DOMAIN found)
        /\ \A k \in DOMAIN who : who[k] \in DOMAIN found /\ Key(req, found, who[k]) = k
        /\ Key(req, found, n) # 0 /\ n \in DOMAIN found => Key(req, found, n) \in DOMAIN who
    BY <2>4, KeyedFacts
  <2>6. Len(keys) = Cardinality(DOMAIN who)
    BY <2>4, <2>5, OrdersFacts
  <2>7. Len(keys) <= page * PerPage
    <3>1. Cardinality(DOMAIN found) <= walk.total + torn
      BY <1>1, <1>2, <2>3 DEF FewUncounted
    <3>2. Cardinality(DOMAIN found) \in Nat /\ walk.total \in Nat /\ torn \in Nat
      BY <1>1, <2>3, EntriesFacts, WalkFacts
    <3>3. page * PerPage \in Nat /\ walk.total + torn <= page * PerPage
      BY <2>3, PageFacts
    <3> QED BY <2>5, <2>6, <3>1, <3>2, <3>3
  <2>8. \A k \in DOMAIN who : \E i \in DOMAIN walk'.list : walk'.list[i] = who[k]
    BY <2>2, <2>3, <2>4, <2>7, ReplyFacts
  <2>9. n \in DOMAIN found /\ n \in DOMAIN entries /\ n # 0
    BY <1>1, <1>2, <2>3, NameFacts, WalkFacts DEF AllFound, Kept
  <2>10. CASE req.op = "GetUserList" /\ req.key = "value"
    <3>1. /\ changes = 0 /\ entries[n] # 0
          /\ \A m \in DOMAIN entries : entries[m] = entries[n] => m = n
      BY <2>3, <2>10 DEF Distinct
    <3>2. /\ DOMAIN found = DOMAIN entries \cap Match(req)
          /\ \A m \in DOMAIN found : found[m] = entries[m]
      BY <1>1, <1>2, <2>3, <3>1 DEF FoundNow, Hits
    <3>3. \A m \in DOMAIN found : Key(req, found, m) = entries[m]
      BY <2>10, <3>2 DEF Key
    <3>4. Key(req, found, n) \in DOMAIN who
      BY <2>5, <2>9, <3>1, <3>3
    <3>5. who[Key(req, found, n)] = n
      BY <2>5, <2>9, <3>1, <3>2, <3>3, <3>4
    <3> QED BY <2>8, <3>4, <3>5
  <2>11. CASE ~(req.op = "GetUserList" /\ req.key = "value")
    <3>1. \A m : Key(req, found, m) = m
      BY <2>11 DEF Key
    <3>2. n \in DOMAIN who /\ who[n] = n
      BY <2>5, <2>9, <3>1
    <3> QED BY <2>8, <3>2
  <2> QED BY <2>10, <2>11
<1>4. Kept' /\ FewMissing' /\ AllFound' /\ FewUncounted' /\ EndComplete'
  BY <1>1, <1>2 DEF Kept, FewMissing, AllFound, FewUncounted, EndComplete
<1>5. FoundNow'
  BY <1>1, <1>2 DEF FoundNow, Hits
<1> QED BY <1>3, <1>4, <1>5 DEF CompleteInv

\* The client that stops has read a page that reached the number of entries.
LEMMA TurnPageCompletes ==
    ASSUME CompleteInv, TypeInv', TurnPage
    PROVE  CompleteInv'
<1>1. TypeInv /\ Kept /\ LastPageComplete
  BY DEF CompleteInv
<1>2. /\ walk.pc = "read"
      /\ \/ walk'.pc = "search"
         \/ /\ walk'.pc = "done"
            /\ ~((walk.page - 1) * PerPage < walk.total)
      /\ walk'.shown = walk.shown \cup {walk.list[i] : i \in DOMAIN walk.list}
      /\ walk'.req = walk.req
      /\ UNCHANGED <<entries, changes, stable, torn>>
  BY <1>1, TurnPageFacts
<1>3. EndComplete'
  <2> SUFFICES ASSUME walk'.pc = "done", torn <= PerPage,
                      NEW n \in stable \cap Match(walk.req), Distinct(n)
               PROVE  n \in walk'.shown
    BY <1>2, DistinctSame DEF EndComplete, Seen
  <2>1. walk.total + torn <= walk.page * PerPage
    <3>1. PICK page \in Nat \ {0} : page = walk.page
      BY <1>1, WalkFacts
    <3>2. /\ (page - 1) * PerPage \in Nat /\ page * PerPage \in Nat
          /\ page * PerPage = (page - 1) * PerPage + PerPage
      BY PageFacts
    <3>3. ~((page - 1) * PerPage < walk.total)
      BY <1>2, <3>1
    <3>4. walk.total \in Nat /\ torn \in Nat /\ PerPage \in Nat
      BY <1>1, WalkFacts, NameFacts
    <3>5. walk.total + torn <= page * PerPage
      BY <3>2, <3>3, <3>4
    <3> QED BY <3>1, <3>5
  <2>2. n \in {walk.list[i] : i \in DOMAIN walk.list}
    BY <1>1, <1>2, <2>1 DEF LastPageComplete, Seen
  <2> QED BY <1>2, <2>2
<1>4. Kept' /\ FewMissing' /\ AllFound' /\ FewUncounted' /\ FoundNow' /\ LastPageComplete'
  BY <1>1, <1>2 DEF Kept, FewMissing, AllFound, FewUncounted, FoundNow, LastPageComplete
<1> QED BY <1>3, <1>4 DEF CompleteInv

\* A new entry was not there all the time.
LEMMA AppearCompletes ==
    ASSUME CompleteInv, TypeInv', NEW n \in Name, Appear(n)
    PROVE  CompleteInv'
<1>1. TypeInv /\ Kept /\ FewMissing /\ AllFound /\ FewUncounted /\ LastPageComplete
  BY DEF CompleteInv
<1>2. /\ DOMAIN entries' = DOMAIN entries \cup {n}
      /\ changes' = changes + 1 /\ changes \in Nat
      /\ walk.pc # "done"
      /\ UNCHANGED <<stable, torn, walk>>
  BY <1>1, AppearFacts, WalkFacts
<1>3. FewMissing'
  <2> SUFFICES ASSUME walk.pc = "count"
               PROVE  Cardinality(DOMAIN walk.found \ DOMAIN entries') <= torn
    BY <1>2 DEF FewMissing
  <2>1. PICK M, L :
           /\ M = DOMAIN walk.found \ DOMAIN entries
           /\ L = DOMAIN walk.found \ DOMAIN entries'
    OBVIOUS
  <2>2. IsFiniteSet(M) /\ Cardinality(M) \in Nat /\ Cardinality(M) <= torn /\ torn \in Nat
    BY <1>1, <2>1, WalkFacts, EntriesFacts, FS_Difference, FS_CardinalityType DEF FewMissing
  <2>3. L \in SUBSET M
    BY <1>2, <2>1
  <2>4. Cardinality(L) <= Cardinality(M) /\ Cardinality(L) \in Nat
    BY <2>2, <2>3, FS_Subset, FS_CardinalityType
  <2> QED BY <2>1, <2>2, <2>4
<1>4. LastPageComplete'
  BY <1>1, <1>2, DistinctChange DEF LastPageComplete, Seen
<1>5. Kept' /\ AllFound' /\ FewUncounted' /\ FoundNow' /\ EndComplete'
  BY <1>1, <1>2 DEF Kept, AllFound, FewUncounted, FoundNow, EndComplete
<1> QED BY <1>3, <1>4, <1>5 DEF CompleteInv

\* A removed entry is missing from those that were found, if it is removed
\* between the searches.
LEMMA VanishCompletes ==
    ASSUME CompleteInv, TypeInv', NEW n \in Name, Vanish(n)
    PROVE  CompleteInv'
<1>1. TypeInv /\ Kept /\ FewMissing /\ AllFound /\ FewUncounted /\ LastPageComplete
  BY DEF CompleteInv
<1>2. /\ DOMAIN entries' = DOMAIN entries \ {n}
      /\ changes' = changes + 1 /\ changes \in Nat
      /\ walk.pc # "done" /\ stable' = stable \ {n}
      /\ torn' = IF walk.pc = "count" THEN torn + 1 ELSE torn
      /\ walk' = walk
  BY <1>1, VanishFacts, WalkFacts
<1>3. FewMissing'
  <2> SUFFICES ASSUME walk.pc = "count"
               PROVE  Cardinality(DOMAIN walk.found \ DOMAIN entries') <= torn + 1
    BY <1>2 DEF FewMissing
  <2>1. PICK M, L :
           /\ M = DOMAIN walk.found \ DOMAIN entries
           /\ L = DOMAIN walk.found \ DOMAIN entries'
    OBVIOUS
  <2>2. IsFiniteSet(M) /\ Cardinality(M) \in Nat /\ Cardinality(M) <= torn /\ torn \in Nat
    BY <1>1, <2>1, WalkFacts, EntriesFacts, FS_Difference, FS_CardinalityType DEF FewMissing
  <2>3. L \in SUBSET (M \cup {n})
    BY <1>2, <2>1
  <2>4. /\ IsFiniteSet(M \cup {n})
        /\ Cardinality(M \cup {n}) \in {Cardinality(M), Cardinality(M) + 1}
    BY <2>2, FS_AddElement
  <2>5. Cardinality(L) <= Cardinality(M \cup {n}) /\ Cardinality(L) \in Nat
    BY <2>3, <2>4, FS_Subset, FS_CardinalityType
  <2> QED BY <2>1, <2>2, <2>4, <2>5
<1>4. LastPageComplete'
  BY <1>1, <1>2, DistinctChange DEF LastPageComplete, Seen
<1>5. Kept' /\ AllFound' /\ FewUncounted' /\ FoundNow' /\ EndComplete'
  BY <1>1, <1>2 DEF Kept, AllFound, FewUncounted, FoundNow, EndComplete
<1> QED BY <1>3, <1>4, <1>5 DEF CompleteInv

LEMMA CompleteNext == CompleteInv /\ [Next]_listVars => CompleteInv'
<1> SUFFICES ASSUME CompleteInv, [Next]_listVars PROVE CompleteInv'
  OBVIOUS
<1>1. TypeInv'
  BY TypeNext DEF CompleteInv
<1>2. CASE UNCHANGED listVars
  BY <1>1, <1>2
     DEF CompleteInv, Kept, FewMissing, AllFound, FewUncounted, FoundNow, LastPageComplete,
         EndComplete, Seen, Hits, Distinct, listVars
<1>3. CASE Next
  BY <1>1, <1>3, SearchCompletes, CountCompletes, ReplyCompletes, TurnPageCompletes,
     AppearCompletes, VanishCompletes DEF Next
<1> QED BY <1>2, <1>3

\* A client that turns the pages to the end has seen every entry that was there
\* all the time, unless more than a page was removed between two searches.
THEOREM WalkIsComplete == Spec => []WalkComplete
<1>1. CompleteInv => WalkComplete
  <2> SUFFICES ASSUME CompleteInv, At("done"), torn <= PerPage, NEW n \in stable,
                      n \in parseFilter(walk.req.filter), Distinct(n)
               PROVE  n \in walk.shown
    BY DEF WalkComplete
  <2>1. EndComplete /\ walk.pc = "done" /\ walk.req \in Question
    BY WalkFacts DEF CompleteInv, At
  <2>2. n \in stable \cap Match(walk.req)
    BY <2>1, MatchFacts
  <2> QED BY <2>1, <2>2 DEF EndComplete, Seen
<1> QED BY CompleteInit, CompleteNext, <1>1, PTL DEF Spec

-----------------------------------------------------------------------------
(* The pages fit.                                                          *)

Place(n) == Cardinality(Ahead(walk.req, Hits, n))

Still == changes = 0 /\ \A n \in DOMAIN entries : Distinct(n)

\* What is shown precedes the page, what the page lists precedes the next, and
\* a page that is not the last lists the entries of consecutive places.
ShownAhead ==
    Still /\ walk.pc # "done" =>
        \A n \in walk.shown : Place(n) < (walk.page - 1) * PerPage

ListAhead ==
    Still /\ walk.pc = "read" =>
        \A i \in DOMAIN walk.list : Place(walk.list[i]) < walk.page * PerPage

ListInPlace ==
    Still /\ walk.pc = "read" /\ walk.page * PerPage < Cardinality(DOMAIN Hits) =>
        /\ Len(walk.list) = PerPage /\ DOMAIN walk.list = 1..PerPage
        /\ \A i \in 1..PerPage : Place(walk.list[i]) = (walk.page - 1) * PerPage + i - 1

FitInv == CompleteInv /\ ShownAhead /\ ListAhead /\ ListInPlace

LEMMA FitInit == Init => FitInv
<1> SUFFICES ASSUME Init PROVE FitInv
  OBVIOUS
<1>1. walk.pc = "search" /\ walk.shown = {}
  BY DEF Init
<1> QED BY <1>1, CompleteInit DEF FitInv, ShownAhead, ListAhead, ListInPlace

LEMMA HitsFacts ==
    ASSUME TypeInv
    PROVE  /\ Hits \in Entries
           /\ Still => Apart(walk.req, Hits)
           /\ \A n : Place(n) \in Nat
<1>1. Hits \in Entries /\ DOMAIN Hits \subseteq DOMAIN entries
      /\ \A n \in DOMAIN Hits : Hits[n] = entries[n]
  BY FoundFacts DEF TypeInv, Hits
<1>2. ASSUME Still PROVE Apart(walk.req, Hits)
  <2>1. \A n \in DOMAIN Hits : n # 0
    BY <1>1, EntriesFacts, NameFacts
  <2> QED BY <1>1, <1>2, <2>1 DEF Still, Distinct, Apart, Key
<1>3. ASSUME NEW n PROVE Place(n) \in Nat
  <2>1. IsFiniteSet(DOMAIN Hits) /\ Ahead(walk.req, Hits, n) \in SUBSET DOMAIN Hits
    BY <1>1, EntriesFacts DEF Ahead
  <2> QED BY <2>1, FS_Subset, FS_CardinalityType DEF Place
<1> QED BY <1>1, <1>2, <1>3

\* Nothing has changed yet: the places are what they were.
LEMMA StillSame ==
    ASSUME walk'.req = walk.req, UNCHANGED <<entries, changes>>
    PROVE  /\ Still' <=> Still
           /\ Hits' = Hits
           /\ \A n : Place(n)' = Place(n)
  BY DEF Still, Distinct, Hits, Place

LEMMA SearchFits ==
    ASSUME FitInv, CompleteInv', Search
    PROVE  FitInv'
<1>1. TypeInv /\ ShownAhead
  BY DEF FitInv, CompleteInv
<1>2. /\ walk.pc = "search" /\ walk'.pc \in {"reply", "count"}
      /\ walk'.req = walk.req /\ walk'.page = walk.page /\ walk'.shown = walk.shown
      /\ UNCHANGED <<entries, changes>>
  BY <1>1, SearchFacts
<1> QED BY <1>1, <1>2, StillSame DEF FitInv, ShownAhead, ListAhead, ListInPlace

LEMMA CountFits ==
    ASSUME FitInv, CompleteInv', Count
    PROVE  FitInv'
<1>1. TypeInv /\ ShownAhead
  BY DEF FitInv, CompleteInv
<1>2. /\ walk.pc = "count" /\ walk'.pc = "reply"
      /\ walk'.req = walk.req /\ walk'.page = walk.page /\ walk'.shown = walk.shown
      /\ UNCHANGED <<entries, changes>>
  BY <1>1, CountFacts
<1> QED BY <1>1, <1>2, StillSame DEF FitInv, ShownAhead, ListAhead, ListInPlace

\* The page lists entries in their places, whatever choices the sort made.
LEMMA ReplyFits ==
    ASSUME FitInv, CompleteInv', Reply
    PROVE  FitInv'
<1>1. TypeInv /\ FoundNow /\ ShownAhead
  BY DEF FitInv, CompleteInv
<1>2. /\ walk.pc = "reply" /\ walk'.pc = "read"
      /\ walk'.req = walk.req /\ walk'.page = walk.page /\ walk'.shown = walk.shown
      /\ UNCHANGED <<entries, changes>>
  BY <1>1, ReplyStep
<1>3. ShownAhead'
  BY <1>1, <1>2, StillSame DEF ShownAhead
<1>4. ASSUME Still
      PROVE  /\ \A i \in DOMAIN walk'.list : Place(walk'.list[i]) < walk.page * PerPage
             /\ walk.page * PerPage < Cardinality(DOMAIN Hits) =>
                   /\ Len(walk'.list) = PerPage /\ DOMAIN walk'.list = 1..PerPage
                   /\ \A i \in 1..PerPage :
                         Place(walk'.list[i]) = (walk.page - 1) * PerPage + i - 1
  <2>1. PICK who \in Keyed(walk.req, walk.found) : \E keys \in Orders(walk.req, DOMAIN who) :
           walk'.list = Page(who, keys, walk.page)
    BY <1>1, ReplyStep
  <2>2. PICK keys \in Orders(walk.req, DOMAIN who) : walk'.list = Page(who, keys, walk.page)
    BY <2>1
  <2>3. PICK req \in Question, found \in Entries, page \in Nat \ {0}, list \in Seq(Name) :
           req = walk.req /\ found = walk.found /\ page = walk.page /\ list = walk'.list
    BY <1>1, ReplyStep, WalkFacts
  <2>4. /\ who \in Keyed(req, found) /\ keys \in Orders(req, DOMAIN who)
        /\ list = Page(who, keys, page)
    BY <2>2, <2>3
  <2>5. /\ found = Hits /\ Apart(req, found)
        /\ \A n : Place(n) = Cardinality(Ahead(req, found, n))
    BY <1>1, <1>2, <1>4, <2>3, HitsFacts DEF FoundNow, Still, Place
  <2>6. /\ Len(keys) = Cardinality(DOMAIN found)
        /\ \A i \in 1..Len(keys) : Place(who[keys[i]]) = i - 1
    BY <2>4, <2>5, PlaceFacts
  <2>7. Len(keys) \in Nat
    BY <2>6, EntriesFacts
  <2>8. PICK start, end \in Nat :
           /\ start = (page - 1) * PerPage /\ end = page * PerPage
           /\ end = start + PerPage
    BY PageFacts
  <2>9. /\ Len(keys) <= end =>
              /\ \A i \in DOMAIN list : i <= end /\ list[i] = who[keys[i]]
              /\ DOMAIN list = 1..Len(keys)
        /\ end < Len(keys) =>
              /\ Len(list) = PerPage /\ DOMAIN list = 1..PerPage
              /\ \A i \in 1..PerPage : list[i] = who[keys[start + i]]
    <3>1. /\ Len(keys) <= page * PerPage =>
                /\ \A i \in DOMAIN list : i <= page * PerPage /\ list[i] = who[keys[i]]
                /\ DOMAIN list = 1..Len(keys)
          /\ page * PerPage < Len(keys) =>
                /\ Len(list) = PerPage /\ DOMAIN list = 1..PerPage
                /\ \A i \in 1..PerPage : list[i] = who[keys[(page - 1) * PerPage + i]]
      BY <2>4, ReplyFacts
    <3> QED BY <2>8, <3>1
  <2>10. CASE Len(keys) <= end
    <3>1. /\ DOMAIN list = 1..Len(keys)
          /\ \A i \in DOMAIN list : i <= end /\ list[i] = who[keys[i]]
      BY <2>9, <2>10
    <3>2. \A i \in DOMAIN list : Place(list[i]) < end
      BY <2>6, <2>7, <2>8, <3>1
    <3>3. ~(end < Cardinality(DOMAIN Hits))
      BY <2>5, <2>6, <2>7, <2>8, <2>10
    <3> QED BY <2>3, <2>8, <3>2, <3>3
  <2>11. CASE end < Len(keys)
    <3>1. /\ Len(list) = PerPage /\ DOMAIN list = 1..PerPage
          /\ \A i \in 1..PerPage : list[i] = who[keys[start + i]]
      BY <2>9, <2>11
    <3>2. PerPage \in Nat
      BY NameFacts
    <3>3. ASSUME NEW i \in 1..PerPage
          PROVE  Place(list[i]) = start + i - 1 /\ Place(list[i]) < end
      <4>1. start + i \in 1..Len(keys)
        BY <2>7, <2>8, <2>11, <3>2
      <4>2. Place(who[keys[start + i]]) = start + i - 1
        BY <2>6, <4>1
      <4> QED BY <2>8, <3>1, <3>2, <4>2
    <3> QED BY <2>3, <2>8, <3>1, <3>3
  <2> QED BY <2>7, <2>8, <2>10, <2>11
<1>5. ListAhead' /\ ListInPlace'
  BY <1>2, <1>4, StillSame DEF ListAhead, ListInPlace
<1> QED BY <1>3, <1>5 DEF FitInv

\* The page joins those that were shown.
LEMMA TurnPageFits ==
    ASSUME FitInv, CompleteInv', TurnPage
    PROVE  FitInv'
<1>1. TypeInv /\ ShownAhead /\ ListAhead
  BY DEF FitInv, CompleteInv
<1>2. /\ walk.pc = "read"
      /\ \/ walk'.pc = "search" /\ walk'.page = walk.page + 1
         \/ walk'.pc = "done"
      /\ walk'.shown = walk.shown \cup {walk.list[i] : i \in DOMAIN walk.list}
      /\ walk'.req = walk.req
      /\ UNCHANGED <<entries, changes>>
  BY <1>1, TurnPageFacts
<1>3. ShownAhead'
  <2> SUFFICES ASSUME Still, walk'.pc = "search", walk'.page = walk.page + 1,
                      NEW n \in walk'.shown
               PROVE  Place(n) < (walk'.page - 1) * PerPage
    BY <1>2, StillSame DEF ShownAhead
  <2>1. PICK page \in Nat \ {0} : page = walk.page
    BY <1>1, WalkFacts
  <2>2. PICK start, end \in Nat :
           /\ start = (page - 1) * PerPage /\ end = page * PerPage
           /\ end = start + PerPage /\ (page + 1 - 1) * PerPage = end
    BY PageFacts
  <2>3. Place(n) < start \/ Place(n) < end
    BY <1>1, <1>2, <2>1, <2>2 DEF ShownAhead, ListAhead
  <2>4. Place(n) \in Nat /\ PerPage \in Nat
    BY <1>1, HitsFacts, NameFacts
  <2>5. Place(n) < end
    BY <2>2, <2>3, <2>4
  <2> QED BY <2>1, <2>2, <2>5
<1>4. ListAhead' /\ ListInPlace'
  BY <1>2 DEF ListAhead, ListInPlace
<1> QED BY <1>3, <1>4 DEF FitInv

LEMMA FitNext == FitInv /\ [Next]_listVars => FitInv'
<1> SUFFICES ASSUME FitInv, [Next]_listVars PROVE FitInv'
  OBVIOUS
<1>1. CompleteInv' /\ TypeInv
  BY CompleteNext DEF FitInv, CompleteInv
<1>2. CASE UNCHANGED listVars
  <2>1. UNCHANGED <<entries, changes, walk>>
    BY <1>2 DEF listVars
  <2> QED BY <1>1, <2>1, StillSame DEF FitInv, ShownAhead, ListAhead, ListInPlace
<1>3. ASSUME NEW n \in Name, Appear(n) \/ Vanish(n) PROVE FitInv'
  <2>1. changes' # 0
    <3>1. changes' = changes + 1
      BY <1>1, <1>3, AppearFacts, VanishFacts
    <3>2. changes \in Nat
      BY <1>1, WalkFacts
    <3> QED BY <3>1, <3>2
  <2> QED BY <1>1, <2>1 DEF FitInv, ShownAhead, ListAhead, ListInPlace, Still
<1>4. CASE Next
  BY <1>1, <1>3, <1>4, SearchFits, CountFits, ReplyFits, TurnPageFits DEF Next
<1> QED BY <1>2, <1>4

\* As long as nothing has changed, a page before the last one is full, shows no
\* entry twice, and none that an earlier page has shown.
THEOREM PagesFitTogether == Spec => []PagesFit
<1>1. FitInv => PagesFit
  <2> SUFFICES ASSUME FitInv, walk.pc = "read", Still,
                      walk.page * PerPage < Cardinality(DOMAIN walk.found)
               PROVE  /\ Len(walk.list) = PerPage
                      /\ Cardinality(ToSet(walk.list)) = PerPage
                      /\ ToSet(walk.list) \cap walk.shown = {}
    BY DEF PagesFit, At, Still
  <2>1. TypeInv /\ FoundNow /\ ShownAhead /\ ListInPlace
    BY DEF FitInv, CompleteInv
  <2>2. PICK page \in Nat \ {0}, list \in Seq(Name) : page = walk.page /\ list = walk.list
    BY <2>1, WalkFacts
  <2>3. PICK start \in Nat : start = (page - 1) * PerPage
    BY PageFacts
  <2>4. /\ Len(list) = PerPage /\ DOMAIN list = 1..PerPage
        /\ \A i \in 1..PerPage : Place(list[i]) = start + i - 1
    BY <2>1, <2>2, <2>3 DEF FoundNow, ListInPlace, Still
  <2>5. PerPage \in Nat /\ \A n \in walk.shown : Place(n) < start
    BY <2>1, <2>2, <2>3, NameFacts DEF ShownAhead
  <2>6. ToSet(list) \cap walk.shown = {}
    <3> SUFFICES ASSUME NEW i \in 1..PerPage, list[i] \in walk.shown PROVE FALSE
      BY <2>4 DEF ToSet
    <3>1. Place(list[i]) = start + i - 1 /\ Place(list[i]) < start
      BY <2>4, <2>5
    <3> QED BY <2>3, <2>5, <3>1
  <2>7. Cardinality(ToSet(list)) = PerPage
    <3>1. \A i, j \in 1..PerPage : list[i] = list[j] => i = j
      <4> SUFFICES ASSUME NEW i \in 1..PerPage, NEW j \in 1..PerPage, list[i] = list[j]
                   PROVE  i = j
        OBVIOUS
      <4>1. start + i - 1 = start + j - 1
        BY <2>4
      <4> QED BY <2>3, <2>5, <4>1
    <3>2. list \in Bijection(1..PerPage, ToSet(list))
      BY <2>4, <3>1 DEF Bijection, Injection, Surjection, IsInjective, ToSet
    <3> QED BY <2>5, <3>2, FS_CountingElements DEF ExistsBijection
  <2> QED BY <2>2, <2>4, <2>6, <2>7
<1> QED BY FitInit, FitNext, <1>1, PTL DEF Spec
=============================================================================
