---------------------------- MODULE GatewayProofs ----------------------------
(***************************************************************************)
(* The safety properties of Gateway for all names of accounts and groups,  *)
(* whatever literal parts of paths they equal, all paths and all tokens.   *)
(***************************************************************************)
EXTENDS Gateway, SequenceTheorems, TLAPS

-----------------------------------------------------------------------------
(* The tables.                                                             *)

LEMMA RoutedMethods ==
    Routed = {"Login", "GetUserList", "GetAccount", "NewAccount", "UpdateAccount",
              "DeleteAccount", "ChangePassword", "NewGroup", "DeleteGroup", "UpdateGroup",
              "GetGroupList", "GetUserGroups", "GetGroup", "AddGroupMember",
              "DeleteGroupMember"}
  BY DEF Routed, AccountVerb, GroupVerb

\* The verbs, the lengths of the patterns and their second segments.
LEMMA Verbs ==
    /\ VerbOf("Login") = "POST"
    /\ VerbOf("GetUserList") = "GET"
    /\ VerbOf("GetAccount") = "GET"
    /\ VerbOf("NewAccount") = "PUT"
    /\ VerbOf("UpdateAccount") = "POST"
    /\ VerbOf("DeleteAccount") = "DELETE"
    /\ VerbOf("ChangePassword") = "POST"
    /\ VerbOf("NewGroup") = "PUT"
    /\ VerbOf("DeleteGroup") = "DELETE"
    /\ VerbOf("UpdateGroup") = "POST"
    /\ VerbOf("GetGroupList") = "GET"
    /\ VerbOf("GetUserGroups") = "GET"
    /\ VerbOf("GetGroup") = "GET"
    /\ VerbOf("AddGroupMember") = "PUT"
    /\ VerbOf("DeleteGroupMember") = "DELETE"
  BY DEF VerbOf, AccountVerb, GroupVerb

\* The methods of each verb.
Gets == {"GetUserList", "GetAccount", "GetGroupList", "GetUserGroups", "GetGroup"}
Puts == {"NewAccount", "NewGroup", "AddGroupMember"}
Posts == {"Login", "UpdateAccount", "ChangePassword", "UpdateGroup"}
Deletes == {"DeleteAccount", "DeleteGroup", "DeleteGroupMember"}

LEMMA ByVerb ==
    ASSUME NEW k \in Routed
    PROVE  /\ VerbOf(k) = "GET" => k \in Gets
           /\ VerbOf(k) = "PUT" => k \in Puts
           /\ VerbOf(k) = "POST" => k \in Posts
           /\ VerbOf(k) = "DELETE" => k \in Deletes
           /\ VerbOf(k) \in {"GET", "PUT", "POST", "DELETE"}
<1>1. k \in Gets \/ k \in Puts \/ k \in Posts \/ k \in Deletes
  BY RoutedMethods DEF Gets, Puts, Posts, Deletes
<1>2. CASE k \in Gets
  <2>1. VerbOf(k) = "GET"
    BY <1>2, Verbs DEF Gets
  <2> QED BY <1>2, <2>1
<1>3. CASE k \in Puts
  <2>1. VerbOf(k) = "PUT"
    BY <1>3, Verbs DEF Puts
  <2> QED BY <1>3, <2>1
<1>4. CASE k \in Posts
  <2>1. VerbOf(k) = "POST"
    BY <1>4, Verbs DEF Posts
  <2> QED BY <1>4, <2>1
<1>5. CASE k \in Deletes
  <2>1. VerbOf(k) = "DELETE"
    BY <1>5, Verbs DEF Deletes
  <2> QED BY <1>5, <2>1
<1> QED BY <1>1, <1>2, <1>3, <1>4, <1>5

LEMMA Lengths ==
    /\ Len(Pattern["Login"]) = 2
    /\ Len(Pattern["GetUserList"]) = 2
    /\ Len(Pattern["GetAccount"]) = 3
    /\ Len(Pattern["NewAccount"]) = 2
    /\ Len(Pattern["UpdateAccount"]) = 4
    /\ Len(Pattern["DeleteAccount"]) = 3
    /\ Len(Pattern["ChangePassword"]) = 3
    /\ Len(Pattern["NewGroup"]) = 2
    /\ Len(Pattern["DeleteGroup"]) = 3
    /\ Len(Pattern["UpdateGroup"]) = 4
    /\ Len(Pattern["GetGroupList"]) = 2
    /\ Len(Pattern["GetUserGroups"]) = 4
    /\ Len(Pattern["GetGroup"]) = 3
    /\ Len(Pattern["AddGroupMember"]) = 4
    /\ Len(Pattern["DeleteGroupMember"]) = 5
  BY DEF Pattern

LEMMA Seconds ==
    /\ Pattern["Login"][2] = "login"
    /\ Pattern["GetUserList"][2] = "accounts"
    /\ Pattern["GetAccount"][2] = "account"
    /\ Pattern["NewAccount"][2] = "account"
    /\ Pattern["UpdateAccount"][2] = "account"
    /\ Pattern["DeleteAccount"][2] = "account"
    /\ Pattern["ChangePassword"][2] = "account"
    /\ Pattern["NewGroup"][2] = "group"
    /\ Pattern["DeleteGroup"][2] = "group"
    /\ Pattern["UpdateGroup"][2] = "group"
    /\ Pattern["GetGroupList"][2] = "groups"
    /\ Pattern["GetUserGroups"][2] = "account"
    /\ Pattern["GetGroup"][2] = "group"
    /\ Pattern["AddGroupMember"][2] = "group"
    /\ Pattern["DeleteGroupMember"][2] = "group"
  BY DEF Pattern

LEMMA Pairs == ASSUME NEW S, NEW a \in S, NEW b \in S PROVE <<a, b>> \in Seq(S)
  OBVIOUS

LEMMA Triples ==
    ASSUME NEW S, NEW a \in S, NEW b \in S, NEW c \in S PROVE <<a, b, c>> \in Seq(S)
  OBVIOUS

LEMMA Quadruples ==
    ASSUME NEW S, NEW a \in S, NEW b \in S, NEW c \in S, NEW d \in S
    PROVE  <<a, b, c, d>> \in Seq(S)
<1>1. <<a, b, c, d>> = <<a, b, c>> \o <<d>>
  OBVIOUS
<1> QED BY <1>1

LEMMA Quintuples ==
    ASSUME NEW S, NEW a \in S, NEW b \in S, NEW c \in S, NEW d \in S, NEW e \in S
    PROVE  <<a, b, c, d, e>> \in Seq(S)
<1>1. <<a, b, c, d, e>> = <<a, b, c>> \o <<d, e>>
  OBVIOUS
<1> QED BY <1>1

\* A pattern is a tuple of two to five segments.
LEMMA Patterns == \A m \in Routed : Pattern[m] \in Seq(Literal \cup Hole)
<1>2. Pattern["Login"] \in Seq(Literal \cup Hole)
  BY Pairs DEF Pattern, Literal, Hole
<1>3. Pattern["GetUserList"] \in Seq(Literal \cup Hole)
  BY Pairs DEF Pattern, Literal, Hole
<1>4. Pattern["GetAccount"] \in Seq(Literal \cup Hole)
  BY Triples DEF Pattern, Literal, Hole
<1>5. Pattern["NewAccount"] \in Seq(Literal \cup Hole)
  BY Pairs DEF Pattern, Literal, Hole
<1>6. Pattern["UpdateAccount"] \in Seq(Literal \cup Hole)
  BY Quadruples DEF Pattern, Literal, Hole
<1>7. Pattern["DeleteAccount"] \in Seq(Literal \cup Hole)
  BY Triples DEF Pattern, Literal, Hole
<1>8. Pattern["ChangePassword"] \in Seq(Literal \cup Hole)
  BY Triples DEF Pattern, Literal, Hole
<1>9. Pattern["NewGroup"] \in Seq(Literal \cup Hole)
  BY Pairs DEF Pattern, Literal, Hole
<1>10. Pattern["DeleteGroup"] \in Seq(Literal \cup Hole)
  BY Triples DEF Pattern, Literal, Hole
<1>11. Pattern["UpdateGroup"] \in Seq(Literal \cup Hole)
  BY Quadruples DEF Pattern, Literal, Hole
<1>12. Pattern["GetGroupList"] \in Seq(Literal \cup Hole)
  BY Pairs DEF Pattern, Literal, Hole
<1>13. Pattern["GetUserGroups"] \in Seq(Literal \cup Hole)
  BY Quadruples DEF Pattern, Literal, Hole
<1>14. Pattern["GetGroup"] \in Seq(Literal \cup Hole)
  BY Triples DEF Pattern, Literal, Hole
<1>15. Pattern["AddGroupMember"] \in Seq(Literal \cup Hole)
  BY Quadruples DEF Pattern, Literal, Hole
<1>16. Pattern["DeleteGroupMember"] \in Seq(Literal \cup Hole)
  BY Quintuples DEF Pattern, Literal, Hole
<1> QED
  BY <1>2, <1>3, <1>4, <1>5, <1>6, <1>7, <1>8, <1>9, <1>10, <1>11, <1>12, <1>13,
     <1>14, <1>15, <1>16, RoutedMethods

\* The holes of the patterns.
LEMMA Holes ==
    /\ \A m \in {"Login", "GetUserList", "NewAccount", "ChangePassword", "NewGroup",
                 "GetGroupList"} : \A i \in DOMAIN Pattern[m] : Pattern[m][i] \notin Hole
    /\ \A m \in {"GetAccount", "UpdateAccount", "DeleteAccount", "GetUserGroups"} :
          /\ 3 \in DOMAIN Pattern[m] /\ Pattern[m][3] = "{username}"
          /\ \A i \in DOMAIN Pattern[m] \ {3} : Pattern[m][i] \notin Hole
    /\ \A m \in {"DeleteGroup", "UpdateGroup", "GetGroup"} :
          /\ 3 \in DOMAIN Pattern[m] /\ Pattern[m][3] = "{name}"
          /\ \A i \in DOMAIN Pattern[m] \ {3} : Pattern[m][i] \notin Hole
    /\ LET m == "AddGroupMember"
       IN  /\ 3 \in DOMAIN Pattern[m] /\ Pattern[m][3] = "{group}"
           /\ \A i \in DOMAIN Pattern[m] \ {3} : Pattern[m][i] \notin Hole
    /\ LET m == "DeleteGroupMember"
       IN  /\ {3, 5} \subseteq DOMAIN Pattern[m]
           /\ Pattern[m][3] = "{group}" /\ Pattern[m][5] = "{username}"
           /\ \A i \in DOMAIN Pattern[m] \ {3, 5} : Pattern[m][i] \notin Hole
<1>1. \A m \in Routed : DOMAIN Pattern[m] = 1..Len(Pattern[m])
  BY Patterns
<1>2. 1..2 = {1, 2} /\ 1..3 = {1, 2, 3} /\ 1..4 = {1, 2, 3, 4} /\ 1..5 = {1, 2, 3, 4, 5}
  OBVIOUS
<1>3. /\ Pattern["Login"][1] \notin Hole
      /\ Pattern["Login"][2] \notin Hole
  BY DEF Pattern, Hole
<1>4. /\ Pattern["GetUserList"][1] \notin Hole
      /\ Pattern["GetUserList"][2] \notin Hole
  BY DEF Pattern, Hole
<1>5. /\ Pattern["GetAccount"][1] \notin Hole
      /\ Pattern["GetAccount"][2] \notin Hole
      /\ Pattern["GetAccount"][3] = "{username}"
  BY DEF Pattern, Hole
<1>6. /\ Pattern["NewAccount"][1] \notin Hole
      /\ Pattern["NewAccount"][2] \notin Hole
  BY DEF Pattern, Hole
<1>7. /\ Pattern["UpdateAccount"][1] \notin Hole
      /\ Pattern["UpdateAccount"][2] \notin Hole
      /\ Pattern["UpdateAccount"][4] \notin Hole
      /\ Pattern["UpdateAccount"][3] = "{username}"
  BY DEF Pattern, Hole
<1>8. /\ Pattern["DeleteAccount"][1] \notin Hole
      /\ Pattern["DeleteAccount"][2] \notin Hole
      /\ Pattern["DeleteAccount"][3] = "{username}"
  BY DEF Pattern, Hole
<1>9. /\ Pattern["ChangePassword"][1] \notin Hole
      /\ Pattern["ChangePassword"][2] \notin Hole
      /\ Pattern["ChangePassword"][3] \notin Hole
  BY DEF Pattern, Hole
<1>10. /\ Pattern["NewGroup"][1] \notin Hole
      /\ Pattern["NewGroup"][2] \notin Hole
  BY DEF Pattern, Hole
<1>11. /\ Pattern["DeleteGroup"][1] \notin Hole
      /\ Pattern["DeleteGroup"][2] \notin Hole
      /\ Pattern["DeleteGroup"][3] = "{name}"
  BY DEF Pattern, Hole
<1>12. /\ Pattern["UpdateGroup"][1] \notin Hole
      /\ Pattern["UpdateGroup"][2] \notin Hole
      /\ Pattern["UpdateGroup"][4] \notin Hole
      /\ Pattern["UpdateGroup"][3] = "{name}"
  BY DEF Pattern, Hole
<1>13. /\ Pattern["GetGroupList"][1] \notin Hole
      /\ Pattern["GetGroupList"][2] \notin Hole
  BY DEF Pattern, Hole
<1>14. /\ Pattern["GetUserGroups"][1] \notin Hole
      /\ Pattern["GetUserGroups"][2] \notin Hole
      /\ Pattern["GetUserGroups"][4] \notin Hole
      /\ Pattern["GetUserGroups"][3] = "{username}"
  BY DEF Pattern, Hole
<1>15. /\ Pattern["GetGroup"][1] \notin Hole
      /\ Pattern["GetGroup"][2] \notin Hole
      /\ Pattern["GetGroup"][3] = "{name}"
  BY DEF Pattern, Hole
<1>16. /\ Pattern["AddGroupMember"][1] \notin Hole
      /\ Pattern["AddGroupMember"][2] \notin Hole
      /\ Pattern["AddGroupMember"][4] \notin Hole
      /\ Pattern["AddGroupMember"][3] = "{group}"
  BY DEF Pattern, Hole
<1>17. /\ Pattern["DeleteGroupMember"][1] \notin Hole
      /\ Pattern["DeleteGroupMember"][2] \notin Hole
      /\ Pattern["DeleteGroupMember"][4] \notin Hole
      /\ Pattern["DeleteGroupMember"][3] = "{group}"
      /\ Pattern["DeleteGroupMember"][5] = "{username}"
  BY DEF Pattern, Hole
<1> QED
  BY <1>1, <1>2, <1>3, <1>4, <1>5, <1>6, <1>7, <1>8, <1>9, <1>10, <1>11, <1>12,
     <1>13, <1>14, <1>15, <1>16, <1>17, RoutedMethods, Lengths

\* The pattern of a method with its parameters filled in, each by one segment.
Filled(m, username, group) ==
    [i \in DOMAIN Pattern[m] |->
        CASE Pattern[m][i] = "{username}" -> username
          [] Pattern[m][i] \in {"{name}", "{group}"} -> group
          [] OTHER -> Pattern[m][i]]

\* What a part is filled in with.
FillsIn(hole, part, username, group) ==
    /\ part \in Segment /\ part \in Literal \cup {username, group}
    /\ hole \notin Hole => part = hole
    /\ hole = "{username}" => part = username
    /\ hole \in {"{name}", "{group}"} => part = group

LEMMA FilledParts ==
    ASSUME NEW m \in Routed, NEW username \in Segment, NEW group \in Segment,
           NEW i \in DOMAIN Pattern[m]
    PROVE  FillsIn(Pattern[m][i], Filled(m, username, group)[i], username, group)
<1>0. PICK part, hole : part = Filled(m, username, group)[i] /\ hole = Pattern[m][i]
  OBVIOUS
<1>1. hole \in Literal \cup Hole /\ Literal \subseteq Segment
  BY <1>0, Patterns, GatewayAssumption
<1>2. part = CASE hole = "{username}" -> username
               [] hole \in {"{name}", "{group}"} -> group
               [] OTHER -> hole
  BY <1>0 DEF Filled
<1>3. CASE hole = "{username}"
  BY <1>0, <1>1, <1>2, <1>3 DEF Hole, FillsIn
<1>4. CASE hole \in {"{name}", "{group}"}
  BY <1>0, <1>1, <1>2, <1>4 DEF Hole, FillsIn
<1>5. CASE hole \notin Hole
  BY <1>0, <1>1, <1>2, <1>5 DEF Hole, FillsIn
<1> QED BY <1>0, <1>3, <1>4, <1>5 DEF Hole

LEMMA FilledPaths ==
    ASSUME NEW m \in Routed, NEW username \in Segment, NEW group \in Segment,
           NEW path, path = Filled(m, username, group)
    PROVE  /\ path \in Seq(Segment)
           /\ Len(path) = Len(Pattern[m])
           /\ DOMAIN path = DOMAIN Pattern[m]
           /\ \A i \in DOMAIN path : Pattern[m][i] \notin Hole => path[i] = Pattern[m][i]
<1>1. PICK length \in Nat : length = Len(Pattern[m]) /\ DOMAIN Pattern[m] = 1..length
  BY Patterns
<1>2. DOMAIN path = 1..length
  BY <1>1 DEF Filled
<1>3. \A i \in 1..length :
         path[i] \in Segment /\ (Pattern[m][i] \notin Hole => path[i] = Pattern[m][i])
  <2> SUFFICES ASSUME NEW i \in 1..length
               PROVE  path[i] \in Segment
                      /\ (Pattern[m][i] \notin Hole => path[i] = Pattern[m][i])
    OBVIOUS
  <2>1. path[i] = Filled(m, username, group)[i] /\ i \in DOMAIN Pattern[m]
    BY <1>1
  <2>2. FillsIn(Pattern[m][i], path[i], username, group)
    BY <2>1, FilledParts
  <2> QED BY <2>2 DEF FillsIn
<1>4. path \in [1..length -> Segment]
  BY <1>1, <1>3 DEF Filled
<1>5. path \in Seq(Segment) /\ Len(path) = length
  BY <1>2, <1>4
<1> QED BY <1>1, <1>2, <1>3, <1>5

\* What is written for a part of a pattern is segments.
LEMMA WrittenParts ==
    ASSUME NEW m \in Routed, NEW username \in Name, NEW group \in Name, NEW i \in 1..5
    PROVE  Written(m, i, username, group) \in Seq(Segment)
<1>1. Pattern[m] \in Seq(Literal \cup Hole) /\ Literal \cup Hole \subseteq Segment
  BY Patterns, GatewayAssumption
<1>2. Pieces[username] \in Seq(Segment) /\ Pieces[group] \in Seq(Segment)
  BY GatewayAssumption
<1>3. CASE i \in DOMAIN Pattern[m]
  <2>1. PICK part \in Segment : part = Pattern[m][i]
    BY <1>1, <1>3
  <2>2. <<part>> \in Seq(Segment)
    OBVIOUS
  <2>3. Written(m, i, username, group) =
           CASE part = "{username}" -> Pieces[username]
             [] part \in {"{name}", "{group}"} -> Pieces[group]
             [] OTHER -> <<part>>
    BY <1>3, <2>1 DEF Written
  <2> QED BY <1>2, <2>2, <2>3
<1>4. CASE i \notin DOMAIN Pattern[m]
  <2>1. Written(m, i, username, group) = <<>>
    BY <1>4 DEF Written
  <2> QED BY <2>1
<1> QED BY <1>3, <1>4

LEMMA MadePaths ==
    ASSUME NEW m \in Routed, NEW username \in Name, NEW group \in Name
    PROVE  PathOf(m, username, group) \in Seq(Segment)
<1>1. \A i \in 1..5 : Written(m, i, username, group) \in Seq(Segment)
  BY WrittenParts
<1>2. 1 \in 1..5 /\ 2 \in 1..5 /\ 3 \in 1..5 /\ 4 \in 1..5 /\ 5 \in 1..5
  OBVIOUS
<1> QED BY <1>1, <1>2 DEF PathOf

\* A sequence of two to five is what its elements make, one by one.
PartOf(s, i) == IF i \in DOMAIN s THEN <<s[i]>> ELSE <<>>

LEMMA Concatenated ==
    ASSUME NEW S, NEW s \in Seq(S), Len(s) \in {2, 3, 4, 5}
    PROVE  PartOf(s, 1) \o PartOf(s, 2) \o PartOf(s, 3) \o PartOf(s, 4) \o PartOf(s, 5) = s
<1>1. DOMAIN s = 1..Len(s)
  OBVIOUS
<1>2. CASE Len(s) = 2
  BY <1>1, <1>2 DEF PartOf
<1>3. CASE Len(s) = 3
  BY <1>1, <1>3 DEF PartOf
<1>4. CASE Len(s) = 4
  BY <1>1, <1>4 DEF PartOf
<1>5. CASE Len(s) = 5
  BY <1>1, <1>5 DEF PartOf
<1> QED BY <1>2, <1>3, <1>4, <1>5

LEMMA PatternLengths ==
    ASSUME NEW m \in Routed PROVE Len(Pattern[m]) \in {2, 3, 4, 5}
<1>1. PICK length : length = Len(Pattern[m])
  OBVIOUS
<1>2. length = 2 \/ length = 3 \/ length = 4 \/ length = 5
  BY <1>1, RoutedMethods, Lengths
<1> QED BY <1>1, <1>2

\* Plain names are filled in as they are.
LEMMA PlainPaths ==
    ASSUME NEW m \in Routed, NEW username \in Name, NEW group \in Name,
           Plain(username), Plain(group)
    PROVE  PathOf(m, username, group) = Filled(m, username, group)
<1>1. Pieces[username] = <<username>> /\ Pieces[group] = <<group>>
  BY DEF Plain
<1>2. PICK s : s = Filled(m, username, group)
  OBVIOUS
<1>3. username \in Segment /\ group \in Segment
  BY GatewayAssumption
<1>4. s \in Seq(Segment) /\ Len(s) = Len(Pattern[m]) /\ DOMAIN s = DOMAIN Pattern[m]
  BY <1>2, <1>3, FilledPaths
<1>5. Len(s) \in {2, 3, 4, 5} /\ DOMAIN s = 1..Len(s)
  BY <1>4, PatternLengths
<1>6. ASSUME NEW i \in 1..5
      PROVE  Written(m, i, username, group) = IF i \in DOMAIN s THEN <<s[i]>> ELSE <<>>
  <2>1. CASE i \in DOMAIN s
    <3>1. s[i] = CASE Pattern[m][i] = "{username}" -> username
                   [] Pattern[m][i] \in {"{name}", "{group}"} -> group
                   [] OTHER -> Pattern[m][i]
      BY <1>2, <1>4, <2>1 DEF Filled
    <3>2. CASE Pattern[m][i] = "{username}"
      BY <1>1, <1>4, <2>1, <3>1, <3>2 DEF Written
    <3>3. CASE Pattern[m][i] \in {"{name}", "{group}"}
      BY <1>1, <1>4, <2>1, <3>1, <3>3 DEF Written
    <3>4. CASE Pattern[m][i] \notin {"{username}", "{name}", "{group}"}
      BY <1>1, <1>4, <2>1, <3>1, <3>4 DEF Written
    <3> QED BY <3>2, <3>3, <3>4
  <2>2. CASE i \notin DOMAIN s
    BY <1>4, <2>2 DEF Written
  <2> QED BY <2>1, <2>2
<1>7. PathOf(m, username, group)
         = PartOf(s, 1) \o PartOf(s, 2) \o PartOf(s, 3) \o PartOf(s, 4) \o PartOf(s, 5)
  <2>1. 1 \in 1..5 /\ 2 \in 1..5 /\ 3 \in 1..5 /\ 4 \in 1..5 /\ 5 \in 1..5
    OBVIOUS
  <2>2. \A i \in 1..5 : Written(m, i, username, group) = PartOf(s, i)
    BY <1>6 DEF PartOf
  <2>3. /\ Written(m, 1, username, group) = PartOf(s, 1)
        /\ Written(m, 2, username, group) = PartOf(s, 2)
        /\ Written(m, 3, username, group) = PartOf(s, 3)
        /\ Written(m, 4, username, group) = PartOf(s, 4)
        /\ Written(m, 5, username, group) = PartOf(s, 5)
    BY <2>1, <2>2
  <2> QED BY <2>3 DEF PathOf
<1>9. PathOf(m, username, group) = s
  BY <1>4, <1>5, <1>7, Concatenated
<1> QED BY <1>2, <1>9

\* The muxes hand on a path of plain names as it is.
LEMMA PlainPathsPass ==
    ASSUME NEW m \in Routed, NEW username \in Name, NEW group \in Name,
           Plain(username), Plain(group)
    PROVE  LET path == Filled(m, username, group)
           IN  Clean(path) /\ Components(path) = path /\ NoColonVerb(path)
<1>0. PICK path : path = Filled(m, username, group)
  OBVIOUS
<1>1. /\ path \in Seq(Segment) /\ Len(path) = Len(Pattern[m])
      /\ DOMAIN path = DOMAIN Pattern[m]
  BY <1>0, GatewayAssumption, FilledPaths
<1>2. \A i \in DOMAIN path : path[i] \in Literal \cup {username, group}
  <2> SUFFICES ASSUME NEW i \in DOMAIN path
               PROVE  path[i] \in Literal \cup {username, group}
    OBVIOUS
  <2>1. /\ path[i] = Filled(m, username, group)[i] /\ i \in DOMAIN Pattern[m]
        /\ username \in Segment /\ group \in Segment
    BY <1>0, <1>1, GatewayAssumption
  <2>2. FillsIn(Pattern[m][i], path[i], username, group)
    BY <2>1, FilledParts
  <2> QED BY <2>2 DEF FillsIn
<1>3. \A segment \in Literal \cup {username, group} :
         segment \notin {NoName, ".", ".."} /\ segment \notin DOMAIN Cut
  BY GatewayAssumption DEF Plain, Literal
<1>4. Len(path) \in DOMAIN path
  <2>1. PICK length \in Nat : length = Len(path) /\ DOMAIN path = 1..length
    BY <1>1
  <2>2. length \in {2, 3, 4, 5}
    BY <1>1, <2>1, PatternLengths
  <2>3. length \in 1..length
    BY <2>2
  <2> QED BY <2>1, <2>3
<1>5. path[Len(path)] \notin DOMAIN Cut
  BY <1>2, <1>3, <1>4
<1>6. Clean(path)
  BY <1>2, <1>3 DEF Clean
<1>7. Components(path) = path /\ NoColonVerb(path)
  BY <1>5 DEF Components, NoColonVerb
<1> QED BY <1>0, <1>6, <1>7

\* What is left of a path when its colon is cut is a path.
LEMMA ComponentsFit ==
    ASSUME NEW path \in Seq(Segment) PROVE Components(path) \in Seq(Segment)
<1>1. CASE path[Len(path)] \in DOMAIN Cut
  <2>1. Cut[path[Len(path)]].base \in Segment
    BY <1>1, GatewayAssumption
  <2>2. PICK base \in Segment : base = Cut[path[Len(path)]].base
    BY <2>1
  <2>4. PICK length \in Nat : length = Len(path) /\ path \in [1..length -> Segment]
    OBVIOUS
  <2>3. Components(path) = [path EXCEPT ![length] = base]
    BY <1>1, <2>2, <2>4 DEF Components
  <2>5. [path EXCEPT ![length] = base] \in [1..length -> Segment]
    BY <2>4
  <2>6. [path EXCEPT ![length] = base] \in Seq(Segment)
    BY <2>4, <2>5
  <2> QED BY <2>3, <2>6
<1>2. CASE path[Len(path)] \notin DOMAIN Cut
  <2>1. Components(path) = path
    BY <1>2 DEF Components
  <2> QED BY <2>1
<1> QED BY <1>1, <1>2

\* The second segment of a pattern is there, and is no parameter.
LEMMA Seconded ==
    ASSUME NEW k \in Routed PROVE Len(Pattern[k]) >= 2 /\ Pattern[k][2] \notin Hole
<1>1. PICK length : length = Len(Pattern[k])
  OBVIOUS
<1>2. length = 2 \/ length = 3 \/ length = 4 \/ length = 5
  BY <1>1, RoutedMethods, Lengths
<1>3. length >= 2
  BY <1>2
<1>4. Pattern[k][2] \in {"login", "accounts", "groups", "account", "group"}
  BY RoutedMethods, Seconds
<1>5. Pattern[k][2] \notin Hole
  BY <1>4 DEF Hole
<1> QED BY <1>1, <1>3, <1>5

\* Verb, length and second segment tell the methods apart.
LEMMA OneRoute ==
    ASSUME NEW m \in Routed, NEW n \in Routed, VerbOf(m) = VerbOf(n),
           NEW username \in Segment, NEW group \in Segment,
           Matches(Filled(m, username, group), Pattern[n])
    PROVE  m = n
<1>0. PICK path : path = Filled(m, username, group)
  OBVIOUS
<1>1. /\ Len(Pattern[m]) = Len(Pattern[n]) /\ Len(path) = Len(Pattern[m])
      /\ path \in Seq(Segment)
      /\ \A i \in DOMAIN path : Pattern[m][i] \notin Hole => path[i] = Pattern[m][i]
      /\ \A i \in DOMAIN path : Pattern[n][i] = path[i] \/ Pattern[n][i] \in Hole
  BY <1>0, FilledPaths DEF Matches
<1>2. Len(Pattern[m]) >= 2 /\ Pattern[m][2] \notin Hole /\ Pattern[n][2] \notin Hole
  BY Seconded
<1>3. 2 \in DOMAIN path
  BY <1>1, <1>2
<1>4. path[2] = Pattern[m][2] /\ path[2] = Pattern[n][2]
  BY <1>1, <1>2, <1>3
<1>5. Len(Pattern[m]) = Len(Pattern[n]) /\ Pattern[m][2] = Pattern[n][2]
  BY <1>1, <1>4
<1>6. \E length, second :
         /\ \A k \in Routed : length[k] = Len(Pattern[k]) /\ second[k] = Pattern[k][2]
         /\ length[m] = length[n] /\ second[m] = second[n]
  <2>1. /\ \A k \in Routed : [l \in Routed |-> Len(Pattern[l])][k] = Len(Pattern[k])
        /\ \A k \in Routed : [l \in Routed |-> Pattern[l][2]][k] = Pattern[k][2]
    OBVIOUS
  <2> WITNESS [l \in Routed |-> Len(Pattern[l])], [l \in Routed |-> Pattern[l][2]]
  <2> DEFINE length == [l \in Routed |-> Len(Pattern[l])]
             second == [l \in Routed |-> Pattern[l][2]]
  <2>2. length[m] = length[n]
    BY <1>5, <2>1
  <2>3. second[m] = second[n]
    BY <1>5, <2>1
  <2> QED BY <2>1, <2>2, <2>3
<1>7. PICK length, second :
         /\ \A k \in Routed : length[k] = Len(Pattern[k]) /\ second[k] = Pattern[k][2]
         /\ length[m] = length[n] /\ second[m] = second[n]
  BY <1>6
<1>8. CASE VerbOf(m) = "GET"
  <2>1. m \in Gets
    BY <1>8, ByVerb
  <2>2. n \in Gets
    BY <1>8, ByVerb
  <2>3. /\ length["GetUserList"] = 2 /\ second["GetUserList"] = "accounts"
        /\ length["GetAccount"] = 3 /\ second["GetAccount"] = "account"
        /\ length["GetGroupList"] = 2 /\ second["GetGroupList"] = "groups"
        /\ length["GetUserGroups"] = 4 /\ second["GetUserGroups"] = "account"
        /\ length["GetGroup"] = 3 /\ second["GetGroup"] = "group"
    BY <1>7, RoutedMethods, Lengths, Seconds
  <2>4. CASE m = "GetUserList"
    BY <1>7, <2>2, <2>3, <2>4 DEF Gets
  <2>5. CASE m = "GetAccount"
    BY <1>7, <2>2, <2>3, <2>5 DEF Gets
  <2>6. CASE m = "GetGroupList"
    BY <1>7, <2>2, <2>3, <2>6 DEF Gets
  <2>7. CASE m = "GetUserGroups"
    BY <1>7, <2>2, <2>3, <2>7 DEF Gets
  <2>8. CASE m = "GetGroup"
    BY <1>7, <2>2, <2>3, <2>8 DEF Gets
  <2> QED BY <2>1, <2>4, <2>5, <2>6, <2>7, <2>8 DEF Gets
<1>9. CASE VerbOf(m) = "PUT"
  <2>1. m \in Puts
    BY <1>9, ByVerb
  <2>2. n \in Puts
    BY <1>9, ByVerb
  <2>3. /\ length["NewAccount"] = 2 /\ second["NewAccount"] = "account"
        /\ length["NewGroup"] = 2 /\ second["NewGroup"] = "group"
        /\ length["AddGroupMember"] = 4 /\ second["AddGroupMember"] = "group"
    BY <1>7, RoutedMethods, Lengths, Seconds
  <2> QED BY <1>7, <2>1, <2>2, <2>3 DEF Puts
<1>10. CASE VerbOf(m) = "POST"
  <2>1. m \in Posts
    BY <1>10, ByVerb
  <2>2. n \in Posts
    BY <1>10, ByVerb
  <2>3. /\ length["Login"] = 2 /\ second["Login"] = "login"
        /\ length["UpdateAccount"] = 4 /\ second["UpdateAccount"] = "account"
        /\ length["ChangePassword"] = 3 /\ second["ChangePassword"] = "account"
        /\ length["UpdateGroup"] = 4 /\ second["UpdateGroup"] = "group"
    BY <1>7, RoutedMethods, Lengths, Seconds
  <2> QED BY <1>7, <2>1, <2>2, <2>3 DEF Posts
<1>11. CASE VerbOf(m) = "DELETE"
  <2>1. m \in Deletes
    BY <1>11, ByVerb
  <2>2. n \in Deletes
    BY <1>11, ByVerb
  <2>3. /\ length["DeleteAccount"] = 3 /\ second["DeleteAccount"] = "account"
        /\ length["DeleteGroup"] = 3 /\ second["DeleteGroup"] = "group"
        /\ length["DeleteGroupMember"] = 5 /\ second["DeleteGroupMember"] = "group"
    BY <1>7, RoutedMethods, Lengths, Seconds
  <2> QED BY <1>7, <2>1, <2>2, <2>3 DEF Deletes
<1> QED BY <1>8, <1>9, <1>10, <1>11, ByVerb

-----------------------------------------------------------------------------
(* The messages.                                                           *)

\* What is known of the REST request r.
WellSent(r) ==
    /\ r.path \in Seq(Segment)
    /\ r.body.form \in {"json", "broken", "empty"}
    /\ r.body.username \in Segment /\ r.body.group \in Segment
    /\ r.query.name \in Segment

\* The message names what the path names.
Names(m, path, msg) ==
    \A i \in DOMAIN path :
        /\ Pattern[m][i] = "{username}" => msg.username = path[i]
        /\ Pattern[m][i] \in {"{name}", "{group}"} => msg.group = path[i]

Result == [code : {"OK", "InvalidArgument"}, msg : Message]

LEMMA NoNameFits == NoMessage \in Message /\ NoName \in Segment
  BY GatewayAssumption DEF NoMessage, Message, Name

LEMMA DecodedFacts ==
    ASSUME NEW r, WellSent(r) PROVE Decoded(r) \in Result
<1>1. Bad \in Result /\ Fine(NoMessage) \in Result
  BY NoNameFits DEF Bad, Fine, Result
<1>2. Fine([username |-> r.body.username, group |-> r.body.group]) \in Result
  BY DEF WellSent, Fine, Result, Message
<1> QED BY <1>1, <1>2 DEF Decoded, WellSent

\* The parameter is assigned last, to a field of its own.
LEMMA WithParamFacts ==
    ASSUME NEW result \in Result, NEW m \in Routed, NEW r, WellSent(r),
           Matches(r.path, Pattern[m]), NEW hole,
           NEW i \in DOMAIN Pattern[m], Pattern[m][i] = hole,
           \A j \in DOMAIN Pattern[m] : Pattern[m][j] = hole => j = i
    PROVE  /\ WithParam(result, m, r, hole, "username") \in Result
           /\ WithParam(result, m, r, hole, "username").code = result.code
           /\ result.code = "OK" =>
                 /\ WithParam(result, m, r, hole, "username").msg.username = r.path[i]
                 /\ WithParam(result, m, r, hole, "username").msg.group = result.msg.group
           /\ WithParam(result, m, r, hole, "group") \in Result
           /\ WithParam(result, m, r, hole, "group").code = result.code
           /\ result.code = "OK" =>
                 WithParam(result, m, r, hole, "group").msg.group = r.path[i]
<1>1. Param(m, r.path, hole) = r.path[i]
  BY DEF Param
<1>2. i \in DOMAIN r.path /\ r.path[i] \in Segment
  BY Patterns DEF Matches, WellSent
<1>3. CASE result.code = "OK"
  BY <1>1, <1>2, <1>3 DEF WithParam, Fine, Result, Message
<1>4. CASE result.code # "OK"
  BY <1>4 DEF WithParam
<1> QED BY <1>3, <1>4

\* The query reaches the group of a message only where no filter holds it back.
LEMMA WithQueryFacts ==
    ASSUME NEW result \in Result, NEW r, WellSent(r)
    PROVE  LET after == WithQuery(result, r, {"name"})
           IN  after \in Result /\ (after.code = "OK" => after = result)
  BY NoNameFits DEF WithQuery, Bad, Result

\* The third segment of the pattern is the only one that is hole.
OneHole(m, hole) ==
    /\ 3 \in DOMAIN Pattern[m] /\ Pattern[m][3] = hole
    /\ \A j \in DOMAIN Pattern[m] : Pattern[m][j] = hole => j = 3

\* Whatever the method: the message is the path's.
LEMMA AssembledFacts ==
    ASSUME NEW m \in Routed, NEW r, WellSent(r), Matches(r.path, Pattern[m])
    PROVE  LET result == Assembled(m, r)
           IN  result \in Result /\ (result.code = "OK" => Names(m, r.path, result.msg))
<1> DEFINE result == Assembled(m, r)
<1>1. Fine(NoMessage) \in Result /\ Decoded(r) \in Result
  BY NoNameFits, DecodedFacts DEF Fine, Result
<1>2. DOMAIN r.path = DOMAIN Pattern[m]
  BY Patterns DEF Matches, WellSent
<1>3. CASE m \in {"Login", "NewAccount", "ChangePassword", "NewGroup"}
  <2>1. result = Decoded(r)
    BY <1>3 DEF Assembled, request_Login, request_NewAccount, request_ChangePassword,
                request_NewGroup
  <2>2. Names(m, r.path, result.msg)
    BY <1>2, <1>3, Holes DEF Names, Hole
  <2> QED BY <1>1, <2>1, <2>2
<1>4. CASE m \in {"GetUserList", "GetGroupList"}
  <2>1. result = WithQuery(Fine(NoMessage), r, {"name"})
    BY <1>4 DEF Assembled, request_GetUserList, request_GetGroupList
  <2>2. Names(m, r.path, result.msg)
    BY <1>2, <1>4, Holes DEF Names, Hole
  <2> QED BY <1>1, <2>1, <2>2, WithQueryFacts
<1>5. CASE m \in {"GetAccount", "DeleteAccount", "GetUserGroups", "UpdateAccount"}
  <2>1. PICK hole : hole = "{username}"
    OBVIOUS
  <2>2. PICK before \in Result : result = WithParam(before, m, r, hole, "username")
    BY <1>1, <1>5, <2>1 DEF Assembled, request_GetAccount, request_DeleteAccount,
                            request_GetUserGroups, request_UpdateAccount
  <2>3. /\ 3 \in DOMAIN Pattern[m] /\ Pattern[m][3] = hole
        /\ \A i \in DOMAIN Pattern[m] \ {3} : Pattern[m][i] \notin Hole
    BY <1>5, <2>1, Holes
  <2>6. OneHole(m, hole)
    BY <2>1, <2>3 DEF OneHole, Hole
  <2>7. \A i \in DOMAIN Pattern[m] : Pattern[m][i] \notin {"{name}", "{group}"}
    <3> SUFFICES ASSUME NEW i \in DOMAIN Pattern[m]
                 PROVE  Pattern[m][i] \notin {"{name}", "{group}"}
      OBVIOUS
    <3>1. CASE i = 3
      BY <2>1, <2>3, <3>1
    <3>2. CASE i # 3
      BY <2>3, <3>2 DEF Hole
    <3> QED BY <3>1, <3>2
  <2>4. result \in Result /\ (result.code = "OK" => result.msg.username = r.path[3])
    BY <2>2, <2>6, WithParamFacts DEF OneHole
  <2>5. result.code = "OK" => Names(m, r.path, result.msg)
    <3> SUFFICES ASSUME result.code = "OK", NEW i \in DOMAIN r.path
                 PROVE  /\ Pattern[m][i] = hole => result.msg.username = r.path[i]
                        /\ Pattern[m][i] \notin {"{name}", "{group}"}
      BY <2>1 DEF Names
    <3>1. Pattern[m][i] = hole => result.msg.username = r.path[i]
      BY <1>2, <2>4, <2>6 DEF OneHole
    <3> QED BY <1>2, <2>7, <3>1
  <2> QED BY <2>4, <2>5
<1>6. CASE m \in {"DeleteGroup", "UpdateGroup", "AddGroupMember", "GetGroup"}
  <2>1. PICK hole : hole = IF m = "AddGroupMember" THEN "{group}" ELSE "{name}"
    OBVIOUS
  <2>2. PICK before \in Result :
           LET after == WithParam(before, m, r, hole, "group")
           IN  result = after \/ result = WithQuery(after, r, {"name"})
    BY <1>1, <1>6, <2>1 DEF Assembled, request_DeleteGroup, request_UpdateGroup,
                            request_AddGroupMember, request_GetGroup
  <2>3. OneHole(m, hole)
    BY <1>6, <2>1, Holes DEF OneHole, Hole
  <2>7. \A i \in DOMAIN Pattern[m] :
           /\ Pattern[m][i] # "{username}"
           /\ Pattern[m][i] \in {"{name}", "{group}"} => Pattern[m][i] = hole
    BY <1>6, <2>1, Holes DEF Hole
  <2>4. LET after == WithParam(before, m, r, hole, "group")
        IN  after \in Result /\ (after.code = "OK" => after.msg.group = r.path[3])
    BY <2>3, WithParamFacts DEF OneHole
  <2>5. result \in Result /\ (result.code = "OK" => result.msg.group = r.path[3])
    BY <2>2, <2>4, WithQueryFacts
  <2>6. result.code = "OK" => Names(m, r.path, result.msg)
    <3> SUFFICES ASSUME result.code = "OK", NEW i \in DOMAIN r.path
                 PROVE  /\ Pattern[m][i] # "{username}"
                        /\ Pattern[m][i] \in {"{name}", "{group}"} =>
                              result.msg.group = r.path[i]
      BY DEF Names
    <3>1. Pattern[m][i] = hole => result.msg.group = r.path[i]
      BY <2>3, <2>5, <1>2 DEF OneHole
    <3> QED BY <1>2, <2>7, <3>1
  <2> QED BY <2>5, <2>6
<1>7. CASE m = "DeleteGroupMember"
  <2>1. PICK hole, other : hole = "{group}" /\ other = "{username}"
    OBVIOUS
  <2>2. PICK before : before = WithParam(Fine(NoMessage), m, r, hole, "group")
    OBVIOUS
  <2>3. result = WithParam(before, m, r, other, "username")
    BY <1>7, <2>1, <2>2 DEF Assembled, request_DeleteGroupMember
  <2>4. /\ 3 \in DOMAIN Pattern[m] /\ 5 \in DOMAIN Pattern[m]
        /\ Pattern[m][3] = hole /\ Pattern[m][5] = other
        /\ \A j \in DOMAIN Pattern[m] : Pattern[m][j] = hole => j = 3
        /\ \A j \in DOMAIN Pattern[m] : Pattern[m][j] = other => j = 5
    BY <1>7, <2>1, Holes DEF Hole
  <2>5. before \in Result /\ (before.code = "OK" => before.msg.group = r.path[3])
    BY <1>1, <2>2, <2>4, WithParamFacts
  <2>6. /\ result \in Result /\ result.code = before.code
        /\ before.code = "OK" => /\ result.msg.username = r.path[5]
                                 /\ result.msg.group = before.msg.group
    BY <2>3, <2>4, <2>5, WithParamFacts
  <2>7. result.code = "OK" =>
           result.msg.group = r.path[3] /\ result.msg.username = r.path[5]
    BY <2>5, <2>6
  <2>8. result.code = "OK" => Names(m, r.path, result.msg)
    <3> SUFFICES ASSUME result.code = "OK", NEW i \in DOMAIN r.path
                 PROVE  /\ Pattern[m][i] = other => result.msg.username = r.path[i]
                        /\ Pattern[m][i] = hole => result.msg.group = r.path[i]
                        /\ Pattern[m][i] # "{name}"
      BY <2>1 DEF Names
    <3>1. Pattern[m][i] # "{name}"
      BY <1>2, <1>7, <2>1, <2>4, Holes DEF Hole
    <3>2. Pattern[m][i] = other => i = 5
      BY <1>2, <2>4
    <3>3. Pattern[m][i] = hole => i = 3
      BY <1>2, <2>4
    <3> QED BY <2>7, <3>1, <3>2, <3>3
  <2> QED BY <2>6, <2>8
<1> QED BY <1>3, <1>4, <1>5, <1>6, <1>7, RoutedMethods

-----------------------------------------------------------------------------
(* The invariant.                                                          *)

\* What is known of a call at each stage.
Shape(err, late) ==
    [stage : Stage, rest : BOOLEAN, aim : Routed \cup {"none"},
     meant : [username : Name, group : Name], verb : Verb \cup {"none"},
     path : Seq(Segment), body : Body, query : Query, claims : Bearer \cup {NoToken},
     method : Method \cup {"none"}, msg : Message, err : {err}, late : {late},
     code : Code, http : Nat]

CallShape == call \in Shape(call.err, call.late)

\* The call once it has ended.
Ended(code, http, err, late) ==
    [call EXCEPT !.stage = "answered", !.code = code, !.http = http, !.err = err,
                 !.late = late]

\* The client has filled in plain names.
Aimed ==
    call.aim # "none" /\ Plain(call.meant.username) /\ Plain(call.meant.group)

\* Its path, as the gateway's mux takes it apart.
AimedPath == call.path = Filled(call.aim, call.meant.username, call.meant.group)

\* A call that has not been answered has not failed, and one that is routed has
\* the path of its method.
CallStory ==
    /\ call.stage \in {"sent", "routed"} => call.rest
    /\ call.stage \in {"sent", "routed", "called", "served"} =>
          call.err = "none" /\ call.late = "none" /\ call.code = "OK"
    /\ call.stage = "managed" => call.err = "ok" /\ call.code = "OK"
    /\ call.stage = "sent" /\ Aimed => call.verb = VerbOf(call.aim)
    /\ call.stage \in {"sent", "routed"} /\ Aimed => AimedPath
    /\ call.stage = "routed" =>
          call.method \in Routed /\ Matches(call.path, Pattern[call.method])
    /\ call.stage \in {"called", "served", "managed"} => call.method \in Method

\* What the theorems are about.
CallSafe ==
    RoutedAsAimed /\ PathDecides /\ OthersOnlyByAdmins /\ SignedOutForNoToken /\ DoneMeansDone

GatewayInv == CallShape /\ CallStory /\ CallSafe

LEMMA NoCallFits ==
    NoCall \in Shape("none", "none") /\ NoCall.err = "none" /\ NoCall.late = "none"
<1>1. <<>> \in Seq(Segment)
  OBVIOUS
<1>2. NoBody \in Body /\ NoQuery \in Query
  BY NoNameFits DEF NoBody, NoQuery, Body, Query
<1>3. "quiet" \in Stage /\ "OK" \in Code /\ 0 \in Nat
  BY DEF Stage, Code
<1>4. NoMessage \in [username : Name, group : Name]
  BY DEF NoMessage, Name
<1> QED BY <1>1, <1>2, <1>3, <1>4, NoNameFits DEF NoCall, Shape

\* Where there is nothing to be seen of the gateway's work, nothing is claimed.
LEMMA NothingClaimed ==
    ASSUME call'.stage = "sent" \/ (call'.stage = "quiet" /\ call'.aim = "none")
    PROVE  CallSafe'
<1>1. /\ call'.stage \notin {"called", "served"}
      /\ call'.stage # "served" /\ call'.stage # "answered"
  OBVIOUS
<1>2. PathDecides'
  BY <1>1, Zenon DEF PathDecides
<1>3. RoutedAsAimed'
  BY Zenon DEF RoutedAsAimed
<1>4. OthersOnlyByAdmins' /\ SignedOutForNoToken' /\ DoneMeansDone'
  BY <1>1 DEF OthersOnlyByAdmins, SignedOutForNoToken, DoneMeansDone
<1> QED BY <1>2, <1>3, <1>4 DEF CallSafe

LEMMA InitInv == Init => GatewayInv
<1> SUFFICES ASSUME Init PROVE GatewayInv
  OBVIOUS
<1>1. CallShape
  BY NoCallFits DEF Init, CallShape
<1>2. call.stage = "quiet" /\ call.err = "none" /\ call.aim = "none"
  BY DEF Init, NoCall
<1>3. CallStory
  BY <1>2 DEF CallStory, Aimed
<1>4. RoutedAsAimed /\ PathDecides
  <2>1. call.stage \notin {"called", "served"}
    BY <1>2
  <2> QED BY <1>2, <2>1, Zenon DEF RoutedAsAimed, PathDecides
<1>5. OthersOnlyByAdmins /\ SignedOutForNoToken /\ DoneMeansDone
  BY <1>2 DEF OthersOnlyByAdmins, SignedOutForNoToken, DoneMeansDone
<1> QED BY <1>1, <1>3, <1>4, <1>5 DEF GatewayInv, CallSafe

LEMMA HangUpInv == HangUp => GatewayInv'
<1> SUFFICES ASSUME HangUp PROVE GatewayInv'
  OBVIOUS
<1>1. /\ call' = NoCall /\ call'.stage = "quiet" /\ call'.err = "none"
      /\ call'.late = "none" /\ call'.aim = "none"
  BY DEF HangUp, NoCall
<1>2. CallShape'
  BY <1>1, NoCallFits DEF CallShape
<1>3. CallStory'
  BY <1>1 DEF CallStory, Aimed
<1> QED BY <1>1, <1>2, <1>3, NothingClaimed DEF GatewayInv

\* A path that is sent is one of a method's, or claims to be none's.
LEMMA SentInv ==
    ASSUME NEW verb \in Verb, NEW path \in Seq(Segment), NEW aim \in Routed \cup {"none"},
           NEW meant \in [username : Name, group : Name],
           Sent(verb, path, aim, meant),
           aim # "none" /\ Plain(meant.username) /\ Plain(meant.group) =>
              verb = VerbOf(aim) /\ path = Filled(aim, meant.username, meant.group)
    PROVE  GatewayInv'
<1>1. Name \subseteq Segment
  BY GatewayAssumption
<1> DEFINE Bodies == [form : {"json"}, username : Name, group : Name]
                     \cup {NoBody, [NoBody EXCEPT !.form = "broken"]}
           Queries == {NoQuery, [NoQuery EXCEPT !.fine = FALSE]}
                      \cup [fine : {TRUE}, name : Group]
<1>2. PICK body \in Bodies, query \in Queries, claims \in Bearer \cup {NoToken} :
         call' = [NoCall EXCEPT !.stage = "sent", !.rest = TRUE, !.verb = verb,
                                !.path = path, !.aim = aim, !.meant = meant,
                                !.body = body, !.query = query, !.claims = claims]
  BY Zenon DEF Sent
<1>3. body \in Body
  <2>1. CASE body \in [form : {"json"}, username : Name, group : Name]
    BY <1>1, <2>1 DEF Body
  <2>2. CASE body = NoBody
    BY <2>2, NoNameFits DEF NoBody, Body
  <2>3. CASE body = [NoBody EXCEPT !.form = "broken"]
    BY <2>3, NoNameFits DEF NoBody, Body
  <2> QED BY <2>1, <2>2, <2>3
<1>4. query \in Query
  <2>1. CASE query = NoQuery
    BY <2>1, NoNameFits DEF NoQuery, Query
  <2>2. CASE query = [NoQuery EXCEPT !.fine = FALSE]
    BY <2>2, NoNameFits DEF NoQuery, Query
  <2>3. CASE query \in [fine : {TRUE}, name : Group]
    BY <1>1, <2>3 DEF Name, Query
  <2> QED BY <2>1, <2>2, <2>3
<1> HIDE DEF Bodies, Queries
<1>5. "sent" \in Stage
  BY DEF Stage
<1>6. /\ call'.stage = "sent" /\ call'.rest /\ call'.err = "none" /\ call'.code = "OK"
      /\ call'.late = "none" /\ call'.meant = meant
      /\ call'.verb = verb /\ call'.path = path /\ call'.aim = aim
  BY <1>2, NoCallFits DEF NoCall
<1>7. CallShape'
  <2>1. call' = [stage |-> "sent", rest |-> TRUE, aim |-> aim, meant |-> meant,
                 verb |-> verb, path |-> path,
                 body |-> body, query |-> query, claims |-> claims,
                 method |-> NoCall.method, msg |-> NoCall.msg, err |-> NoCall.err,
                 late |-> NoCall.late, code |-> NoCall.code, http |-> NoCall.http]
    BY <1>2 DEF NoCall
  <2>2. call' \in Shape(NoCall.err, NoCall.late)
    BY <1>3, <1>4, <1>5, <2>1, NoCallFits DEF Shape
  <2> QED BY <2>2, <1>6, NoCallFits DEF CallShape
<1>8. CallStory'
  BY <1>6 DEF CallStory, Aimed, AimedPath
<1> QED BY <1>6, <1>7, <1>8, NothingClaimed DEF GatewayInv

LEMMA AskInv == Ask => GatewayInv'
<1> SUFFICES ASSUME Ask PROVE GatewayInv'
  OBVIOUS
<1>1. PICK m \in Routed, username \in Name, group \in Name :
         Sent(VerbOf(m), PathOf(m, username, group), m,
              [username |-> username, group |-> group])
  BY DEF Ask, Name
<1>2. VerbOf(m) \in Verb
  BY ByVerb DEF Verb
<1>3. PathOf(m, username, group) \in Seq(Segment)
  BY MadePaths
<1>4. Plain(username) /\ Plain(group) =>
         PathOf(m, username, group) = Filled(m, username, group)
  BY PlainPaths
<1>5. PICK meant \in [username : Name, group : Name] :
         meant.username = username /\ meant.group = group
         /\ Sent(VerbOf(m), PathOf(m, username, group), m, meant)
  BY <1>1
<1> QED BY <1>2, <1>3, <1>4, <1>5, SentInv

LEMMA AskStrayInv == AskStray => GatewayInv'
<1> SUFFICES ASSUME AskStray PROVE GatewayInv'
  OBVIOUS
<1>1. PICK verb \in Verb, path \in Stray : Sent(verb, path, "none", NoMessage)
  BY DEF AskStray
<1>2. NoMessage \in [username : Name, group : Name]
  BY DEF NoMessage, Name
<1> QED BY <1>1, <1>2, SentInv, GatewayAssumption

LEMMA InvokeInv == Invoke => GatewayInv'
<1> SUFFICES ASSUME Invoke PROVE GatewayInv'
  OBVIOUS
<1>1. PICK m \in Method, msg \in [username : Name, group : Name], claims \in Bearer \cup {NoToken} :
         call' = [NoCall EXCEPT !.stage = "called", !.method = m, !.msg = msg,
                                !.claims = claims]
  BY DEF Invoke
<1>2. msg \in Message
  BY GatewayAssumption DEF Message, Name
<1>3. "called" \in Stage
  BY DEF Stage
<1>4. /\ call'.stage = "called" /\ call'.rest = FALSE /\ call'.err = "none"
      /\ call'.late = "none" /\ call'.aim = "none" /\ call'.method = m
      /\ call'.code = "OK"
  BY <1>1, NoCallFits DEF NoCall
<1>5. CallShape'
  BY <1>1, <1>2, <1>3, <1>4, NoCallFits DEF CallShape, Shape
<1>6. CallStory'
  BY <1>4 DEF CallStory, Aimed
<1>7. OthersOnlyByAdmins' /\ SignedOutForNoToken' /\ DoneMeansDone'
  BY <1>4 DEF OthersOnlyByAdmins, SignedOutForNoToken, DoneMeansDone
<1>8. RoutedAsAimed' /\ PathDecides'
  BY <1>4, Zenon DEF RoutedAsAimed, PathDecides
<1> QED BY <1>5, <1>6, <1>7, <1>8 DEF GatewayInv, CallSafe

\* A call that has ended is a call.
LEMMA EndedShape ==
    ASSUME CallShape, NEW code \in Code, NEW http \in Nat, NEW err, NEW late,
           call' = Ended(code, http, err, late)
    PROVE  /\ CallShape'
           /\ call'.stage = "answered" /\ call'.code = code /\ call'.http = http
           /\ call'.err = err /\ call'.late = late /\ call'.rest = call.rest
           /\ call'.claims = call.claims /\ call'.method = call.method
           /\ call'.aim = call.aim /\ call'.meant = call.meant
<1>1. call' = [call EXCEPT !.stage = "answered", !.code = code, !.http = http, !.err = err,
                           !.late = late]
  BY DEF Ended
<1>2. "answered" \in Stage
  BY DEF Stage
<1>3. call' \in Shape(err, late)
  BY <1>1, <1>2 DEF CallShape, Shape
<1>4. /\ call'.stage = "answered" /\ call'.code = code /\ call'.http = http
      /\ call'.err = err /\ call'.late = late /\ call'.rest = call.rest
      /\ call'.claims = call.claims /\ call'.method = call.method
      /\ call'.aim = call.aim /\ call'.meant = call.meant
  BY <1>1 DEF CallShape, Shape
<1> QED BY <1>3, <1>4 DEF CallShape

\* The muxes, whatever they find, find what the client aimed at with plain names.
LEMMA RouteInv == GatewayInv /\ Route => GatewayInv'
<1> SUFFICES ASSUME GatewayInv, Route PROVE GatewayInv'
  OBVIOUS
<1>1. /\ CallShape /\ call.stage = "sent" /\ call.rest
      /\ call.err = "none" /\ call.late = "none" /\ call.code = "OK"
      /\ Aimed => call.verb = VerbOf(call.aim) /\ AimedPath
  BY DEF GatewayInv, CallStory, Route, At
<1>2. "routed" \in Stage /\ Routed \subseteq Method
  BY RoutedMethods DEF Stage, Method
<1>3. ASSUME Aimed
      PROVE  /\ Clean(call.path) /\ Components(call.path) = call.path
             /\ Found(call.verb, call.path) = {call.aim}
  <2>1. PICK m \in Routed, username \in Name, group \in Name :
           /\ m = call.aim /\ username = call.meant.username /\ group = call.meant.group
           /\ Plain(username) /\ Plain(group)
    BY <1>1, <1>3 DEF CallShape, Shape, Aimed
  <2>2. PICK path : path = Filled(m, username, group)
    OBVIOUS
  <2>3. call.path = path /\ call.verb = VerbOf(m)
    BY <1>1, <1>3, <2>1, <2>2 DEF AimedPath
  <2>4. Clean(path) /\ Components(path) = path /\ NoColonVerb(path)
    BY <2>1, <2>2, PlainPathsPass
  <2>5. username \in Segment /\ group \in Segment
    BY GatewayAssumption
  <2>6. Matches(path, Pattern[m])
    <3>1. /\ Len(path) = Len(Pattern[m])
          /\ \A i \in DOMAIN path : Pattern[m][i] \notin Hole => path[i] = Pattern[m][i]
      BY <2>2, <2>5, FilledPaths
    <3> QED BY <3>1, Zenon DEF Matches
  <2>7. ASSUME NEW n \in Candidates(VerbOf(m), path) PROVE n = m
    <3>1. n \in Routed /\ VerbOf(n) = VerbOf(m) /\ Matches(path, Pattern[n])
      BY <2>7 DEF Candidates
    <3> QED BY <2>2, <2>5, <3>1, OneRoute
  <2>8. m \in Candidates(VerbOf(m), path)
    BY <2>6 DEF Candidates
  <2>9. Found(VerbOf(m), path) = {m}
    BY <2>4, <2>7, <2>8 DEF Found
  <2> QED BY <2>1, <2>3, <2>4, <2>9
<1>4. ASSUME NEW m \in Found(call.verb, call.path),
             call' = [call EXCEPT !.stage = "routed", !.method = m,
                                  !.path = Components(call.path)]
      PROVE  GatewayInv'
  <2>1. m \in Candidates(call.verb, Components(call.path))
    BY <1>4 DEF Found
  <2>2. m \in Routed /\ Matches(Components(call.path), Pattern[m])
    BY <2>1 DEF Candidates
  <2>3. call.path \in Seq(Segment)
    BY <1>1 DEF CallShape, Shape
  <2>4. PICK path \in Seq(Segment) : path = Components(call.path)
    BY <2>3, ComponentsFit
  <2>5. call' = [call EXCEPT !.stage = "routed", !.method = m, !.path = path]
    BY <1>4, <2>4
  <2>6. /\ call'.stage = "routed" /\ call'.method = m /\ call'.rest /\ call'.err = "none"
        /\ call'.late = "none" /\ call'.code = "OK" /\ call'.aim = call.aim
        /\ call'.meant = call.meant /\ call'.path = path
    BY <1>1, <2>5 DEF CallShape, Shape
  <2>7. CallShape'
    BY <1>1, <1>2, <2>2, <2>4, <2>5, <2>6 DEF CallShape, Shape
  <2>8. Aimed' <=> Aimed
    BY <2>6 DEF Aimed
  <2>9. Aimed => m = call.aim /\ path = call.path
    BY <1>3, <1>4, <2>4
  <2>10. CallStory'
    <3>1. Aimed' => AimedPath'
      BY <1>1, <2>6, <2>8, <2>9 DEF AimedPath
    <3>2. call'.method \in Routed /\ Matches(call'.path, Pattern[call'.method])
      BY <2>2, <2>4, <2>6
    <3> QED BY <2>6, <3>1, <3>2 DEF CallStory
  <2>11. OthersOnlyByAdmins' /\ SignedOutForNoToken' /\ DoneMeansDone'
    BY <2>6 DEF OthersOnlyByAdmins, SignedOutForNoToken, DoneMeansDone
  <2>12. RoutedAsAimed' /\ PathDecides'
    <3>1. call'.stage \notin {"called", "served"} /\ (Aimed' => call'.method = call'.aim)
      BY <2>6, <2>8, <2>9
    <3> QED BY <3>1, Zenon DEF RoutedAsAimed, PathDecides, Aimed
  <2> QED BY <2>7, <2>10, <2>11, <2>12 DEF GatewayInv, CallSafe
<1>5. ASSUME NEW http \in {301, 404, 405}, call' = Turned(http), ~Aimed
      PROVE  GatewayInv'
  <2>1. call' = Ended("OK", http, "none", "none")
    <3>1. call' = [call EXCEPT !.stage = "answered", !.code = call.code, !.http = http,
                               !.err = call.err, !.late = call.late]
      BY <1>1, <1>5 DEF CallShape, Shape, Turned
    <3> QED BY <1>1, <3>1 DEF Ended
  <2>2. /\ CallShape'
        /\ call'.stage = "answered" /\ call'.err = "none" /\ call'.code = "OK"
        /\ call'.http = http /\ call'.aim = call.aim /\ call'.meant = call.meant
    <3>1. http \in Nat /\ "OK" \in Code /\ CallShape
      BY <1>1 DEF Code
    <3>2. /\ CallShape'
          /\ call'.stage = "answered" /\ call'.code = "OK" /\ call'.http = http
          /\ call'.err = "none" /\ call'.late = "none" /\ call'.rest = call.rest
          /\ call'.claims = call.claims /\ call'.method = call.method
          /\ call'.aim = call.aim /\ call'.meant = call.meant
      BY <2>1, <3>1, EndedShape, Zenon
    <3> QED BY <3>2
  <2>3. CallStory'
    BY <2>2 DEF CallStory
  <2>4. OthersOnlyByAdmins' /\ SignedOutForNoToken' /\ DoneMeansDone'
    BY <2>2 DEF OthersOnlyByAdmins, SignedOutForNoToken, DoneMeansDone
  <2>5. RoutedAsAimed' /\ PathDecides'
    <3>1. call'.stage \notin {"called", "served"} /\ ~Aimed'
      BY <1>5, <2>2 DEF Aimed
    <3> QED BY <3>1, Zenon DEF RoutedAsAimed, PathDecides, Aimed
  <2> QED BY <2>2, <2>3, <2>4, <2>5 DEF GatewayInv, CallSafe
<1>6. CASE ~Clean(call.path) /\ call' = Turned(301)
  <2>1. ~Aimed
    BY <1>3, <1>6
  <2> QED BY <1>5, <1>6, <2>1
<1>7. CASE \E m \in Found(call.verb, call.path) :
              call' = [call EXCEPT !.stage = "routed", !.method = m,
                                   !.path = Components(call.path)]
  BY <1>4, <1>7
<1>8. CASE /\ Found(call.verb, call.path) = {}
           /\ call' = IF \E verb \in Verb : Found(verb, call.path) # {}
                      THEN Turned(405)
                      ELSE Turned(404)
  <2>1. ~Aimed
    BY <1>3, <1>8
  <2>2. call' = Turned(405) \/ call' = Turned(404)
    BY <1>8
  <2> QED BY <1>5, <2>1, <2>2
<1> QED BY <1>6, <1>7, <1>8 DEF Route

\* Only the code OK becomes 200.
LEMMA StatusCodes ==
    ASSUME NEW code \in Code
    PROVE  HTTPStatusFromCode(code) \in Nat /\ (HTTPStatusFromCode(code) = 200 <=> code = "OK")
  BY DEF HTTPStatusFromCode, Code

\* What is left of the codes when nothing, or something late, has gone wrong.
LEMMA LateCodes ==
    /\ HTTPStatusFromCode("Internal") = 500
    /\ HTTPStatusFromCode("NotFound") = 404
  BY DEF HTTPStatusFromCode

\* An answer is safe when OK stands for what has been done, Unauthenticated for no
\* token, and another code after the manager's ok for what may go wrong late.
LEMMA AnswerInv ==
    ASSUME CallShape, NEW code \in Code, NEW err, NEW late,
           call' = [Answered(call, code) EXCEPT !.err = err, !.late = late],
           code = "OK" <=> err = "ok" /\ late = "ok",
           code # "OK" /\ err = "ok" =>
              \/ call.method = "UpdateAccount" /\ code = "Internal"
              \/ call.method = "Login" /\ code \in {"NotFound", "Internal"},
           code = "Unauthenticated" => call.claims = NoToken \/ call.method = "Login",
           Aimed => call.method = call.aim
    PROVE  GatewayInv'
<1> DEFINE http == IF call.rest THEN HTTPStatusFromCode(code) ELSE 0
<1>1. /\ http \in Nat
      /\ call.rest => (http = 200 <=> code = "OK") /\ http = HTTPStatusFromCode(code)
  BY StatusCodes
<1> HIDE DEF http
<1>2. call' = Ended(code, http, err, late)
  BY DEF Answered, http, CallShape, Shape, Ended
<1>3. /\ CallShape'
      /\ call'.stage = "answered" /\ call'.code = code /\ call'.http = http
      /\ call'.err = err /\ call'.late = late /\ call'.rest = call.rest
      /\ call'.claims = call.claims /\ call'.method = call.method
      /\ call'.aim = call.aim /\ call'.meant = call.meant
  BY <1>1, <1>2, EndedShape
<1>4. CallStory'
  BY <1>3 DEF CallStory
<1>5. OthersOnlyByAdmins' /\ SignedOutForNoToken'
  BY <1>1, <1>3 DEF OthersOnlyByAdmins, SignedOutForNoToken
<1>6. DoneMeansDone'
  <2> SUFFICES ASSUME call.rest
               PROVE  /\ http = 200 <=> err = "ok" /\ late = "ok"
                      /\ http # 200 /\ err = "ok" =>
                            \/ call.method = "UpdateAccount" /\ http = 500
                            \/ call.method = "Login" /\ http \in {404, 500}
    BY <1>3 DEF DoneMeansDone
  <2> QED BY <1>1, LateCodes
<1>7. RoutedAsAimed' /\ PathDecides'
  <2>1. call'.stage \notin {"called", "served"} /\ (Aimed' => call'.method = call'.aim)
    BY <1>3 DEF Aimed
  <2> QED BY <2>1, Zenon DEF RoutedAsAimed, PathDecides, Aimed
<1> QED BY <1>3, <1>4, <1>5, <1>6, <1>7 DEF GatewayInv, CallSafe

\* An answer before the manager is called leaves err and late as they are.
LEMMA EarlyAnswer ==
    ASSUME CallShape, call.err = "none", call.late = "none", NEW code
    PROVE  Answered(call, code) = [Answered(call, code) EXCEPT !.err = "none", !.late = "none"]
  BY DEF CallShape, Shape, Answered

\* A call that goes on as it has come keeps to what the client aimed at.
LEMMA StillAimed ==
    ASSUME call'.aim = call.aim, call'.meant = call.meant, call'.method = call.method,
           Aimed => call.method = call.aim,
           call'.stage \in {"called", "served"} /\ Aimed =>
              \A i \in DOMAIN Pattern[call.aim] :
                  /\ Pattern[call.aim][i] = "{username}" =>
                        call'.msg.username = call.meant.username
                  /\ Pattern[call.aim][i] \in {"{name}", "{group}"} =>
                        call'.msg.group = call.meant.group
    PROVE  RoutedAsAimed'
<1>1. Aimed' <=> Aimed
  BY DEF Aimed
<1>2. Aimed => call'.method = call'.aim
  OBVIOUS
<1> SUFFICES ASSUME Aimed' PROVE RoutedAsAimed'
  BY Zenon DEF RoutedAsAimed, Aimed
<1>3. call'.stage \in {"called", "served"} =>
         \A i \in DOMAIN Pattern[call'.aim] :
             /\ Pattern[call'.aim][i] = "{username}" =>
                   call'.msg.username = call'.meant.username
             /\ Pattern[call'.aim][i] \in {"{name}", "{group}"} =>
                   call'.msg.group = call'.meant.group
  BY <1>1
<1> QED BY <1>1, <1>2, <1>3, Zenon DEF RoutedAsAimed

\* What names the path names the names that were filled in.
LEMMA AimedNames ==
    ASSUME CallShape, Aimed, AimedPath, NEW msg, Names(call.aim, call.path, msg)
    PROVE  \A i \in DOMAIN Pattern[call.aim] :
               /\ Pattern[call.aim][i] = "{username}" => msg.username = call.meant.username
               /\ Pattern[call.aim][i] \in {"{name}", "{group}"} =>
                     msg.group = call.meant.group
<1>1. PICK m \in Routed, username \in Name, group \in Name :
         m = call.aim /\ username = call.meant.username /\ group = call.meant.group
  BY DEF CallShape, Shape, Aimed
<1>2. username \in Segment /\ group \in Segment
  BY GatewayAssumption
<1>3. PICK path : path = Filled(m, username, group)
  OBVIOUS
<1>4. /\ path = call.path /\ DOMAIN path = DOMAIN Pattern[m]
      /\ \A i \in DOMAIN path :
            /\ Pattern[m][i] = "{username}" => path[i] = username
            /\ Pattern[m][i] \in {"{name}", "{group}"} => path[i] = group
  <2>1. path = call.path
    BY <1>1, <1>3 DEF AimedPath
  <2>2. DOMAIN path = DOMAIN Pattern[m]
    BY <1>3 DEF Filled
  <2>3. \A i \in DOMAIN path :
           /\ Pattern[m][i] = "{username}" => path[i] = username
           /\ Pattern[m][i] \in {"{name}", "{group}"} => path[i] = group
    <3> SUFFICES ASSUME NEW i \in DOMAIN path
                 PROVE  /\ Pattern[m][i] = "{username}" => path[i] = username
                        /\ Pattern[m][i] \in {"{name}", "{group}"} => path[i] = group
      OBVIOUS
    <3>1. path[i] = Filled(m, username, group)[i] /\ i \in DOMAIN Pattern[m]
      BY <1>3, <2>2
    <3>2. FillsIn(Pattern[m][i], path[i], username, group)
      BY <1>2, <3>1, FilledParts
    <3> QED BY <3>2 DEF FillsIn
  <2> QED BY <2>1, <2>2, <2>3
<1>5. Names(m, path, msg)
  BY <1>1, <1>4
<1>6. \A i \in DOMAIN Pattern[m] :
         /\ Pattern[m][i] = "{username}" => msg.username = username
         /\ Pattern[m][i] \in {"{name}", "{group}"} => msg.group = group
  BY <1>4, <1>5 DEF Names
<1> QED BY <1>1, <1>6

LEMMA AssembleInv == GatewayInv /\ Assemble => GatewayInv'
<1> SUFFICES ASSUME GatewayInv, Assemble PROVE GatewayInv'
  OBVIOUS
<1> DEFINE result == Assembled(call.method, call)
<1>1. /\ CallShape /\ call.stage = "routed" /\ call.rest /\ call.err = "none"
      /\ call.late = "none" /\ call.code = "OK" /\ call.method \in Routed
      /\ Matches(call.path, Pattern[call.method])
      /\ Aimed => call.method = call.aim /\ AimedPath
  BY DEF GatewayInv, CallStory, CallSafe, RoutedAsAimed, Aimed, Assemble, At
<1>2. WellSent(call)
  BY <1>1 DEF CallShape, Shape, Body, Query, WellSent
<1>3. result \in Result /\ (result.code = "OK" => Names(call.method, call.path, result.msg))
  BY <1>1, <1>2, AssembledFacts
<1>4. call' = IF result.code = "OK"
              THEN [call EXCEPT !.stage = "called", !.msg = result.msg]
              ELSE Answered(call, result.code)
  BY DEF Assemble
<1> HIDE DEF result
<1>5. CASE result.code = "OK"
  <2>1. "called" \in Stage /\ Routed \subseteq Method /\ result.msg \in Message
    BY <1>3, RoutedMethods DEF Stage, Method, Result
  <2>2. call' = [call EXCEPT !.stage = "called", !.msg = result.msg]
    BY <1>4, <1>5
  <2>3. /\ call'.stage = "called" /\ call'.msg = result.msg /\ call'.err = "none"
        /\ call'.late = "none" /\ call'.code = "OK" /\ call'.aim = call.aim
        /\ call'.meant = call.meant /\ call'.path = call.path
        /\ call'.method = call.method
    BY <1>1, <2>2 DEF CallShape, Shape
  <2>4. CallShape'
    BY <1>1, <2>1, <2>2, <2>3 DEF CallShape, Shape
  <2>5. CallStory'
    BY <1>1, <2>1, <2>3 DEF CallStory
  <2>6. OthersOnlyByAdmins' /\ SignedOutForNoToken' /\ DoneMeansDone'
    BY <1>1, <2>3 DEF OthersOnlyByAdmins, SignedOutForNoToken, DoneMeansDone
  <2>7. PathDecides'
    <3>1. Names(call.method, call.path, result.msg)
      BY <1>3, <1>5
    <3> QED BY <2>3, <3>1, Zenon DEF PathDecides, Names
  <2>8. RoutedAsAimed'
    <3>1. ASSUME Aimed
          PROVE  \A i \in DOMAIN Pattern[call.aim] :
                     /\ Pattern[call.aim][i] = "{username}" =>
                           call'.msg.username = call.meant.username
                     /\ Pattern[call.aim][i] \in {"{name}", "{group}"} =>
                           call'.msg.group = call.meant.group
      <4>1. Names(call.aim, call.path, result.msg)
        BY <1>1, <1>3, <1>5, <3>1
      <4>2. PICK msg : msg = result.msg
        OBVIOUS
      <4>3. Names(call.aim, call.path, msg) /\ call'.msg = msg
        BY <2>3, <4>1, <4>2
      <4> QED BY <1>1, <3>1, <4>3, AimedNames
    <3> QED BY <1>1, <2>3, <3>1, StillAimed, Zenon
  <2> QED BY <2>4, <2>5, <2>6, <2>7, <2>8 DEF GatewayInv, CallSafe
<1>6. CASE result.code # "OK"
  <2>1. result.code = "InvalidArgument" /\ result.code \in Code
    BY <1>3, <1>6 DEF Result, Code
  <2>2. call' = [Answered(call, result.code) EXCEPT !.err = "none", !.late = "none"]
    BY <1>1, <1>4, <1>6, EarlyAnswer
  <2>3. PICK code \in Code : code = "InvalidArgument"
    BY DEF Code
  <2>4. call' = [Answered(call, code) EXCEPT !.err = "none", !.late = "none"]
    BY <2>1, <2>2, <2>3
  <2> QED BY <1>1, <2>3, <2>4, AnswerInv
<1> QED BY <1>5, <1>6

\* Every method is served under its own policy.
LEMMA Handlers ==
    ASSUME NEW m \in Method PROVE HandlerOf(Invoked[m]) = [policy |-> m, calls |-> m]
<1>1. Invoked[m] = m
  BY DEF Invoked
<1>2. CASE m \in DOMAIN AccountVerb
  BY <1>1, <1>2 DEF HandlerOf, AccountHandler
<1>3. CASE m \notin DOMAIN AccountVerb
  <2>1. m \in DOMAIN GroupVerb \cup {"IsGroupMember"}
    BY <1>3 DEF Method, AccountVerb, GroupVerb
  <2> QED BY <1>1, <1>3, <2>1 DEF HandlerOf, AccountHandler, GroupHandler
<1> QED BY <1>2, <1>3

\* What a method other than Login has been told before it calls the manager.
LEMMA Authorised ==
    ASSUME NEW m \in Method \ {"Login"}, NEW claims, NEW username
    PROVE  LET code == AuthoriseAs(m, m, claims, username)
           IN  /\ code \in {"OK", "Unauthenticated", "PermissionDenied"}
               /\ code = "Unauthenticated" => claims = NoToken
               /\ code = "OK" =>
                     /\ claims # NoToken
                     /\ \/ claims.admin
                        \/ m = "GetGroupList"
                        \/ /\ m \in {"GetAccount", "UpdateAccount", "DeleteAccount",
                                     "ChangePassword", "GetUserGroups"}
                           /\ username = claims.uid
<1>1. \/ m \in RequireAdmin \/ m = "GetGroupList"
      \/ m \in OwnAccount /\ m \in {"GetAccount", "UpdateAccount", "DeleteAccount",
                                    "ChangePassword", "GetUserGroups"}
  BY DEF Method, RequireAdmin, OwnAccount
<1>2. Authenticate(m, claims) \in {"OK", "Unauthenticated", "PermissionDenied"}
      /\ (Authenticate(m, claims) = "Unauthenticated" => claims = NoToken)
      /\ (Authenticate(m, claims) = "OK" =>
             claims # NoToken /\ (m \in RequireAdmin => claims.admin))
  BY DEF Authenticate
<1> QED BY <1>1, <1>2 DEF AuthoriseAs

LEMMA ServeInv == GatewayInv /\ Serve => GatewayInv'
<1> SUFFICES ASSUME GatewayInv, Serve PROVE GatewayInv'
  OBVIOUS
<1> DEFINE code == IF call.method = "Login" THEN "OK"
                   ELSE AuthoriseAs(call.method, call.method, call.claims, call.msg.username)
<1>1. /\ CallShape /\ call.stage = "called" /\ call.err = "none"
      /\ call.late = "none" /\ call.code = "OK" /\ call.method \in Method
      /\ Aimed => call.method = call.aim
      /\ PathDecides /\ RoutedAsAimed
  BY DEF GatewayInv, CallStory, CallSafe, RoutedAsAimed, Aimed, Serve, At
<1>2. call' = IF code = "OK"
              THEN [call EXCEPT !.stage = "served", !.method = call.method]
              ELSE Answered(call, code)
  <2>1. HandlerOf(Invoked[call.method]) = [policy |-> call.method, calls |-> call.method]
    BY <1>1, Handlers
  <2>2. PICK h : h = HandlerOf(Invoked[call.method])
    OBVIOUS
  <2>3. h.policy = call.method /\ h.calls = call.method
    BY <2>1, <2>2
  <2>4. LET answer == IF h.calls = "Login" THEN "OK"
                      ELSE AuthoriseAs(h.policy, h.calls, call.claims, call.msg.username)
        IN  call' = IF answer = "OK"
                    THEN [call EXCEPT !.stage = "served", !.method = h.calls]
                    ELSE Answered(call, answer)
    BY <2>2, Zenon DEF Serve
  <2> QED BY <2>3, <2>4
<1>3. /\ code \in {"OK", "Unauthenticated", "PermissionDenied"}
      /\ code = "Unauthenticated" => call.claims = NoToken
      /\ code = "OK" /\ call.method # "Login" =>
            /\ call.claims # NoToken
            /\ \/ call.claims.admin
               \/ call.method = "GetGroupList"
               \/ /\ call.method \in {"GetAccount", "UpdateAccount", "DeleteAccount",
                                      "ChangePassword", "GetUserGroups"}
                  /\ call.msg.username = call.claims.uid
  BY <1>1, Authorised
<1> HIDE DEF code
<1>4. CASE code = "OK"
  <2>1. "served" \in Stage
    BY DEF Stage
  <2>2. call' = [call EXCEPT !.stage = "served"]
    BY <1>1, <1>2, <1>4 DEF CallShape, Shape
  <2>3. /\ call'.stage = "served" /\ call'.msg = call.msg /\ call'.err = "none"
        /\ call'.late = "none" /\ call'.code = "OK" /\ call'.aim = call.aim
        /\ call'.meant = call.meant /\ call'.path = call.path
        /\ call'.method = call.method /\ call'.claims = call.claims
        /\ call'.rest = call.rest
    BY <1>1, <2>2 DEF CallShape, Shape
  <2>4. CallShape'
    BY <1>1, <2>1, <2>2, <2>3 DEF CallShape, Shape
  <2>5. CallStory'
    BY <1>1, <2>3 DEF CallStory
  <2>6. OthersOnlyByAdmins'
    BY <1>3, <1>4, <2>3 DEF OthersOnlyByAdmins
  <2>7. SignedOutForNoToken' /\ DoneMeansDone'
    BY <1>1, <2>3 DEF SignedOutForNoToken, DoneMeansDone
  <2>9. RoutedAsAimed'
    BY <1>1, <2>3, StillAimed DEF RoutedAsAimed, Aimed
  <2>8. PathDecides'
    <3>1. call.stage \in {"called", "served"}
      BY <1>1
    <3>2. call.rest => Names(call.method, call.path, call.msg)
      BY <1>1, <3>1, Zenon DEF PathDecides, Names
    <3>3. call'.rest => Names(call'.method, call'.path, call'.msg)
      BY <2>3, <3>2
    <3> QED BY <3>3, Zenon DEF PathDecides, Names
  <2> QED BY <2>4, <2>5, <2>6, <2>7, <2>8, <2>9 DEF GatewayInv, CallSafe
<1>5. CASE code # "OK"
  <2>1. code \in Code
    BY <1>3 DEF Code
  <2>2. call' = [Answered(call, code) EXCEPT !.err = "none", !.late = "none"]
    BY <1>1, <1>2, <1>5, EarlyAnswer
  <2>3. PICK answer \in Code : answer = code
    BY <2>1
  <2>4. call' = [Answered(call, answer) EXCEPT !.err = "none", !.late = "none"]
    BY <2>2, <2>3
  <2> QED BY <1>1, <1>3, <1>5, <2>3, <2>4, AnswerInv
<1> QED BY <1>4, <1>5

\* A manager that has failed never answers OK.
LEMMA Outcomes ==
    ASSUME NEW m \in Method, NEW err \in Errors(m)
    PROVE  /\ Outcome(m, err) \in Code /\ Outcome(m, err) # "OK" /\ err # "ok"
           /\ Outcome(m, err) = "Unauthenticated" => m = "Login"
<1>1. err \in {"Validation", "AccountValidation", "NoAccount", "NoGroup", "NoMember",
               "AccountExists", "GroupExists", "MemberExists", "LastMember", "other"}
  BY DEF Method, Errors
<1> QED BY <1>1 DEF Outcome, Status, Code

LEMMA ManageInv == GatewayInv /\ Manage => GatewayInv'
<1> SUFFICES ASSUME GatewayInv, Manage PROVE GatewayInv'
  OBVIOUS
<1>1. /\ CallShape /\ call.stage = "served" /\ call.method \in Method
      /\ call.late = "none" /\ call.code = "OK"
      /\ Aimed => call.method = call.aim
  BY DEF GatewayInv, CallStory, CallSafe, RoutedAsAimed, Aimed, Manage, At
<1>2. PICK err \in {"ok"} \cup Errors(call.method) :
         call' = IF err = "ok"
                 THEN [call EXCEPT !.stage = "managed", !.err = err]
                 ELSE [Answered(call, Outcome(call.method, err)) EXCEPT !.err = err]
  BY DEF Manage
<1>3. CASE err = "ok"
  <2>1. "managed" \in Stage
    BY DEF Stage
  <2>2. call' = [call EXCEPT !.stage = "managed", !.err = "ok"]
    BY <1>2, <1>3
  <2>3. /\ call'.stage = "managed" /\ call'.err = "ok" /\ call'.late = "none"
        /\ call'.code = "OK" /\ call'.aim = call.aim /\ call'.meant = call.meant
        /\ call'.method = call.method
    BY <1>1, <2>2 DEF CallShape, Shape
  <2>4. CallShape'
    BY <1>1, <2>1, <2>2, <2>3 DEF CallShape, Shape
  <2>5. CallStory'
    BY <1>1, <2>3 DEF CallStory
  <2>6. OthersOnlyByAdmins' /\ SignedOutForNoToken' /\ DoneMeansDone'
    BY <2>3 DEF OthersOnlyByAdmins, SignedOutForNoToken, DoneMeansDone
  <2>7. RoutedAsAimed' /\ PathDecides'
    <3>1. call'.stage \notin {"called", "served"} /\ (Aimed' => call'.method = call'.aim)
      BY <1>1, <2>3 DEF Aimed
    <3> QED BY <3>1, Zenon DEF RoutedAsAimed, PathDecides, Aimed
  <2> QED BY <2>4, <2>5, <2>6, <2>7 DEF GatewayInv, CallSafe
<1>4. CASE err # "ok"
  <2>1. err \in Errors(call.method)
    BY <1>4
  <2>2. PICK code \in Code :
           /\ code = Outcome(call.method, err) /\ code # "OK"
           /\ code = "Unauthenticated" => call.method = "Login"
    BY <1>1, <2>1, Outcomes
  <2>3. call' = [Answered(call, code) EXCEPT !.err = err]
    BY <1>2, <1>4, <2>2
  <2>4. call' = [Answered(call, code) EXCEPT !.err = err, !.late = "none"]
    BY <1>1, <2>3 DEF CallShape, Shape, Answered
  <2> QED BY <1>1, <1>4, <2>2, <2>4, AnswerInv
<1> QED BY <1>3, <1>4

\* What goes wrong late has a code of its own, and only where it may.
LEMMA LateOutcomes ==
    ASSUME NEW m \in Method, NEW late \in {"ok"} \cup Late(m)
    PROVE  /\ LateStatus(late) \in {"OK", "NotFound", "Internal"}
           /\ LateStatus(late) = "OK" <=> late = "ok"
           /\ LateStatus(late) # "OK" =>
                 \/ m = "UpdateAccount" /\ LateStatus(late) = "Internal"
                 \/ m = "Login"
<1>1. late \in {"ok", "invalid", "member", "signing"}
  BY DEF Late
<1>2. /\ late = "ok" => LateStatus(late) = "OK"
      /\ late = "invalid" => LateStatus(late) = "NotFound"
      /\ late \in {"member", "signing"} => LateStatus(late) = "Internal"
  BY DEF LateStatus
<1>3. late # "ok" => m = "Login" \/ (m = "UpdateAccount" /\ late = "signing")
  BY DEF Late
<1> QED BY <1>1, <1>2, <1>3

LEMMA FinishInv == GatewayInv /\ Finish => GatewayInv'
<1> SUFFICES ASSUME GatewayInv, Finish PROVE GatewayInv'
  OBVIOUS
<1>1. /\ CallShape /\ call.method \in Method /\ call.err = "ok"
      /\ Aimed => call.method = call.aim
  BY DEF GatewayInv, CallStory, CallSafe, RoutedAsAimed, Aimed, Finish, At
<1>2. PICK late \in {"ok"} \cup Late(call.method) :
         call' = [Answered(call, LateStatus(late)) EXCEPT !.late = late]
  BY DEF Finish
<1>3. PICK code \in Code :
         /\ code = LateStatus(late) /\ code \in {"OK", "NotFound", "Internal"}
         /\ code = "OK" <=> late = "ok"
         /\ code # "OK" =>
               \/ call.method = "UpdateAccount" /\ code = "Internal"
               \/ call.method = "Login"
  BY <1>1, LateOutcomes DEF Code
<1>4. call' = [Answered(call, code) EXCEPT !.err = "ok", !.late = late]
  BY <1>1, <1>2, <1>3 DEF CallShape, Shape, Answered
<1> QED BY <1>1, <1>3, <1>4, AnswerInv

LEMMA StepInv == GatewayInv /\ [Next]_call => GatewayInv'
<1> SUFFICES ASSUME GatewayInv, [Next]_call PROVE GatewayInv'
  OBVIOUS
<1>1. CASE UNCHANGED call
  <2>1. CallShape'
    BY <1>1 DEF GatewayInv, CallShape
  <2>2. CallStory'
    BY <1>1 DEF GatewayInv, CallStory, Aimed, AimedPath
  <2>3. OthersOnlyByAdmins' /\ SignedOutForNoToken' /\ DoneMeansDone'
    BY <1>1 DEF GatewayInv, CallSafe, OthersOnlyByAdmins, SignedOutForNoToken, DoneMeansDone
  <2>4. RoutedAsAimed' /\ PathDecides'
    BY <1>1, Zenon DEF GatewayInv, CallSafe, RoutedAsAimed, PathDecides
  <2> QED BY <2>1, <2>2, <2>3, <2>4 DEF GatewayInv, CallSafe
<1> QED BY <1>1, AskInv, AskStrayInv, InvokeInv, HangUpInv, RouteInv, AssembleInv, ServeInv,
           ManageInv, FinishInv DEF Next

\* What a call is at every stage, in every execution.
THEOREM CallsInvariant == Spec => []GatewayInv
<1> QED BY InitInv, StepInv, PTL DEF Spec

\* An error is one of the manager's, and a late one of the service's.
ErrInv == call.err \in Err /\ call.late \in LateErr

LEMMA StepErr ==
    ASSUME GatewayInv, ErrInv, [Next]_call
    PROVE  ErrInv'
<1>1. "none" \in Err /\ "ok" \in Err /\ "none" \in LateErr /\ "ok" \in LateErr
  BY DEF Err, LateErr
<1>2. CASE HangUp
  BY <1>1, <1>2, NoCallFits DEF HangUp, ErrInv
<1>3. CASE Ask \/ AskStray
  <2>1. PICK verb, path, aim, meant : Sent(verb, path, aim, meant)
    <3>1. CASE Ask
      <4>1. PICK m \in Routed, username \in User \cup {NoName}, group \in Group \cup {NoName} :
               Sent(VerbOf(m), PathOf(m, username, group), m,
                    [username |-> username, group |-> group])
        BY <3>1, Zenon DEF Ask
      <4> QED BY <4>1, Zenon
    <3>2. CASE AskStray
      BY <3>2, Zenon DEF AskStray
    <3> QED BY <1>3, <3>1, <3>2
  <2>2. PICK body \in [form : {"json"}, username : Name, group : Name]
                      \cup {NoBody, [NoBody EXCEPT !.form = "broken"]},
             query \in {NoQuery, [NoQuery EXCEPT !.fine = FALSE]}
                       \cup [fine : {TRUE}, name : Group],
             claims \in Bearer \cup {NoToken} :
           call' = [NoCall EXCEPT !.stage = "sent", !.rest = TRUE, !.verb = verb,
                                  !.path = path, !.aim = aim, !.meant = meant,
                                  !.body = body, !.query = query, !.claims = claims]
    BY <2>1, Zenon DEF Sent
  <2>3. call'.err = "none" /\ call'.late = "none"
    BY <2>2 DEF NoCall
  <2> QED BY <1>1, <2>3 DEF ErrInv
<1>4. CASE Invoke
  <2>1. PICK m, msg, claims :
           call' = [NoCall EXCEPT !.stage = "called", !.method = m, !.msg = msg,
                                  !.claims = claims]
    BY <1>4 DEF Invoke
  <2>2. call'.err = "none" /\ call'.late = "none"
    BY <2>1 DEF NoCall
  <2> QED BY <1>1, <2>2 DEF ErrInv
<1>5. CASE Route \/ Assemble \/ Serve
  <2>1. call'.err = call.err /\ call'.late = call.late
    <3>1. CASE Route
      <4>1. \/ \E http : call' = Turned(http)
            \/ \E m, path : call' = [call EXCEPT !.stage = "routed", !.method = m,
                                                !.path = path]
        BY <3>1 DEF Route
      <4> QED BY <4>1 DEF GatewayInv, CallShape, Shape, Turned
    <3>2. CASE Assemble
      BY <3>2 DEF GatewayInv, CallShape, Shape, Assemble, Answered
    <3>3. CASE Serve
      BY <3>3 DEF GatewayInv, CallShape, Shape, Serve, Answered
    <3> QED BY <1>5, <3>1, <3>2, <3>3
  <2> QED BY <2>1 DEF ErrInv
<1>6. CASE Manage \/ Finish
  <2>1. call.method \in Method
    BY <1>6 DEF GatewayInv, CallStory, Manage, Finish, At
  <2>2. CASE Manage
    <3>1. PICK err \in {"ok"} \cup Errors(call.method) :
             call' = IF err = "ok"
                     THEN [call EXCEPT !.stage = "managed", !.err = err]
                     ELSE [Answered(call, Outcome(call.method, err)) EXCEPT !.err = err]
      BY <2>2 DEF Manage
    <3>2. call'.err = err /\ call'.late = call.late
      BY <3>1 DEF GatewayInv, CallShape, Shape, Answered
    <3> QED BY <2>1, <3>1, <3>2 DEF ErrInv, Err
  <2>3. CASE Finish
    <3>1. PICK late \in {"ok"} \cup Late(call.method) :
             call' = [Answered(call, LateStatus(late)) EXCEPT !.late = late]
      BY <2>3 DEF Finish
    <3>2. call'.late = late /\ call'.err = call.err
      BY <3>1 DEF GatewayInv, CallShape, Shape, Answered
    <3> QED BY <2>1, <3>1, <3>2 DEF ErrInv, LateErr
  <2> QED BY <1>6, <2>2, <2>3
<1>7. CASE UNCHANGED call
  BY <1>7 DEF ErrInv
<1> QED BY <1>2, <1>3, <1>4, <1>5, <1>6, <1>7 DEF Next

\* Every stage leaves a call well typed: in particular the message of any path, body
\* and query is a message (ldap_manager.pb.gw.go:31-425), and whatever the manager
\* answers has one of the statuses and an HTTP code (grpc/accounts.go, groups.go).
THEOREM GatewayTypesCorrect == Spec => []GatewayTypeOK
<1>1. Init => ErrInv
  BY DEF Init, NoCall, ErrInv, Err, LateErr
<1>2. GatewayInv /\ ErrInv /\ [Next]_call => ErrInv'
  BY StepErr
<1>3. GatewayInv /\ ErrInv => GatewayTypeOK
  <2>1. [username : Name, group : Name] \subseteq Message
    BY GatewayAssumption DEF Message
  <2> QED BY <2>1, GatewayAssumption DEF GatewayInv, CallShape, Shape, ErrInv, GatewayTypeOK, Call
<1> QED BY <1>1, <1>2, <1>3, CallsInvariant, PTL DEF Spec

\* For names that are plain segments, neither mux nor the generated tables lead a
\* call astray (http/server.go:91, ldap_manager.pb.gw.go:767-797): it is the aimed
\* method that is asked about the names meant, or that answers.
THEOREM RoutedAsAimedCorrect == Spec => []RoutedAsAimed
<1>1. GatewayInv => RoutedAsAimed
  BY DEF GatewayInv, CallSafe
<1> QED BY <1>1, CallsInvariant, PTL

\* Body and query never take the place of what the path names.
THEOREM PathDecidesCorrect == Spec => []PathDecides
<1>1. GatewayInv => PathDecides
  BY DEF GatewayInv, CallSafe
<1> QED BY <1>1, CallsInvariant, PTL

\* Over either interface, only administrators reach what is another's.
THEOREM OthersOnlyByAdminsCorrect == Spec => []OthersOnlyByAdmins
<1>1. GatewayInv => OthersOnlyByAdmins
  BY DEF GatewayInv, CallSafe
<1> QED BY <1>1, CallsInvariant, PTL

\* The status on which a user is to be signed out means that there is no token.
THEOREM SignedOutForNoTokenCorrect == Spec => []SignedOutForNoToken
<1>1. GatewayInv => SignedOutForNoToken
  BY DEF GatewayInv, CallSafe
<1> QED BY <1>1, CallsInvariant, PTL

\* 200 is success from end to end; of what the manager has done, only an update of
\* an account may be told to have failed (grpc/accounts.go:91-94), or a login.
THEOREM DoneMeansDoneCorrect == Spec => []DoneMeansDone
<1>1. GatewayInv => DoneMeansDone
  BY DEF GatewayInv, CallSafe
<1> QED BY <1>1, CallsInvariant, PTL
=============================================================================
