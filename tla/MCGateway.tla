------------------------------ MODULE MCGateway ------------------------------
(***************************************************************************)
(* A small instance of Gateway: accounts and groups that are called like   *)
(* parts of the paths, names that are no plain segments, and paths that no *)
(* method has.                                                             *)
(***************************************************************************)
EXTENDS Gateway

Strings == STRING

Tokens == {[uid |-> u, admin |-> b, from |-> u] : u \in {"ann", "password"}, b \in BOOLEAN}

Split ==
    [n \in Name |-> IF n = "staff/member/ann" THEN <<"staff", "member", "ann">> ELSE <<n>>]

Colons ==
    [s \in {"ann:", "staff:x", ":x"} |->
        CASE s = "ann:" -> [base |-> "ann", verb |-> ""]
          [] s = "staff:x" -> [base |-> "staff", verb |-> "x"]
          [] s = ":x" -> [base |-> "", verb |-> "x"]]

Elsewhere ==
    {<<"v1">>, <<"v1", "login", "ann">>, <<"v1", "account", "ann", "members">>,
     <<"v1", "group", "staff", "member", "ann", "update">>, <<"v1", "account", "ann">>,
     <<"v1", "accounts">>, <<"v1", "group", "staff", "member">>, <<"v1", "account", "..">>,
     <<"v1", "group", "staff:x">>, <<"v1", "account", ":x">>}
=============================================================================
