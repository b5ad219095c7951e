------------------------------ MODULE MCFrontend ------------------------------
(***************************************************************************)
(* Small instances of Frontend.  No property tells one tab from another.   *)
(***************************************************************************)
EXTENDS Frontend, TLC

Tabs == Permutations(Tab)
=============================================================================
