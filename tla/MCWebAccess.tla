----------------------------- MODULE MCWebAccess -----------------------------
(* Instances of WebAccess for TLC. *)
EXTENDS WebAccess, TLC

(* Requests and addresses can be told apart by nothing but their names. *)
Renamings == Permutations(Requests) \cup Permutations(Addresses)
=============================================================================
