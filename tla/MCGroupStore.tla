------------------------------ MODULE MCGroupStore ------------------------------
(* Instances of GroupStore for TLC. *)
EXTENDS GroupStore, TLC

(* Users and requests are interchangeable. *)
Symmetry == Permutations(Users) \cup Permutations(Requests)
================================================================================
