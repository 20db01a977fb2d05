------------------------------- MODULE MCPictures -------------------------------
(* Instances of Pictures for TLC: one user and one group. *)
EXTENDS Pictures, TLC

(* Keys, names and requests are interchangeable. *)
Symmetry == Permutations(Keys) \cup Permutations(Names) \cup Permutations(Requests)
================================================================================
