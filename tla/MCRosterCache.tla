----------------------------- MODULE MCRosterCache -----------------------------
(* Instances of RosterCache for TLC. *)
EXTENDS RosterCache, TLC

Symmetry == Permutations(Users) \cup Permutations(Frames)
================================================================================
