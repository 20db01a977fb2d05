------------------------------- MODULE MCPresence -------------------------------
(* Instances of Presence for TLC: alice opens two connections, bob one. *)
EXTENDS Presence, TLC

CONSTANTS alice, bob, a1, a2, b1

MCUsers == {alice, bob}
MCOwner == [c \in Conns |-> IF c = b1 THEN bob ELSE alice]

Symmetry == Permutations({a1, a2})
================================================================================
