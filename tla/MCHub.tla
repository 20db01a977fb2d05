--------------------------------- MODULE MCHub ---------------------------------
(* Instances of Hub for TLC: alice opens two connections, bob one. *)
EXTENDS Hub, TLC

CONSTANTS alice, bob, a1, a2, b1

MCUsers == {alice, bob}
MCOwner == [c \in Conns |-> IF c = b1 THEN bob ELSE alice]
================================================================================
