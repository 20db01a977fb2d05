------------------------------- MODULE MCMessages -------------------------------
(* An instance of History for TLC: a direct room and a group of two users, *)
(* a frame in each direction of the direct room and one in the group.       *)
EXTENDS History

CONSTANTS alice, bob, dm, group, toBob, toAlice, toGroup

MCParty == [c \in Rooms |-> Users]
MCRoom == [f \in Frames |-> IF f = toGroup THEN group ELSE dm]
MCSender == [f \in Frames |-> IF f = toAlice THEN bob ELSE alice]
MCReceiver == [f \in Frames \ GroupFrames |-> IF f = toAlice THEN alice ELSE bob]

(* The group without alice, whose frame comes as a direct one. *)
MCBobsGroup == [c \in Rooms |-> IF c = group THEN {bob} ELSE Users]
================================================================================
