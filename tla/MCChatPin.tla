-------------------------------- MODULE MCChatPin --------------------------------
(* An instance of ChatPin for TLC: four windows, each with a code of its own, *)
(* and one more code for static PINs.                                         *)
EXTENDS ChatPin, TLC

CONSTANTS before, first, second, third, chosen

MCCodes == [w \in Windows |->
  CASE w = -1 -> before [] w = 0 -> first [] w = 1 -> second [] OTHER -> third]

(* Requests are interchangeable, and so are servers. *)
Symmetry == Permutations(Requests) \cup Permutations(Servers)
================================================================================
