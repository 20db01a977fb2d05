------------------------------- MODULE MCAccounts -------------------------------
(* Instances of Accounts for TLC: two people, one of whom also has a Google *)
(* account whose derived username is the one they both like.                *)
EXTENDS Accounts, TLC

CONSTANTS ada, upperAda, adaRetry, mail1, mail2, tel, goog

MCNames == {ada, upperAda, adaRetry}
MCFold == [n \in MCNames |-> IF n = upperAda THEN ada ELSE n]
MCForms == {[name |-> ada, email |-> mail1, phone |-> tel],
            [name |-> upperAda, email |-> mail2, phone |-> tel]}
MCProfile == [g \in Googles |-> [name |-> ada, retry |-> adaRetry, email |-> mail2]]

(* User ids and requests are interchangeable. *)
Symmetry == Permutations(Uids) \cup Permutations(Requests)
================================================================================
