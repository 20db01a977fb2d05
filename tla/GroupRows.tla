------------------------------- MODULE GroupRows --------------------------------
(***************************************************************************)
(* What the rows of one group are made of (internal/models/group.go),      *)
(* shared by the atomic operations (Groups) and the transactions           *)
(* (GroupStore).                                                           *)
(***************************************************************************)
EXTENDS Naturals

CONSTANTS
  Users,  \* the accounts
  Times   \* the readings of the clock that joined_at can take

ASSUME GroupRowsAssumption == Times \subseteq Nat /\ Times # {} /\ Users # {}

Role == {"owner", "admin", "member"}
Status == {"pending", "accepted", "declined"}
================================================================================
