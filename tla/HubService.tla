------------------------------ MODULE HubService ------------------------------
(***************************************************************************)
(* The hub as the goroutines around it see it: the sessions, the hub       *)
(* goroutine that opens and ends them one at a time, and the walks over    *)
(* the registered clients (Broadcast, DeliverToGroup), during which no     *)
(* session opens or ends.  Hub implements this module and Presence relies  *)
(* on nothing else.                                                        *)
(***************************************************************************)
EXTENDS SessionRegistry

CONSTANTS
  Walkers,      \* the goroutines that may walk the clients
  Broadcasters  \* those of them that serve every client

VARIABLES
  received,  \* the connection whose registration was received and not carried out
  walks      \* walks[w]: the clients w has yet to serve

serviceVars == <<regVars, received, walks>>

Connected == {c \in Conns : session[Owner[c]] = c}

(* Nobody holds h.mu for reading, as far as clients are left to serve. *)
Unlocked == \A w \in Walkers : walks[w] = {}

ServiceInit == Init /\ received = NoConn /\ walks = [w \in Walkers |-> {}]

(* The pumps of a new connection start before it is registered. *)
Receive(c) ==
  /\ received = NoConn
  /\ phase[c] = "new"
  /\ received' = c
  /\ UNCHANGED <<regVars, walks>>

Register(c) == received = c /\ Unlocked /\ Open(c) /\ received' = NoConn /\ UNCHANGED walks

Unregister(c) == received = NoConn /\ Unlocked /\ End(c) /\ UNCHANGED <<received, walks>>

Walk(w) ==
  /\ walks[w] = {}
  /\ \E served \in SUBSET Connected :
       /\ w \in Broadcasters => served = Connected
       /\ walks' = [walks EXCEPT ![w] = served]
  /\ UNCHANGED <<regVars, received>>

(* One iteration of the loop; a walk is not given up before its last one. *)
Serve(w) ==
  /\ \E c \in walks[w] : walks' = [walks EXCEPT ![w] = @ \ {c}]
  /\ UNCHANGED <<regVars, received>>

ServiceNext ==
  \/ \E c \in Conns : Receive(c) \/ Register(c) \/ Unregister(c)
  \/ \E w \in Walkers : Walk(w) \/ Serve(w)

ServiceSpec == ServiceInit /\ [][ServiceNext]_serviceVars
================================================================================
