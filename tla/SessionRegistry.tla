---------------------------- MODULE SessionRegistry ----------------------------
(***************************************************************************)
(* What the WebSocket hub promises the rest of VibeNet: every user has at  *)
(* most one session, a new connection of the user supersedes the previous  *)
(* one, and a session goes offline only by its own end.  Hub implements    *)
(* this module; the modules that only need to know who is online compose   *)
(* with it.                                                                *)
(***************************************************************************)

CONSTANTS
  Users,   \* the accounts
  Conns,   \* the accepted connections; each is used for one session
  Owner,   \* Owner[c] is the user the connection c was authenticated as
  NoConn   \* "not connected"

ASSUME RegistryAssumption ==
  /\ Owner \in [Conns -> Users]
  /\ NoConn \notin Conns

VARIABLES
  session,  \* session[u] is the connection that is u's session, or NoConn
  phase     \* the life of each connection

regVars == <<session, phase>>

(***************************************************************************)
(* A connection is "new", then "live" while it is its owner's session; it  *)
(* leaves that state for good, either "superseded" by a later connection   *)
(* of the same user or "ended".                                            *)
(***************************************************************************)
Phase == {"new", "live", "superseded", "ended"}

TypeOK ==
  /\ session \in [Users -> Conns \cup {NoConn}]
  /\ phase \in [Conns -> Phase]

Init ==
  /\ session = [u \in Users |-> NoConn]
  /\ phase = [c \in Conns |-> "new"]

(* The connection c becomes its owner's session, superseding any other. *)
Open(c) ==
  /\ phase[c] = "new"
  /\ session' = [session EXCEPT ![Owner[c]] = c]
  /\ phase' = [d \in Conns |-> IF d = c THEN "live"
                               ELSE IF d = session[Owner[c]] THEN "superseded"
                               ELSE phase[d]]

(* The session c ends: its owner is offline. *)
End(c) ==
  /\ session[Owner[c]] = c
  /\ session' = [session EXCEPT ![Owner[c]] = NoConn]
  /\ phase' = [phase EXCEPT ![c] = "ended"]

Next == \E c \in Conns : Open(c) \/ End(c)

Spec == Init /\ [][Next]_regVars
================================================================================
