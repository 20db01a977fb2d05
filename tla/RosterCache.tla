------------------------------- MODULE RosterCache -------------------------------
(***************************************************************************)
(* The hub's cache of one group's roster (hub.go): GroupMemberIDs reads    *)
(* through it, a REST handler that changed the membership calls            *)
(* InvalidateGroup after its transaction has committed, and the handlers   *)
(* of group frames ask it twice: for the sender's right to post and for    *)
(* the members to fan out to.                                              *)
(*                                                                         *)
(* Time is discrete.  A lookup in Postgres takes at most Timeout (its      *)
(* context); the other steps of a goroutine take no time.                  *)
(***************************************************************************)
EXTENDS Naturals

CONSTANTS
  Users,    \* the accounts
  Frames,   \* the group frames being handled at a time, each in a read pump
  Changes,  \* the requests that change the membership at a time
  TTL,      \* groupMembersTTL
  Timeout,  \* the lookup's timeout
  MaxTime,  \* bound on the clock
  NoUser    \* "no frame"

ASSUME RosterCacheAssumption ==
  /\ TTL \in Nat \ {0}
  /\ Timeout \in Nat
  /\ MaxTime \in Nat
  /\ NoUser \notin Users

VARIABLES
  roster,   \* the members of the group in Postgres
  since,    \* when each user's membership last changed
  cache,    \* groupMembers[groupID]
  pc,       \* where each frame's handler is
  sender,   \* the frame's sender
  asked,    \* when the handler began its lookup in Postgres
  list,     \* the roster the handler holds
  late,     \* history: the cache was invalidated after the list was read
  change,   \* where each request that changes the membership is
  slipped,  \* history: a change was not followed by an invalidation
  now       \* the clock

handlerVars == <<pc, sender, asked, list, late>>
storeVars == <<roster, since, change, slipped>>
vars == <<roster, since, cache, handlerVars, change, slipped, now>>

PC == {"idle", "check", "checkQuery", "checkStore", "deliver", "deliverQuery",
       "deliverStore", "fanout"}

(* kept: there is an entry; late: history, as for a handler's list. *)
Entry == [kept : BOOLEAN, members : SUBSET Users, expiresAt : Nat, late : BOOLEAN]
NoEntry == [kept |-> FALSE, members |-> {}, expiresAt |-> 0, late |-> FALSE]

TypeOK ==
  /\ roster \in SUBSET Users
  /\ since \in [Users -> Nat]
  /\ cache \in Entry
  /\ pc \in [Frames -> PC]
  /\ sender \in [Frames -> Users \cup {NoUser}]
  /\ asked \in [Frames -> Nat]
  /\ list \in [Frames -> SUBSET Users]
  /\ late \in [Frames -> BOOLEAN]
  /\ change \in [Changes -> {"idle", "committed"}]
  /\ slipped \in BOOLEAN
  /\ now \in Nat

Init ==
  /\ roster \in SUBSET Users
  /\ since = [u \in Users |-> 0]
  /\ cache = NoEntry
  /\ pc = [f \in Frames |-> "idle"]
  /\ sender = [f \in Frames |-> NoUser]
  /\ asked = [f \in Frames |-> 0]
  /\ list = [f \in Frames |-> {}]
  /\ late = [f \in Frames |-> FALSE]
  /\ change = [q \in Changes |-> "idle"]
  /\ slipped = FALSE
  /\ now = 0

--------------------------------------------------------------------------------
(* AcceptInvite, LeaveGroup and RemoveGroupMember. *)

(* The transaction adds or deletes one member. *)
ChangeRoster(u) ==
  /\ roster' = IF u \in roster THEN roster \ {u} ELSE roster \cup {u}
  /\ since' = [since EXCEPT ![u] = now]

Commit(q, u) ==
  /\ change[q] = "idle"
  /\ ChangeRoster(u)
  /\ change' = [change EXCEPT ![q] = "committed"]
  /\ UNCHANGED <<cache, handlerVars, slipped, now>>

(* The commit takes effect but its answer is lost: the handler reports an *)
(* error and returns without invalidating.                                *)
CommitUnanswered(u) ==
  /\ ChangeRoster(u)
  /\ slipped' = TRUE
  /\ UNCHANGED <<cache, handlerVars, change, now>>

(* Mutant: the entry is kept. *)
InvalidateGroup_Missing(q) ==
  /\ change[q] = "committed"
  /\ change' = [change EXCEPT ![q] = "idle"]
  /\ UNCHANGED <<roster, since, cache, handlerVars, slipped, now>>

InvalidateGroup(q) ==
  /\ change[q] = "committed"
  /\ change' = [change EXCEPT ![q] = "idle"]
  /\ cache' = NoEntry
  /\ late' = [f \in Frames |-> late[f] \/ pc[f] \in {"checkStore", "deliverStore"}]
  /\ slipped' = FALSE
  /\ UNCHANGED <<roster, since, pc, sender, asked, list, now>>

--------------------------------------------------------------------------------
(* GroupMemberIDs, called in the state at; what the caller does with the   *)
(* answer follows at once, in the step that returns it.                    *)

Goto(f, l) == pc' = [pc EXCEPT ![f] = l]

(* Mutant: an entry is still served at the time it expires. *)
Fresh_OffByOne == cache.kept /\ now <= cache.expiresAt

Fresh == cache.kept /\ now < cache.expiresAt

Finish(f) ==
  /\ Goto(f, "idle")
  /\ sender' = [sender EXCEPT ![f] = NoUser]
  /\ asked' = [asked EXCEPT ![f] = 0]
  /\ list' = [list EXCEPT ![f] = {}]
  /\ late' = [late EXCEPT ![f] = FALSE]

(* Mutant: the sender need not be a member. *)
Use_AnySender(f, members) ==
  /\ Goto(f, IF pc[f] \in {"check", "checkStore"} THEN "deliver" ELSE "fanout")
  /\ list' = [list EXCEPT ![f] = members]
  /\ asked' = [asked EXCEPT ![f] = 0]
  /\ late' = [late EXCEPT ![f] = FALSE]
  /\ UNCHANGED sender

(* IsGroupMemberCached drops the frame of a sender not in the list; *)
(* DeliverToGroup fans out to the list.                             *)
Use(f, members) ==
  IF pc[f] \in {"check", "checkStore"}
  THEN IF sender[f] \in members
       THEN /\ Goto(f, "deliver")
            /\ asked' = [asked EXCEPT ![f] = 0]
            /\ late' = [late EXCEPT ![f] = FALSE]
            /\ list' = [list EXCEPT ![f] = {}]
            /\ UNCHANGED sender
       ELSE Finish(f)
  ELSE /\ Goto(f, "fanout")
       /\ list' = [list EXCEPT ![f] = members]
       /\ asked' = [asked EXCEPT ![f] = 0]
       /\ late' = [late EXCEPT ![f] = FALSE]
       /\ UNCHANGED sender

Hit(f) ==
  /\ pc[f] \in {"check", "deliver"}
  /\ Fresh
  /\ Use(f, cache.members)
  /\ UNCHANGED <<storeVars, cache, now>>

Miss(f) ==
  /\ pc[f] \in {"check", "deliver"}
  /\ ~Fresh
  /\ Goto(f, IF pc[f] = "check" THEN "checkQuery" ELSE "deliverQuery")
  /\ asked' = [asked EXCEPT ![f] = now]
  /\ UNCHANGED <<storeVars, cache, sender, list, late, now>>

(* Postgres runs the query. *)
Query(f) ==
  /\ pc[f] \in {"checkQuery", "deliverQuery"}
  /\ Goto(f, IF pc[f] = "checkQuery" THEN "checkStore" ELSE "deliverStore")
  /\ list' = [list EXCEPT ![f] = roster]
  /\ UNCHANGED <<storeVars, cache, sender, asked, late, now>>

(* The query fails or runs into its timeout: the frame goes nowhere. *)
QueryFail(f) ==
  /\ pc[f] \in {"checkQuery", "checkStore", "deliverQuery", "deliverStore"}
  /\ Finish(f)
  /\ UNCHANGED <<storeVars, cache, now>>

(* The answer arrives, at the latest Timeout after the lookup began: it is *)
(* stored with a full TTL and returned.                                    *)
Store(f) ==
  /\ pc[f] \in {"checkStore", "deliverStore"}
  /\ cache' = [kept |-> TRUE, members |-> list[f], expiresAt |-> now + TTL, late |-> late[f]]
  /\ Use(f, list[f])
  /\ UNCHANGED <<storeVars, now>>

--------------------------------------------------------------------------------
(* Group frames: messages, typing and pin frames. *)

Receive(f, u) ==
  /\ pc[f] = "idle"
  /\ Goto(f, "check")
  /\ sender' = [sender EXCEPT ![f] = u]
  /\ UNCHANGED <<storeVars, cache, asked, list, late, now>>

(* The frame is queued to the members in the list; see Hub. *)
FanOut(f) ==
  /\ pc[f] = "fanout"
  /\ Finish(f)
  /\ UNCHANGED <<storeVars, cache, now>>

(* Time may pass for the handler of f. *)
InTime(f) ==
  /\ pc[f] \notin {"check", "deliver", "fanout"}
  /\ pc[f] # "idle" => now < asked[f] + Timeout

Tick ==
  /\ now < MaxTime
  /\ \A f \in Frames : InTime(f)
  /\ now' = now + 1
  /\ UNCHANGED <<storeVars, cache, handlerVars>>

Next ==
  \/ Tick
  \/ \E u \in Users : CommitUnanswered(u)
  \/ \E q \in Changes : InvalidateGroup(q) \/ \E u \in Users : Commit(q, u)
  \/ \E f \in Frames :
       \/ \E u \in Users : Receive(f, u)
       \/ Hit(f) \/ Miss(f) \/ Query(f) \/ QueryFail(f) \/ Store(f) \/ FanOut(f)

Spec == Init /\ [][Next]_vars

--------------------------------------------------------------------------------
(* The membership of u changed less than age ago. *)
Recent(u, age) == now < since[u] + age

Wrong(members) == {u \in Users : (u \in members) # (u \in roster)}

(***************************************************************************)
(* "membership must converge quickly" (hub.go:17-20): a fan-out reaches a  *)
(* removed user, or misses a new one, less than one TTL and one lookup     *)
(* after the change, whatever races with it and even if no invalidation    *)
(* came.                                                                   *)
(***************************************************************************)
FanoutIsRecent ==
  \A f \in Frames : pc[f] = "fanout" =>
    \A u \in Wrong(list[f]) : Recent(u, Timeout + TTL)

(***************************************************************************)
(* "Only members may post into a group room" (client.go): who posts is a   *)
(* member, or was one less than one TTL and two lookups ago, since the     *)
(* list of members is looked up again after the check of the sender.       *)
(***************************************************************************)
PosterWasMember ==
  \A f \in Frames : pc[f] = "fanout" /\ sender[f] \notin roster =>
    Recent(sender[f], 2 * Timeout + TTL)

Quiet == ~slipped /\ \A q \in Changes : change[q] = "idle"

(***************************************************************************)
(* Every change of the membership is followed by an invalidation, so that  *)
(* once the requests are done a wrong entry can only come from a lookup    *)
(* that an invalidation overtook, or from a change whose commit went       *)
(* unanswered.                                                             *)
(***************************************************************************)
WrongOnlyByRace ==
  cache.kept /\ ~cache.late /\ Quiet => Wrong(cache.members) = {}

(***************************************************************************)
(* InvalidateGroup "drops a group's cached member list so the next frame   *)
(* re-reads membership from Postgres" (hub.go:217-218): once the requests  *)
(* have invalidated what they changed, no frame is served a wrong list.    *)
(***************************************************************************)
NextFrameSeesChange ==
  [][\A f \in Frames : Hit(f) /\ Quiet => Wrong(cache.members) = {}]_vars
================================================================================
