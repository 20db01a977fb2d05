-------------------------------- MODULE Presence --------------------------------
(***************************************************************************)
(* Who is told what about whom: the presence goroutines the hub spawns     *)
(* (broadcastPresence, handleDisconnect), the presence answers a read pump *)
(* queues to its own client, and last_seen.  The hub itself is the session *)
(* registry it implements; nothing orders the goroutines it spawns.        *)
(*                                                                         *)
(* A word is the last thing queued to a connection about a user.  What is  *)
(* said of one user does not depend on the others, so a query asks for one *)
(* user: an answer about several is as many answers queued together.       *)
(***************************************************************************)
EXTENDS SessionRegistry, Naturals

CONSTANTS
  Queried,  \* the users asked about in presence queries (a bound)
  NoUser,   \* "no query in progress"
  MaxTime   \* bound on the clock

ASSUME PresenceAssumption == Queried \subseteq Users /\ NoUser \notin Users /\ MaxTime \in Nat

VARIABLES
  received,  \* the connection whose registration the hub goroutine has
             \* received and not carried out: its read pump runs already
  online,    \* the goroutine that announces c's registration
  offline,   \* the goroutine that handles c's disconnection
  dropped,   \* its reading of the clock
  stamped,   \* whether it wrote last_seen
  untold,    \* untold[c][said]: the clients whom Broadcast has yet to tell
             \* that c came online, or that it went offline
  asked,     \* the user whose presence c's read pump is looking up
  answer,    \* what the lookup found
  word,      \* word[c][u]: the last word queued to c about u
  lastSeen,  \* users.last_seen
  now,       \* the clock
  lastEnd,   \* history: the connection with which u last went offline
  crossed,   \* history: u's last transition came before all was broadcast
             \* about the previous one
  raced,     \* history: raced[u] are the clients that looked u up before its
             \* last transition and whose answer is to come, or came last
  overtook   \* history: u last went offline before the previous last_seen of
             \* u was written

hubVars == <<regVars, received>>
goVars == <<online, offline, dropped, stamped, untold>>
askVars == <<asked, answer>>
history == <<lastEnd, crossed, raced, overtook>>
vars == <<hubVars, goVars, askVars, word, lastSeen, now, history>>

Said == {"online", "offline"}
Word == {"none", "missed"} \cup Said

PresenceTypeOK ==
  /\ TypeOK
  /\ received \in Conns \cup {NoConn}
  /\ online \in [Conns -> {"none", "announce", "broadcast"}]
  /\ offline \in [Conns -> {"none", "start", "stamp", "announce", "broadcast"}]
  /\ \A c \in Conns : offline[c] # "none" <=> phase[c] = "ended"
  /\ dropped \in [Conns -> 0..MaxTime]
  /\ stamped \in [Conns -> BOOLEAN]
  /\ untold \in [Conns -> [Said -> SUBSET Conns]]
  /\ asked \in [Conns -> Users \cup {NoUser}]
  /\ answer \in [Conns -> Word]
  /\ word \in [Conns -> [Users -> Word]]
  /\ lastSeen \in [Users -> 0..MaxTime]
  /\ now \in 0..MaxTime
  /\ lastEnd \in [Users -> Conns \cup {NoConn}]
  /\ crossed \in [Users -> BOOLEAN]
  /\ raced \in [Users -> SUBSET Conns]
  /\ overtook \in [Users -> BOOLEAN]

PresenceInit ==
  /\ Init
  /\ received = NoConn
  /\ online = [c \in Conns |-> "none"]
  /\ offline = [c \in Conns |-> "none"]
  /\ dropped = [c \in Conns |-> 0]
  /\ stamped = [c \in Conns |-> FALSE]
  /\ untold = [c \in Conns |-> [said \in Said |-> {}]]
  /\ asked = [c \in Conns |-> NoUser]
  /\ answer = [c \in Conns |-> "none"]
  /\ word = [c \in Conns |-> [u \in Users |-> "none"]]
  /\ lastSeen = [u \in Users |-> 0]
  /\ now = 0
  /\ lastEnd = [u \in Users |-> NoConn]
  /\ crossed = [u \in Users |-> FALSE]
  /\ raced = [u \in Users |-> {}]
  /\ overtook = [u \in Users |-> FALSE]

IsOnline(u) == session[u] # NoConn
Truth(u) == IF IsOnline(u) THEN "online" ELSE "offline"
Connected == {c \in Conns : session[Owner[c]] = c}

(* The connections whose read pump runs and can still be heard. *)
Served == Connected \cup ({received} \ {NoConn})

ToCome == {"start", "stamp", "announce"}

(* A broadcast about u has yet to begin. *)
Announcing(u) == \E c \in Conns : Owner[c] = u /\ (online[c] \in ToCome \/ offline[c] \in ToCome)

(* A broadcast about u has yet to reach d. *)
OnItsWay(u, d) == \E c \in Conns, said \in Said : Owner[c] = u /\ d \in untold[c][said]

(* A goroutine has yet to say something about u. *)
InProgress(u) == Announcing(u) \/ \E d \in Conns : OnItsWay(u, d)

(* The transition of u overlaps the previous one, and these lookups. *)
Overlap(u) ==
  /\ crossed' = [crossed EXCEPT ![u] = InProgress(u)]
  /\ raced' = [raced EXCEPT ![u] = {d \in Conns : asked[d] = u}]

(* A goroutine has yet to write the last_seen of u. *)
Writing(u) == \E c \in Conns : Owner[c] = u /\ offline[c] \in {"start", "stamp"}

(* No goroutine is in a Broadcast, holding h.mu for reading. *)
Unlocked == \A c \in Conns, said \in Said : untold[c][said] = {}

--------------------------------------------------------------------------------
(* What is queued to a client that will not be registered is moot. *)
ForgetUnregistered ==
  word' = [c \in Conns |-> IF session'[Owner[c]] = c THEN word[c] ELSE [u \in Users |-> "none"]]

(* hub.run, register case: NewClient returns as soon as the hub goroutine *)
(* has received the client, and starts its pumps.                         *)
Receive(c) ==
  /\ received = NoConn
  /\ phase[c] = "new"
  /\ received' = c
  /\ UNCHANGED <<regVars, goVars, askVars, word, lastSeen, now, history>>

(* The map, and go broadcastPresence(user, true). *)
Register(c) ==
  /\ received = c
  /\ Unlocked
  /\ Open(c)
  /\ received' = NoConn
  /\ online' = [online EXCEPT ![c] = "announce"]
  /\ Overlap(Owner[c])
  /\ ForgetUnregistered
  /\ UNCHANGED <<offline, dropped, stamped, untold, askVars, lastSeen, now, lastEnd, overtook>>

(* Mutant: every unregister announces the user as offline. *)
Unregister_Always(c) ==
  /\ received = NoConn
  /\ Unlocked
  /\ asked[c] = NoUser
  /\ \/ End(c)
     \/ phase[c] = "superseded" /\ UNCHANGED regVars
  /\ offline[c] = "none"
  /\ offline' = [offline EXCEPT ![c] = "start"]
  /\ lastEnd' = [lastEnd EXCEPT ![Owner[c]] = c]
  /\ overtook' = [overtook EXCEPT ![Owner[c]] = Writing(Owner[c])]
  /\ Overlap(Owner[c])
  /\ ForgetUnregistered
  /\ UNCHANGED <<received, online, dropped, stamped, untold, askVars, lastSeen, now>>

(* hub.run, unregister case with removed: go handleDisconnect(user).  The *)
(* read pump that unregisters is not answering a query.                   *)
Unregister(c) ==
  /\ received = NoConn
  /\ Unlocked
  /\ asked[c] = NoUser
  /\ End(c)
  /\ offline' = [offline EXCEPT ![c] = "start"]
  /\ lastEnd' = [lastEnd EXCEPT ![Owner[c]] = c]
  /\ overtook' = [overtook EXCEPT ![Owner[c]] = Writing(Owner[c])]
  /\ Overlap(Owner[c])
  /\ ForgetUnregistered
  /\ UNCHANGED <<received, online, dropped, stamped, untold, askVars, lastSeen, now>>

--------------------------------------------------------------------------------
(* Broadcast takes h.mu for reading and holds it until every client has     *)
(* been served: the map stays as it is, while other broadcasts and answers *)
(* to queries come in between.                                             *)
Broadcast(c, said) == untold' = [untold EXCEPT ![c][said] = Connected]

(* One iteration of its loop; a client whose buffer is full misses the frame. *)
Tell(c, said, d) ==
  /\ d \in untold[c][said]
  /\ untold' = [untold EXCEPT ![c][said] = @ \ {d}]
  /\ \E heard \in {said, "missed"} : word' = [word EXCEPT ![d][Owner[c]] = heard]
  /\ raced' = [raced EXCEPT ![Owner[c]] = IF asked[d] = Owner[c] THEN @ ELSE @ \ {d}]
  /\ UNCHANGED <<hubVars, online, offline, dropped, stamped, askVars, lastSeen, now,
                 lastEnd, crossed, overtook>>

(* broadcastPresence(user, true). *)
AnnounceOnline(c) ==
  /\ online[c] = "announce"
  /\ online' = [online EXCEPT ![c] = "broadcast"]
  /\ Broadcast(c, "online")
  /\ UNCHANGED <<hubVars, offline, dropped, stamped, askVars, word, lastSeen, now, history>>

(* handleDisconnect starts by reading the clock. *)
ReadClock(c) ==
  /\ offline[c] = "start"
  /\ offline' = [offline EXCEPT ![c] = "stamp"]
  /\ dropped' = [dropped EXCEPT ![c] = now]
  /\ UNCHANGED <<hubVars, online, stamped, untold, askVars, word, lastSeen, now, history>>

(* Mutant: the stamp is the time of the write. *)
UpdateLastSeen_AtWrite(c) ==
  /\ offline[c] = "stamp"
  /\ offline' = [offline EXCEPT ![c] = "announce"]
  /\ \/ /\ lastSeen' = [lastSeen EXCEPT ![Owner[c]] = now]
        /\ stamped' = [stamped EXCEPT ![c] = TRUE]
     \/ UNCHANGED <<lastSeen, stamped>>
  /\ UNCHANGED <<hubVars, online, dropped, untold, askVars, word, now, history>>

(* UpdateLastSeen: the write may fail or run into its timeout. *)
UpdateLastSeen(c) ==
  /\ offline[c] = "stamp"
  /\ offline' = [offline EXCEPT ![c] = "announce"]
  /\ \/ /\ lastSeen' = [lastSeen EXCEPT ![Owner[c]] = dropped[c]]
        /\ stamped' = [stamped EXCEPT ![c] = TRUE]
     \/ UNCHANGED <<lastSeen, stamped>>
  /\ UNCHANGED <<hubVars, online, dropped, untold, askVars, word, now, history>>

(* The offline frame goes out after the write, whatever came of it. *)
AnnounceOffline(c) ==
  /\ offline[c] = "announce"
  /\ offline' = [offline EXCEPT ![c] = "broadcast"]
  /\ Broadcast(c, "offline")
  /\ UNCHANGED <<hubVars, online, dropped, stamped, askVars, word, lastSeen, now, history>>

--------------------------------------------------------------------------------
(* handlePresence: the lookup, and later the answer. *)

AskPresence(c, u) ==
  /\ c \in Served
  /\ asked[c] = NoUser
  /\ asked' = [asked EXCEPT ![c] = u]
  /\ answer' = [answer EXCEPT ![c] = Truth(u)]
  /\ raced' = [raced EXCEPT ![u] = @ \ {c}]
  /\ UNCHANGED <<hubVars, goVars, word, lastSeen, now, lastEnd, crossed, overtook>>

AnswerPresence(c) ==
  /\ asked[c] # NoUser
  /\ IF c \in Served
     THEN \E said \in {answer[c], "missed"} : word' = [word EXCEPT ![c][asked[c]] = said]
     ELSE UNCHANGED word
  /\ asked' = [asked EXCEPT ![c] = NoUser]
  /\ answer' = [answer EXCEPT ![c] = "none"]
  /\ UNCHANGED <<hubVars, goVars, lastSeen, now, history>>

Tick ==
  /\ now < MaxTime
  /\ now' = now + 1
  /\ UNCHANGED <<hubVars, goVars, askVars, word, lastSeen, history>>

PresenceNext ==
  \/ Tick
  \/ \E c \in Conns :
       \/ Receive(c) \/ Register(c) \/ Unregister(c) \/ AnnounceOnline(c)
       \/ ReadClock(c) \/ UpdateLastSeen(c) \/ AnnounceOffline(c)
       \/ \E said \in Said, d \in Conns : Tell(c, said, d)
       \/ AnswerPresence(c)
       \/ \E u \in Queried : AskPresence(c, u)

PresenceSpec == PresenceInit /\ [][PresenceNext]_vars

--------------------------------------------------------------------------------
(* All that was to be said of u to c has been said. *)
Settled(u, c) == ~Announcing(u) /\ ~OnItsWay(u, c) /\ asked[c] # u

(***************************************************************************)
(* Once nothing about u is on its way to a client, the last word it heard  *)
(* of u is true, with two exceptions: two transitions of u overlapped, or  *)
(* u came or went while the client's own query was looking it up, and the  *)
(* outdated answer came last.  The next broadcast about u, or the client's *)
(* next query, mends the second.  A connection that takes over from        *)
(* another one of the same user must not announce u as offline (hub.run    *)
(* announces a real removal only).                                         *)
(***************************************************************************)
LastWordIsTrue ==
  \A u \in Users : ~crossed[u] =>
    \A c \in Connected \ raced[u] :
      Settled(u, c) => word[c][u] \in {"none", "missed", Truth(u)}

(***************************************************************************)
(* Once written, last_seen is the reading handleDisconnect took when u     *)
(* last went offline, and stays so whatever goroutines about u are still   *)
(* running, unless the write failed or two such writes overlapped.         *)
(***************************************************************************)
LastSeenIsLastEnd ==
  \A u \in Users :
    lastEnd[u] # NoConn /\ ~overtook[u] /\ stamped[lastEnd[u]] =>
      lastSeen[u] = dropped[lastEnd[u]]

(***************************************************************************)
(* Presence frames let "peers update their online/last-seen display        *)
(* immediately rather than waiting for the next presence poll"             *)
(* (client.go:119-121): when nothing about u is on its way any more, the   *)
(* last word a client has of u is true.                                    *)
(***************************************************************************)
PeersAreUpToDate ==
  \A u \in Users : \A c \in Connected :
    Settled(u, c) => word[c][u] \in {"none", "missed", Truth(u)}

(***************************************************************************)
(* "of the requested user IDs, report back the ones that currently have a  *)
(* live WebSocket connection" (client.go:312-313): without overlapping     *)
(* transitions a query does not leave its client with an untrue last word. *)
(***************************************************************************)
AnswersAreCurrent ==
  \A u \in Users : ~crossed[u] =>
    \A c \in Connected : Settled(u, c) => word[c][u] \in {"none", "missed", Truth(u)}

(***************************************************************************)
(* "LastSeen is the moment the user's last live WebSocket connection       *)
(* dropped" (models/user.go:46): a later write never puts it back.         *)
(***************************************************************************)
LastSeenMovesOn == [][\A u \in Users : lastSeen'[u] >= lastSeen[u]]_vars

--------------------------------------------------------------------------------
Service == INSTANCE HubService
             WITH walks <- [w \in Conns \X Said |-> untold[w[1]][w[2]]],
                  Walkers <- Conns \X Said,
                  Broadcasters <- Conns \X Said

(***************************************************************************)
(* Presence uses the hub through the service that Hub implements: what it  *)
(* does to sessions and broadcasts is what the service does.               *)
(***************************************************************************)
UsesService == Service!ServiceSpec
================================================================================
