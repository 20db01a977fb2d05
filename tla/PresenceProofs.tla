------------------------------ MODULE PresenceProofs ------------------------------
(***************************************************************************)
(* Proofs about Presence for every number of users and connections, every  *)
(* order of the goroutines the hub spawns, and a clock of any length.      *)
(***************************************************************************)
EXTENDS Presence, TLAPS

(* A user's session is a live connection of that user, and the only one. *)
SessionInv ==
  /\ \A u \in Users : session[u] # NoConn =>
       Owner[session[u]] = u /\ phase[session[u]] = "live"
  /\ \A c \in Conns : phase[c] = "live" => session[Owner[c]] = c

(* Nothing is queued to a connection that is not served. *)
SilentInv == \A c \in Conns, u \in Users : c \notin Served => word[c][u] = "none"

(* While the hub goroutine is about to register a connection nobody comes  *)
(* or goes, so what its read pump has found out is true still.             *)
ReceivedInv ==
  /\ received # NoConn =>
       /\ phase[received] = "new"
       /\ asked[received] \in Users => answer[received] = Truth(asked[received])
       /\ \A u \in Users : word[received][u] \in {"none", "missed", Truth(u)}
  /\ \A c \in Conns : phase[c] = "new" /\ c # received => asked[c] = NoUser

(* A broadcast serves registered clients. *)
FanoutInv == \A c \in Conns, said \in Said : untold[c][said] \subseteq Connected

(* The goroutine that says so of c is not through. *)
SayingOnline(c) == online[c] = "announce" \/ untold[c]["online"] # {}
SayingOffline(c) == offline[c] \in ToCome \/ untold[c]["offline"] # {}

(* Unless transitions of u overlapped, whatever is on its way about u is    *)
(* about the last one and true, and what has arrived is true or corrected  *)
(* by it; the answers that transition raced with are not.                  *)
OnTheWayOK(u) ==
  /\ \A c \in Conns : Owner[c] = u /\ SayingOnline(c) => session[u] = c
  /\ \A c \in Conns : Owner[c] = u /\ SayingOffline(c) => session[u] = NoConn
  /\ \A c \in Conns : asked[c] = u /\ c \notin raced[u] => answer[c] = Truth(u)

ArrivedOK(u) ==
  \/ Announcing(u)
  \/ \A d \in Connected :
       ~OnItsWay(u, d) /\ asked[d] # u /\ d \notin raced[u] =>
         word[d][u] \in {"none", "missed", Truth(u)}

WordInv == \A u \in Users : ~crossed[u] => OnTheWayOK(u) /\ ArrivedOK(u)

(* The last disconnection of u is one of u's; unless they overlapped, only *)
(* that one still has last_seen to write.                                  *)
StampInv ==
  /\ \A u \in Users : lastEnd[u] # NoConn => Owner[lastEnd[u]] = u
  /\ \A u \in Users : ~overtook[u] =>
       \A c \in Conns : Owner[c] = u /\ offline[c] \in {"start", "stamp"} => lastEnd[u] = c
  /\ \A c \in Conns : stamped[c] => offline[c] \in {"announce", "broadcast"}

IInv ==
  /\ PresenceTypeOK /\ SessionInv /\ SilentInv /\ ReceivedInv /\ FanoutInv
  /\ WordInv
  /\ StampInv /\ LastSeenIsLastEnd

--------------------------------------------------------------------------------
(* At the start nobody is connected and nothing is on its way. *)
LEMMA InitInv == PresenceInit => IInv
<1> SUFFICES ASSUME PresenceInit PROVE IInv
  OBVIOUS
<1> USE DEF PresenceInit, Init
<1>1. PresenceTypeOK
  BY PresenceAssumption DEF PresenceTypeOK, TypeOK, Phase, Word
<1>2. SessionInv /\ SilentInv /\ ReceivedInv /\ FanoutInv
  BY RegistryAssumption DEF SessionInv, SilentInv, ReceivedInv, FanoutInv
<1>3. WordInv
  <2>1. \A c \in Conns :
          /\ asked[c] \notin Users /\ online[c] = "none" /\ offline[c] = "none"
          /\ untold[c]["online"] = {} /\ untold[c]["offline"] = {}
    BY PresenceAssumption DEF Said
  <2>2. Connected = {}
    BY RegistryAssumption DEF Connected
  <2> QED
    BY <2>1, <2>2 DEF WordInv, OnTheWayOK, ArrivedOK, SayingOnline, SayingOffline, ToCome
<1>4. StampInv /\ LastSeenIsLastEnd
  BY DEF StampInv, LastSeenIsLastEnd
<1> QED
  BY <1>1, <1>2, <1>3, <1>4 DEF IInv

--------------------------------------------------------------------------------
(* Transitions. *)

(* The connection received has asked nothing and heard nothing. *)
LEMMA ReceiveStep ==
  ASSUME IInv, NEW c \in Conns, Receive(c)
  PROVE  IInv'
<1> USE DEF IInv
<1>1. /\ received = NoConn /\ phase[c] = "new" /\ received' = c
      /\ UNCHANGED <<session, phase, online, offline, dropped, stamped, untold, asked, answer,
                     word, lastSeen, now, lastEnd, crossed, raced, overtook>>
  BY DEF Receive, regVars, goVars, askVars, history
<1>2. session[Owner[c]] # c
  BY <1>1, RegistryAssumption DEF SessionInv
<1>3. asked[c] = NoUser /\ \A u \in Users : word[c][u] = "none"
  BY <1>1, <1>2, RegistryAssumption DEF ReceivedInv, SilentInv, Served, Connected
<1>4. PresenceTypeOK'
  BY <1>1 DEF PresenceTypeOK, TypeOK
<1>5. SessionInv' /\ StampInv' /\ LastSeenIsLastEnd'
  BY <1>1 DEF SessionInv, StampInv, LastSeenIsLastEnd
<1>6. SilentInv'
  BY <1>1 DEF SilentInv, Served, Connected
<1>7. ReceivedInv'
  <2>1. /\ phase'[c] = "new" /\ asked'[c] \notin Users
        /\ \A u \in Users : word'[c][u] = "none"
    BY <1>1, <1>3, PresenceAssumption
  <2>2. \A d \in Conns : phase'[d] = "new" /\ d # received' => asked'[d] = NoUser
    BY <1>1, RegistryAssumption DEF ReceivedInv
  <2> QED
    BY <1>1, <2>1, <2>2 DEF ReceivedInv
<1>8. FanoutInv'
  BY <1>1 DEF FanoutInv, Connected
<1>9. WordInv'
  <2>1. \A u \in Users : OnTheWayOK(u)' <=> OnTheWayOK(u)
    BY <1>1 DEF OnTheWayOK, SayingOnline, SayingOffline, Truth, IsOnline
  <2>2. \A u \in Users : ArrivedOK(u)' <=> ArrivedOK(u)
    BY <1>1 DEF ArrivedOK, Announcing, OnItsWay, Truth, IsOnline, Connected
  <2> QED
    BY <1>1, <2>1, <2>2 DEF WordInv
<1> QED
  BY <1>4, <1>5, <1>6, <1>7, <1>8, <1>9

(* A registration: what the connection has heard before is true. *)
LEMMA RegisterStep ==
  ASSUME IInv, NEW c \in Conns, Register(c)
  PROVE  IInv'
<1> USE DEF IInv
<1> DEFINE w == Owner[c]
<1>1. w \in Users /\ c # NoConn
  BY RegistryAssumption
<1>2. /\ phase[c] = "new" /\ received = c /\ received' = NoConn
      /\ \A u \in Users : session'[u] = IF u = w THEN c ELSE session[u]
      /\ \A d \in Conns : phase'[d] = IF d = c THEN "live"
                                      ELSE IF d = session[w] THEN "superseded" ELSE phase[d]
      /\ \A d \in Conns : online'[d] = IF d = c THEN "announce" ELSE online[d]
      /\ \A u \in Users : crossed'[u] = IF u = w THEN InProgress(w) ELSE crossed[u]
      /\ \A u \in Users :
           raced'[u] = IF u = w THEN {d \in Conns : asked[d] = w} ELSE raced[u]
      /\ \A d \in Conns, said \in Said : untold[d][said] = {}
      /\ UNCHANGED <<offline, dropped, stamped, untold, asked, answer, lastSeen, now, lastEnd,
                     overtook>>
  BY DEF Register, Overlap, Open, Unlocked, PresenceTypeOK, TypeOK, askVars
<1>3. session[w] # c
  BY <1>1, <1>2 DEF SessionInv
<1>4. /\ word' \in [Conns -> [Users -> Word]]
      /\ \A d \in Conns, u \in Users :
           word'[d][u] = IF session'[Owner[d]] = d THEN word[d][u] ELSE "none"
  BY DEF Register, ForgetUnregistered, PresenceTypeOK, Word
<1>5. PresenceTypeOK'
  <2>1. TypeOK'
    BY <1>1 DEF Register, Open, PresenceTypeOK, TypeOK, Phase
  <2>2. online' \in [Conns -> {"none", "announce", "broadcast"}]
    BY DEF Register, PresenceTypeOK
  <2>3. crossed' \in [Users -> BOOLEAN] /\ raced' \in [Users -> SUBSET Conns]
    BY DEF Register, Overlap, PresenceTypeOK, InProgress
  <2>4. \A d \in Conns : offline'[d] # "none" <=> phase'[d] = "ended"
    <3>1. \A d \in Conns : d = session[w] => phase[d] = "live"
      BY <1>1, RegistryAssumption DEF SessionInv
    <3>2. \A d \in Conns : phase'[d] = "ended" <=> phase[d] = "ended"
      BY <1>2, <3>1
    <3> QED
      BY <1>2, <3>2 DEF PresenceTypeOK
  <2> QED
    BY <1>2, <1>4, <2>1, <2>2, <2>3, <2>4 DEF PresenceTypeOK
<1>6. SessionInv'
  <2>1. ASSUME NEW u \in Users, session'[u] # NoConn
        PROVE  Owner[session'[u]] = u /\ phase'[session'[u]] = "live"
    <3>1. CASE u = w
      BY <1>2, <3>1
    <3>2. CASE u # w
      <4>1. session[u] \in Conns /\ Owner[session[u]] = u /\ phase[session[u]] = "live"
        BY <1>2, <2>1, <3>2 DEF SessionInv, PresenceTypeOK, TypeOK
      <4>2. session[w] # session[u]
        BY <1>1, <2>1, <3>2, <4>1, RegistryAssumption DEF SessionInv
      <4> QED
        BY <1>2, <3>2, <4>1, <4>2
    <3> QED
      BY <3>1, <3>2
  <2>2. ASSUME NEW d \in Conns, phase'[d] = "live"
        PROVE  session'[Owner[d]] = d
    <3>1. Owner[d] \in Users
      BY RegistryAssumption
    <3> QED
      BY <1>2, <2>2, <3>1 DEF SessionInv
  <2> QED
    BY <2>1, <2>2 DEF SessionInv
<1>7. SilentInv' /\ ReceivedInv' /\ FanoutInv'
  BY <1>2, <1>4 DEF SilentInv, ReceivedInv, FanoutInv, Served, Connected
<1>8. WordInv'
  <2> SUFFICES ASSUME NEW u \in Users, ~crossed'[u] PROVE OnTheWayOK(u)' /\ ArrivedOK(u)'
    BY DEF WordInv
  <2>1. CASE u = w
    <3>1. ~InProgress(u)
      BY <1>2, <2>1
    <3>2. Announcing(u)'
      BY <1>2, <2>1 DEF Announcing, ToCome
    <3>3. \A d \in Conns :
            /\ Owner[d] = u => online[d] \notin ToCome /\ offline[d] \notin ToCome
            /\ asked'[d] = u => d \in raced'[u]
      BY <1>2, <2>1, <3>1 DEF InProgress, Announcing
    <3>4. \A d \in Conns : untold'[d]["online"] = {} /\ untold'[d]["offline"] = {}
      BY <1>2 DEF Said
    <3>5. OnTheWayOK(u)'
      <4>0. /\ session'[u] = c
            /\ \A d \in Conns : Owner[d] = u =>
                 /\ d # c => online'[d] \notin ToCome
                 /\ offline'[d] \notin ToCome
        BY <1>2, <2>1, <3>3
      <4>1. \A d \in Conns : Owner[d] = u /\ SayingOnline(d)' => session'[u] = d
        BY <3>4, <4>0 DEF SayingOnline, ToCome
      <4>2. \A d \in Conns : Owner[d] = u /\ SayingOffline(d)' => session'[u] = NoConn
        BY <3>4, <4>0 DEF SayingOffline
      <4>3. \A d \in Conns : asked'[d] = u => d \in raced'[u]
        BY <3>3
      <4> QED
        BY <4>1, <4>2, <4>3 DEF OnTheWayOK, SayingOnline, SayingOffline
    <3> QED
      BY <3>2, <3>5 DEF ArrivedOK
  <2>2. CASE u # w
    <3>1. Truth(u)' = Truth(u) /\ session'[u] = session[u] /\ ~crossed[u]
      BY <1>2, <2>2 DEF Truth, IsOnline
    <3>2. OnTheWayOK(u)'
      <4>1. OnTheWayOK(u)
        BY <3>1 DEF WordInv
      <4>2. asked' = asked /\ answer' = answer /\ raced'[u] = raced[u]
        BY <1>2, <2>2
      <4>3. \A d \in Conns : Owner[d] = u =>
              /\ SayingOnline(d)' <=> SayingOnline(d)
              /\ SayingOffline(d)' <=> SayingOffline(d)
        BY <1>2, <2>2 DEF SayingOnline, SayingOffline
      <4> QED
        BY <3>1, <4>1, <4>2, <4>3 DEF OnTheWayOK, SayingOnline, SayingOffline, Truth, IsOnline
    <3>3. Announcing(u) => Announcing(u)'
      BY <1>2, <2>2 DEF Announcing
    <3>4. \A d \in Connected' :
            /\ word'[d][u] = word[d][u]
            /\ d \in Connected \/ word[d][u] \in {"none", "missed", Truth(u)}
      <4>1. \A d \in Connected' : d \in Conns /\ (d = c \/ d \in Connected)
        BY <1>2, RegistryAssumption DEF Connected
      <4>2. word[c][u] \in {"none", "missed", Truth(u)}
        BY <1>1, <1>2 DEF ReceivedInv
      <4> QED
        BY <1>4, <4>1, <4>2 DEF Connected
    <3>5. \A d \in Conns : OnItsWay(u, d)' <=> OnItsWay(u, d)
      BY <1>2 DEF OnItsWay
    <3>6. ArrivedOK(u)
      BY <3>1 DEF WordInv
    <3>7. Connected' \subseteq Conns
      BY DEF Connected
    <3>8. asked' = asked /\ raced'[u] = raced[u]
      BY <1>2, <2>2
    <3>9. ASSUME ~Announcing(u)', NEW d \in Connected', ~OnItsWay(u, d)', asked'[d] # u,
                 d \notin raced'[u]
          PROVE  word'[d][u] \in {"none", "missed", Truth(u)'}
      <4>1. d \in Conns /\ ~Announcing(u) /\ ~OnItsWay(u, d) /\ asked[d] # u /\ d \notin raced[u]
        BY <3>3, <3>5, <3>7, <3>8, <3>9
      <4>2. d \in Connected => word[d][u] \in {"none", "missed", Truth(u)}
        BY <3>6, <4>1 DEF ArrivedOK
      <4> QED
        BY <3>1, <3>4, <4>2
    <3> QED
      BY <3>2, <3>9 DEF ArrivedOK
  <2> QED
    BY <2>1, <2>2
<1>9. StampInv' /\ LastSeenIsLastEnd'
  BY <1>2 DEF StampInv, LastSeenIsLastEnd
<1> QED
  BY <1>5, <1>6, <1>7, <1>8, <1>9

(* A disconnection: its goroutine is the only one about the user, or the *)
(* transition counts as crossed.                                         *)
LEMMA UnregisterStep ==
  ASSUME IInv, NEW c \in Conns, Unregister(c)
  PROVE  IInv'
<1> USE DEF IInv
<1> DEFINE w == Owner[c]
<1>1. w \in Users /\ c # NoConn
  BY RegistryAssumption
<1>2. /\ session[w] = c /\ received = NoConn /\ received' = NoConn
      /\ \A u \in Users : session'[u] = IF u = w THEN NoConn ELSE session[u]
      /\ \A d \in Conns : phase'[d] = IF d = c THEN "ended" ELSE phase[d]
      /\ \A d \in Conns : offline'[d] = IF d = c THEN "start" ELSE offline[d]
      /\ \A u \in Users : crossed'[u] = IF u = w THEN InProgress(w) ELSE crossed[u]
      /\ \A u \in Users :
           raced'[u] = IF u = w THEN {d \in Conns : asked[d] = w} ELSE raced[u]
      /\ \A u \in Users : overtook'[u] = IF u = w THEN Writing(w) ELSE overtook[u]
      /\ \A u \in Users : lastEnd'[u] = IF u = w THEN c ELSE lastEnd[u]
      /\ \A d \in Conns, said \in Said : untold[d][said] = {}
      /\ UNCHANGED <<online, dropped, stamped, untold, asked, answer, lastSeen, now>>
  BY DEF Unregister, Overlap, End, Unlocked, PresenceTypeOK, TypeOK, askVars
<1>3. /\ word' \in [Conns -> [Users -> Word]]
      /\ \A d \in Conns, u \in Users :
           word'[d][u] = IF session'[Owner[d]] = d THEN word[d][u] ELSE "none"
  BY DEF Unregister, ForgetUnregistered, PresenceTypeOK, Word
<1>4. PresenceTypeOK'
  <2>1. TypeOK'
    BY <1>1 DEF Unregister, End, PresenceTypeOK, TypeOK, Phase
  <2>2. /\ offline' \in [Conns -> {"none", "start", "stamp", "announce", "broadcast"}]
        /\ lastEnd' \in [Users -> Conns \cup {NoConn}]
    BY DEF Unregister, PresenceTypeOK
  <2>3. crossed' \in [Users -> BOOLEAN] /\ raced' \in [Users -> SUBSET Conns]
    BY DEF Unregister, Overlap, PresenceTypeOK, InProgress
  <2>4. overtook' \in [Users -> BOOLEAN]
    BY DEF Unregister, PresenceTypeOK, Writing
  <2>5. \A d \in Conns : offline'[d] # "none" <=> phase'[d] = "ended"
    BY <1>2 DEF PresenceTypeOK
  <2> QED
    BY <1>2, <1>3, <2>1, <2>2, <2>3, <2>4, <2>5 DEF PresenceTypeOK
<1>5. SessionInv'
  <2>1. ASSUME NEW u \in Users, session'[u] # NoConn
        PROVE  Owner[session'[u]] = u /\ phase'[session'[u]] = "live"
    <3>1. u # w /\ session[u] \in Conns /\ Owner[session[u]] = u /\ phase[session[u]] = "live"
      BY <1>2, <2>1 DEF SessionInv, PresenceTypeOK, TypeOK
    <3> QED
      BY <1>2, <3>1
  <2>2. ASSUME NEW d \in Conns, phase'[d] = "live"
        PROVE  session'[Owner[d]] = d
    <3>1. Owner[d] \in Users
      BY RegistryAssumption
    <3> QED
      BY <1>2, <2>2, <3>1 DEF SessionInv
  <2> QED
    BY <2>1, <2>2 DEF SessionInv
<1>6. SilentInv' /\ ReceivedInv' /\ FanoutInv'
  BY <1>2, <1>3 DEF SilentInv, ReceivedInv, FanoutInv, Served, Connected
<1>7. WordInv'
  <2> SUFFICES ASSUME NEW u \in Users, ~crossed'[u] PROVE OnTheWayOK(u)' /\ ArrivedOK(u)'
    BY DEF WordInv
  <2>1. CASE u = w
    <3>1. ~InProgress(u)
      BY <1>2, <2>1
    <3>2. Announcing(u)'
      BY <1>2, <2>1 DEF Announcing, ToCome
    <3>3. \A d \in Conns :
            /\ Owner[d] = u => online[d] \notin ToCome /\ offline[d] \notin ToCome
            /\ asked'[d] = u => d \in raced'[u]
      BY <1>2, <2>1, <3>1 DEF InProgress, Announcing
    <3>4. \A d \in Conns : untold'[d]["online"] = {} /\ untold'[d]["offline"] = {}
      BY <1>2 DEF Said
    <3>5. OnTheWayOK(u)'
      <4>0. /\ session'[u] = NoConn
            /\ \A d \in Conns : Owner[d] = u => online'[d] \notin ToCome
        BY <1>2, <2>1, <3>3
      <4>1. \A d \in Conns : Owner[d] = u /\ SayingOnline(d)' => session'[u] = d
        BY <3>4, <4>0 DEF SayingOnline, ToCome
      <4>2. \A d \in Conns : Owner[d] = u /\ SayingOffline(d)' => session'[u] = NoConn
        BY <4>0
      <4>3. \A d \in Conns : asked'[d] = u => d \in raced'[u]
        BY <3>3
      <4> QED
        BY <4>1, <4>2, <4>3 DEF OnTheWayOK, SayingOnline, SayingOffline
    <3> QED
      BY <3>2, <3>5 DEF ArrivedOK
  <2>2. CASE u # w
    <3>1. Truth(u)' = Truth(u) /\ session'[u] = session[u] /\ ~crossed[u]
      BY <1>2, <2>2 DEF Truth, IsOnline
    <3>2. OnTheWayOK(u)'
      <4>1. OnTheWayOK(u)
        BY <3>1 DEF WordInv
      <4>2. asked' = asked /\ answer' = answer /\ raced'[u] = raced[u]
        BY <1>2, <2>2
      <4>3. \A d \in Conns : Owner[d] = u =>
              /\ SayingOnline(d)' <=> SayingOnline(d)
              /\ SayingOffline(d)' <=> SayingOffline(d)
        BY <1>2, <2>2 DEF SayingOnline, SayingOffline
      <4> QED
        BY <3>1, <4>1, <4>2, <4>3 DEF OnTheWayOK, SayingOnline, SayingOffline, Truth, IsOnline
    <3>3. Announcing(u) => Announcing(u)'
      BY <1>2, <2>2 DEF Announcing
    <3>4. \A d \in Connected' : word'[d][u] = word[d][u] /\ d \in Connected
      BY <1>1, <1>2, <1>3, RegistryAssumption DEF Connected
    <3>5. \A d \in Conns : OnItsWay(u, d)' <=> OnItsWay(u, d)
      BY <1>2 DEF OnItsWay
    <3>6. ArrivedOK(u)
      BY <3>1 DEF WordInv
    <3>7. Connected' \subseteq Conns
      BY DEF Connected
    <3>8. asked' = asked /\ raced'[u] = raced[u]
      BY <1>2, <2>2
    <3>9. ASSUME ~Announcing(u)', NEW d \in Connected', ~OnItsWay(u, d)', asked'[d] # u,
                 d \notin raced'[u]
          PROVE  word'[d][u] \in {"none", "missed", Truth(u)'}
      <4>1. d \in Conns /\ ~Announcing(u) /\ ~OnItsWay(u, d) /\ asked[d] # u /\ d \notin raced[u]
        BY <3>3, <3>5, <3>7, <3>8, <3>9
      <4>2. d \in Connected => word[d][u] \in {"none", "missed", Truth(u)}
        BY <3>6, <4>1 DEF ArrivedOK
      <4> QED
        BY <3>1, <3>4, <4>2
    <3> QED
      BY <3>2, <3>9 DEF ArrivedOK
  <2> QED
    BY <2>1, <2>2
<1>8. ~stamped[c]
  <2>1. phase[c] = "live"
    BY <1>1, <1>2 DEF SessionInv
  <2>2. offline[c] = "none"
    BY <2>1 DEF PresenceTypeOK
  <2> QED
    BY <2>2 DEF StampInv
<1>9. StampInv'
  <2>1. \A u \in Users : lastEnd'[u] # NoConn => Owner[lastEnd'[u]] = u
    BY <1>2 DEF StampInv
  <2>2. ASSUME NEW u \in Users, ~overtook'[u], NEW d \in Conns, Owner[d] = u,
               offline'[d] \in {"start", "stamp"}
        PROVE  lastEnd'[u] = d
    <3>1. CASE u = w
      BY <1>2, <2>2, <3>1 DEF Writing
    <3>2. CASE u # w
      BY <1>2, <2>2, <3>2 DEF StampInv
    <3> QED
      BY <3>1, <3>2
  <2>3. ~stamped[c]
    BY <1>8
  <2> QED
    BY <1>2, <2>1, <2>2, <2>3 DEF StampInv
<1>10. LastSeenIsLastEnd'
  BY <1>2, <1>8 DEF LastSeenIsLastEnd
<1> QED
  BY <1>4, <1>5, <1>6, <1>7, <1>9, <1>10

--------------------------------------------------------------------------------
(* Announcements. *)

(* A broadcast begins: of a registration with the session there is, of a    *)
(* disconnection when the user is gone.  It is on its way to everybody.     *)
LEMMA AnnounceStep ==
  ASSUME IInv, NEW c \in Conns, AnnounceOnline(c) \/ AnnounceOffline(c)
  PROVE  IInv'
<1> USE DEF IInv
<1> DEFINE w == Owner[c]
<1>1. w \in Users
  BY RegistryAssumption
<1>2. PICK said \in Said :
        /\ IF said = "online" THEN online[c] = "announce" ELSE offline[c] = "announce"
        /\ \A d \in Conns :
             online'[d] = IF d = c /\ said = "online" THEN "broadcast" ELSE online[d]
        /\ \A d \in Conns :
             offline'[d] = IF d = c /\ said = "offline" THEN "broadcast" ELSE offline[d]
        /\ online' \in [Conns -> {"none", "announce", "broadcast"}]
        /\ offline' \in [Conns -> {"none", "start", "stamp", "announce", "broadcast"}]
        /\ Broadcast(c, said)
        /\ UNCHANGED <<session, phase, received, dropped, stamped, asked, answer, word,
                       lastSeen, now, lastEnd,
                       crossed, raced, overtook>>
  <2>1. CASE AnnounceOnline(c)
    <3>1. "online" \in Said /\ "online" # "offline"
      BY DEF Said
    <3> QED
      BY <2>1, <3>1 DEF AnnounceOnline, PresenceTypeOK, hubVars, regVars, askVars, history
  <2>2. CASE AnnounceOffline(c)
    <3>1. "offline" \in Said /\ "online" # "offline"
      BY DEF Said
    <3> QED
      BY <2>2, <3>1 DEF AnnounceOffline, PresenceTypeOK, hubVars, regVars, askVars, history
  <2> QED
    BY <2>1, <2>2
<1>3. /\ untold' \in [Conns -> [Said -> SUBSET Conns]]
      /\ \A d \in Conns, k \in Said :
           untold'[d][k] = IF d = c /\ k = said THEN Connected ELSE untold[d][k]
  <2>1. untold \in [Conns -> [Said -> SUBSET Conns]] /\ Connected \in SUBSET Conns
    BY DEF PresenceTypeOK, Connected
  <2>2. untold' = [untold EXCEPT ![c] = [untold[c] EXCEPT ![said] = Connected]]
    BY <1>2 DEF Broadcast
  <2>3. [untold[c] EXCEPT ![said] = Connected] \in [Said -> SUBSET Conns]
    BY <2>1
  <2> QED
    BY <1>2, <2>1, <2>2, <2>3
<1>4. PresenceTypeOK'
  <2>1. \A d \in Conns : offline'[d] # "none" <=> offline[d] # "none"
    BY <1>2
  <2> QED
    BY <1>2, <1>3, <2>1 DEF PresenceTypeOK, TypeOK
<1>5. SessionInv' /\ SilentInv' /\ ReceivedInv'
  BY <1>2 DEF SessionInv, SilentInv, ReceivedInv, Served, Connected, Truth, IsOnline
<1>6. FanoutInv'
  <2>1. Connected' = Connected
    BY <1>2 DEF Connected
  <2> QED
    BY <1>3, <2>1 DEF FanoutInv
<1>7. WordInv'
  <2> SUFFICES ASSUME NEW u \in Users, ~crossed[u] PROVE OnTheWayOK(u)' /\ ArrivedOK(u)'
    BY <1>2 DEF WordInv
  <2>1. OnTheWayOK(u) /\ ArrivedOK(u)
    BY DEF WordInv
  <2>2. /\ \A d \in Conns : SayingOnline(d)' => SayingOnline(d)
        /\ \A d \in Conns : SayingOffline(d)' => SayingOffline(d)
    BY <1>2, <1>3 DEF SayingOnline, SayingOffline, ToCome, Said
  <2>3. OnTheWayOK(u)'
    BY <1>2, <2>1, <2>2 DEF OnTheWayOK, Truth, IsOnline
  <2>4. CASE u = w
    <3>1. \A d \in Connected : OnItsWay(u, d)'
      BY <1>2, <1>3, <2>4 DEF OnItsWay
    <3> QED
      BY <1>2, <2>3, <3>1 DEF ArrivedOK, Connected
  <2>5. CASE u # w
    <3>1. Announcing(u)' <=> Announcing(u)
      BY <1>2, <2>5 DEF Announcing
    <3>2. \A d \in Conns : OnItsWay(u, d)' <=> OnItsWay(u, d)
      BY <1>2, <1>3, <2>5 DEF OnItsWay
    <3>3. /\ Connected' = Connected /\ Connected \subseteq Conns
          /\ Truth(u)' = Truth(u) /\ word' = word
      BY <1>2 DEF Connected, Truth, IsOnline
    <3>4. ArrivedOK(u)'
      <4>1. asked' = asked /\ raced' = raced
        BY <1>2
      <4> QED
        BY <2>1, <3>1, <3>2, <3>3, <4>1 DEF ArrivedOK
    <3> QED
      BY <2>3, <3>4
  <2> QED
    BY <2>4, <2>5
<1>8. StampInv' /\ LastSeenIsLastEnd'
  BY <1>2 DEF StampInv, LastSeenIsLastEnd
<1> QED
  BY <1>4, <1>5, <1>6, <1>7, <1>8

(* Who is told hears what is true, or has a gap from here on. *)
LEMMA TellStep ==
  ASSUME IInv, NEW c \in Conns, NEW said \in Said, NEW d \in Conns, Tell(c, said, d)
  PROVE  IInv'
<1> USE DEF IInv
<1> DEFINE w == Owner[c]
<1>1. w \in Users
  BY RegistryAssumption
<1>2. /\ d \in untold[c][said] /\ d \in Connected
      /\ UNCHANGED <<session, phase, received, online, offline, dropped, stamped, asked,
                     answer, lastSeen, now,
                     lastEnd, crossed, overtook>>
      /\ raced' \in [Users -> SUBSET Conns]
      /\ \A u \in Users : \/ raced'[u] = raced[u]
                          \/ u = w /\ asked[d] # w /\ raced'[u] = raced[u] \ {d}
  <2>1. /\ d \in untold[c][said] /\ d \in Connected
        /\ UNCHANGED <<session, phase, received, online, offline, dropped, stamped, asked,
                       answer, lastSeen, now, lastEnd, crossed, overtook>>
    BY DEF Tell, FanoutInv, hubVars, regVars, askVars
  <2>2. raced' = [raced EXCEPT ![w] = IF asked[d] = w THEN raced[w] ELSE raced[w] \ {d}]
    BY DEF Tell
  <2>3. raced \in [Users -> SUBSET Conns]
    BY DEF PresenceTypeOK
  <2>4. \A u \in Users : raced'[u] = IF u = w /\ asked[d] # w THEN raced[u] \ {d} ELSE raced[u]
    BY <1>1, <2>2, <2>3
  <2>5. raced' \in [Users -> SUBSET Conns]
    BY <1>1, <2>2, <2>3
  <2> QED
    BY <2>1, <2>4, <2>5
<1>3. /\ untold' \in [Conns -> [Said -> SUBSET Conns]]
      /\ \A e \in Conns, k \in Said :
           untold'[e][k] = IF e = c /\ k = said THEN untold[c][said] \ {d} ELSE untold[e][k]
  <2>1. untold \in [Conns -> [Said -> SUBSET Conns]]
    BY DEF PresenceTypeOK
  <2>2. untold' = [untold EXCEPT ![c] = [untold[c] EXCEPT ![said] = untold[c][said] \ {d}]]
    BY DEF Tell
  <2>3. [untold[c] EXCEPT ![said] = untold[c][said] \ {d}] \in [Said -> SUBSET Conns]
    BY <2>1
  <2> QED
    BY <2>1, <2>2, <2>3
<1>4. /\ word' \in [Conns -> [Users -> Word]]
      /\ \A e \in Conns, u \in Users : e # d \/ u # w => word'[e][u] = word[e][u]
      /\ word'[d][w] \in {said, "missed"}
  <2>1. PICK heard \in {said, "missed"} : word' = [word EXCEPT ![d][w] = heard]
    BY DEF Tell
  <2>2. word \in [Conns -> [Users -> Word]] /\ heard \in Word
    BY DEF PresenceTypeOK, Word
  <2>3. word' = [word EXCEPT ![d] = [word[d] EXCEPT ![w] = heard]]
    BY <2>1
  <2>4. [word[d] EXCEPT ![w] = heard] \in [Users -> Word]
    BY <2>2
  <2> QED
    BY <1>1, <2>2, <2>3, <2>4
<1>5. PresenceTypeOK'
  BY <1>2, <1>3, <1>4 DEF PresenceTypeOK, TypeOK
<1>6. SessionInv' /\ SilentInv' /\ ReceivedInv'
  <2>1. SessionInv' /\ SilentInv'
    BY <1>2, <1>4 DEF SessionInv, SilentInv, Served, Connected
  <2>2. d # received
    BY <1>2, RegistryAssumption DEF SessionInv, ReceivedInv, Connected
  <2>3. received # NoConn => \A u \in Users : word'[received][u] = word[received][u]
    BY <1>4, <2>2 DEF PresenceTypeOK
  <2> QED
    BY <1>2, <2>1, <2>3 DEF ReceivedInv, Truth, IsOnline
<1>7. FanoutInv'
  <2>1. Connected' = Connected
    BY <1>2 DEF Connected
  <2> QED
    BY <1>3, <2>1 DEF FanoutInv
<1>8. WordInv'
  <2> SUFFICES ASSUME NEW u \in Users, ~crossed[u] PROVE OnTheWayOK(u)' /\ ArrivedOK(u)'
    BY <1>2 DEF WordInv
  <2>1. OnTheWayOK(u) /\ ArrivedOK(u)
    BY DEF WordInv
  <2>2. /\ \A e \in Conns : SayingOnline(e)' => SayingOnline(e)
        /\ \A e \in Conns : SayingOffline(e)' => SayingOffline(e)
    BY <1>2, <1>3 DEF SayingOnline, SayingOffline, Said
  <2>3. OnTheWayOK(u)'
    <3>1. \A e \in Conns : asked[e] = u /\ e \notin raced'[u] => e \notin raced[u]
      BY <1>2
    <3> QED
      BY <1>2, <2>1, <2>2, <3>1 DEF OnTheWayOK, Truth, IsOnline
  <2>4. u = w => said = Truth(u)
    <3>1. /\ c # NoConn
          /\ said = "online" => SayingOnline(c)
          /\ said = "offline" => SayingOffline(c)
      BY <1>2, RegistryAssumption DEF SayingOnline, SayingOffline
    <3> QED
      BY <2>1, <3>1 DEF OnTheWayOK, Truth, IsOnline, Said
  <2>5. Announcing(u)' <=> Announcing(u)
    BY <1>2 DEF Announcing
  <2>6. Connected' = Connected /\ Connected \subseteq Conns /\ Truth(u)' = Truth(u)
    BY <1>2 DEF Connected, Truth, IsOnline
  <2>7. \A e \in Conns : e # d \/ u # w => (OnItsWay(u, e) => OnItsWay(u, e)')
    BY <1>2, <1>3 DEF OnItsWay
  <2>8. u = w => word'[d][u] \in {"none", "missed", Truth(u)}
    BY <1>4, <2>4
  <2>9. \A e \in Conns : e # d \/ u # w => (e \notin raced'[u] => e \notin raced[u])
    BY <1>2
  <2>10. ArrivedOK(u)'
    BY <1>2, <1>4, <2>1, <2>5, <2>6, <2>7, <2>8, <2>9 DEF ArrivedOK
  <2> QED
    BY <2>3, <2>10
<1>9. StampInv' /\ LastSeenIsLastEnd'
  BY <1>2 DEF StampInv, LastSeenIsLastEnd
<1> QED
  BY <1>5, <1>6, <1>7, <1>8, <1>9

--------------------------------------------------------------------------------
(* The rest of handleDisconnect, queries and the clock. *)

(* Only the last disconnection writes, or the user is marked. *)
LEMMA StampStep ==
  ASSUME IInv, NEW c \in Conns, ReadClock(c) \/ UpdateLastSeen(c)
  PROVE  IInv'
<1> USE DEF IInv
<1>1. Owner[c] \in Users
  BY RegistryAssumption
<1>2. /\ UNCHANGED <<session, phase, received, online, untold, asked, answer, word, now,
                     lastEnd, crossed, raced,
                     overtook>>
      /\ offline[c] \in {"start", "stamp"}
      /\ offline'[c] \in {"stamp", "announce"}
      /\ \A d \in Conns : d # c => offline'[d] = offline[d]
  BY DEF ReadClock, UpdateLastSeen, PresenceTypeOK, hubVars, regVars, askVars, history
<1>3. PresenceTypeOK'
  <2>1. /\ offline' \in [Conns -> {"none", "start", "stamp", "announce", "broadcast"}]
        /\ stamped' \in [Conns -> BOOLEAN]
    BY DEF ReadClock, UpdateLastSeen, PresenceTypeOK
  <2>2. dropped' \in [Conns -> 0..MaxTime]
    <3>1. dropped \in [Conns -> 0..MaxTime] /\ now \in 0..MaxTime
      BY DEF PresenceTypeOK
    <3>2. dropped' = dropped \/ dropped' = [dropped EXCEPT ![c] = now]
      BY DEF ReadClock, UpdateLastSeen
    <3> QED
      BY <3>1, <3>2
  <2>3. lastSeen' \in [Users -> 0..MaxTime]
    <3>1. lastSeen \in [Users -> 0..MaxTime] /\ dropped[c] \in 0..MaxTime
      BY DEF PresenceTypeOK
    <3>2. lastSeen' = lastSeen \/ lastSeen' = [lastSeen EXCEPT ![Owner[c]] = dropped[c]]
      BY DEF ReadClock, UpdateLastSeen
    <3> QED
      BY <1>1, <3>1, <3>2
  <2> QED
    BY <1>2, <2>1, <2>2, <2>3 DEF PresenceTypeOK, TypeOK
<1>4. SessionInv' /\ SilentInv' /\ ReceivedInv' /\ FanoutInv'
  BY <1>2 DEF SessionInv, SilentInv, ReceivedInv, FanoutInv, Served, Connected, Truth, IsOnline
<1>5. WordInv'
  <2>1. \A d \in Conns : offline'[d] \in ToCome <=> offline[d] \in ToCome
    BY <1>2 DEF ToCome
  <2> SUFFICES ASSUME NEW u \in Users, ~crossed[u] PROVE OnTheWayOK(u)' /\ ArrivedOK(u)'
    BY <1>2 DEF WordInv
  <2>2. OnTheWayOK(u) /\ ArrivedOK(u)
    BY DEF WordInv
  <2>3. Truth(u)' = Truth(u) /\ Connected' = Connected
    BY <1>2 DEF Truth, IsOnline, Connected
  <2>4. Announcing(u)' <=> Announcing(u)
    BY <1>2, <2>1 DEF Announcing
  <2>5. /\ \A d \in Conns : SayingOnline(d)' => SayingOnline(d)
        /\ \A d \in Conns : SayingOffline(d)' => SayingOffline(d)
    BY <1>2, <2>1 DEF SayingOnline, SayingOffline
  <2>6. OnTheWayOK(u)'
    BY <1>2, <2>2, <2>5 DEF OnTheWayOK, Truth, IsOnline
  <2>7. ArrivedOK(u)'
    BY <1>2, <2>2, <2>3, <2>4 DEF ArrivedOK, OnItsWay
  <2> QED
    BY <2>6, <2>7
<1>6. StampInv'
  <2>1. \A d \in Conns : stamped'[d] => offline'[d] \in {"announce", "broadcast"}
    <3>1. CASE ReadClock(c)
      BY <1>2, <3>1 DEF ReadClock, StampInv
    <3>2. CASE UpdateLastSeen(c)
      <4>1. offline'[c] = "announce" /\ \A d \in Conns : d # c => stamped'[d] = stamped[d]
        BY <3>2 DEF UpdateLastSeen, PresenceTypeOK
      <4> QED
        BY <1>2, <4>1 DEF StampInv
    <3> QED
      BY <3>1, <3>2
  <2> QED
    BY <1>2, <2>1 DEF StampInv
<1>7. LastSeenIsLastEnd'
  <2> SUFFICES ASSUME NEW u \in Users, lastEnd[u] # NoConn, ~overtook[u],
                      stamped'[lastEnd[u]]
               PROVE  lastSeen'[u] = dropped'[lastEnd[u]]
    BY <1>2 DEF LastSeenIsLastEnd
  <2>1. lastEnd[u] \in Conns
    BY DEF PresenceTypeOK
  <2>2. u = Owner[c] => lastEnd[u] = c
    BY <1>2 DEF StampInv
  <2>3. CASE ReadClock(c)
    <3>1. lastEnd[u] # c
      BY <2>3 DEF ReadClock, StampInv
    <3> QED
      BY <1>2, <2>1, <2>3, <3>1 DEF ReadClock, LastSeenIsLastEnd, PresenceTypeOK
  <2>4. CASE UpdateLastSeen(c)
    <3>1. CASE lastEnd[u] = c
      <4>1. Owner[c] = u /\ ~stamped[c]
        BY <1>2, <2>4, <3>1 DEF UpdateLastSeen, StampInv
      <4>2. lastSeen' = [lastSeen EXCEPT ![u] = dropped[c]] /\ dropped' = dropped
        BY <2>4, <3>1, <4>1 DEF UpdateLastSeen
      <4> QED
        BY <3>1, <4>2 DEF PresenceTypeOK
    <3>2. CASE lastEnd[u] # c
      BY <1>2, <2>1, <2>2, <2>4, <3>2 DEF UpdateLastSeen, LastSeenIsLastEnd, PresenceTypeOK
    <3> QED
      BY <3>1, <3>2
  <2> QED
    BY <2>3, <2>4
<1> QED
  BY <1>3, <1>4, <1>5, <1>6, <1>7

(* A query is answered with the truth at its lookup. *)
LEMMA QueryStep ==
  ASSUME IInv, NEW c \in Conns, AnswerPresence(c) \/ \E u \in Queried : AskPresence(c, u)
  PROVE  IInv'
<1> USE DEF IInv
<1>1. /\ UNCHANGED <<session, phase, received, online, offline, dropped, stamped, untold,
                     lastSeen, now,
                     lastEnd, crossed, overtook>>
      /\ raced' \in [Users -> SUBSET Conns]
      /\ \A u \in Users : \/ raced'[u] = raced[u]
                          \/ asked'[c] = u /\ raced'[u] = raced[u] \ {c}
      /\ asked' \in [Conns -> Users \cup {NoUser}] /\ answer' \in [Conns -> Word]
      /\ \A d \in Conns : d # c => asked'[d] = asked[d] /\ answer'[d] = answer[d]
      /\ asked'[c] # NoUser => answer'[c] = Truth(asked'[c])
  <2>1. CASE AnswerPresence(c)
    <3>1. /\ UNCHANGED <<session, phase, received, online, offline, dropped, stamped, untold,
                         lastSeen, now,
                         lastEnd, crossed, raced, overtook>>
          /\ asked' = [asked EXCEPT ![c] = NoUser] /\ answer' = [answer EXCEPT ![c] = "none"]
      BY <2>1 DEF AnswerPresence, hubVars, regVars, goVars, history
    <3>2. /\ asked' \in [Conns -> Users \cup {NoUser}] /\ answer' \in [Conns -> Word]
          /\ \A d \in Conns : d # c => asked'[d] = asked[d] /\ answer'[d] = answer[d]
          /\ asked'[c] = NoUser /\ raced \in [Users -> SUBSET Conns]
      BY <3>1 DEF PresenceTypeOK, Word
    <3> QED
      BY <3>1, <3>2
  <2>2. CASE \E u \in Queried : AskPresence(c, u)
    <3>1. PICK u \in Queried : AskPresence(c, u)
      BY <2>2
    <3>2. /\ asked' = [asked EXCEPT ![c] = u] /\ answer' = [answer EXCEPT ![c] = Truth(u)]
          /\ u \in Users /\ Truth(u) \in Word
      BY <3>1, PresenceAssumption DEF AskPresence, Truth, Word, Said
    <3>3. UNCHANGED <<session, phase, received, online, offline, dropped, stamped, untold,
                      lastSeen, now,
                      lastEnd, crossed, overtook>>
      BY <3>1 DEF AskPresence, hubVars, regVars, goVars, history
    <3>4. asked'[c] = u /\ answer'[c] = Truth(u)
      BY <3>2 DEF PresenceTypeOK
    <3>5. asked' \in [Conns -> Users \cup {NoUser}] /\ answer' \in [Conns -> Word]
      BY <3>2 DEF PresenceTypeOK
    <3>6. \A d \in Conns : d # c => asked'[d] = asked[d] /\ answer'[d] = answer[d]
      BY <3>2 DEF PresenceTypeOK
    <3>7. /\ raced' \in [Users -> SUBSET Conns]
          /\ \A v \in Users : raced'[v] = IF v = u THEN raced[u] \ {c} ELSE raced[v]
      <4>1. raced' = [raced EXCEPT ![u] = raced[u] \ {c}]
        BY <3>1 DEF AskPresence
      <4>2. raced \in [Users -> SUBSET Conns]
        BY DEF PresenceTypeOK
      <4> QED
        BY <3>2, <4>1, <4>2
    <3> QED
      BY <3>3, <3>4, <3>5, <3>6, <3>7
  <2> QED
    BY <2>1, <2>2
<1>2. /\ word' \in [Conns -> [Users -> Word]]
      /\ \A d \in Conns, u \in Users :
           \/ word'[d][u] = word[d][u]
           \/ /\ d = c /\ u = asked[c] /\ c \in Served
              /\ word'[d][u] \in {answer[c], "missed"}
  <2>1. CASE word' = word
    BY <2>1 DEF PresenceTypeOK
  <2>2. ASSUME asked[c] # NoUser, c \in Served, NEW said \in {answer[c], "missed"},
               word' = [word EXCEPT ![c][asked[c]] = said]
        PROVE  /\ word' \in [Conns -> [Users -> Word]]
               /\ \A d \in Conns, u \in Users :
                    \/ word'[d][u] = word[d][u]
                    \/ /\ d = c /\ u = asked[c] /\ c \in Served
                       /\ word'[d][u] \in {answer[c], "missed"}
    <3>1. word[c] \in [Users -> Word] /\ asked[c] \in Users /\ said \in Word
      BY <2>2 DEF PresenceTypeOK, Word
    <3>2. [word[c] EXCEPT ![asked[c]] = said] \in [Users -> Word]
      BY <3>1
    <3>3. \A d \in Conns :
            word'[d] = IF d = c THEN [word[c] EXCEPT ![asked[c]] = said] ELSE word[d]
      BY <2>2 DEF PresenceTypeOK
    <3>4. word' \in [Conns -> [Users -> Word]]
      BY <2>2, <3>2 DEF PresenceTypeOK
    <3> QED
      BY <2>2, <3>1, <3>3, <3>4
  <2>3. word' = word \/ \E said \in {answer[c], "missed"} :
          asked[c] # NoUser /\ c \in Served /\ word' = [word EXCEPT ![c][asked[c]] = said]
    BY DEF AnswerPresence, AskPresence
  <2> QED
    BY <2>1, <2>2, <2>3
<1>3. PresenceTypeOK'
  BY <1>1, <1>2 DEF PresenceTypeOK, TypeOK
<1>4. SessionInv' /\ StampInv' /\ LastSeenIsLastEnd'
  BY <1>1 DEF SessionInv, StampInv, LastSeenIsLastEnd
<1>5. SilentInv' /\ ReceivedInv' /\ FanoutInv'
  <2>1. SilentInv' /\ FanoutInv'
    BY <1>1, <1>2 DEF SilentInv, FanoutInv, Served, Connected
  <2>2. asked'[c] # NoUser => c \in Served
    BY PresenceAssumption DEF AnswerPresence, AskPresence, PresenceTypeOK
  <2>3. c \in Served => phase[c] # "new" \/ c = received
    BY RegistryAssumption DEF Served, Connected, SessionInv
  <2>4. \A u \in Users : Truth(u)' = Truth(u)
    BY <1>1 DEF Truth, IsOnline
  <2>5. \A d \in Conns : phase'[d] = "new" /\ d # received' => asked'[d] = NoUser
    BY <1>1, <2>2, <2>3 DEF ReceivedInv
  <2>6. ASSUME received # NoConn
        PROVE  /\ phase[received] = "new"
               /\ asked'[received] \in Users => answer'[received] = Truth(asked'[received])
               /\ \A u \in Users : word'[received][u] \in {"none", "missed", Truth(u)}
    <3>1. received \in Conns
      BY <2>6 DEF PresenceTypeOK
    <3>2. /\ phase[received] = "new"
          /\ asked[received] \in Users => answer[received] = Truth(asked[received])
          /\ \A u \in Users : word[received][u] \in {"none", "missed", Truth(u)}
      BY <2>6 DEF ReceivedInv
    <3>3. asked'[received] \in Users => answer'[received] = Truth(asked'[received])
      BY <1>1, <3>1, <3>2, PresenceAssumption
    <3>4. \A u \in Users : word'[received][u] \in {"none", "missed", Truth(u)}
      BY <1>2, <3>1, <3>2
    <3> QED
      BY <3>2, <3>3, <3>4
  <2> QED
    BY <1>1, <2>1, <2>4, <2>5, <2>6 DEF ReceivedInv
<1>6. WordInv'
  <2> SUFFICES ASSUME NEW u \in Users, ~crossed[u] PROVE OnTheWayOK(u)' /\ ArrivedOK(u)'
    BY <1>1 DEF WordInv
  <2>1. OnTheWayOK(u) /\ ArrivedOK(u)
    BY DEF WordInv
  <2>2. /\ Connected' = Connected /\ Connected \subseteq Conns /\ Truth(u)' = Truth(u)
        /\ Announcing(u)' <=> Announcing(u)
        /\ \A d \in Conns : OnItsWay(u, d)' <=> OnItsWay(u, d)
    BY <1>1 DEF Connected, Truth, IsOnline, Announcing, OnItsWay
  <2>3. \A d \in Conns : asked'[d] = u /\ d \notin raced'[u] => answer'[d] = Truth(u)
    BY <1>1, <2>1, PresenceAssumption DEF OnTheWayOK
  <2>4. OnTheWayOK(u)'
    BY <1>1, <2>1, <2>2, <2>3 DEF OnTheWayOK, SayingOnline, SayingOffline
  <2>5. ASSUME NEW d \in Connected, ~OnItsWay(u, d), asked'[d] # u, d \notin raced'[u],
               ~Announcing(u)
        PROVE  word'[d][u] \in {"none", "missed", Truth(u)}
    <3>1. d \in Conns /\ d \notin raced[u]
      BY <1>1, <2>2, <2>5
    <3>2. CASE asked[d] = u
      <4>1. d = c /\ answer[c] = Truth(u)
        BY <1>1, <2>1, <2>5, <3>1, <3>2 DEF OnTheWayOK
      <4>2. AnswerPresence(c)
        BY <2>5, <3>2, <4>1, PresenceAssumption DEF AskPresence, PresenceTypeOK
      <4>3. c \in Served /\ asked[c] # NoUser /\ asked[c] = u
        BY <2>5, <3>2, <4>1, PresenceAssumption DEF Served
      <4>4. \E said \in {answer[c], "missed"} : word' = [word EXCEPT ![c][u] = said]
        BY <4>2, <4>3 DEF AnswerPresence
      <4>5. word'[c][u] \in {answer[c], "missed"}
        BY <3>1, <4>1, <4>4 DEF PresenceTypeOK
      <4> QED
        BY <4>1, <4>5
    <3>3. CASE asked[d] # u
      <4>1. word'[d][u] = word[d][u]
        BY <1>2, <3>1, <3>3
      <4> QED
        BY <2>1, <2>5, <3>1, <3>3, <4>1 DEF ArrivedOK
    <3> QED
      BY <3>2, <3>3
  <2>6. ArrivedOK(u)'
    BY <2>2, <2>5 DEF ArrivedOK
  <2> QED
    BY <2>4, <2>6
<1> QED
  BY <1>3, <1>4, <1>5, <1>6

--------------------------------------------------------------------------------
(* The inductive invariant holds throughout. *)
LEMMA Invariant == PresenceSpec => []IInv
<1>1. IInv /\ [PresenceNext]_vars => IInv'
  <2> SUFFICES ASSUME IInv, [PresenceNext]_vars PROVE IInv'
    OBVIOUS
  <2>1. CASE UNCHANGED vars \/ Tick
    <3>1. /\ UNCHANGED <<session, phase, received, online, offline, dropped, stamped, untold,
                         asked, answer,
                         word, lastSeen, lastEnd, crossed, raced, overtook>>
          /\ now' \in 0..MaxTime
      BY <2>1, PresenceAssumption
         DEF Tick, vars, hubVars, regVars, goVars, askVars, history, IInv, PresenceTypeOK
    <3>2. PresenceTypeOK'
      BY <3>1 DEF IInv, PresenceTypeOK, TypeOK
    <3>3. SessionInv' /\ SilentInv' /\ ReceivedInv' /\ FanoutInv' /\ StampInv' /\ LastSeenIsLastEnd'
      BY <3>1 DEF IInv, SessionInv, SilentInv, ReceivedInv, FanoutInv, Served, Connected, Truth,
                  IsOnline, StampInv, LastSeenIsLastEnd
    <3>4. WordInv'
      <4>1. \A u \in Users : OnTheWayOK(u)' <=> OnTheWayOK(u)
        BY <3>1 DEF OnTheWayOK, SayingOnline, SayingOffline, Truth, IsOnline
      <4>2. \A u \in Users : ArrivedOK(u)' <=> ArrivedOK(u)
        BY <3>1 DEF ArrivedOK, Announcing, OnItsWay, Truth, IsOnline, Connected
      <4> QED
        BY <3>1, <4>1, <4>2 DEF IInv, WordInv
    <3> QED
      BY <3>2, <3>3, <3>4 DEF IInv
  <2>2. ASSUME NEW c \in Conns,
               \/ Receive(c) \/ Register(c) \/ Unregister(c) \/ AnnounceOnline(c)
               \/ ReadClock(c) \/ UpdateLastSeen(c) \/ AnnounceOffline(c)
               \/ \E said \in Said, d \in Conns : Tell(c, said, d)
               \/ AnswerPresence(c)
               \/ \E u \in Queried : AskPresence(c, u)
        PROVE  IInv'
    BY <2>2, ReceiveStep, RegisterStep, UnregisterStep, AnnounceStep, TellStep, StampStep, QueryStep
  <2> QED
    BY <2>1, <2>2 DEF PresenceNext
<1> QED
  BY InitInv, <1>1, PTL DEF PresenceSpec

(* Every reachable state is well typed, and exactly the connections that *)
(* ended have a goroutine that handles their disconnection.              *)
THEOREM TypeCorrect == PresenceSpec => []PresenceTypeOK
<1>1. IInv => PresenceTypeOK
  BY DEF IInv
<1> QED
  BY <1>1, Invariant, PTL

(* Unless the transitions of u overlapped, whoever has nothing about u on    *)
(* its way heard the truth last, but for clients whose query raced with the *)
(* last transition.                                                         *)
THEOREM PeersHearTheTruth == PresenceSpec => []LastWordIsTrue
<1>1. IInv => LastWordIsTrue
  <2> SUFFICES ASSUME IInv, NEW u \in Users, ~crossed[u],
                      NEW c \in Connected \ raced[u], Settled(u, c)
               PROVE  word[c][u] \in {"none", "missed", Truth(u)}
    BY DEF LastWordIsTrue
  <2>1. ~Announcing(u) /\ ~OnItsWay(u, c) /\ asked[c] # u
    BY DEF Settled
  <2> QED
    BY <2>1 DEF IInv, WordInv, ArrivedOK
<1> QED
  BY <1>1, Invariant, PTL

(* Without overlapping disconnections of u the last one's time stays. *)
THEOREM LastSeenIsKept == PresenceSpec => []LastSeenIsLastEnd
<1>1. IInv => LastSeenIsLastEnd
  BY DEF IInv
<1> QED
  BY <1>1, Invariant, PTL

--------------------------------------------------------------------------------
(* Presence and the hub.  A goroutine that is not broadcasting has nobody *)
(* left to tell.                                                          *)
IdleInv ==
  \A c \in Conns :
    /\ online[c] # "broadcast" => untold[c]["online"] = {}
    /\ offline[c] # "broadcast" => untold[c]["offline"] = {}

(* Transitions wait for the broadcasts, and a goroutine broadcasts once. *)
LEMMA IdleStep ==
  ASSUME IInv, IdleInv, [PresenceNext]_vars
  PROVE  IdleInv'
<1> USE DEF IInv, PresenceTypeOK, IdleInv, Said
<1>1. CASE UNCHANGED goVars
  BY <1>1 DEF goVars
<1>2. ASSUME NEW c \in Conns, Register(c) \/ Unregister(c)
      PROVE  IdleInv'
  BY <1>2 DEF Register, Unregister, Unlocked
<1>3. ASSUME NEW c \in Conns, AnnounceOnline(c)
      PROVE  IdleInv'
  <2>1. /\ online' = [online EXCEPT ![c] = "broadcast"]
        /\ untold' = [untold EXCEPT ![c]["online"] = Connected]
        /\ offline' = offline
    BY <1>3 DEF AnnounceOnline, Broadcast
  <2>2. \A d \in Conns : untold'[d]["offline"] = untold[d]["offline"]
    BY <2>1
  <2>3. \A d \in Conns : d # c =>
          online'[d] = online[d] /\ untold'[d]["online"] = untold[d]["online"]
    BY <2>1
  <2>4. online'[c] = "broadcast"
    BY <2>1
  <2> QED
    BY <2>1, <2>2, <2>3, <2>4
<1>6. ASSUME NEW c \in Conns, AnnounceOffline(c)
      PROVE  IdleInv'
  <2>1. /\ offline' = [offline EXCEPT ![c] = "broadcast"]
        /\ untold' = [untold EXCEPT ![c]["offline"] = Connected]
        /\ online' = online
    BY <1>6 DEF AnnounceOffline, Broadcast
  <2>2. \A d \in Conns : untold'[d]["online"] = untold[d]["online"]
    BY <2>1
  <2>3. \A d \in Conns : d # c =>
          offline'[d] = offline[d] /\ untold'[d]["offline"] = untold[d]["offline"]
    BY <2>1
  <2>4. offline'[c] = "broadcast"
    BY <2>1
  <2> QED
    BY <2>1, <2>2, <2>3, <2>4
<1>4. ASSUME NEW c \in Conns, ReadClock(c) \/ UpdateLastSeen(c)
      PROVE  IdleInv'
  BY <1>4 DEF ReadClock, UpdateLastSeen
<1>5. ASSUME NEW c \in Conns, NEW said \in Said, NEW d \in Conns, Tell(c, said, d)
      PROVE  IdleInv'
  BY <1>5 DEF Tell
<1> QED
  BY <1>1, <1>2, <1>3, <1>4, <1>5, <1>6
     DEF PresenceNext, vars, Tick, Receive, AnswerPresence, AskPresence

(* A broadcast is a walk over all registered clients, and each word told one *)
(* iteration of it.                                                          *)
LEMMA WalkStep ==
  ASSUME IInv, NEW c \in Conns, NEW said \in Said, NEW left,
         untold' = [untold EXCEPT ![c][said] = left], UNCHANGED hubVars,
         \/ untold[c][said] = {} /\ left = Connected
         \/ \E d \in untold[c][said] : left = untold[c][said] \ {d}
  PROVE  Service!ServiceNext
<1> DEFINE w == <<c, said>>
           walks == [v \in Conns \X Said |-> untold[v[1]][v[2]]]
<1>1. w \in Conns \X Said /\ walks[w] = untold[c][said]
  OBVIOUS
<1>2. walks' = [walks EXCEPT ![w] = left]
  <2>1. untold \in [Conns -> [Said -> SUBSET Conns]]
    BY DEF IInv, PresenceTypeOK
  <2>2. \A d \in Conns, s \in Said :
          untold'[d][s] = IF d = c /\ s = said THEN left ELSE untold[d][s]
    BY <2>1
  <2>3. ASSUME NEW v \in Conns \X Said
        PROVE  walks'[v] = [walks EXCEPT ![w] = left][v]
    <3>1. PICK d \in Conns, s \in Said : v = <<d, s>>
      OBVIOUS
    <3>2. walks'[v] = untold'[d][s] /\ walks[v] = untold[d][s]
      BY <3>1
    <3>3. v = w <=> d = c /\ s = said
      BY <3>1
    <3> QED
      BY <2>2, <3>2, <3>3
  <2> QED
    BY <2>3
<1>3. UNCHANGED <<regVars, received>>
  BY DEF hubVars
<1>4. CASE untold[c][said] = {} /\ left = Connected
  <2>1. walks[w] = {} /\ walks' = [walks EXCEPT ![w] = Connected]
    BY <1>1, <1>2, <1>4
  <2>2. Service!Connected = Connected
    BY DEF Service!Connected, Connected
  <2>3. Service!Walk(w)
    <3>1. \E served \in SUBSET Connected :
            /\ w \in Conns \X Said => served = Connected
            /\ walks' = [walks EXCEPT ![w] = served]
      <4> HIDE DEF w, walks
      <4> QED
        BY <2>1
    <3> QED
      BY <2>1, <2>2, <3>1, <1>3 DEF Service!Walk, Service!regVars, regVars
  <2> QED
    BY <2>3, <1>1 DEF Service!ServiceNext
<1>5. CASE \E d \in untold[c][said] : left = untold[c][said] \ {d}
  <2>1. PICK d \in walks[w] : walks' = [walks EXCEPT ![w] = walks[w] \ {d}]
    <3>1. PICK d \in untold[c][said] : left = untold[c][said] \ {d}
      BY <1>5
    <3>2. d \in walks[w] /\ walks' = [walks EXCEPT ![w] = walks[w] \ {d}]
      <4> HIDE DEF w, walks
      <4> QED
        BY <1>1, <1>2, <3>1
    <3> HIDE DEF w, walks
    <3> QED
      BY <3>2
  <2>2. Service!Serve(w)
    BY <2>1, <1>3 DEF Service!Serve, Service!regVars, regVars
  <2> QED
    BY <2>2, <1>1 DEF Service!ServiceNext
<1> QED
  BY <1>4, <1>5

(* What Presence assumes of the hub is the service, which Hub implements. *)
THEOREM PresenceUsesService == PresenceSpec => UsesService
<1>1. PresenceInit => Service!ServiceInit
  BY DEF PresenceInit, Init, Service!ServiceInit, Service!Init
<1>2. PresenceInit => IdleInv
  BY DEF PresenceInit, IdleInv, Said
<1>3. IInv /\ IdleInv /\ [PresenceNext]_vars => [Service!ServiceNext]_(Service!serviceVars)
  <2> SUFFICES ASSUME IInv, IdleInv, [PresenceNext]_vars
               PROVE  Service!ServiceNext \/ UNCHANGED Service!serviceVars
    OBVIOUS
  <2> DEFINE walks == [v \in Conns \X Said |-> untold[v[1]][v[2]]]
  <2>1. CASE UNCHANGED <<hubVars, untold>>
    BY <2>1 DEF hubVars, Service!serviceVars, Service!regVars, regVars
  <2>2. ASSUME NEW c \in Conns, Receive(c)
        PROVE  Service!ServiceNext
    BY <2>2 DEF Receive, goVars, regVars, Service!ServiceNext, Service!Receive, Service!regVars
  <2>3. ASSUME NEW c \in Conns, Register(c)
        PROVE  Service!ServiceNext
    <3>1. /\ received = c /\ Unlocked /\ Open(c) /\ received' = NoConn
          /\ UNCHANGED untold
      BY <2>3 DEF Register
    <3> QED
      BY <3>1 DEF Unlocked, Open, Service!ServiceNext, Service!Register, Service!Unlocked, Service!Open
  <2>4. ASSUME NEW c \in Conns, Unregister(c)
        PROVE  Service!ServiceNext
    <3>1. /\ received = NoConn /\ Unlocked /\ End(c)
          /\ UNCHANGED <<received, untold>>
      BY <2>4 DEF Unregister
    <3> QED
      BY <3>1 DEF Unlocked, End, Service!ServiceNext, Service!Unregister, Service!Unlocked, Service!End
  <2>5. ASSUME NEW c \in Conns, AnnounceOnline(c) \/ AnnounceOffline(c)
        PROVE  Service!ServiceNext
    <3>1. PICK said \in Said :
            /\ untold[c][said] = {}
            /\ untold' = [untold EXCEPT ![c][said] = Connected]
            /\ UNCHANGED hubVars
      BY <2>5 DEF AnnounceOnline, AnnounceOffline, Broadcast, IdleInv, Said
    <3> QED
      BY <3>1, WalkStep
  <2>6. ASSUME NEW c \in Conns, NEW said \in Said, NEW d \in Conns, Tell(c, said, d)
        PROVE  Service!ServiceNext
    <3>1. /\ untold' = [untold EXCEPT ![c][said] = untold[c][said] \ {d}]
          /\ UNCHANGED hubVars /\ d \in untold[c][said]
      BY <2>6 DEF Tell, IInv, PresenceTypeOK
    <3> QED
      BY <3>1, WalkStep
  <2> QED
    BY <2>1, <2>2, <2>3, <2>4, <2>5, <2>6
       DEF PresenceNext, vars, goVars, Tick, ReadClock, UpdateLastSeen, AnswerPresence, AskPresence
<1> QED
  BY <1>1, <1>2, <1>3, IdleStep, Invariant, PTL DEF PresenceSpec, UsesService, Service!ServiceSpec

================================================================================
