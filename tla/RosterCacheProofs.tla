--------------------------- MODULE RosterCacheProofs ---------------------------
(***************************************************************************)
(* Proofs about the roster cache, for every number of users, frames and    *)
(* requests, every TTL and every lookup timeout: how old a wrong roster    *)
(* can be, and how it came to be wrong.  The bound is that of the list's   *)
(* way: read from Postgres at most Timeout before it is stored, and served *)
(* for less than TTL.                                                      *)
(***************************************************************************)
EXTENDS RosterCache, TLAPS

Querying(f) == pc[f] \in {"checkQuery", "checkStore", "deliverQuery", "deliverStore"}
Storing(f) == pc[f] \in {"checkStore", "deliverStore"}

(* The clock: changes are in the past, lookups are within their timeout. *)
ClockInv ==
  /\ \A u \in Users : since[u] <= now
  /\ \A f \in Frames : Querying(f) => asked[f] <= now /\ now <= asked[f] + Timeout

(* A list read by a lookup is wrong only through later changes. *)
ListInv ==
  \A f \in Frames : Storing(f) => \A u \in Wrong(list[f]) : asked[f] <= since[u]

(* An entry is wrong only through changes after its lookup began. *)
CacheInv ==
  cache.kept =>
    /\ cache.expiresAt <= now + TTL
    /\ \A u \in Wrong(cache.members) : cache.expiresAt <= since[u] + Timeout + TTL

(* A frame that passed the check came from a recent member. *)
GateInv ==
  \A f \in Frames :
    /\ pc[f] # "idle" => sender[f] \in Users
    /\ pc[f] = "deliver" /\ sender[f] \notin roster =>
         Recent(sender[f], Timeout + TTL)
    /\ pc[f] \in {"deliverQuery", "deliverStore"} /\ sender[f] \notin roster =>
         asked[f] < since[sender[f]] + (Timeout + TTL)

IInv == TypeOK /\ ClockInv /\ ListInv /\ CacheInv /\ GateInv /\ FanoutIsRecent /\ PosterWasMember

LEMMA CacheInit == Init => IInv
<1> SUFFICES ASSUME Init PROVE IInv
  OBVIOUS
<1> USE RosterCacheAssumption
<1>1. TypeOK
  BY DEF Init, TypeOK, Entry, NoEntry, PC
<1>2. ClockInv /\ ListInv /\ GateInv /\ FanoutIsRecent /\ PosterWasMember
  BY DEF Init, ClockInv, ListInv, GateInv, FanoutIsRecent, PosterWasMember, Querying, Storing
<1>3. CacheInv
  BY DEF Init, NoEntry, CacheInv
<1> QED BY <1>1, <1>2, <1>3 DEF IInv

--------------------------------------------------------------------------------
(* A membership change can only make lists wrong about the user it is of, *)
(* whose change is then as recent as can be.                              *)
LEMMA ChangeStep ==
  ASSUME IInv, NEW u \in Users, ChangeRoster(u), cache' = cache,
         UNCHANGED <<handlerVars, now>>, TypeOK'
  PROVE  IInv'
<1> USE RosterCacheAssumption
<1>1. since' \in [Users -> Nat] /\ since'[u] = now
      /\ \A v \in Users : v # u => since'[v] = since[v] /\ (v \in roster' <=> v \in roster)
  BY DEF ChangeRoster, IInv, TypeOK
<1>2. \A v \in Users : since[v] <= since'[v] /\ since'[v] <= now
  BY <1>1 DEF IInv, ClockInv, TypeOK
<1>3. \A members : \A v \in Users : v # u /\ v \in Wrong(members)' => v \in Wrong(members)
  BY <1>1 DEF Wrong
<1>4. ClockInv'
  BY <1>2 DEF IInv, ClockInv, Querying, handlerVars
<1>5. ListInv'
  <2> SUFFICES ASSUME NEW f \in Frames, Storing(f), NEW v \in Wrong(list[f])'
               PROVE  asked[f] <= since'[v]
    BY DEF ListInv, Storing, handlerVars, Wrong
  <2>1. v \in Users
    BY DEF Wrong
  <2>2. CASE v = u
    BY <1>1, <2>2 DEF IInv, ClockInv, Querying, Storing, TypeOK
  <2>3. CASE v # u
    <3>1. v \in Wrong(list[f])
      BY <1>3, <2>1, <2>3 DEF Wrong, handlerVars
    <3>2. asked[f] <= since[v]
      BY <3>1 DEF IInv, ListInv
    <3> QED BY <1>1, <2>1, <2>3, <3>2
  <2> QED BY <2>2, <2>3
<1>6. CacheInv'
  <2> SUFFICES ASSUME cache.kept, NEW v \in Wrong(cache.members)'
               PROVE  cache.expiresAt <= since'[v] + Timeout + TTL
    BY DEF CacheInv, IInv, Wrong
  <2>1. v \in Users /\ cache.expiresAt \in Nat /\ cache.expiresAt <= now + TTL /\ now \in Nat
    BY DEF Wrong, IInv, TypeOK, Entry, CacheInv
  <2>2. CASE v = u
    BY <1>1, <2>1, <2>2
  <2>3. CASE v # u
    <3>1. v \in Wrong(cache.members)
      BY <1>3, <2>1, <2>3 DEF Wrong
    <3>2. cache.expiresAt <= since[v] + Timeout + TTL
      BY <3>1 DEF IInv, CacheInv
    <3> QED BY <1>1, <2>1, <2>3, <3>2
  <2> QED BY <2>2, <2>3
<1>7. GateInv'
  <2> SUFFICES ASSUME NEW f \in Frames, pc[f] # "idle"
               PROVE  /\ sender[f] \in Users
                      /\ pc[f] = "deliver" /\ sender[f] \notin roster' =>
                           now < since'[sender[f]] + (Timeout + TTL)
                      /\ pc[f] \in {"deliverQuery", "deliverStore"} /\ sender[f] \notin roster' =>
                           asked[f] < since'[sender[f]] + (Timeout + TTL)
    BY DEF GateInv, Recent, handlerVars
  <2>1. sender[f] \in Users
    BY DEF IInv, GateInv
  <2>2. CASE sender[f] = u
    <3>1. pc[f] \in {"deliverQuery", "deliverStore"} => asked[f] <= now
      BY DEF IInv, ClockInv, Querying
    <3>2. now \in Nat /\ asked[f] \in Nat
      BY DEF IInv, TypeOK
    <3> QED BY <1>1, <2>1, <2>2, <3>1, <3>2
  <2>3. CASE sender[f] # u
    BY <1>1, <2>1, <2>3 DEF IInv, GateInv, Recent
  <2> QED BY <2>2, <2>3
<1>8. FanoutIsRecent'
  <2> SUFFICES ASSUME NEW f \in Frames, pc[f] = "fanout", NEW v \in Wrong(list[f])'
               PROVE  now < since'[v] + (Timeout + TTL)
    BY DEF FanoutIsRecent, Recent, handlerVars, Wrong
  <2>1. v \in Users /\ now \in Nat
    BY DEF Wrong, IInv, TypeOK
  <2>2. CASE v = u
    BY <1>1, <2>1, <2>2
  <2>3. CASE v # u
    <3>1. v \in Wrong(list[f])
      BY <1>3, <2>1, <2>3 DEF Wrong, handlerVars
    <3> QED BY <1>1, <2>1, <2>3, <3>1 DEF IInv, FanoutIsRecent, Recent
  <2> QED BY <2>2, <2>3
<1>9. PosterWasMember'
  <2> SUFFICES ASSUME NEW f \in Frames, pc[f] = "fanout", sender[f] \notin roster'
               PROVE  now < since'[sender[f]] + (2 * Timeout + TTL)
    BY DEF PosterWasMember, Recent, handlerVars
  <2>1. sender[f] \in Users /\ now \in Nat
    BY DEF IInv, GateInv, TypeOK
  <2>2. CASE sender[f] = u
    BY <1>1, <2>1, <2>2
  <2>3. CASE sender[f] # u
    BY <1>1, <2>1, <2>3 DEF IInv, PosterWasMember, Recent
  <2> QED BY <2>2, <2>3
<1> QED BY <1>4, <1>5, <1>6, <1>7, <1>8, <1>9 DEF IInv

--------------------------------------------------------------------------------
(* What the step of one handler owes: its own frame's part of the          *)
(* invariant.  Nothing a handler does makes another frame's list wrong.    *)
FrameInv(f) ==
  /\ Querying(f) => asked[f] <= now /\ now <= asked[f] + Timeout
  /\ Storing(f) => \A u \in Wrong(list[f]) : asked[f] <= since[u]
  /\ pc[f] # "idle" => sender[f] \in Users
  /\ pc[f] = "deliver" /\ sender[f] \notin roster => Recent(sender[f], Timeout + TTL)
  /\ pc[f] \in {"deliverQuery", "deliverStore"} /\ sender[f] \notin roster =>
       asked[f] < since[sender[f]] + (Timeout + TTL)
  /\ pc[f] = "fanout" => \A u \in Wrong(list[f]) : Recent(u, Timeout + TTL)
  /\ pc[f] = "fanout" /\ sender[f] \notin roster => Recent(sender[f], 2 * Timeout + TTL)

FrameIInv ==
  /\ TypeOK /\ CacheInv
  /\ \A u \in Users : since[u] <= now
  /\ \A f \in Frames : FrameInv(f)

LEMMA FrameInvs == IInv <=> FrameIInv
BY DEF IInv, FrameIInv, FrameInv, ClockInv, ListInv, GateInv, FanoutIsRecent, PosterWasMember

LEMMA HandlerStep ==
  ASSUME IInv, NEW f \in Frames, UNCHANGED <<storeVars, now>>,
         TypeOK', CacheInv', FrameInv(f)',
         \A g \in Frames \ {f} :
           /\ pc'[g] = pc[g] /\ sender'[g] = sender[g] /\ asked'[g] = asked[g]
           /\ list'[g] = list[g]
  PROVE  IInv'
<1>1. \A g \in Frames \ {f} : FrameInv(g)'
  <2> SUFFICES ASSUME NEW g \in Frames \ {f} PROVE FrameInv(g)'
    OBVIOUS
  <2>1. FrameInv(g)
    BY FrameInvs DEF FrameIInv
  <2> QED BY <2>1 DEF FrameInv, Querying, Storing, Wrong, Recent, storeVars
<1>2. \A u \in Users : since'[u] <= now'
  BY FrameInvs DEF FrameIInv, storeVars
<1>3. FrameIInv'
  BY <1>1, <1>2 DEF FrameIInv
<1>4. FrameIInv' => IInv'
  BY FrameInvs, PTL
<1> QED BY <1>3, <1>4

(* What Use makes of a list that is as recent as an entry may be. *)
LEMMA UseStep ==
  ASSUME IInv, NEW f \in Frames, NEW members \in SUBSET Users,
         pc[f] \in {"check", "checkStore", "deliver", "deliverStore"},
         \A u \in Wrong(members) : Recent(u, Timeout + TTL),
         Use(f, members), UNCHANGED <<storeVars, now>>, cache' \in Entry, CacheInv'
  PROVE  IInv'
<1> USE RosterCacheAssumption
<1>0. TypeOK /\ FrameInv(f) /\ \A u \in Users : since[u] \in Nat /\ since[u] <= now
  BY FrameInvs DEF FrameIInv, TypeOK
<1>1. TypeOK'
  <2>1. /\ pc' \in [Frames -> PC] /\ sender' \in [Frames -> Users \cup {NoUser}]
        /\ asked' \in [Frames -> Nat] /\ list' \in [Frames -> SUBSET Users]
        /\ late' \in [Frames -> BOOLEAN]
    <3>1. CASE Finish(f)
      BY <1>0, <3>1 DEF TypeOK, Finish, Goto, PC
    <3>2. CASE /\ \E l \in {"deliver", "fanout"} : pc' = [pc EXCEPT ![f] = l]
               /\ \E us \in SUBSET Users : list' = [list EXCEPT ![f] = us]
               /\ asked' = [asked EXCEPT ![f] = 0] /\ late' = [late EXCEPT ![f] = FALSE]
               /\ sender' = sender
      <4>1. PICK l \in {"deliver", "fanout"} : pc' = [pc EXCEPT ![f] = l]
        BY <3>2
      <4>2. PICK us \in SUBSET Users : list' = [list EXCEPT ![f] = us]
        BY <3>2
      <4>3. late' \in [Frames -> BOOLEAN]
        BY <1>0, <3>2, Zenon DEF TypeOK
      <4> QED BY <1>0, <3>2, <4>1, <4>2, <4>3 DEF TypeOK, PC
    <3>3. CASE pc[f] \in {"check", "checkStore"} /\ sender[f] \in members
      BY <3>2, <3>3 DEF Use, Goto
    <3>4. CASE pc[f] \notin {"check", "checkStore"}
      BY <3>2, <3>4 DEF Use, Goto
    <3> QED BY <3>1, <3>3, <3>4 DEF Use
  <2> QED BY <1>0, <2>1 DEF TypeOK, storeVars
<1>2. sender[f] \in Users /\ now \in Nat
  BY <1>0 DEF FrameInv, TypeOK
<1>3. ASSUME pc[f] \in {"check", "checkStore"}, sender[f] \in members
      PROVE  FrameInv(f)'
  <2>1. pc'[f] = "deliver" /\ sender'[f] = sender[f]
    BY <1>3, <1>0 DEF Use, Goto, TypeOK
  <2>2. sender[f] \notin roster => Recent(sender[f], Timeout + TTL)
    BY <1>2, <1>3 DEF Wrong
  <2> QED BY <2>1, <2>2, <1>2 DEF FrameInv, Querying, Storing, Recent, storeVars
<1>4. ASSUME pc[f] \in {"check", "checkStore"}, sender[f] \notin members
      PROVE  FrameInv(f)'
  <2>1. pc'[f] = "idle"
    BY <1>4, <1>0 DEF Use, Finish, Goto, TypeOK
  <2> QED BY <2>1 DEF FrameInv, Querying, Storing
<1>5. ASSUME pc[f] \in {"deliver", "deliverStore"}
      PROVE  FrameInv(f)'
  <2>1. pc'[f] = "fanout" /\ sender'[f] = sender[f] /\ list'[f] = members
    BY <1>5, <1>0 DEF Use, Goto, TypeOK
  <2>2. sender[f] \notin roster => Recent(sender[f], 2 * Timeout + TTL)
    BY <1>5, <1>0, <1>2 DEF FrameInv, Recent, Querying, TypeOK
  <2> QED BY <2>1, <2>2, <1>2 DEF FrameInv, Querying, Storing, Recent, Wrong, storeVars
<1>6. FrameInv(f)'
  BY <1>3, <1>4, <1>5
<1>7. \A g \in Frames \ {f} :
        /\ pc'[g] = pc[g] /\ sender'[g] = sender[g] /\ asked'[g] = asked[g]
        /\ list'[g] = list[g]
  BY <1>0 DEF Use, Finish, Goto, TypeOK
<1> QED BY <1>1, <1>6, <1>7, HandlerStep DEF IInv

--------------------------------------------------------------------------------
(* The other steps of a handler move only f, to a state owing little. *)
LEMMA MoveStep ==
  ASSUME IInv, NEW f \in Frames, UNCHANGED <<storeVars, now, cache>>,
         TypeOK', FrameInv(f)',
         \A g \in Frames \ {f} :
           /\ pc'[g] = pc[g] /\ sender'[g] = sender[g] /\ asked'[g] = asked[g]
           /\ list'[g] = list[g]
  PROVE  IInv'
<1>1. CacheInv'
  BY DEF IInv, CacheInv, Wrong, storeVars
<1> QED BY <1>1, HandlerStep

LEMMA FinishStep ==
  ASSUME IInv, NEW f \in Frames, UNCHANGED <<storeVars, now, cache>>, Finish(f)
  PROVE  IInv'
<1>1. TypeOK
  BY DEF IInv
<1>2. TypeOK'
  BY <1>1 DEF TypeOK, Finish, Goto, PC, storeVars
<1>3. pc'[f] = "idle"
  BY <1>1 DEF TypeOK, Finish, Goto
<1>4. FrameInv(f)'
  BY <1>3 DEF FrameInv, Querying, Storing
<1> QED BY <1>1, <1>2, <1>4, MoveStep DEF TypeOK, Finish, Goto

LEMMA CacheStep == IInv /\ [Next]_vars => IInv'
<1> SUFFICES ASSUME IInv, [Next]_vars PROVE IInv'
  OBVIOUS
<1> USE RosterCacheAssumption
<1>1. TypeOK /\ \A f \in Frames : FrameInv(f)
  BY FrameInvs DEF FrameIInv
<1>2. ASSUME NEW u \in Users, CommitUnanswered(u) PROVE IInv'
  <2>1. TypeOK'
    BY <1>1, <1>2 DEF CommitUnanswered, ChangeRoster, TypeOK, handlerVars
  <2> QED BY <1>2, <2>1, ChangeStep DEF CommitUnanswered
<1>3. ASSUME NEW q \in Changes, NEW u \in Users, Commit(q, u) PROVE IInv'
  <2>1. TypeOK'
    BY <1>1, <1>3 DEF Commit, ChangeRoster, TypeOK, handlerVars
  <2> QED BY <1>3, <2>1, ChangeStep DEF Commit
<1>4. ASSUME NEW q \in Changes, InvalidateGroup(q) PROVE IInv'
  <2>1. TypeOK'
    BY <1>1, <1>4 DEF InvalidateGroup, TypeOK, NoEntry, Entry
  <2>2. CacheInv'
    BY <1>4 DEF InvalidateGroup, CacheInv, NoEntry
  <2> QED BY <1>4, <2>1, <2>2
          DEF InvalidateGroup, IInv, ClockInv, ListInv, GateInv, FanoutIsRecent,
              PosterWasMember, Querying, Storing, Wrong, Recent
<1>5. ASSUME NEW f \in Frames, Hit(f) PROVE IInv'
  <2>1. \A u \in Wrong(cache.members) : Recent(u, Timeout + TTL)
    <3>1. \A u \in Wrong(cache.members) : u \in Users /\ since[u] \in Nat
                                          /\ cache.expiresAt <= since[u] + Timeout + TTL
      BY <1>1, <1>5 DEF Hit, Fresh, IInv, CacheInv, Wrong, TypeOK
    <3>2. now < cache.expiresAt /\ now \in Nat /\ cache.expiresAt \in Nat
      BY <1>1, <1>5 DEF Hit, Fresh, TypeOK, Entry
    <3> QED BY <3>1, <3>2 DEF Recent
  <2>2. cache.members \in SUBSET Users /\ cache' \in Entry
    BY <1>1, <1>5 DEF Hit, TypeOK, Entry
  <2>3. CacheInv'
    BY <1>5 DEF Hit, IInv, CacheInv, Wrong, storeVars
  <2> QED BY <1>5, <2>1, <2>2, <2>3, UseStep DEF Hit
<1>6. ASSUME NEW f \in Frames, Miss(f) PROVE IInv'
  <2>1. TypeOK'
    BY <1>1, <1>6 DEF Miss, Goto, TypeOK, PC, storeVars
  <2>2. /\ pc'[f] = IF pc[f] = "check" THEN "checkQuery" ELSE "deliverQuery"
        /\ asked'[f] = now /\ sender'[f] = sender[f]
    BY <1>1, <1>6 DEF Miss, Goto, TypeOK
  <2>3. FrameInv(f) /\ now \in Nat
    BY <1>1 DEF TypeOK
  <2>4. FrameInv(f)'
    BY <1>6, <2>2, <2>3 DEF Miss, FrameInv, Querying, Storing, Recent, storeVars
  <2> QED BY <1>1, <1>6, <2>1, <2>4, MoveStep DEF Miss, Goto, TypeOK
<1>7. ASSUME NEW f \in Frames, Query(f) PROVE IInv'
  <2>1. TypeOK'
    BY <1>1, <1>7 DEF Query, Goto, TypeOK, PC, storeVars
  <2>2. /\ pc'[f] = IF pc[f] = "checkQuery" THEN "checkStore" ELSE "deliverStore"
        /\ asked'[f] = asked[f] /\ sender'[f] = sender[f] /\ list'[f] = roster
    BY <1>1, <1>7 DEF Query, Goto, TypeOK
  <2>3. FrameInv(f)
    BY <1>1
  <2>4. Wrong(list[f])' = {}
    BY <1>7, <2>2 DEF Query, Wrong, storeVars
  <2>5. FrameInv(f)'
    BY <1>7, <2>2, <2>3, <2>4 DEF Query, FrameInv, Querying, Storing, Recent, Wrong, storeVars
  <2> QED BY <1>1, <1>7, <2>1, <2>5, MoveStep DEF Query, Goto, TypeOK
<1>8. ASSUME NEW f \in Frames, QueryFail(f) \/ FanOut(f) PROVE IInv'
  BY <1>8, FinishStep DEF QueryFail, FanOut
<1>9. ASSUME NEW f \in Frames, Store(f) PROVE IInv'
  <2>1. /\ FrameInv(f) /\ now \in Nat /\ asked[f] \in Nat /\ list[f] \in SUBSET Users
        /\ late[f] \in BOOLEAN /\ \A u \in Users : since[u] \in Nat
    BY <1>1 DEF TypeOK
  <2>2. now <= asked[f] + Timeout /\ \A u \in Wrong(list[f]) : asked[f] <= since[u]
    BY <1>9, <2>1 DEF Store, FrameInv, Querying, Storing
  <2>3. \A u \in Wrong(list[f]) : Recent(u, Timeout + TTL)
    BY <2>1, <2>2 DEF Recent, Wrong
  <2>4. cache' \in Entry
    BY <1>9, <2>1 DEF Store, Entry
  <2>5. CacheInv'
    <3>1. cache'.expiresAt = now + TTL /\ cache'.members = list[f]
          /\ roster' = roster /\ since' = since /\ now' = now
      BY <1>9 DEF Store, storeVars
    <3>2. \A u \in Wrong(list[f]) : now + TTL <= since[u] + Timeout + TTL
      BY <2>1, <2>2 DEF Wrong
    <3> QED BY <3>1, <3>2, <2>1 DEF CacheInv, Wrong
  <2> QED BY <1>9, <2>1, <2>3, <2>4, <2>5, UseStep DEF Store
<1>10. ASSUME NEW f \in Frames, NEW u \in Users, Receive(f, u) PROVE IInv'
  <2>1. TypeOK'
    BY <1>1, <1>10 DEF Receive, Goto, TypeOK, PC, storeVars
  <2>2. pc'[f] = "check" /\ sender'[f] = u
    BY <1>1, <1>10 DEF Receive, Goto, TypeOK
  <2>3. FrameInv(f)'
    BY <2>2 DEF FrameInv, Querying, Storing
  <2> QED BY <1>1, <1>10, <2>1, <2>3, MoveStep DEF Receive, Goto, TypeOK
<1>11. CASE Tick
  <2>1. TypeOK'
    BY <1>1, <1>11 DEF Tick, TypeOK, storeVars, handlerVars
  <2>2. CacheInv'
    BY <1>1, <1>11 DEF Tick, IInv, CacheInv, Wrong, TypeOK, Entry, storeVars
  <2>3. \A f \in Frames : /\ pc[f] \notin {"check", "deliver", "fanout"}
                          /\ Querying(f) => now < asked[f] + Timeout
    BY <1>11 DEF Tick, InTime, Querying
  <2>4. \A f \in Frames : FrameInv(f)'
    <3> SUFFICES ASSUME NEW f \in Frames PROVE FrameInv(f)'
      OBVIOUS
    <3>1. FrameInv(f) /\ now \in Nat /\ asked[f] \in Nat
      BY <1>1 DEF TypeOK
    <3> QED BY <1>11, <2>3, <3>1 DEF Tick, FrameInv, Querying, Storing, Wrong, storeVars, handlerVars
  <2>5. \A u \in Users : since'[u] <= now'
    BY <1>1, <1>11 DEF Tick, IInv, ClockInv, TypeOK, storeVars
  <2>6. FrameIInv'
    BY <2>1, <2>2, <2>4, <2>5 DEF FrameIInv
  <2>7. FrameIInv' => IInv'
    BY FrameInvs, PTL
  <2> QED BY <2>6, <2>7
<1>12. CASE UNCHANGED vars
  BY <1>12 DEF vars, handlerVars, IInv, TypeOK, ClockInv, ListInv, CacheInv, GateInv,
     FanoutIsRecent, PosterWasMember, Querying, Storing, Wrong, Recent
<1> QED BY <1>2, <1>3, <1>4, <1>5, <1>6, <1>7, <1>8, <1>9, <1>10, <1>11, <1>12 DEF Next

LEMMA CacheCorrect == Spec => []IInv
BY CacheInit, CacheStep, PTL DEF Spec

(* Type correctness. *)
THEOREM TypeCorrect == Spec => []TypeOK
BY CacheCorrect, PTL DEF IInv

(***************************************************************************)
(* Whatever lookups, membership changes and invalidations interleave, a    *)
(* fan-out is wrong about a user only if that user's membership changed    *)
(* less than one TTL and one lookup ago.                                   *)
(***************************************************************************)
THEOREM FanoutStalenessIsBounded == Spec => []FanoutIsRecent
BY CacheCorrect, PTL DEF IInv

(***************************************************************************)
(* Who posts to a group is a member of it, or was one less than one TTL    *)
(* and two lookups ago.                                                    *)
(***************************************************************************)
THEOREM PostingRightIsBounded == Spec => []PosterWasMember
BY CacheCorrect, PTL DEF IInv

--------------------------------------------------------------------------------
(* Once every change was followed by an invalidation, entries and lists read *)
(* since the last one are those of Postgres.                                 *)
RaceInv ==
  /\ WrongOnlyByRace
  /\ \A f \in Frames : Storing(f) /\ ~late[f] /\ Quiet => Wrong(list[f]) = {}

(* The step of one handler leaves the membership and other handlers alone; *)
(* an entry it stores is the list it holds.                                *)
LEMMA RaceHandlerStep ==
  ASSUME RaceInv, NEW f \in Frames, UNCHANGED <<storeVars, now>>,
         \A g \in Frames \ {f} : pc'[g] = pc[g] /\ list'[g] = list[g] /\ late'[g] = late[g],
         \/ pc'[f] \notin {"checkStore", "deliverStore"}
         \/ list'[f] = roster,
         \/ cache' = cache
         \/ Storing(f) /\ cache'.members = list[f] /\ cache'.late = late[f]
  PROVE  RaceInv'
<1>1. Quiet' = Quiet /\ \A members : Wrong(members)' = {u \in Users : (u \in members) # (u \in roster)}
  BY DEF Quiet, storeVars, Wrong
<1>2. \A members : {u \in Users : (u \in members) # (u \in roster)} = Wrong(members)
  BY DEF Wrong
<1>3. WrongOnlyByRace'
  <2> SUFFICES ASSUME cache'.kept, ~cache'.late, Quiet PROVE Wrong(cache.members)' = {}
    BY <1>1 DEF WrongOnlyByRace
  <2>1. CASE cache' = cache
    BY <2>1 DEF RaceInv, WrongOnlyByRace, Wrong, storeVars
  <2>2. CASE Storing(f) /\ cache'.members = list[f] /\ cache'.late = late[f]
    BY <2>2 DEF RaceInv, Wrong, storeVars
  <2> QED BY <2>1, <2>2
<1>4. ASSUME NEW g \in Frames, Storing(g)', ~late'[g], Quiet PROVE Wrong(list[g])' = {}
  <2>1. CASE g = f
    BY <1>4, <2>1 DEF Storing, Wrong, storeVars
  <2>2. CASE g # f
    BY <1>4, <2>2 DEF RaceInv, Storing, Wrong, storeVars
  <2> QED BY <2>1, <2>2
<1> QED BY <1>1, <1>3, <1>4 DEF RaceInv

LEMMA RaceStep == TypeOK /\ RaceInv /\ [Next]_vars => RaceInv'
<1> SUFFICES ASSUME TypeOK, RaceInv, [Next]_vars PROVE RaceInv'
  OBVIOUS
<1>1. ASSUME NEW u \in Users, CommitUnanswered(u) PROVE RaceInv'
  BY <1>1 DEF CommitUnanswered, RaceInv, WrongOnlyByRace, Quiet
<1>2. ASSUME NEW q \in Changes, NEW u \in Users, Commit(q, u) PROVE RaceInv'
  <2>1. ~Quiet'
    BY <1>2 DEF Commit, Quiet, TypeOK
  <2> QED BY <2>1 DEF RaceInv, WrongOnlyByRace
<1>3. ASSUME NEW q \in Changes, InvalidateGroup(q) PROVE RaceInv'
  BY <1>3 DEF InvalidateGroup, NoEntry, RaceInv, WrongOnlyByRace, Storing
<1>4. ASSUME NEW f \in Frames, Finish(f), UNCHANGED <<storeVars, now, cache>> PROVE RaceInv'
  <2>1. pc'[f] = "idle"
    BY <1>4 DEF Finish, Goto, TypeOK
  <2>2. \A g \in Frames \ {f} : pc'[g] = pc[g] /\ list'[g] = list[g] /\ late'[g] = late[g]
    BY <1>4 DEF Finish, Goto, TypeOK
  <2> QED BY <1>4, <2>1, <2>2, RaceHandlerStep
<1>5. ASSUME NEW f \in Frames, Hit(f) \/ Store(f) PROVE RaceInv'
  <2>1. PICK members : Use(f, members)
    BY <1>5 DEF Hit, Store
  <2>2. pc'[f] \notin {"checkStore", "deliverStore"}
    BY <2>1 DEF Use, Finish, Goto, TypeOK
  <2>3. \A g \in Frames \ {f} : pc'[g] = pc[g] /\ list'[g] = list[g] /\ late'[g] = late[g]
    BY <2>1 DEF Use, Finish, Goto, TypeOK
  <2>4. cache' = cache \/ (Storing(f) /\ cache'.members = list[f] /\ cache'.late = late[f])
    BY <1>5 DEF Hit, Store, Storing
  <2>5. UNCHANGED <<storeVars, now>>
    BY <1>5 DEF Hit, Store
  <2> QED BY <2>2, <2>3, <2>4, <2>5, RaceHandlerStep
<1>6. ASSUME NEW f \in Frames, Miss(f) PROVE RaceInv'
  <2>1. pc'[f] \in {"checkQuery", "deliverQuery"} /\ UNCHANGED <<storeVars, now, cache>>
    BY <1>6 DEF Miss, Goto, TypeOK
  <2>2. \A g \in Frames \ {f} : pc'[g] = pc[g] /\ list'[g] = list[g] /\ late'[g] = late[g]
    BY <1>6 DEF Miss, Goto, TypeOK
  <2> QED BY <2>1, <2>2, RaceHandlerStep
<1>7. ASSUME NEW f \in Frames, Query(f) PROVE RaceInv'
  <2>1. list'[f] = roster /\ UNCHANGED <<storeVars, now, cache>>
    BY <1>7 DEF Query, TypeOK
  <2>2. \A g \in Frames \ {f} : pc'[g] = pc[g] /\ list'[g] = list[g] /\ late'[g] = late[g]
    BY <1>7 DEF Query, Goto, TypeOK
  <2> QED BY <2>1, <2>2, RaceHandlerStep
<1>8. ASSUME NEW f \in Frames, QueryFail(f) \/ FanOut(f) PROVE RaceInv'
  BY <1>4, <1>8 DEF QueryFail, FanOut
<1>9. ASSUME NEW f \in Frames, NEW u \in Users, Receive(f, u) PROVE RaceInv'
  <2>1. pc'[f] = "check" /\ UNCHANGED <<storeVars, now, cache>>
    BY <1>9 DEF Receive, Goto, TypeOK
  <2>2. \A g \in Frames \ {f} : pc'[g] = pc[g] /\ list'[g] = list[g] /\ late'[g] = late[g]
    BY <1>9 DEF Receive, Goto, TypeOK
  <2> QED BY <2>1, <2>2, RaceHandlerStep
<1>10. CASE Tick \/ UNCHANGED vars
  BY <1>10 DEF Tick, vars, storeVars, handlerVars, RaceInv, WrongOnlyByRace, Quiet, Storing, Wrong
<1> QED BY <1>1, <1>2, <1>3, <1>5, <1>6, <1>7, <1>8, <1>9, <1>10 DEF Next

(***************************************************************************)
(* However many requests and frames there are, a wrong entry that outlives *)
(* the requests was read before an invalidation that overtook it, or a     *)
(* commit went unanswered.                                                 *)
(***************************************************************************)
THEOREM StaleOnlyByRace == Spec => []WrongOnlyByRace
<1>1. Init => RaceInv
  BY DEF Init, NoEntry, RaceInv, WrongOnlyByRace, Storing
<1>2. RaceInv => WrongOnlyByRace
  BY DEF RaceInv
<1> QED BY <1>1, <1>2, RaceStep, TypeCorrect, PTL DEF Spec
================================================================================
